------------------------------- MODULE Randomizer ------------------------------
(***************************************************************************)
(* The draw algorithm HMAC_SHA256_FY_V1 and the replay that verifies a     *)
(* stored draw: a partial Fisher-Yates shuffle of the canonically sorted   *)
(* snapshot, driven by 32-bit words of an HMAC stream, each reduced to an  *)
(* index by rejection sampling.                                            *)
(*                                                                         *)
(* The HMAC is an unknown function of seed, context and counter: a word is *)
(* chosen the first time it is asked for and remembered.  The SHA-256      *)
(* hashes are collision free: a hash is the data it is taken of.           *)
(*                                                                         *)
(* DrawResult stores the winners twice: their JSON, which is published,    *)
(* and their ids.  A row stands for a participant and for his id.  Of its  *)
(* columns the two totals and the snapshot's id are left out.              *)
(***************************************************************************)
EXTENDS Integers, Sequences, FiniteSets, Functions

CONSTANTS
    Ids,        \* platformUserIds
    Sort(_),    \* Array.prototype.sort by localeCompare of the ids
    Rules,      \* filter rules a snapshot can store
    Seeds,
    Events,     \* drawId and drawnAt of an execution
    Counts,     \* pairs of winnersCount and reserveWinnersCount
    Word,       \* how many raw words there are: 2^32 in the code
    MaxRejects, \* bound: words rejected in one execution
    None

ASSUME ConstantsAssumption ==
    /\ IsFiniteSet(Ids)
    /\ Counts \subseteq Nat \X Nat
    /\ Word \in Nat \ {0} /\ MaxRejects \in Nat
    /\ Cardinality(Ids) <= Word
    /\ None \notin BOOLEAN

(* Duplicate-free arrays of rows: what the import pipeline leaves. *)
Arrays == UNION {Injection(1..Cardinality(S), S) : S \in SUBSET Ids}

(* Sorting rearranges, and forgets the order the rows came in. *)
ASSUME SortAssumption ==
    \A rows \in Arrays :
        /\ Sort(rows) \in Injection(1..Len(rows), Range(rows))
        /\ Range(Sort(rows)) = Range(rows)
        /\ \A other \in Arrays : Range(other) = Range(rows) => Sort(other) = Sort(rows)

VARIABLES
    stage,      \* where the draw, and then its verification, has got to
    snapshot,   \* the stored snapshot: its rows and rules, and their hashes
    counts,     \* winners and reserve winners the execution under way draws
    seed,       \* the seed of the execution under way
    pool,       \* the array being shuffled
    taken,      \* the offsets taken so far; its length is the loop index i
    counter,    \* words consumed by the stream
    words,      \* words[<<seed, context>>]: the known part of each HMAC stream
    record,     \* the stored DrawResult
    genuine,    \* history: snapshot and record as the draw stored them
    verdict     \* what verifyDrawResult returned, or None

vars == <<stage, snapshot, counts, seed, pool, taken, counter, words, record,
          genuine, verdict>>

-----------------------------------------------------------------------------
(* Pure parts. *)

ALGORITHM_VERSION_V1 == "HMAC_SHA256_FY_V1"
Versions == {ALGORITHM_VERSION_V1, "another"}

CanonicalSortNone(rows) == rows
CanonicalSort(rows) == Sort(rows)

(* Largest multiple of range that is at most the number of words. *)
MaxValidWord(range) == Word
MaxValid(range) == (Word \div range) * range

SwapInPlace(p, i, j) == [p EXCEPT ![i] = p[j], ![j] = p[i]]

(* Index, from 1, that offset o picks in round i, also from 1. *)
PickNaive(i, o) == o + 1
Pick(i, o) == i + o

(* Hashes stored with a snapshot and a draw. *)
ComputeParticipantsSnapshotHash(rows) == Range(rows)
ComputeConditionsHash(rules) == rules

ComputeProofHashJoined(snap, sd, winners, reserve) ==
    [snapshot |-> snap.hash, conditions |-> snap.conditions, seed |-> sd,
     ids |-> winners \o reserve, eligible |-> Len(snap.rows)]
ComputeDeterministicProofHash(snap, sd, winners, reserve) ==
    [snapshot |-> snap.hash, conditions |-> snap.conditions, seed |-> sd,
     winners |-> winners, reserve |-> reserve, eligible |-> Len(snap.rows)]

ComputeAuditEventHash(event, proof) == [event |-> event, proof |-> proof]

-----------------------------------------------------------------------------
Shuffling == stage \in {"drawing", "replaying"}
NeededWinnersOnly == counts[1]
Needed    == counts[1] + counts[2]
Round     == Len(taken) + 1
Remaining == Len(pool) - Len(taken)
Context   == <<seed, snapshot.hash>>

MoreRounds == Len(taken) < Needed

(* A draw as its route starts it: a snapshot hashed when it was locked. *)
Init ==
    /\ stage = "toDraw"
    /\ \E rows \in Arrays, rules \in Rules :
          snapshot = [rows |-> rows, hash |-> ComputeParticipantsSnapshotHash(rows),
                      rules |-> rules, conditions |-> ComputeConditionsHash(rules)]
    /\ counts \in Counts
    /\ seed \in Seeds
    /\ pool = <<>>
    /\ taken = <<>>
    /\ counter = 0
    /\ words = [c \in Seeds \X (SUBSET Ids) |-> <<>>]
    /\ record = None
    /\ genuine = None
    /\ verdict = None

(* Sort a copy and start the stream; too few rows is an error. *)
Execute(next) ==
    /\ Len(snapshot.rows) > 0
    /\ counts'[1] + counts'[2] <= Len(snapshot.rows)
    /\ stage' = next
    /\ pool' = CanonicalSort(snapshot.rows)
    /\ taken' = <<>>
    /\ counter' = 0

Refused(w, r) == Len(snapshot.rows) = 0 \/ w + r > Len(snapshot.rows)

ExecuteDraw ==
    /\ stage = "toDraw"
    /\ UNCHANGED counts
    /\ \/ Execute("drawing")
       \/ /\ Refused(counts[1], counts[2])
          /\ stage' = "refused"
          /\ UNCHANGED <<pool, taken, counter>>
    /\ UNCHANGED <<snapshot, seed, words, record, genuine, verdict>>

Take(offset) ==
    /\ pool' = SwapInPlace(pool, Round, Pick(Round, offset))
    /\ taken' = Append(taken, offset)

(* sampleUnbiasedIndex with several rows left: one word of the loop. *)
SampleUnbiasedIndex ==
    /\ Shuffling
    /\ MoreRounds
    /\ Remaining > 1
    /\ \E raw \in 0..(Word - 1) :
          /\ \/ /\ counter < Len(words[Context])
                /\ raw = words[Context][counter + 1]
                /\ UNCHANGED words
             \/ /\ counter = Len(words[Context])
                /\ words' = [words EXCEPT ![Context] = Append(@, raw)]
          /\ \/ raw < MaxValid(Remaining) /\ Take(raw % Remaining)
             \/ /\ raw >= MaxValid(Remaining)
                /\ counter - Len(taken) < MaxRejects
                /\ UNCHANGED <<pool, taken>>
    /\ counter' = counter + 1
    /\ UNCHANGED <<stage, snapshot, counts, seed, record, genuine, verdict>>

(* The last row needs no word. *)
SampleOnlyIndex ==
    /\ Shuffling
    /\ MoreRounds
    /\ Remaining = 1
    /\ Take(0)
    /\ UNCHANGED <<stage, snapshot, counts, seed, counter, words, record, genuine, verdict>>

Winners == SubSeq(pool, 1, counts[1])
Reserve == SubSeq(pool, counts[1] + 1, Needed)
Proof   == ComputeDeterministicProofHash(snapshot, seed, Winners, Reserve)

(* What saveDrawResultAndAudit stores of it: JSON lists and ids apart. *)
DrawResult(event) ==
    [winners |-> Winners, reserveWinners |-> Reserve,
     winnerIds |-> Winners, reserveWinnerIds |-> Reserve,
     seed |-> seed, event |-> event, algorithmVersion |-> ALGORITHM_VERSION_V1,
     proof |-> Proof, audit |-> ComputeAuditEventHash(event, Proof)]

(* The execution returns, and its result is stored. *)
FinishDraw ==
    /\ stage = "drawing"
    /\ ~MoreRounds
    /\ stage' = "drawn"
    /\ \E event \in Events : record' = DrawResult(event)
    /\ genuine' = [snapshot |-> snapshot, record |-> record']
    /\ UNCHANGED <<snapshot, counts, seed, pool, taken, counter, words, verdict>>

-----------------------------------------------------------------------------
(* What the verifier can find in the store: the rows in another order, or  *)
(* one stored thing other than it was, with or without its own hash.       *)
OtherSnapshots(snap) ==
    {[snap EXCEPT !.rows = rows] : rows \in Arrays}
      \cup {[snap EXCEPT !.rows = rows, !.hash = ComputeParticipantsSnapshotHash(rows)] :
              rows \in Arrays}
      \cup {[snap EXCEPT !.rules = u] : u \in Rules}
      \cup {[snap EXCEPT !.rules = u, !.conditions = ComputeConditionsHash(u)] : u \in Rules}

(* The same winners, divided otherwise between winners and reserve. *)
Redivided(rec, k) ==
    LET ids == rec.winnerIds \o rec.reserveWinnerIds
        w   == SubSeq(ids, 1, k)
        r   == SubSeq(ids, k + 1, Len(ids))
    IN  [rec EXCEPT !.winners = w, !.winnerIds = w,
                    !.reserveWinners = r, !.reserveWinnerIds = r]

(* Each column on its own; and the two of the winners redivided together. *)
OtherRecords(rec) ==
    {[rec EXCEPT !.winners = l] : l \in Arrays}
      \cup {[rec EXCEPT !.reserveWinners = l] : l \in Arrays}
      \cup {[rec EXCEPT !.winnerIds = l] : l \in Arrays}
      \cup {[rec EXCEPT !.reserveWinnerIds = l] : l \in Arrays}
      \cup {Redivided(rec, k) : k \in 0..Len(rec.winnerIds \o rec.reserveWinnerIds)}
      \cup {[rec EXCEPT !.seed = s] : s \in Seeds}
      \cup {[rec EXCEPT !.event = e] : e \in Events}
      \cup {[rec EXCEPT !.algorithmVersion = v] : v \in Versions}
      \cup {[rec EXCEPT !.proof.seed = s] : s \in Seeds}
      \cup {[rec EXCEPT !.audit.event = e] : e \in Events}

ReadBack ==
    /\ stage = "drawn"
    /\ stage' = "toVerify"
    /\ \/ snapshot' \in OtherSnapshots(snapshot) /\ UNCHANGED record
       \/ record' \in OtherRecords(record) /\ UNCHANGED snapshot
    /\ UNCHANGED <<counts, seed, pool, taken, counter, words, genuine, verdict>>

(* As many winners as the JSON lists have: all that is used of them. *)
ClaimedCountsOfIds == <<Len(record.winnerIds), Len(record.reserveWinnerIds)>>
ClaimedCounts == <<Len(record.winners), Len(record.reserveWinners)>>

(* Replay with the stored seed and the claimed counts, whatever version of *)
(* the algorithm the record names.                                         *)
VerifyDrawResult ==
    /\ stage = "toVerify"
    /\ counts' = ClaimedCounts
    /\ seed' = record.seed
    /\ \/ Execute("replaying") /\ UNCHANGED verdict
       \/ /\ Refused(ClaimedCounts[1], ClaimedCounts[2])
          /\ stage' = "checked"
          /\ verdict' = FALSE
          /\ UNCHANGED <<pool, taken, counter>>
    /\ UNCHANGED <<snapshot, words, record, genuine>>

SnapshotIntegrity ==
    /\ ComputeParticipantsSnapshotHash(snapshot.rows) = snapshot.hash
    /\ ComputeConditionsHash(snapshot.rules) = snapshot.conditions

FinishReplay ==
    /\ stage = "replaying"
    /\ ~MoreRounds
    /\ stage' = "checked"
    /\ verdict' = /\ record.algorithmVersion = ALGORITHM_VERSION_V1
                  /\ SnapshotIntegrity
                  /\ Winners = record.winnerIds
                  /\ Reserve = record.reserveWinnerIds
                  /\ Proof = record.proof
                  /\ ComputeAuditEventHash(record.event, Proof) = record.audit
    /\ UNCHANGED <<snapshot, counts, seed, pool, taken, counter, words, record, genuine>>

Next ==
    \/ ExecuteDraw \/ SampleUnbiasedIndex \/ SampleOnlyIndex \/ FinishDraw
    \/ ReadBack \/ VerifyDrawResult \/ FinishReplay

Spec == Init /\ [][Next]_vars

-----------------------------------------------------------------------------
(* Properties. *)

Snapshots == [rows : Arrays, hash : SUBSET Ids, rules : Rules, conditions : Rules]

Proofs == [snapshot : SUBSET Ids, conditions : Rules, seed : Seeds,
           winners : Seq(Ids), reserve : Seq(Ids), eligible : Nat]

Records == [winners : Seq(Ids), reserveWinners : Seq(Ids),
            winnerIds : Seq(Ids), reserveWinnerIds : Seq(Ids),
            seed : Seeds, event : Events, algorithmVersion : Versions,
            proof : Proofs, audit : [event : Events, proof : Proofs]]

Stages == {"toDraw", "drawing", "refused", "drawn", "toVerify", "replaying", "checked"}

(* The pool and the loop over it keep their shape and stay in bounds. *)
TypeOK ==
    /\ stage \in Stages
    /\ snapshot \in Snapshots
    /\ counts \in Nat \X Nat
    /\ seed \in Seeds
    /\ pool \in Seq(Ids)
    /\ taken \in Seq(Nat)
    /\ Shuffling => Len(taken) <= Needed /\ Needed <= Len(pool)
    /\ counter \in Nat
    /\ words \in [Seeds \X (SUBSET Ids) -> Seq(0..(Word - 1))]
    /\ stage \in {"drawn", "toVerify"} => record \in Records
    /\ verdict \in BOOLEAN \cup {None}

(* The shuffle loses and repeats nobody: at every point of the loop the    *)
(* array holds each row of the snapshot exactly once.                      *)
PoolIsPermutation ==
    Shuffling => /\ IsInjective(pool)
                 /\ Range(pool) = Range(snapshot.rows)
                 /\ Len(pool) = Len(snapshot.rows)

(* A draw delivers exactly the winners asked for, all different and all    *)
(* from the snapshot: none is silently dropped or drawn twice.             *)
NeverUnderDelivers ==
    genuine # None =>
        LET w == genuine.record.winners
            r == genuine.record.reserveWinners
        IN  /\ <<Len(w), Len(r)>> \in Counts
            /\ IsInjective(w \o r)
            /\ Range(w \o r) \subseteq Range(genuine.snapshot.rows)

(* Every index still possible is hit by equally many accepted words, and   *)
(* some word is accepted: no modulo bias at any number of remaining rows.  *)
SamplingUnbiased ==
    Shuffling /\ Remaining > 1 =>
        \A o \in 0..(Remaining - 1) :
            Cardinality({raw \in 0..(Word - 1) : raw < MaxValid(Remaining) /\ raw % Remaining = o})
                = Word \div Remaining

(* Different offsets never lead to the same order: with unbiased offsets,  *)
(* every ordered choice of winners is equally likely.                      *)
Shuffled(rows, offsets) ==
    LET after[i \in 0..Len(offsets)] ==
            IF i = 0 THEN rows ELSE SwapInPlace(after[i - 1], i, Pick(i, offsets[i]))
    IN  after[Len(offsets)]

OffsetVectors(n, k) ==
    {v \in [1..k -> 0..(n - 1)] : \A i \in 1..k : v[i] <= n - i}

OffsetsDetermined ==
    stage \in {"drawn", "checked"} =>
        \A v \in OffsetVectors(Len(pool), Len(taken)) :
            SubSeq(Shuffled(CanonicalSort(pool), v), 1, Len(taken))
                = SubSeq(pool, 1, Len(taken)) => v = taken

(* What verification vouches for: the snapshot, but for the order of its   *)
(* rows, and the record, but for whom its JSON lists name.                 *)
VouchedFor(rec) == [rec EXCEPT !.winners = Len(@), !.reserveWinners = Len(@)]

Untouched ==
    /\ [snapshot EXCEPT !.rows = Range(@)] =
            [genuine.snapshot EXCEPT !.rows = Range(@)]
    /\ VouchedFor(record) = VouchedFor(genuine.record)

(* A stored draw verifies on replay, in whatever order its rows come back; *)
(* and whomever its JSON lists name by then, though it is them that the    *)
(* public page shows: nobody compares them with the ids.                   *)
ReplayReproduces == stage = "checked" /\ Untouched => verdict = TRUE

(* Nothing else verifies.  Rows, rules, seed, the winners' ids, the number *)
(* of winners in the JSON lists, the division into winners and reserve,    *)
(* event, version or hashes changed one at a time are noticed.             *)
ChangesAreNoticed == verdict = TRUE => Untouched

-----------------------------------------------------------------------------
(* The inductive invariant behind the shape of the pool and of the draw. *)
DrawUnderWay ==
    stage \in {"toDraw", "drawing"} => counts \in Counts /\ genuine = None

IInv == TypeOK /\ PoolIsPermutation /\ NeverUnderDelivers /\ DrawUnderWay
===============================================================================

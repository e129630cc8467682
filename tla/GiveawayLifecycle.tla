--------------------------- MODULE GiveawayLifecycle ---------------------------
(***************************************************************************)
(* One giveaway of Randomayzer, from its creation to its draw, under       *)
(* concurrent HTTP requests.                                               *)
(*                                                                         *)
(* A request is the handler of one POST route of api/giveaways/[id].  It   *)
(* reads the giveaway once, at the ownership check, keeps that copy across *)
(* its awaits, and ends in one repository call.  The repository is         *)
(* modelled at the grain of PrismaGiveawayRepository: an early status      *)
(* check (one read), then a transaction whose conditional updateMany takes *)
(* the row lock, so that the transactions of one giveaway are serial and   *)
(* each is one action.  MemoryGiveawayRepository does both in one step,    *)
(* which is the interleaving where they are adjacent.                      *)
(***************************************************************************)
EXTENDS Integers, Sequences, FiniteSets

CONSTANTS
    Rows,               \* participant rows an import can leave in the store
    Rules,              \* filter-rule objects a request can carry
    Passing,            \* Passing[u]: the rows the filter engine lets through u
    Seeds,              \* CSPRNG seeds; bounds the number of locks
    Needs,              \* winnersCount + reserveWinnersCount of draw requests
    Requests,           \* handlers in flight at the same time
    Outcome(_, _, _),   \* Outcome(seed, eligible rows, need): the draw algorithm
    None                \* null

ASSUME ConstantsAssumption ==
    /\ Passing \in [Rules -> SUBSET Rows]
    /\ IsFiniteSet(Seeds)
    /\ Needs \subseteq Nat \ {0}
    /\ \A s \in Seeds, E \in SUBSET Rows, n \in Needs :
          Outcome(s, E, n) \in Seq(Rows)

Statuses == {"DRAFT", "FETCHING", "READY", "SNAPSHOT_LOCKED", "DRAWN",
             "PUBLISHED", "CANCELLED"}

Snapshots  == [eligible : SUBSET Rows, rules : Rules]
Results    == [version : Nat \ {0}, seed : Seeds, need : Needs, winners : Seq(Rows)]
Replies    == [op : {"lock"}, version : Nat \ {0}, seed : Seeds]
                \cup [op : {"unlock"}, status : Statuses]
                \cup [op : {"draw"}, result : Results]

ASSUME NoneAssumption == None \notin Seeds /\ None \notin Results

VARIABLES
    status,         \* Giveaway.status
    participants,   \* the giveaway's Participant rows
    filterRules,    \* Giveaway.filterRules
    seed,           \* Giveaway.seed
    snapshots,      \* ParticipantSnapshot rows; the index is the version
    drawResult,     \* the DrawResult row (AuditRecord is written with it)
    pc, job,        \* per request: the await it is at, the data it carries
    lockSeeds,      \* history: the seed committed to by each version's lock
    replies,        \* history: success replies clients have received
    revealed        \* history: seeds anybody outside the server has seen

store   == <<status, participants, filterRules, seed, snapshots, drawResult>>
History == <<lockSeeds, replies, revealed>>
vars    == <<store, pc, job, History>>

-----------------------------------------------------------------------------
(* Status guards of the state machine, the routes and the repositories.   *)

MayImport(st) == st = "READY"

MayLockAgain(st) == st \in {"READY", "SNAPSHOT_LOCKED"}
MayLock(st) == st = "READY"

MayUnlockFinal(st) == st \in {"SNAPSHOT_LOCKED", "DRAWN"}
MayUnlock(st) == st = "SNAPSHOT_LOCKED"

CanDraw(st) == st = "SNAPSHOT_LOCKED"

Final(st) == st \in {"DRAWN", "PUBLISHED"}

(* The seed a GET handler lets out: null before the draw. *)
ExposedSeedUnmasked(st, sd) == {sd} \ {None}
ExposedSeed(st, sd) == IF Final(st) THEN {sd} \ {None} ELSE {}

(* Rows of P the filter engine finds eligible under rules u. *)
Eligible(P, u) == P \cap Passing[u]

Latest == Len(snapshots)

(* The result the draw route computes from the giveaway copy it has read. *)
ComputeDrawLive(sd, v, n) ==
    [version |-> v, seed |-> sd, need |-> n,
     winners |-> Outcome(sd, participants, n)]
ComputeDraw(sd, v, n) ==
    [version |-> v, seed |-> sd, need |-> n,
     winners |-> Outcome(sd, snapshots[v].eligible, n)]

FreshSeeds == {s \in Seeds : \A v \in 1..Len(lockSeeds) : lockSeeds[v] # s}
Locking == {r \in Requests : pc[r] \in {"lockCheck", "lockTx"}}

-----------------------------------------------------------------------------
(* A giveaway as createGiveaway stores it. *)
Init ==
    /\ status = "READY"
    /\ participants = {}
    /\ filterRules \in Rules
    /\ seed = None
    /\ snapshots = <<>>
    /\ drawResult = None
    /\ pc = [r \in Requests |-> "idle"]
    /\ job = [r \in Requests |-> None]
    /\ lockSeeds = <<>>
    /\ replies = {}
    /\ revealed = {}

Goto(r, label, j) ==
    /\ pc' = [pc EXCEPT ![r] = label]
    /\ job' = [job EXCEPT ![r] = j]

(* The handler throws: an error reply, nothing stored. *)
Refuse(r) == Goto(r, "idle", None) /\ UNCHANGED store

-----------------------------------------------------------------------------
(* POST participants.  The route checks no status before it fetches. *)
FetchParticipants(r) ==
    /\ pc[r] = "idle"
    /\ \E rows \in SUBSET Rows : Goto(r, "saveParticipants", [rows |-> rows])
    /\ UNCHANGED <<store, History>>

SaveParticipants(r) ==
    /\ pc[r] = "saveParticipants"
    /\ \/ /\ MayImport(status)
          /\ participants' = job[r].rows
          /\ Goto(r, "idle", None)
          /\ UNCHANGED <<status, filterRules, seed, snapshots, drawResult>>
       \/ ~MayImport(status) /\ Refuse(r)
    /\ UNCHANGED History

-----------------------------------------------------------------------------
(* POST snapshot: the eligible rows are computed from the copy the        *)
(* handler read, and stored by a later transaction.                       *)
FilterForLock(r) ==
    /\ pc[r] = "idle"
    /\ ~Final(status)
    /\ Cardinality(Locking) < Cardinality(FreshSeeds)    \* bound: one seed each
    /\ \E u \in Rules :
          /\ Eligible(participants, u) # {}
          /\ Goto(r, "lockCheck", [eligible |-> Eligible(participants, u), rules |-> u])
    /\ UNCHANGED <<store, History>>

CheckLock(r) ==
    /\ pc[r] = "lockCheck"
    /\ \/ MayLock(status) /\ Goto(r, "lockTx", job[r]) /\ UNCHANGED store
       \/ ~MayLock(status) /\ Refuse(r)
    /\ UNCHANGED History

NextVersionUnincremented == Latest
NextVersion == Latest + 1

NewSnapshots(snap) == Append(snapshots, snap)

CreateAndLockSnapshot(r) ==
    /\ pc[r] = "lockTx"
    /\ \/ /\ MayLock(status)
          /\ \E s \in FreshSeeds :
                /\ status' = "SNAPSHOT_LOCKED"
                /\ filterRules' = job[r].rules
                /\ seed' = s
                /\ snapshots' = NewSnapshots(job[r])
                /\ lockSeeds' = Append(lockSeeds, s)
                /\ Goto(r, "reply", [op |-> "lock", version |-> NextVersion, seed |-> s])
          /\ UNCHANGED <<participants, drawResult, replies, revealed>>
       \/ ~MayLock(status) /\ Refuse(r) /\ UNCHANGED History

-----------------------------------------------------------------------------
(* POST unlock: back to READY, the seed dropped, the snapshots kept. *)
RequestUnlock(r) ==
    /\ pc[r] = "idle"
    /\ MayUnlock(status)
    /\ Goto(r, "unlockCheck", None)
    /\ UNCHANGED <<store, History>>

CheckUnlock(r) ==
    /\ pc[r] = "unlockCheck"
    /\ \/ MayUnlock(status) /\ Goto(r, "unlockTx", None) /\ UNCHANGED store
       \/ ~MayUnlock(status) /\ Refuse(r)
    /\ UNCHANGED History

SeedAfterUnlockKept == seed
SeedAfterUnlock == None

UnlockSnapshot(r) ==
    /\ pc[r] = "unlockTx"
    /\ \/ /\ MayUnlock(status)
          /\ status' = "READY"
          /\ seed' = SeedAfterUnlock
          /\ Goto(r, "unlockReread", None)
          /\ UNCHANGED <<participants, filterRules, snapshots, drawResult>>
       \/ ~MayUnlock(status) /\ Refuse(r)
    /\ UNCHANGED History

(* The reply carries the status of a second read, after the transaction. *)
RereadUnlocked(r) ==
    /\ pc[r] = "unlockReread"
    /\ Goto(r, "reply", [op |-> "unlock", status |-> status])
    /\ UNCHANGED <<store, History>>

-----------------------------------------------------------------------------
(* POST draw: seed and snapshot come from the copy read at the start; the *)
(* result is computed from that copy and stored by a later transaction.   *)
RunDraw(r) ==
    /\ pc[r] = "idle"
    /\ CanDraw(status)
    /\ Latest > 0
    /\ seed # None
    /\ \E n \in Needs :
          /\ n <= Cardinality(snapshots[Latest].eligible)
          /\ Goto(r, "drawCheck", ComputeDraw(seed, Latest, n))
    /\ UNCHANGED <<store, History>>

CheckDraw(r) ==
    /\ pc[r] = "drawCheck"
    /\ \/ CanDraw(status) /\ Goto(r, "drawTx", job[r]) /\ UNCHANGED store
       \/ ~CanDraw(status) /\ Refuse(r)
    /\ UNCHANGED History

MaySaveDrawUnguarded(st) == TRUE
MaySaveDraw(st) == CanDraw(st) /\ drawResult = None

SaveDrawResultAndAudit(r) ==
    /\ pc[r] = "drawTx"
    /\ \/ /\ MaySaveDraw(status)
          /\ status' = "DRAWN"
          /\ seed' = job[r].seed
          /\ drawResult' = job[r]
          /\ Goto(r, "reply", [op |-> "draw", result |-> job[r]])
          /\ UNCHANGED <<participants, filterRules, snapshots>>
       \/ ~MaySaveDraw(status) /\ Refuse(r)
    /\ UNCHANGED History

-----------------------------------------------------------------------------
(* The reply reaches the client; a draw reply shows the seed. *)
DeliverReply(r) ==
    /\ pc[r] = "reply"
    /\ replies' = replies \cup {job[r]}
    /\ revealed' = revealed \cup
          (IF job[r].op = "draw" THEN {job[r].result.seed} ELSE {})
    /\ Goto(r, "idle", None)
    /\ UNCHANGED <<store, lockSeeds>>

(* GET public, and GET by the owner, which masks the seed the same way. *)
ViewGiveaway ==
    /\ revealed' = revealed \cup ExposedSeed(status, seed)
    /\ UNCHANGED <<store, pc, job, lockSeeds, replies>>

(* The instance that runs r stops, or VK or the client fails it: the      *)
(* handler is gone, and any open transaction rolls back.                  *)
Crash(r) ==
    /\ pc[r] # "idle"
    /\ Refuse(r)
    /\ UNCHANGED History

-----------------------------------------------------------------------------
Arrive(r) ==
    \/ FetchParticipants(r) \/ FilterForLock(r) \/ RequestUnlock(r) \/ RunDraw(r)

Continue(r) ==
    \/ SaveParticipants(r)
    \/ CheckLock(r) \/ CreateAndLockSnapshot(r)
    \/ CheckUnlock(r) \/ UnlockSnapshot(r) \/ RereadUnlocked(r)
    \/ CheckDraw(r) \/ SaveDrawResultAndAudit(r)
    \/ DeliverReply(r)

Next ==
    \/ \E r \in Requests : Arrive(r) \/ Continue(r) \/ Crash(r)
    \/ ViewGiveaway

Spec == Init /\ [][Next]_vars

-----------------------------------------------------------------------------
(* Properties.                                                             *)

Labels == {"idle", "saveParticipants", "lockCheck", "lockTx", "unlockCheck",
           "unlockTx", "unlockReread", "drawCheck", "drawTx", "reply"}

Jobs == [rows : SUBSET Rows] \cup Snapshots \cup Results \cup Replies \cup {None}

JobFits(label, j) ==
    /\ label = "saveParticipants" => j \in [rows : SUBSET Rows]
    /\ label \in {"lockCheck", "lockTx"} => j \in Snapshots
    /\ label \in {"drawCheck", "drawTx"} => j \in Results
    /\ label = "reply" => j \in Replies

(* Every column and every request's data has the shape the code gives it. *)
TypeOK ==
    /\ status \in Statuses
    /\ participants \in SUBSET Rows
    /\ filterRules \in Rules
    /\ seed \in Seeds \cup {None}
    /\ snapshots \in Seq(Snapshots)
    /\ drawResult \in Results \cup {None}
    /\ pc \in [Requests -> Labels]
    /\ job \in [Requests -> Jobs]
    /\ \A r \in Requests : JobFits(pc[r], job[r])
    /\ lockSeeds \in Seq(Seeds)
    /\ replies \in SUBSET Replies
    /\ revealed \in SUBSET Seeds

(* A result that GET verify replays to "verified": its snapshot is stored, *)
(* its seed is the one committed to when that very snapshot was locked,    *)
(* and the stored rows and seed give the stored winners again, all of them *)
(* (docs/PRODUCTION_GUARDS.md section 3: never under-deliver).             *)
Verifiable(d) ==
    /\ d.version \in 1..Len(snapshots)
    /\ d.version \in 1..Len(lockSeeds)
    /\ d.seed = lockSeeds[d.version]
    /\ d.need <= Cardinality(snapshots[d.version].eligible)
    /\ d.winners = Outcome(d.seed, snapshots[d.version].eligible, d.need)

(* Whatever locks, unlocks, imports and crashes happened while a draw was  *)
(* in flight, the stored result verifies, and the giveaway is DRAWN with   *)
(* the result's seed exactly when there is a result.                       *)
DrawIsVerifiable ==
    /\ (status = "DRAWN") <=> (drawResult # None)
    /\ drawResult # None => Verifiable(drawResult) /\ seed = drawResult.seed

(* The store holds a seed exactly while a lock is in force or drawn, and   *)
(* the seed of a lock in force is the one committed to with the latest     *)
(* snapshot, under the rules and rows that passed them.                    *)
LockHoldsItsCommitment ==
    /\ (seed # None) <=> (status \in {"SNAPSHOT_LOCKED", "DRAWN"})
    /\ status = "SNAPSHOT_LOCKED" =>
          /\ Latest > 0 /\ Len(lockSeeds) = Latest
          /\ seed = lockSeeds[Latest]
          /\ filterRules = snapshots[Latest].rules
          /\ snapshots[Latest].eligible # {}
          /\ snapshots[Latest].eligible \subseteq Passing[filterRules]

(* No seed leaves the server before the draw that used it is final.  *)
SecretUntilDrawn ==
    \A s \in revealed : drawResult # None /\ drawResult.seed = s

(* A success reply a client holds stays true: the draw it reports is the   *)
(* stored one (so no two clients hold different results), and the          *)
(* commitment of a lock it reports is the one made with that version.      *)
ReplyHolds(p) ==
    /\ p.op = "draw" => p.result = drawResult
    /\ p.op = "lock" => p.version <= Len(lockSeeds) /\ p.seed = lockSeeds[p.version]

RepliesStayTrue == \A p \in replies : ReplyHolds(p)

(* Once DRAWN, no request that was in flight, and none that arrives later, *)
(* changes anything that is stored; and an import that was in flight does  *)
(* not get under a lock in force: the list stays as it was locked.         *)
DrawIsFinal ==
    [][/\ Final(status) => UNCHANGED store
       /\ status = "SNAPSHOT_LOCKED" => UNCHANGED participants]_vars

(* The store implements the abstract ledger of locks with its one draw. *)
Phase ==
    CASE status = "SNAPSHOT_LOCKED" -> "locked"
      [] status = "DRAWN" -> "drawn"
      [] OTHER -> "open"

Ledger ==
    [v \in 1..Len(snapshots) |->
        [eligible |-> snapshots[v].eligible, rules |-> snapshots[v].rules,
         seed |-> lockSeeds[v]]]

Contract == INSTANCE GiveawayContract
            WITH phase <- Phase, ledger <- Ledger, result <- drawResult

ImplementsContract == Contract!Spec

-----------------------------------------------------------------------------
(* The inductive invariant behind the safety properties.                   *)

(* The routes never bring a giveaway to another status. *)
ReachedStatus == status \in {"READY", "SNAPSHOT_LOCKED", "DRAWN"}

(* Every snapshot has its commitment and holds only rows its rules pass. *)
SnapshotsCommitted ==
    /\ Len(lockSeeds) = Len(snapshots)
    /\ \A v \in 1..Len(snapshots) :
          /\ snapshots[v].eligible # {}
          /\ snapshots[v].eligible \subseteq Passing[snapshots[v].rules]

(* What a handler carries across its awaits is still usable when it gets   *)
(* to the store, although the giveaway may have moved on.                  *)
Carries(label, j) ==
    /\ label \in {"lockCheck", "lockTx"} =>
          j.eligible # {} /\ j.eligible \subseteq Passing[j.rules]
    /\ label \in {"drawCheck", "drawTx"} => Verifiable(j)
    /\ label = "reply" => ReplyHolds(j)

InFlight == \A r \in Requests : Carries(pc[r], job[r])

IInv ==
    /\ TypeOK
    /\ ReachedStatus
    /\ SnapshotsCommitted
    /\ InFlight
    /\ DrawIsVerifiable
    /\ LockHoldsItsCommitment
    /\ SecretUntilDrawn
    /\ RepliesStayTrue

-----------------------------------------------------------------------------
(* What the documentation and the tests say and the code does not do.      *)

(* docs/ARCHITECTURE.md: the revealed seed hashes to the SeedCommitment    *)
(* published with the lock, so it was not chosen for a winner.             *)
DrawUsesPublishedCommitment ==
    drawResult # None => drawResult.version = Latest /\ seed = lockSeeds[Latest]

===============================================================================

---------------------------- MODULE RandomizerProofs ---------------------------
(* Proofs about Randomizer, for any snapshot, any counts and any word width. *)
EXTENDS Randomizer, FiniteSetTheorems, SequenceTheorems, WellFoundedInduction, TLAPS

(* Division with remainder, as rejection sampling uses it. *)
LEMMA DivMod ==
    ASSUME NEW a \in Nat, NEW n \in Nat \ {0}
    PROVE  /\ a \div n \in Nat /\ a % n \in 0..(n - 1)
           /\ a = (a \div n) * n + (a % n)
OBVIOUS

(* A number q * n + o with o < n has quotient q and remainder o. *)
LEMMA DivModUnique ==
    ASSUME NEW q \in Nat, NEW n \in Nat \ {0}, NEW o \in 0..(n - 1)
    PROVE  (q * n + o) % n = o /\ (q * n + o) \div n = q
OBVIOUS

(* The accepted words that give offset o are o, n + o, 2n + o and so on. *)
LEMMA ResidueClass ==
    ASSUME NEW n \in Nat \ {0}, NEW o \in 0..(n - 1)
    PROVE  {raw \in 0..(Word - 1) : raw < MaxValid(n) /\ raw % n = o}
              = {q * n + o : q \in 0..((Word \div n) - 1)}
<1> DEFINE m == Word \div n
<1>0. Word \in Nat
    BY ConstantsAssumption
<1>1. m \in Nat /\ m * n \in Nat /\ m * n <= Word /\ Word \in Nat
    <2>1. Word \div n \in Nat /\ Word % n \in 0..(n - 1)
          /\ Word = (Word \div n) * n + (Word % n)
        BY <1>0, DivMod
    <2>2. PICK k : k = (Word \div n) * n
        OBVIOUS
    <2>3. k \in Nat /\ k <= Word
        BY <1>0, <2>1, <2>2
    <2> QED
        BY <1>0, <2>1, <2>2, <2>3
<1>2. MaxValid(n) = m * n
    BY DEF MaxValid
<1> HIDE DEF m
<1>3. ASSUME NEW raw \in 0..(Word - 1), raw < m * n, raw % n = o
      PROVE  \E q \in 0..(m - 1) : raw = q * n + o
    <2>0. raw \div n \in Nat /\ raw = (raw \div n) * n + o
        BY <1>1, <1>3, DivMod
    <2>1. PICK q \in Nat : q = raw \div n /\ raw = q * n + o
        BY <2>0, Zenon
    <2>2. q * n < m * n
        BY <1>1, <1>3, <2>1
    <2>3. q < m
        BY <1>1, <2>2
    <2>4. q \in 0..(m - 1)
        BY <1>1, <2>3
    <2> QED
        BY <2>1, <2>4, Zenon
<1>4. ASSUME NEW q \in 0..(m - 1)
      PROVE  /\ q * n + o \in 0..(Word - 1)
             /\ q * n + o < m * n
             /\ (q * n + o) % n = o
    <2>1. (q + 1) * n <= m * n
        BY <1>1, <1>4
    <2>2. q * n + o < (q + 1) * n
        BY <1>1
    <2>3. q * n + o \in Nat
        BY <1>1
    <2> QED
        BY <1>1, <2>1, <2>2, <2>3, DivModUnique
<1> QED
    BY <1>1, <1>2, <1>3, <1>4 DEF m

(* No modulo bias: every offset is given by the same number of words. *)
LEMMA EqualShares ==
    ASSUME NEW n \in Nat \ {0}, NEW o \in 0..(n - 1)
    PROVE  Cardinality({raw \in 0..(Word - 1) : raw < MaxValid(n) /\ raw % n = o})
              = Word \div n
<1> DEFINE m == Word \div n
           H == {q * n + o : q \in 0..(m - 1)}
           f == [q \in 0..(m - 1) |-> q * n + o]
<1>1. m \in Nat
    BY ConstantsAssumption, DivMod
<1> HIDE DEF m
<1>2. f \in Bijection(0..(m - 1), H)
    <2>1. f \in [0..(m - 1) -> H]
        OBVIOUS
    <2>2. ASSUME NEW a \in 0..(m - 1), NEW b \in 0..(m - 1), f[a] = f[b] PROVE a = b
        <3>1. a * n = b * n
            BY <1>1, <2>2
        <3> QED
            BY <1>1, <3>1
    <2>3. \A t \in H : \E s \in 0..(m - 1) : f[s] = t
        OBVIOUS
    <2> HIDE DEF f, H
    <2> QED
        BY <2>1, <2>2, <2>3 DEF Bijection, Injection, Surjection, IsInjective
<1>3. IsFiniteSet(0..(m - 1)) /\ Cardinality(0..(m - 1)) = m
    BY <1>1, FS_Interval
<1>4. Cardinality(H) = m
    <2> HIDE DEF H
    <2> QED
        BY <1>2, <1>3, FS_Bijection DEF ExistsBijection
<1> QED
    BY <1>4, ResidueClass DEF m

-----------------------------------------------------------------------------
(* Arrays of rows are duplicate-free sequences of ids. *)
LEMMA ArrayShape ==
    ASSUME NEW rows \in Arrays
    PROVE  /\ rows \in Seq(Ids) /\ IsInjective(rows) /\ Range(rows) \subseteq Ids
           /\ Len(rows) \in Nat /\ DOMAIN rows = 1..Len(rows)
<1>1. PICK S \in SUBSET Ids : rows \in Injection(1..Cardinality(S), S)
    BY DEF Arrays
<1>2. Cardinality(S) \in Nat
    BY ConstantsAssumption, FS_Subset, FS_CardinalityType
<1>3. rows \in [1..Cardinality(S) -> S] /\ IsInjective(rows)
    BY <1>1 DEF Injection
<1>4. rows \in Seq(Ids) /\ Len(rows) = Cardinality(S)
    BY <1>2, <1>3
<1> QED
    BY <1>2, <1>3, <1>4 DEF Range

(* The sorted array has every row once. *)
LEMMA SortedShape ==
    ASSUME NEW rows \in Arrays
    PROVE  /\ CanonicalSort(rows) \in Seq(Ids)
           /\ IsInjective(CanonicalSort(rows))
           /\ Range(CanonicalSort(rows)) = Range(rows)
           /\ Len(CanonicalSort(rows)) = Len(rows)
<1> DEFINE p == CanonicalSort(rows)
<1>1. p \in Injection(1..Len(rows), Range(rows)) /\ Range(p) = Range(rows)
    BY SortAssumption DEF CanonicalSort
<1>2. p \in [1..Len(rows) -> Range(rows)] /\ IsInjective(p)
    BY <1>1 DEF Injection
<1> HIDE DEF p
<1>3. p \in Seq(Ids) /\ Len(p) = Len(rows)
    BY <1>2, ArrayShape
<1> QED
    BY <1>1, <1>2, <1>3 DEF p

(* Swapping two places of an array loses and repeats nothing. *)
LEMMA SwapPermutes ==
    ASSUME NEW p \in Seq(Ids), IsInjective(p), NEW i \in 1..Len(p), NEW j \in 1..Len(p)
    PROVE  /\ SwapInPlace(p, i, j) \in Seq(Ids)
           /\ IsInjective(SwapInPlace(p, i, j))
           /\ Range(SwapInPlace(p, i, j)) = Range(p)
           /\ Len(SwapInPlace(p, i, j)) = Len(p)
<1> DEFINE s == SwapInPlace(p, i, j)
<1>1. s \in Seq(Ids) /\ Len(s) = Len(p) /\ DOMAIN s = 1..Len(p) /\ DOMAIN p = 1..Len(p)
    BY DEF SwapInPlace
<1>2. \A k \in 1..Len(p) :
        s[k] = IF k = j THEN p[i] ELSE IF k = i THEN p[j] ELSE p[k]
    BY DEF SwapInPlace
<1> HIDE DEF s
<1>3. IsInjective(s)
    BY <1>1, <1>2 DEF IsInjective
<1>4. Range(s) = Range(p)
    <2>1. ASSUME NEW k \in 1..Len(p) PROVE s[k] \in Range(p)
        BY <1>1, <1>2 DEF Range
    <2>2. ASSUME NEW k \in 1..Len(p) PROVE p[k] \in Range(s)
        <3>1. s[i] \in Range(s) /\ s[j] \in Range(s) /\ s[k] \in Range(s)
            BY <1>1 DEF Range
        <3>2. s[i] = p[j] /\ s[j] = p[i]
            BY <1>2
        <3> QED
            BY <1>2, <3>1, <3>2
    <2> QED
        BY <1>1, <2>1, <2>2 DEF Range
<1> QED
    BY <1>1, <1>3, <1>4 DEF s

-----------------------------------------------------------------------------
(* A started execution: the sorted rows, and no round yet. *)
LEMMA ExecuteStep ==
    ASSUME snapshot \in Snapshots, counts' \in Nat \X Nat, UNCHANGED snapshot,
           NEW next, Execute(next)
    PROVE  /\ pool' \in Seq(Ids) /\ taken' \in Seq(Nat) /\ counter' \in Nat
           /\ Len(taken') <= Needed' /\ Needed' <= Len(pool')
           /\ IsInjective(pool') /\ Range(pool') = Range(snapshot'.rows)
           /\ Len(pool') = Len(snapshot'.rows)
<1>1. snapshot.rows \in Arrays
    BY DEF Snapshots
<1>2. /\ pool' = CanonicalSort(snapshot.rows) /\ taken' = <<>> /\ counter' = 0
      /\ counts'[1] + counts'[2] <= Len(snapshot.rows)
    BY DEF Execute
<1> QED
    BY <1>1, <1>2, SortedShape DEF Needed

(* One round swaps one row into place and stays in bounds. *)
LEMMA TakeStep ==
    ASSUME IInv, Shuffling, MoreRounds, NEW o \in 0..(Remaining - 1), Take(o),
           UNCHANGED <<stage, snapshot, counts>>
    PROVE  /\ pool' \in Seq(Ids) /\ taken' \in Seq(Nat)
           /\ (Shuffling => Len(taken) <= Needed /\ Needed <= Len(pool))'
           /\ PoolIsPermutation'
<1>1. /\ pool \in Seq(Ids) /\ taken \in Seq(Nat) /\ Len(taken) < Needed
      /\ Needed <= Len(pool) /\ Needed \in Nat
    BY DEF IInv, TypeOK, MoreRounds, Needed
<1>2. /\ IsInjective(pool) /\ Range(pool) = Range(snapshot.rows)
      /\ Len(pool) = Len(snapshot.rows)
    BY DEF IInv, PoolIsPermutation
<1>3. Round \in 1..Len(pool) /\ Pick(Round, o) \in 1..Len(pool)
    BY <1>1 DEF Round, Remaining, Pick
<1>4. pool' = SwapInPlace(pool, Round, Pick(Round, o)) /\ taken' = Append(taken, o)
    BY DEF Take
<1>5. o \in Nat
    BY <1>1 DEF Remaining
<1>6. taken' \in Seq(Nat) /\ Len(taken') = Len(taken) + 1 /\ Needed' = Needed
    BY <1>1, <1>4, <1>5 DEF Needed
<1>7. /\ pool' \in Seq(Ids) /\ IsInjective(pool') /\ Range(pool') = Range(pool)
      /\ Len(pool') = Len(pool)
    BY <1>1, <1>2, <1>3, <1>4, SwapPermutes
<1> QED
    BY <1>1, <1>2, <1>6, <1>7 DEF PoolIsPermutation

(* The first rounds' places of a permutation of the rows are that many     *)
(* different rows.                                                         *)
LEMMA PrefixDelivers ==
    ASSUME NEW p \in Seq(Ids), IsInjective(p),
           NEW w \in Nat, NEW r \in Nat, w + r <= Len(p)
    PROVE  /\ SubSeq(p, 1, w) \in Seq(Ids) /\ SubSeq(p, w + 1, w + r) \in Seq(Ids)
           /\ Len(SubSeq(p, 1, w)) = w /\ Len(SubSeq(p, w + 1, w + r)) = r
           /\ IsInjective(SubSeq(p, 1, w) \o SubSeq(p, w + 1, w + r))
           /\ Range(SubSeq(p, 1, w) \o SubSeq(p, w + 1, w + r)) \subseteq Range(p)
<1> DEFINE a == SubSeq(p, 1, w)
           b == SubSeq(p, w + 1, w + r)
<1>1. /\ a \in Seq(Ids) /\ Len(a) = w /\ \A k \in 1..w : a[k] = p[k]
    BY SubSeqProperties
<1>2. /\ b \in Seq(Ids) /\ Len(b) = r /\ \A k \in 1..r : b[k] = p[w + k]
    BY SubSeqProperties
<1>0. a \o b = SubSeq(p, 1, w + r)
    BY ConcatAdjacentSubSeq
<1> HIDE DEF a, b
<1>3. /\ DOMAIN (a \o b) = 1..(w + r)
      /\ \A k \in 1..(w + r) : (a \o b)[k] = p[k]
    BY <1>0, SubSeqProperties
<1>4. DOMAIN p = 1..Len(p) /\ 1..(w + r) \subseteq 1..Len(p)
    OBVIOUS
<1>5. IsInjective(a \o b) /\ Range(a \o b) \subseteq Range(p)
    BY <1>3, <1>4 DEF IsInjective, Range
<1> QED
    BY <1>1, <1>2, <1>5 DEF a, b

(* What the store hands the verifier still has the shape of what it holds. *)
LEMMA ReadBackTypes ==
    ASSUME snapshot \in Snapshots, record \in Records, ReadBack
    PROVE  snapshot' \in Snapshots /\ record' \in Records
<1>1. ASSUME snapshot' \in OtherSnapshots(snapshot) PROVE snapshot' \in Snapshots
    <2>1. \A rows \in Arrays : ComputeParticipantsSnapshotHash(rows) \in SUBSET Ids
        BY ArrayShape DEF ComputeParticipantsSnapshotHash
    <2> QED
        BY <1>1, <2>1 DEF OtherSnapshots, Snapshots, ComputeConditionsHash
<1>2. ASSUME record' \in OtherRecords(record) PROVE record' \in Records
    <2> DEFINE ids == record.winnerIds \o record.reserveWinnerIds
    <2>1. /\ record.winnerIds \in Seq(Ids) /\ record.reserveWinnerIds \in Seq(Ids)
          /\ record.proof \in Proofs /\ record.audit \in [event : Events, proof : Proofs]
        BY DEF Records
    <2>2. ids \in Seq(Ids)
        BY <2>1
    <2>3. \A l \in Arrays : l \in Seq(Ids)
        BY ArrayShape
    <2>4. CASE \E l \in Arrays : \/ record' = [record EXCEPT !.winners = l]
                                \/ record' = [record EXCEPT !.reserveWinners = l]
                                \/ record' = [record EXCEPT !.winnerIds = l]
                                \/ record' = [record EXCEPT !.reserveWinnerIds = l]
        BY <2>3, <2>4 DEF Records
    <2>5. CASE \E k \in 0..Len(ids) : record' = Redivided(record, k)
        <3>1. PICK k \in 0..Len(ids) : record' = Redivided(record, k)
            BY <2>5
        <3> DEFINE w == SubSeq(ids, 1, k)
                   r == SubSeq(ids, k + 1, Len(ids))
        <3>2. w \in Seq(Ids) /\ r \in Seq(Ids)
            <4> HIDE DEF ids
            <4>1. \A i \in 0..Len(ids) : /\ SubSeq(ids, 1, i) \in Seq(Ids)
                                         /\ SubSeq(ids, i + 1, Len(ids)) \in Seq(Ids)
                BY <2>2, SubSeqProperties
            <4> QED
                BY <3>1, <4>1
        <3>3. record' = [record EXCEPT !.winners = w, !.winnerIds = w,
                                       !.reserveWinners = r, !.reserveWinnerIds = r]
            BY <3>1 DEF Redivided
        <3> HIDE DEF w, r
        <3> QED
            BY <3>2, <3>3 DEF Records
    <2>6. CASE \/ \E s \in Seeds : record' = [record EXCEPT !.seed = s]
               \/ \E e \in Events : record' = [record EXCEPT !.event = e]
               \/ \E v \in Versions : record' = [record EXCEPT !.algorithmVersion = v]
        BY <2>6 DEF Records
    <2>7. \A s \in Seeds : [record.proof EXCEPT !.seed = s] \in Proofs
        BY <2>1 DEF Proofs
    <2>8. \A e \in Events : [record.audit EXCEPT !.event = e] \in [event : Events, proof : Proofs]
        BY <2>1
    <2>9. CASE \/ \E s \in Seeds : record' = [record EXCEPT !.proof.seed = s]
               \/ \E e \in Events : record' = [record EXCEPT !.audit.event = e]
        BY <2>1, <2>7, <2>8, <2>9 DEF Records
    <2> HIDE DEF ids
    <2> QED
        BY <1>2, <2>4, <2>5, <2>6, <2>9 DEF OtherRecords, ids
<1> QED
    BY <1>1, <1>2 DEF ReadBack

(* Every step preserves the inductive invariant. *)
LEMMA InvStep == IInv /\ [Next]_vars => IInv'
<1> SUFFICES ASSUME IInv, [Next]_vars PROVE IInv'
    OBVIOUS
<1>types. snapshot \in Snapshots /\ TypeOK
    BY DEF IInv, TypeOK
<1>1. CASE ExecuteDraw
    <2>1. CASE Execute("drawing")
        <3>1. /\ UNCHANGED <<counts, snapshot, seed, words, record, genuine, verdict>>
              /\ stage' = "drawing" /\ counts \in Nat \X Nat /\ stage = "toDraw"
            BY <1>1, <1>types, <2>1 DEF ExecuteDraw, Execute, TypeOK
        <3>2. /\ pool' \in Seq(Ids) /\ taken' \in Seq(Nat) /\ counter' \in Nat
              /\ Len(taken') <= Needed' /\ Needed' <= Len(pool')
              /\ IsInjective(pool') /\ Range(pool') = Range(snapshot'.rows)
              /\ Len(pool') = Len(snapshot'.rows)
            BY <1>types, <2>1, <3>1, ExecuteStep
        <3>3. TypeOK'
            BY <1>types, <3>1, <3>2 DEF TypeOK, Stages
        <3> QED
            BY <3>1, <3>2, <3>3 DEF IInv, PoolIsPermutation, NeverUnderDelivers, DrawUnderWay
    <2>2. CASE ~Execute("drawing")
        <3>1. /\ UNCHANGED <<counts, snapshot, seed, words, record, genuine, verdict>>
              /\ UNCHANGED <<pool, taken, counter>> /\ stage' = "refused"
            BY <1>1, <2>2 DEF ExecuteDraw
        <3> QED
            BY <3>1 DEF IInv, TypeOK, Stages, Shuffling, PoolIsPermutation,
                NeverUnderDelivers, DrawUnderWay
    <2> QED
        BY <2>1, <2>2
<1>2. CASE SampleUnbiasedIndex
    <2>1. PICK raw \in 0..(Word - 1) :
            /\ \/ UNCHANGED words
               \/ words' = [words EXCEPT ![Context] = Append(@, raw)]
            /\ \/ Take(raw % Remaining)
               \/ UNCHANGED <<pool, taken>>
        BY <1>2 DEF SampleUnbiasedIndex
    <2>2. /\ Shuffling /\ MoreRounds /\ Remaining > 1 /\ counter' = counter + 1
          /\ UNCHANGED <<stage, snapshot, counts, seed, record, genuine, verdict>>
        BY <1>2 DEF SampleUnbiasedIndex
    <2>3. Word \in Nat /\ raw \in Nat /\ Remaining \in Nat \ {0}
        BY <2>2, <1>types, ConstantsAssumption DEF Remaining, TypeOK
    <2>4. raw % Remaining \in 0..(Remaining - 1)
        BY <2>3, DivMod
    <2>5. Context \in Seeds \X (SUBSET Ids)
        BY <1>types DEF Context, TypeOK, Snapshots
    <2>6. words' \in [Seeds \X (SUBSET Ids) -> Seq(0..(Word - 1))]
        <3>1. words \in [Seeds \X (SUBSET Ids) -> Seq(0..(Word - 1))]
            BY <1>types DEF TypeOK
        <3>2. Append(words[Context], raw) \in Seq(0..(Word - 1))
            BY <2>5, <3>1
        <3> QED
            BY <2>1, <3>1, <3>2
    <2>7. /\ pool' \in Seq(Ids) /\ taken' \in Seq(Nat)
          /\ (Shuffling => Len(taken) <= Needed /\ Needed <= Len(pool))'
          /\ PoolIsPermutation'
        <3>1. CASE Take(raw % Remaining)
            BY <2>2, <2>4, <3>1, TakeStep
        <3>2. CASE UNCHANGED <<pool, taken>>
            BY <2>2, <3>2 DEF IInv, TypeOK, Shuffling, Needed, PoolIsPermutation
        <3> QED
            BY <2>1, <3>1, <3>2
    <2> QED
        BY <2>2, <2>6, <2>7 DEF IInv, TypeOK, NeverUnderDelivers, DrawUnderWay
<1>3. CASE SampleOnlyIndex
    <2>1. /\ Shuffling /\ MoreRounds /\ Remaining = 1 /\ Take(0)
          /\ UNCHANGED <<stage, snapshot, counts, seed, counter, words, record, genuine, verdict>>
        BY <1>3 DEF SampleOnlyIndex
    <2>2. 0 \in 0..(Remaining - 1)
        BY <2>1
    <2>3. /\ pool' \in Seq(Ids) /\ taken' \in Seq(Nat)
          /\ (Shuffling => Len(taken) <= Needed /\ Needed <= Len(pool))'
          /\ PoolIsPermutation'
        BY <2>1, <2>2, TakeStep
    <2> QED
        BY <2>1, <2>3 DEF IInv, TypeOK, NeverUnderDelivers, DrawUnderWay
<1>4. CASE FinishDraw
    <2>1. PICK event \in Events :
            record' = [winners |-> Winners, reserveWinners |-> Reserve,
                       winnerIds |-> Winners, reserveWinnerIds |-> Reserve,
                       seed |-> seed, event |-> event,
                       algorithmVersion |-> ALGORITHM_VERSION_V1, proof |-> Proof,
                       audit |-> ComputeAuditEventHash(event, Proof)]
        BY <1>4 DEF FinishDraw, DrawResult
    <2>2. /\ stage = "drawing" /\ stage' = "drawn"
          /\ genuine' = [snapshot |-> snapshot, record |-> record']
          /\ UNCHANGED <<snapshot, counts, seed, pool, taken, counter, words, verdict>>
        BY <1>4 DEF FinishDraw
    <2>3. /\ pool \in Seq(Ids) /\ IsInjective(pool) /\ Range(pool) = Range(snapshot.rows)
          /\ counts \in Nat \X Nat /\ counts \in Counts
          /\ counts[1] + counts[2] <= Len(pool)
        BY <2>2 DEF IInv, TypeOK, Shuffling, Needed, PoolIsPermutation, DrawUnderWay
    <2>4. /\ Winners \in Seq(Ids) /\ Reserve \in Seq(Ids)
          /\ Len(Winners) = counts[1] /\ Len(Reserve) = counts[2]
          /\ IsInjective(Winners \o Reserve) /\ Range(Winners \o Reserve) \subseteq Range(pool)
        BY <2>3, PrefixDelivers DEF Winners, Reserve, Needed
    <2>5. Proof \in Proofs
        BY <1>types, <2>4, ArrayShape
        DEF Proof, Proofs, ComputeDeterministicProofHash, Snapshots, TypeOK
    <2>6. record' \in Records
        BY <1>types, <2>1, <2>4, <2>5
        DEF Records, Versions, ComputeAuditEventHash, TypeOK
    <2>7. TypeOK'
        BY <1>types, <2>2, <2>6 DEF TypeOK, Stages, Shuffling
    <2>8. NeverUnderDelivers'
        <3>1. genuine'.record.winners = Winners /\ genuine'.record.reserveWinners = Reserve
              /\ genuine'.snapshot.rows = snapshot.rows
            BY <2>1, <2>2
        <3>2. <<Len(Winners), Len(Reserve)>> \in Counts
            BY <2>3, <2>4
        <3> QED
            BY <2>3, <2>4, <3>1, <3>2 DEF NeverUnderDelivers
    <2> QED
        BY <2>2, <2>7, <2>8 DEF IInv, PoolIsPermutation, Shuffling, DrawUnderWay
<1>5. CASE ReadBack
    <2>1. /\ stage = "drawn" /\ stage' = "toVerify"
          /\ UNCHANGED <<counts, seed, pool, taken, counter, words, genuine, verdict>>
        BY <1>5 DEF ReadBack
    <2>2. snapshot' \in Snapshots /\ record' \in Records
        BY <1>5, <1>types, <2>1, ReadBackTypes DEF TypeOK
    <2> QED
        BY <2>1, <2>2 DEF IInv, TypeOK, Stages, Shuffling, PoolIsPermutation,
            NeverUnderDelivers, DrawUnderWay
<1>6. CASE VerifyDrawResult
    <2>1. /\ stage = "toVerify" /\ UNCHANGED <<snapshot, words, record, genuine>>
          /\ counts' = <<Len(record.winners), Len(record.reserveWinners)>>
          /\ seed' = record.seed /\ record \in Records
        BY <1>6, <1>types DEF VerifyDrawResult, ClaimedCounts, TypeOK
    <2>2. counts' \in Nat \X Nat /\ seed' \in Seeds
        BY <2>1 DEF Records
    <2>3. CASE Execute("replaying") /\ UNCHANGED verdict
        <3>1. /\ pool' \in Seq(Ids) /\ taken' \in Seq(Nat) /\ counter' \in Nat
              /\ Len(taken') <= Needed' /\ Needed' <= Len(pool')
              /\ IsInjective(pool') /\ Range(pool') = Range(snapshot'.rows)
              /\ Len(pool') = Len(snapshot'.rows)
            BY <1>types, <2>1, <2>2, <2>3, ExecuteStep
        <3>2. stage' = "replaying"
            BY <2>3 DEF Execute
        <3> QED
            BY <2>1, <2>2, <2>3, <3>1, <3>2 DEF IInv, TypeOK, Stages, PoolIsPermutation,
                NeverUnderDelivers, DrawUnderWay
    <2>4. CASE stage' = "checked" /\ verdict' = FALSE /\ UNCHANGED <<pool, taken, counter>>
        BY <2>1, <2>2, <2>4 DEF IInv, TypeOK, Stages, Shuffling, PoolIsPermutation,
            NeverUnderDelivers, DrawUnderWay
    <2> QED
        BY <1>6, <2>3, <2>4 DEF VerifyDrawResult
<1>7. CASE FinishReplay
    <2>1. /\ stage' = "checked" /\ verdict' \in BOOLEAN
          /\ UNCHANGED <<snapshot, counts, seed, pool, taken, counter, words, record, genuine>>
        BY <1>7 DEF FinishReplay, SnapshotIntegrity
    <2> QED
        BY <2>1 DEF IInv, TypeOK, Stages, Shuffling, PoolIsPermutation,
            NeverUnderDelivers, DrawUnderWay
<1>8. CASE UNCHANGED vars
    BY <1>8 DEF vars, IInv, TypeOK, Shuffling, Needed, PoolIsPermutation,
        NeverUnderDelivers, DrawUnderWay
<1> QED
    BY <1>1, <1>2, <1>3, <1>4, <1>5, <1>6, <1>7, <1>8 DEF Next

(* The inductive invariant holds in every reachable state. *)
THEOREM Invariance == Spec => []IInv
<1>1. Init => IInv
    <2> SUFFICES ASSUME Init PROVE IInv
        OBVIOUS
    <2>1. snapshot \in Snapshots
        BY ArrayShape DEF Init, Snapshots, ComputeParticipantsSnapshotHash, ComputeConditionsHash
    <2>2. /\ counts \in Counts /\ counts \in Nat \X Nat /\ seed \in Seeds
          /\ stage = "toDraw" /\ pool = <<>> /\ taken = <<>> /\ counter = 0
          /\ genuine = None /\ verdict = None
        BY ConstantsAssumption DEF Init
    <2>3. words \in [Seeds \X (SUBSET Ids) -> Seq(0..(Word - 1))]
        BY DEF Init
    <2>4. TypeOK
        BY <2>1, <2>2, <2>3 DEF TypeOK, Stages, Shuffling
    <2> QED
        BY <2>2, <2>4 DEF IInv, PoolIsPermutation, Shuffling, NeverUnderDelivers, DrawUnderWay
<1> QED
    BY <1>1, InvStep, PTL DEF Spec

(* The array under the shuffle is the snapshot's rows, each exactly once,  *)
(* at every point of every draw and every replay.                          *)
THEOREM ShufflePermutes == Spec => []PoolIsPermutation
<1>1. IInv => PoolIsPermutation
    BY DEF IInv
<1> QED
    BY <1>1, Invariance, PTL

(* A stored draw has exactly the winners asked for, nobody twice. *)
THEOREM DeliversInFull == Spec => []NeverUnderDelivers
<1>1. IInv => NeverUnderDelivers
    BY DEF IInv
<1> QED
    BY <1>1, Invariance, PTL

(* Rejection sampling has no modulo bias for any number of rows and words. *)
THEOREM SamplingFair == Spec => []SamplingUnbiased
<1>1. TypeOK => SamplingUnbiased
    <2> SUFFICES ASSUME TypeOK, Shuffling, Remaining > 1, NEW o \in 0..(Remaining - 1)
                 PROVE  Cardinality({raw \in 0..(Word - 1) :
                            raw < MaxValid(Remaining) /\ raw % Remaining = o})
                                = Word \div Remaining
        BY DEF SamplingUnbiased
    <2>1. Remaining \in Nat \ {0}
        BY DEF TypeOK, Remaining
    <2> QED
        BY <2>1, EqualShares
<1>2. IInv => TypeOK
    BY DEF IInv
<1> QED
    BY <1>1, <1>2, Invariance, PTL
-----------------------------------------------------------------------------
(* What verification finds out.  A snapshot is hashed when it is locked, a   *)
(* result is sealed with its proof and audit hashes when it is stored.       *)
Hashed(snap) ==
    /\ snap.hash = ComputeParticipantsSnapshotHash(snap.rows)
    /\ snap.conditions = ComputeConditionsHash(snap.rules)

Sealed(snap, rec) ==
    /\ rec.winners = rec.winnerIds /\ rec.reserveWinners = rec.reserveWinnerIds
    /\ rec.algorithmVersion = ALGORITHM_VERSION_V1
    /\ rec.proof = ComputeDeterministicProofHash(snap, rec.seed, rec.winnerIds,
                                                 rec.reserveWinnerIds)
    /\ rec.audit = ComputeAuditEventHash(rec.event, rec.proof)
    /\ Len(snap.rows) > 0
    /\ Len(rec.winners) + Len(rec.reserveWinners) <= Len(snap.rows)

Stored == stage \in {"drawn", "toVerify", "replaying", "checked"}

(* From the draw on, the store holds what the draw stored, but for one thing *)
(* that was changed before it was read back.                                 *)
Kept ==
    /\ stage \in {"toDraw", "drawing", "drawn"} => Hashed(snapshot)
    /\ stage = "drawing" => Len(snapshot.rows) > 0
    /\ Stored => /\ genuine \in [snapshot : Snapshots, record : Records]
                 /\ record \in Records
                 /\ Hashed(genuine.snapshot)
                 /\ Sealed(genuine.snapshot, genuine.record)
    /\ stage = "drawn" => genuine = [snapshot |-> snapshot, record |-> record]
    /\ stage \in {"toVerify", "replaying"} =>
        \/ snapshot \in OtherSnapshots(genuine.snapshot) /\ record = genuine.record
        \/ record \in OtherRecords(genuine.record) /\ snapshot = genuine.snapshot
    /\ stage = "replaying" =>
        seed = record.seed /\ counts = <<Len(record.winners), Len(record.reserveWinners)>>
    /\ stage # "checked" => verdict = None
    /\ verdict = TRUE => Untouched

(* One word of the loop: from the state before it to the one after.          *)
Turn(s, raw) ==
    LET left == Len(s.pool) - Len(s.taken)
        round == Len(s.taken) + 1
    IN  IF raw < MaxValid(left)
        THEN [pool |-> SwapInPlace(s.pool, round, Pick(round, raw % left)),
              taken |-> Append(s.taken, raw % left)]
        ELSE s

(* run[k] is the state after k of the words ws, all of which were needed.    *)
Path(run, rows, ws, needed) ==
    /\ run[0] = [pool |-> CanonicalSort(rows), taken |-> <<>>]
    /\ \A k \in 1..Len(ws) :
        /\ Len(run[k - 1].taken) < needed
        /\ Len(run[k - 1].pool) - Len(run[k - 1].taken) > 1
        /\ run[k] = Turn(run[k - 1], ws[k])

(* The loop stands at s, or one round further, for which it took no word.    *)
Standing(s, p, t) ==
    /\ s.taken \in Seq(Nat)
    /\ p = s.pool
    /\ \/ t = s.taken
       \/ Len(s.pool) - Len(s.taken) = 1 /\ t = Append(s.taken, 0)

(* A draw is where the words of its stream led it.                           *)
Drawing ==
    /\ stage = "toDraw" => words[Context] = <<>>
    /\ stage = "drawing" =>
        /\ counter = Len(words[Context])
        /\ \E run : /\ Path(run, snapshot.rows, words[Context], Needed)
                    /\ Standing(run[counter], pool, taken)

(* The words ws lead from the rows of snap to the result rec, and no further. *)
LeadsTo(run, ws, snap, rec) ==
    LET needed == Len(rec.winnerIds) + Len(rec.reserveWinnerIds)
        last == run[Len(ws)]
    IN  /\ Path(run, snap.rows, ws, needed)
        /\ \/ Len(last.taken) = needed
           \/ Len(last.pool) - Len(last.taken) = 1
        /\ rec.winnerIds = SubSeq(last.pool, 1, Len(rec.winnerIds))
        /\ rec.reserveWinnerIds = SubSeq(last.pool, Len(rec.winnerIds) + 1, needed)

(* A stored draw is where the words of its stream led; its replay follows.   *)
GenuineContext == <<genuine.record.seed, genuine.snapshot.hash>>

Replaying ==
    /\ stage \in {"drawn", "toVerify"} \/ (stage = "replaying" /\ Untouched) =>
        \E run : /\ LeadsTo(run, words[GenuineContext], genuine.snapshot, genuine.record)
                 /\ stage = "replaying" => /\ counter <= Len(words[GenuineContext])
                                           /\ Standing(run[counter], pool, taken)
    /\ ReplayReproduces

HistoryInv == Kept /\ Drawing /\ Replaying

(* Records that verification vouches for alike. *)
Agree(rec, other) ==
    /\ Len(rec.winners) = Len(other.winners)
    /\ Len(rec.reserveWinners) = Len(other.reserveWinners)
    /\ rec.winnerIds = other.winnerIds /\ rec.reserveWinnerIds = other.reserveWinnerIds
    /\ rec.seed = other.seed /\ rec.event = other.event
    /\ rec.algorithmVersion = other.algorithmVersion
    /\ rec.proof = other.proof /\ rec.audit = other.audit

LEMMA VouchedForMeans ==
    ASSUME NEW rec \in Records, NEW other \in Records
    PROVE  VouchedFor(rec) = VouchedFor(other) <=> Agree(rec, other)
<1> DEFINE v == VouchedFor(rec)
           u == VouchedFor(other)
<1>1. /\ v.winners = Len(rec.winners) /\ v.reserveWinners = Len(rec.reserveWinners)
      /\ v.winnerIds = rec.winnerIds /\ v.reserveWinnerIds = rec.reserveWinnerIds
      /\ v.seed = rec.seed /\ v.event = rec.event
      /\ v.algorithmVersion = rec.algorithmVersion
      /\ v.proof = rec.proof /\ v.audit = rec.audit
    BY DEF Records, VouchedFor
<1>2. /\ u.winners = Len(other.winners) /\ u.reserveWinners = Len(other.reserveWinners)
      /\ u.winnerIds = other.winnerIds /\ u.reserveWinnerIds = other.reserveWinnerIds
      /\ u.seed = other.seed /\ u.event = other.event
      /\ u.algorithmVersion = other.algorithmVersion
      /\ u.proof = other.proof /\ u.audit = other.audit
    BY DEF Records, VouchedFor
<1>3. ASSUME Agree(rec, other) PROVE v = u
    BY <1>3 DEF Agree, Records, VouchedFor
<1> HIDE DEF v, u
<1>4. ASSUME v = u PROVE Agree(rec, other)
    BY <1>1, <1>2, <1>4 DEF Agree
<1> QED
    BY <1>3, <1>4 DEF v, u

(* What is untouched has its rows in some order, its JSON lists in their     *)
(* length, and all else as it was.                                           *)
LEMMA UntouchedMeans ==
    ASSUME snapshot \in Snapshots, genuine \in [snapshot : Snapshots, record : Records],
           record \in Records, Untouched
    PROVE  /\ Agree(record, genuine.record)
           /\ snapshot.hash = genuine.snapshot.hash
           /\ snapshot.rules = genuine.snapshot.rules
           /\ snapshot.conditions = genuine.snapshot.conditions
           /\ Range(snapshot.rows) = Range(genuine.snapshot.rows)
           /\ CanonicalSort(snapshot.rows) = CanonicalSort(genuine.snapshot.rows)
           /\ Len(snapshot.rows) = Len(genuine.snapshot.rows)
<1> DEFINE a == [snapshot EXCEPT !.rows = Range(@)]
           b == [genuine.snapshot EXCEPT !.rows = Range(@)]
<1>1. a = b /\ Agree(record, genuine.record)
    BY VouchedForMeans DEF Untouched
<1>2. /\ a.hash = snapshot.hash /\ a.rules = snapshot.rules
      /\ a.conditions = snapshot.conditions /\ a.rows = Range(snapshot.rows)
    BY DEF Snapshots
<1>3. /\ b.hash = genuine.snapshot.hash /\ b.rules = genuine.snapshot.rules
      /\ b.conditions = genuine.snapshot.conditions /\ b.rows = Range(genuine.snapshot.rows)
    BY DEF Snapshots
<1> HIDE DEF a, b
<1>4. snapshot.rows \in Arrays /\ genuine.snapshot.rows \in Arrays
    BY DEF Snapshots
<1>5. CanonicalSort(snapshot.rows) = CanonicalSort(genuine.snapshot.rows)
    BY <1>1, <1>2, <1>3, <1>4, SortAssumption DEF CanonicalSort
<1>6. Len(snapshot.rows) = Len(genuine.snapshot.rows)
    BY <1>4, <1>5, SortedShape
<1> QED
    BY <1>1, <1>2, <1>3, <1>5, <1>6

(* A replay that returned what is stored was of what the draw had stored:    *)
(* every change breaks one of the comparisons, but for one of whom the JSON  *)
(* lists name.                                                               *)
LEMMA ChangeShows ==
    ASSUME TypeOK, PoolIsPermutation, Kept, stage = "replaying", SnapshotIntegrity,
           record.algorithmVersion = ALGORITHM_VERSION_V1,
           Winners = record.winnerIds, Reserve = record.reserveWinnerIds,
           Proof = record.proof, ComputeAuditEventHash(record.event, Proof) = record.audit
    PROVE  Untouched
<1> DEFINE gs == genuine.snapshot
           gr == genuine.record
<1>1. /\ genuine \in [snapshot : Snapshots, record : Records] /\ record \in Records
      /\ Hashed(gs) /\ Sealed(gs, gr)
      /\ seed = record.seed
    BY DEF Kept, Stored
<1>2. gs \in Snapshots /\ gr \in Records /\ snapshot \in Snapshots
    BY <1>1 DEF TypeOK
<1>3. /\ record.proof = ComputeDeterministicProofHash(snapshot, record.seed,
                            record.winnerIds, record.reserveWinnerIds)
      /\ record.audit = [event |-> record.event, proof |-> record.proof]
    BY <1>1 DEF Proof, ComputeAuditEventHash
<1>4. /\ gr.proof = ComputeDeterministicProofHash(gs, gr.seed, gr.winnerIds, gr.reserveWinnerIds)
      /\ gr.audit = [event |-> gr.event, proof |-> gr.proof]
      /\ gr.winners = gr.winnerIds /\ gr.reserveWinners = gr.reserveWinnerIds
      /\ gr.algorithmVersion = ALGORITHM_VERSION_V1
    BY <1>1 DEF Sealed, ComputeAuditEventHash
(* What the proof hash binds. *)
<1>5. /\ record.proof.snapshot = snapshot.hash /\ record.proof.conditions = snapshot.conditions
      /\ record.proof.seed = record.seed
      /\ record.proof.winners = record.winnerIds /\ record.proof.reserve = record.reserveWinnerIds
    BY <1>3 DEF ComputeDeterministicProofHash
<1>6. /\ gr.proof.snapshot = gs.hash /\ gr.proof.conditions = gs.conditions
      /\ gr.proof.seed = gr.seed
      /\ gr.proof.winners = gr.winnerIds /\ gr.proof.reserve = gr.reserveWinnerIds
    BY <1>4 DEF ComputeDeterministicProofHash
<1>7. /\ gs.hash = Range(gs.rows) /\ gs.conditions = gs.rules
      /\ snapshot.hash = Range(snapshot.rows) /\ snapshot.conditions = snapshot.rules
    BY <1>1 DEF Hashed, SnapshotIntegrity, ComputeParticipantsSnapshotHash,
        ComputeConditionsHash
(* The replay drew as many as the JSON lists have. *)
<1>8. Len(record.winners) = Len(record.winnerIds)
      /\ Len(record.reserveWinners) = Len(record.reserveWinnerIds)
    <2>1. /\ pool \in Seq(Ids) /\ IsInjective(pool) /\ counts \in Nat \X Nat
          /\ counts[1] + counts[2] <= Len(pool)
        BY DEF TypeOK, Shuffling, Needed, PoolIsPermutation
    <2>2. Len(Winners) = counts[1] /\ Len(Reserve) = counts[2]
        BY <2>1, PrefixDelivers DEF Winners, Reserve, Needed
    <2>3. counts = <<Len(record.winners), Len(record.reserveWinners)>>
        BY DEF Kept
    <2> QED
        BY <2>2, <2>3
<1>9. CASE record = gr \/ record \in OtherRecords(gr)
    <2> HIDE DEF gs, gr
    <2>1. gr.proof \in Proofs /\ gr.audit \in [event : Events, proof : Proofs]
        BY <1>2 DEF Records
    <2>2. record.proof = gr.proof
        <3>1. CASE \E s \in Seeds : record = [gr EXCEPT !.proof.seed = s]
            <4>1. PICK s \in Seeds : record = [gr EXCEPT !.proof.seed = s]
                BY <3>1
            <4>2. record.proof = [gr.proof EXCEPT !.seed = s] /\ record.seed = gr.seed
                BY <1>2, <4>1 DEF Records
            <4>3. record.proof.seed = s
                BY <2>1, <4>2 DEF Proofs
            <4> QED
                BY <1>5, <1>6, <2>1, <4>2, <4>3 DEF Proofs
        <3> QED
            BY <1>2, <1>9, <3>1 DEF OtherRecords, Redivided, Records
    <2>3. record.event = gr.event
        <3>1. CASE \E e \in Events : record = [gr EXCEPT !.event = e]
            <4>1. record.audit = gr.audit
                BY <1>2, <3>1 DEF Records
            <4>2. record.audit.event = record.event /\ gr.audit.event = gr.event
                BY <1>3, <1>4
            <4> QED
                BY <4>1, <4>2
        <3> QED
            BY <1>2, <1>9, <3>1 DEF OtherRecords, Redivided, Records
    <2>4. Agree(record, gr)
        BY <1>3, <1>4, <1>5, <1>6, <1>8, <2>2, <2>3 DEF Agree
    <2>5. snapshot.hash = gs.hash /\ snapshot.conditions = gs.conditions
        BY <1>5, <1>6, <2>2
    <2>6. [snapshot EXCEPT !.rows = Range(@)] = [gs EXCEPT !.rows = Range(@)]
        BY <1>2, <1>7, <2>5 DEF Snapshots
    <2>7. VouchedFor(record) = VouchedFor(gr)
        BY <1>1, <1>2, <2>4, VouchedForMeans
    <2> QED
        BY <2>6, <2>7 DEF Untouched, gs, gr
<1> QED
    BY <1>9 DEF Kept, gr

(* One word: the loop goes to the turn of where it stood, and needed it.     *)
LEMMA WordStep ==
    ASSUME TypeOK, Shuffling, MoreRounds, Remaining > 1, counts' = counts,
           NEW s, Standing(s, pool, taken), NEW raw \in 0..(Word - 1),
           \/ raw < MaxValid(Remaining) /\ Take(raw % Remaining)
           \/ raw >= MaxValid(Remaining) /\ UNCHANGED <<pool, taken>>
    PROVE  /\ Len(s.taken) < Needed /\ Len(s.pool) - Len(s.taken) > 1
           /\ Standing(Turn(s, raw), pool', taken')
<1>1. pool \in Seq(Ids) /\ taken \in Seq(Nat) /\ Word \in Nat
    BY ConstantsAssumption DEF TypeOK
<1>2. pool = s.pool /\ s.taken \in Seq(Nat)
    BY DEF Standing
<1>3. taken = s.taken
    BY <1>1, <1>2 DEF Standing, Remaining
<1>4. Remaining \in Nat \ {0} /\ Remaining = Len(s.pool) - Len(s.taken)
    <2>1. Len(pool) \in Nat /\ Len(taken) \in Nat
        BY <1>1
    <2>2. Len(s.pool) = Len(pool) /\ Len(s.taken) = Len(taken)
        BY <1>2, <1>3
    <2>3. Remaining = Len(pool) - Len(taken)
        BY DEF Remaining
    <2>4. Remaining \in Nat \ {0}
        BY <2>1, <2>3
    <2> QED
        BY <2>2, <2>3, <2>4, Zenon
<1>5. Len(s.taken) < Needed /\ Len(s.pool) - Len(s.taken) > 1
    BY <1>3, <1>4 DEF MoreRounds
<1>6. raw % Remaining \in Nat
    <2>1. raw \in Nat
        BY <1>1
    <2>2. raw % Remaining \in 0..(Remaining - 1)
        BY <1>4, <2>1, DivMod, Zenon
    <2>3. \A o \in 0..(Remaining - 1) : o \in Nat
        BY <1>4
    <2> QED
        BY <2>2, <2>3, Zenon
<1>7. CASE raw < MaxValid(Remaining) /\ Take(raw % Remaining)
    <2>1. Turn(s, raw) = [pool |-> SwapInPlace(s.pool, Len(s.taken) + 1,
                                               Pick(Len(s.taken) + 1, raw % Remaining)),
                          taken |-> Append(s.taken, raw % Remaining)]
        BY <1>4, <1>7 DEF Turn
    <2>2. pool' = Turn(s, raw).pool /\ taken' = Turn(s, raw).taken
        BY <1>2, <1>3, <1>7, <2>1 DEF Take, Round
    <2>3. Turn(s, raw).taken \in Seq(Nat)
        BY <1>2, <1>6, <2>1
    <2> QED
        BY <1>5, <2>2, <2>3 DEF Standing
<1>8. CASE raw >= MaxValid(Remaining) /\ UNCHANGED <<pool, taken>>
    <2>1. MaxValid(Remaining) \in Nat
        <3>1. Word \div Remaining \in Nat
            BY <1>1, <1>4, DivMod
        <3>2. \A a, b \in Nat : a * b \in Nat
            OBVIOUS
        <3> QED
            BY <1>4, <3>1, <3>2, Zenon DEF MaxValid
    <2>2. ~(raw < MaxValid(Remaining))
        BY <1>8, <2>1
    <2>3. Turn(s, raw) = s
        BY <1>4, <2>2 DEF Turn
    <2> QED
        BY <1>5, <1>8, <2>3 DEF Standing
<1> QED
    BY <1>7, <1>8

(* The last row is swapped with itself.                                      *)
LEMMA OnlyStep ==
    ASSUME TypeOK, Shuffling, PoolIsPermutation, MoreRounds, Remaining = 1, Take(0),
           NEW s, Standing(s, pool, taken)
    PROVE  Standing(s, pool', taken')
<1>1. pool \in Seq(Ids) /\ taken \in Seq(Nat)
    BY DEF TypeOK
<1>2. pool = s.pool /\ s.taken \in Seq(Nat)
    BY DEF Standing
<1>3. taken = s.taken /\ Len(s.pool) - Len(s.taken) = 1
    BY <1>1, <1>2 DEF Standing, Remaining
<1>4. Round \in 1..Len(pool)
    BY <1>1, <1>2, <1>3 DEF Round
<1>5. pool' = pool
    <2>1. Pick(Round, 0) = Round
        BY <1>4 DEF Pick
    <2>2. pool' = [pool EXCEPT ![Round] = pool[Round], ![Round] = pool[Round]]
        BY <2>1 DEF Take, SwapInPlace
    <2>3. [pool EXCEPT ![Round] = pool[Round], ![Round] = pool[Round]] = pool
        BY <1>1, <1>4
    <2> QED
        BY <2>2, <2>3
<1>6. taken' = Append(s.taken, 0)
    BY <1>3 DEF Take
<1> QED
    BY <1>2, <1>3, <1>5, <1>6 DEF Standing

(* A path goes on by one word.                                               *)
LEMMA PathExtends ==
    ASSUME NEW run, NEW rows, NEW ws \in Seq(Nat), NEW needed, NEW raw \in Nat,
           Path(run, rows, ws, needed),
           Len(run[Len(ws)].taken) < needed,
           Len(run[Len(ws)].pool) - Len(run[Len(ws)].taken) > 1
    PROVE  \E new : /\ Path(new, rows, Append(ws, raw), needed)
                    /\ new[Len(ws) + 1] = Turn(run[Len(ws)], raw)
<1> DEFINE n == Len(ws)
           new == [k \in 0..(n + 1) |-> IF k = n + 1 THEN Turn(run[n], raw) ELSE run[k]]
           more == Append(ws, raw)
<1>0. n \in Nat
    OBVIOUS
<1>1. n \in Nat /\ Len(more) = n + 1 /\ more[n + 1] = raw /\ \A k \in 1..n : more[k] = ws[k]
    OBVIOUS
<1> HIDE DEF n, more
<1>2. new[n + 1] = Turn(run[n], raw) /\ \A k \in 0..n : new[k] = run[k]
    BY <1>1
<1> HIDE DEF new
<1>3. new[0] = run[0]
    BY <1>1, <1>2
<1>4. ASSUME NEW k \in 1..(n + 1)
      PROVE  /\ Len(new[k - 1].taken) < needed
             /\ Len(new[k - 1].pool) - Len(new[k - 1].taken) > 1
             /\ new[k] = Turn(new[k - 1], more[k])
    <2>1. CASE k = n + 1
        <3>1. k - 1 = n /\ new[k - 1] = run[n] /\ new[k] = Turn(run[n], raw) /\ more[k] = raw
            BY <1>1, <1>2, <2>1
        <3> QED
            BY <3>1 DEF n
    <2>2. CASE k \in 1..n
        <3>1. new[k] = run[k] /\ new[k - 1] = run[k - 1] /\ more[k] = ws[k]
            BY <1>1, <1>2, <2>2
        <3> QED
            BY <2>2, <3>1 DEF Path, n
    <2>3. k = n + 1 \/ k \in 1..n
        BY <1>1
    <2> QED
        BY <2>1, <2>2, <2>3, Zenon
<1>5. Path(new, rows, more, needed)
    BY <1>1, <1>3, <1>4 DEF Path
<1> QED
    BY <1>2, <1>5 DEF n, more

(* A replay along the path of its draw that wants another word has one left. *)
LEMMA WordLeft ==
    ASSUME TypeOK, Shuffling, MoreRounds, Remaining > 1, NEW s,
           Standing(s, pool, taken),
           Len(s.taken) = Needed \/ Len(s.pool) - Len(s.taken) = 1
    PROVE  FALSE
<1>1. pool \in Seq(Ids) /\ taken \in Seq(Nat) /\ counts \in Nat \X Nat
    BY DEF TypeOK
<1>2. pool = s.pool /\ taken = s.taken
    BY <1>1 DEF Standing, Remaining
<1>3. Len(pool) \in Nat /\ Len(taken) \in Nat /\ Needed \in Nat
    BY <1>1 DEF Needed
<1>4. Len(s.pool) = Len(pool) /\ Len(s.taken) = Len(taken)
    BY <1>2
<1>5. Len(taken) < Needed /\ Len(pool) - Len(taken) > 1
    BY DEF MoreRounds, Remaining
<1>6. Len(taken) = Needed \/ Len(pool) - Len(taken) = 1
    BY <1>4
<1> QED
    BY <1>3, <1>5, <1>6

(* The store keeps the draw, but for the change made when it is read back.   *)
LEMMA KeptStep ==
    ASSUME IInv, Kept, [Next]_vars
    PROVE  Kept'
<1>types. TypeOK
    BY DEF IInv
<1>1. CASE ExecuteDraw
    <2>1. /\ UNCHANGED <<snapshot, counts, seed, words, record, genuine, verdict>>
          /\ stage = "toDraw" /\ stage' \in {"drawing", "refused"}
          /\ stage' = "drawing" => Len(snapshot.rows) > 0
        BY <1>1 DEF ExecuteDraw, Execute
    <2> QED
        BY <2>1 DEF Kept, Stored, Untouched
<1>2. CASE SampleUnbiasedIndex \/ SampleOnlyIndex
    <2>1. UNCHANGED <<stage, snapshot, counts, seed, record, genuine, verdict>>
        BY <1>2 DEF SampleUnbiasedIndex, SampleOnlyIndex
    <2> QED
        BY <2>1 DEF Kept, Stored, Untouched
<1>3. CASE FinishDraw
    <2>1. PICK event \in Events :
            record' = [winners |-> Winners, reserveWinners |-> Reserve,
                       winnerIds |-> Winners, reserveWinnerIds |-> Reserve,
                       seed |-> seed, event |-> event,
                       algorithmVersion |-> ALGORITHM_VERSION_V1, proof |-> Proof,
                       audit |-> ComputeAuditEventHash(event, Proof)]
        BY <1>3 DEF FinishDraw, DrawResult
    <2>2. /\ stage = "drawing" /\ stage' = "drawn" /\ ~MoreRounds
          /\ genuine' = [snapshot |-> snapshot, record |-> record']
          /\ UNCHANGED <<snapshot, counts, seed, pool, taken, counter, words, verdict>>
        BY <1>3 DEF FinishDraw
    <2>3. TypeOK'
        BY <1>3, InvStep DEF IInv, Next
    <2>4. record' \in Records /\ snapshot' \in Snapshots
        BY <2>2, <2>3 DEF TypeOK
    <2>5. /\ pool \in Seq(Ids) /\ IsInjective(pool) /\ Len(pool) = Len(snapshot.rows)
          /\ counts \in Nat \X Nat /\ counts[1] + counts[2] <= Len(pool)
        BY <1>types, <2>2 DEF IInv, TypeOK, Shuffling, Needed, PoolIsPermutation
    <2>6. Len(Winners) = counts[1] /\ Len(Reserve) = counts[2]
        BY <2>5, PrefixDelivers DEF Winners, Reserve, Needed
    <2>7. Sealed(snapshot, record')
        <3>1. Len(record'.winners) + Len(record'.reserveWinners) <= Len(snapshot.rows)
            BY <2>1, <2>5, <2>6
        <3>2. Len(snapshot.rows) > 0
            BY <2>2 DEF Kept
        <3> QED
            BY <2>1, <3>1, <3>2 DEF Sealed, Proof, ComputeAuditEventHash
    <2>8. Hashed(snapshot) /\ verdict = None
        BY <2>2 DEF Kept
    <2>9. verdict' # TRUE
        BY <2>2, <2>8, ConstantsAssumption
    <2> QED
        BY <2>2, <2>4, <2>7, <2>8, <2>9 DEF Kept, Stored
<1>4. CASE ReadBack
    <2>1. /\ stage = "drawn" /\ stage' = "toVerify"
          /\ UNCHANGED <<counts, seed, pool, taken, counter, words, genuine, verdict>>
          /\ \/ snapshot' \in OtherSnapshots(snapshot) /\ UNCHANGED record
             \/ record' \in OtherRecords(record) /\ UNCHANGED snapshot
        BY <1>4 DEF ReadBack
    <2>2. snapshot \in Snapshots /\ record \in Records /\ record' \in Records
        BY <1>4, <1>types, <2>1, ReadBackTypes DEF TypeOK
    <2>3. genuine.snapshot = snapshot /\ genuine.record = record
        BY <2>1 DEF Kept
    <2>4. verdict' # TRUE /\ verdict' = None
        BY <2>1, ConstantsAssumption DEF Kept
    <2> QED
        BY <2>1, <2>2, <2>3, <2>4 DEF Kept, Stored
<1>5. CASE VerifyDrawResult
    <2>1. /\ stage = "toVerify" /\ UNCHANGED <<snapshot, words, record, genuine>>
          /\ counts' = <<Len(record.winners), Len(record.reserveWinners)>>
          /\ seed' = record.seed
          /\ \/ stage' = "replaying" /\ UNCHANGED verdict
             \/ stage' = "checked" /\ verdict' = FALSE
        BY <1>5 DEF VerifyDrawResult, ClaimedCounts, Execute
    <2>2. stage' = "replaying" => verdict' = None /\ verdict' # TRUE
        BY <2>1, ConstantsAssumption DEF Kept
    <2> QED
        BY <2>1, <2>2 DEF Kept, Stored, Untouched
<1>6. CASE FinishReplay
    <2>1. /\ stage = "replaying" /\ stage' = "checked"
          /\ UNCHANGED <<snapshot, counts, seed, pool, taken, counter, words, record, genuine>>
          /\ verdict' = TRUE =>
                /\ record.algorithmVersion = ALGORITHM_VERSION_V1 /\ SnapshotIntegrity
                /\ Winners = record.winnerIds /\ Reserve = record.reserveWinnerIds
                /\ Proof = record.proof
                /\ ComputeAuditEventHash(record.event, Proof) = record.audit
        BY <1>6 DEF FinishReplay
    <2>2. verdict' = TRUE => Untouched
        BY <1>types, <2>1, ChangeShows DEF IInv
    <2> QED
        BY <2>1, <2>2 DEF Kept, Stored, Untouched
<1>7. CASE UNCHANGED vars
    BY <1>7 DEF vars, Kept, Stored, Untouched
<1> QED
    BY <1>1, <1>2, <1>3, <1>4, <1>5, <1>6, <1>7 DEF Next

(* A draw stays where its words led it, and its result is stored from there. *)
LEMMA DrawingStep ==
    ASSUME IInv, Kept, Drawing, [Next]_vars
    PROVE  Drawing'
<1>types. TypeOK
    BY DEF IInv
<1>0. /\ Context \in Seeds \X (SUBSET Ids)
      /\ words \in [Seeds \X (SUBSET Ids) -> Seq(0..(Word - 1))]
    BY <1>types DEF Context, TypeOK, Snapshots
<1>1. CASE ExecuteDraw
    <2>1. /\ UNCHANGED <<snapshot, counts, seed, words>> /\ stage = "toDraw"
          /\ \/ Execute("drawing")
             \/ stage' = "refused"
        BY <1>1 DEF ExecuteDraw
    <2>2. words[Context] = <<>> /\ Context' = Context /\ words' = words
        BY <2>1 DEF Drawing, Context
    <2>3. CASE Execute("drawing")
        <3> DEFINE start == [pool |-> CanonicalSort(snapshot.rows), taken |-> <<>>]
                   run == [k \in {0} |-> start]
        <3>1. stage' = "drawing" /\ pool' = CanonicalSort(snapshot.rows) /\ taken' = <<>>
              /\ counter' = 0
            BY <2>3 DEF Execute
        <3>2. Path(run, snapshot.rows, <<>>, Needed') /\ run[0] = start
            BY DEF Path
        <3>3. Standing(start, pool', taken')
            BY <3>1 DEF Standing
        <3> HIDE DEF run, start
        <3>4. Path(run, snapshot'.rows, words'[Context'], Needed')
              /\ Standing(run[counter'], pool', taken')
            BY <2>1, <2>2, <3>1, <3>2, <3>3
        <3>5. counter' = Len(words'[Context'])
            BY <2>2, <3>1
        <3> QED
            BY <3>1, <3>4, <3>5 DEF Drawing
    <2>4. CASE stage' = "refused"
        BY <2>4 DEF Drawing
    <2> QED
        BY <2>1, <2>3, <2>4
<1>2. CASE SampleUnbiasedIndex
    <2>1. PICK raw \in 0..(Word - 1) :
            /\ \/ /\ counter < Len(words[Context])
                  /\ UNCHANGED words
               \/ /\ counter = Len(words[Context])
                  /\ words' = [words EXCEPT ![Context] = Append(@, raw)]
            /\ \/ raw < MaxValid(Remaining) /\ Take(raw % Remaining)
               \/ raw >= MaxValid(Remaining) /\ UNCHANGED <<pool, taken>>
        BY <1>2 DEF SampleUnbiasedIndex
    <2>2. /\ Shuffling /\ MoreRounds /\ Remaining > 1 /\ counter' = counter + 1
          /\ UNCHANGED <<stage, snapshot, counts, seed, record, genuine, verdict>>
        BY <1>2 DEF SampleUnbiasedIndex
    <2>3. Context' = Context /\ Needed' = Needed /\ snapshot' = snapshot
        BY <2>2 DEF Context, Needed
    <2>4. CASE stage = "drawing"
        <3> DEFINE ws == words[Context]
        <3>1. counter = Len(ws)
            BY <2>4 DEF Drawing
        <3>2. PICK run : Path(run, snapshot.rows, ws, Needed)
                         /\ Standing(run[Len(ws)], pool, taken)
            BY <2>4, <3>1 DEF Drawing
        <3>3. words'[Context] = Append(ws, raw) /\ ws \in Seq(Nat) /\ raw \in Nat
            <4>1. words'[Context] = Append(ws, raw) /\ ws \in Seq(0..(Word - 1))
                BY <1>0, <2>1, <3>1
            <4>2. 0..(Word - 1) \subseteq Nat
                BY ConstantsAssumption
            <4>3. \A S, T : S \subseteq T => Seq(S) \subseteq Seq(T)
                OBVIOUS
            <4> QED
                BY <4>1, <4>2, <4>3, Zenon
        <3> HIDE DEF ws
        <3> DEFINE s == run[Len(ws)]
        <3>4. /\ Len(s.taken) < Needed /\ Len(s.pool) - Len(s.taken) > 1
              /\ Standing(Turn(s, raw), pool', taken')
            <4> HIDE DEF s
            <4>1. Standing(s, pool, taken)
                BY <3>2 DEF s
            <4> QED
                BY <1>types, <2>1, <2>2, <4>1, WordStep
        <3>5. PICK new : /\ Path(new, snapshot.rows, Append(ws, raw), Needed)
                         /\ new[Len(ws) + 1] = Turn(s, raw)
            BY <3>2, <3>3, <3>4, PathExtends
        <3>6. counter' = Len(ws) + 1 /\ Len(Append(ws, raw)) = Len(ws) + 1
            BY <2>2, <3>1, <3>3 DEF ws
        <3>7. /\ counter' = Len(words'[Context'])
              /\ Path(new, snapshot'.rows, words'[Context'], Needed')
              /\ Standing(new[counter'], pool', taken')
            BY <2>3, <3>3, <3>4, <3>5, <3>6
        <3> QED
            BY <2>2, <2>4, <3>7 DEF Drawing
    <2>5. CASE stage = "replaying"
        BY <2>2, <2>5 DEF Drawing
    <2> QED
        BY <2>2, <2>4, <2>5 DEF Shuffling
<1>3. CASE SampleOnlyIndex
    <2>1. /\ Shuffling /\ MoreRounds /\ Remaining = 1 /\ Take(0)
          /\ UNCHANGED <<stage, snapshot, counts, seed, counter, words, record, genuine, verdict>>
        BY <1>3 DEF SampleOnlyIndex
    <2>2. Context' = Context /\ Needed' = Needed /\ snapshot' = snapshot /\ words' = words
          /\ counter' = counter
        BY <2>1 DEF Context, Needed
    <2>3. CASE stage = "drawing"
        <3>1. /\ counter = Len(words[Context])
              /\ \E run : /\ Path(run, snapshot.rows, words[Context], Needed)
                          /\ Standing(run[counter], pool, taken)
            BY <2>3 DEF Drawing
        <3>2. PICK run : /\ Path(run, snapshot.rows, words[Context], Needed)
                         /\ Standing(run[counter], pool, taken)
            BY <3>1
        <3> DEFINE s == run[counter]
        <3>3. Standing(s, pool', taken')
            <4> HIDE DEF s
            <4>1. Standing(s, pool, taken)
                BY <3>2 DEF s
            <4> QED
                BY <1>types, <2>1, <4>1, OnlyStep DEF IInv
        <3>4. Path(run, snapshot'.rows, words'[Context'], Needed')
              /\ Standing(run[counter'], pool', taken')
            BY <2>2, <3>2, <3>3
        <3> QED
            BY <2>1, <2>2, <2>3, <3>1, <3>4 DEF Drawing
    <2>4. CASE stage = "replaying"
        BY <2>1, <2>4 DEF Drawing
    <2> QED
        BY <2>1, <2>3, <2>4 DEF Shuffling
<1>4. CASE FinishDraw \/ ReadBack \/ VerifyDrawResult \/ FinishReplay
    <2>1. stage' \notin {"toDraw", "drawing"}
        BY <1>4 DEF FinishDraw, ReadBack, VerifyDrawResult, Execute, FinishReplay
    <2> QED
        BY <2>1 DEF Drawing
<1>5. CASE UNCHANGED vars
    BY <1>5 DEF vars, Drawing, Context, Needed
<1> QED
    BY <1>1, <1>2, <1>3, <1>4, <1>5 DEF Next

(* The replay of what is untouched is under the draw's seed, counts and words. *)
LEMMA SameDraw ==
    ASSUME TypeOK, Kept, stage = "replaying", Untouched
    PROVE  /\ Context = GenuineContext /\ seed = genuine.record.seed
           /\ Agree(record, genuine.record)
           /\ counts[1] = Len(genuine.record.winnerIds)
           /\ counts[2] = Len(genuine.record.reserveWinnerIds)
           /\ Needed = Len(genuine.record.winnerIds) + Len(genuine.record.reserveWinnerIds)
<1>1. /\ genuine \in [snapshot : Snapshots, record : Records] /\ snapshot \in Snapshots
      /\ record \in Records /\ Sealed(genuine.snapshot, genuine.record)
      /\ seed = record.seed /\ counts = <<Len(record.winners), Len(record.reserveWinners)>>
    BY DEF Kept, Stored, TypeOK
<1>2. Agree(record, genuine.record) /\ snapshot.hash = genuine.snapshot.hash
    BY <1>1, UntouchedMeans
<1>3. /\ genuine.record.winners = genuine.record.winnerIds
      /\ genuine.record.reserveWinners = genuine.record.reserveWinnerIds
    BY <1>1 DEF Sealed
<1> QED
    BY <1>1, <1>2, <1>3 DEF Agree, Context, GenuineContext, Needed

(* A replay that has all its rounds used all the words of the draw.          *)
LEMMA WordsUsedUp ==
    ASSUME TypeOK, NEW run, NEW rows, NEW ws \in Seq(Nat), NEW needed \in Nat,
           Path(run, rows, ws, needed), counter <= Len(ws),
           Standing(run[counter], pool, taken), Len(taken) = needed
    PROVE  counter = Len(ws)
<1>1. pool \in Seq(Ids) /\ taken \in Seq(Nat) /\ counter \in Nat /\ Len(ws) \in Nat
    BY DEF TypeOK
<1>2. SUFFICES ASSUME counter < Len(ws) PROVE FALSE
    BY <1>1
<1>3. counter + 1 \in 1..Len(ws) /\ (counter + 1) - 1 = counter
    BY <1>1, <1>2
<1> DEFINE s == run[counter]
<1>4. Len(s.taken) < needed /\ Len(s.pool) - Len(s.taken) > 1
    BY <1>3 DEF Path
<1> HIDE DEF s
<1>5. Standing(s, pool, taken)
    BY DEF s
<1>6. taken = s.taken
    <2>1. pool = s.pool /\ s.taken \in Seq(Nat)
        BY <1>5 DEF Standing
    <2>2. Len(s.pool) \in Nat /\ Len(s.taken) \in Nat
        BY <1>1, <2>1
    <2>3. Len(s.pool) - Len(s.taken) # 1
        <3>1. \A a, b \in Nat : a - b > 1 => a - b # 1
            OBVIOUS
        <3> QED
            BY <1>4, <2>2, <3>1, Zenon
    <2> QED
        BY <1>5, <2>3 DEF Standing
<1>7. Len(s.taken) \in Nat /\ Len(s.taken) = needed
    BY <1>1, <1>6
<1> QED
    BY <1>4, <1>7

(* A replay follows the path of its draw to the same end.                    *)
LEMMA ReplayingStep ==
    ASSUME IInv, Kept, Drawing, Replaying, [Next]_vars
    PROVE  Replaying'
<1> DEFINE ws == words[GenuineContext]
<1>types. TypeOK /\ PoolIsPermutation
    BY DEF IInv
<1>0. /\ words \in [Seeds \X (SUBSET Ids) -> Seq(0..(Word - 1))]
      /\ Seq(0..(Word - 1)) \subseteq Seq(Nat)
    <2>1. 0..(Word - 1) \subseteq Nat
        BY ConstantsAssumption
    <2>2. \A S, T : S \subseteq T => Seq(S) \subseteq Seq(T)
        OBVIOUS
    <2> QED
        BY <1>types, <2>1, <2>2, Zenon DEF TypeOK
<1>1. CASE ExecuteDraw
    <2>1. stage' \in {"drawing", "refused"}
        BY <1>1 DEF ExecuteDraw, Execute
    <2> QED
        BY <2>1 DEF Replaying, ReplayReproduces
<1>2. CASE SampleUnbiasedIndex \/ SampleOnlyIndex
    <2>1. /\ UNCHANGED <<stage, snapshot, counts, seed, record, genuine, verdict>>
          /\ Shuffling /\ MoreRounds
        BY <1>2 DEF SampleUnbiasedIndex, SampleOnlyIndex
    <2>2. CASE ~(stage = "replaying" /\ Untouched)
        <3>1. /\ stage' \notin {"drawn", "toVerify", "checked"}
              /\ ~(stage' = "replaying" /\ Untouched')
            BY <2>1, <2>2 DEF Shuffling, Untouched
        <3> QED
            BY <3>1 DEF Replaying, ReplayReproduces
    <2>3. CASE stage = "replaying" /\ Untouched
        <3>1. Context = GenuineContext
              /\ Needed = Len(genuine.record.winnerIds) + Len(genuine.record.reserveWinnerIds)
            BY <1>types, <2>3, SameDraw
        <3>2. PICK run : /\ LeadsTo(run, ws, genuine.snapshot, genuine.record)
                         /\ counter <= Len(ws)
                         /\ Standing(run[counter], pool, taken)
            BY <2>3 DEF Replaying
        <3>3. GenuineContext' = GenuineContext /\ genuine' = genuine /\ stage' = "replaying"
              /\ (ReplayReproduces)'
            BY <2>1, <2>3 DEF GenuineContext, ReplayReproduces
        <3>4. ws \in Seq(Nat)
            <4>1. GenuineContext \in Seeds \X (SUBSET Ids)
                BY <1>types, <3>1 DEF Context, TypeOK, Snapshots
            <4> QED
                BY <1>0, <4>1
        <3>5. counter \in Nat /\ Len(ws) \in Nat
            BY <1>types, <3>4 DEF TypeOK
        <3>6. ASSUME UNCHANGED words, counter' <= Len(ws),
                     Standing(run[counter'], pool', taken')
              PROVE  Replaying'
            <4>1. ws' = ws
                BY <3>3, <3>6
            <4> QED
                BY <3>2, <3>3, <3>6, <4>1 DEF Replaying
        <3> DEFINE s == run[counter]
        <3> HIDE DEF s, ws
        <3>7. Standing(s, pool, taken)
            BY <3>2 DEF s
        <3>8. CASE SampleUnbiasedIndex
            <4>1. PICK raw \in 0..(Word - 1) :
                    /\ \/ /\ counter < Len(ws)
                          /\ raw = ws[counter + 1]
                          /\ UNCHANGED words
                       \/ counter = Len(ws)
                    /\ \/ raw < MaxValid(Remaining) /\ Take(raw % Remaining)
                       \/ raw >= MaxValid(Remaining) /\ UNCHANGED <<pool, taken>>
                BY <3>1, <3>8 DEF SampleUnbiasedIndex, ws
            <4>2. Remaining > 1 /\ counter' = counter + 1
                BY <3>8 DEF SampleUnbiasedIndex
            <4>3. counter # Len(ws)
                <5>1. SUFFICES ASSUME counter = Len(ws) PROVE FALSE
                    OBVIOUS
                <5>2. Len(s.taken) = Needed \/ Len(s.pool) - Len(s.taken) = 1
                    BY <3>1, <3>2, <5>1 DEF LeadsTo, s
                <5> QED
                    BY <1>types, <2>1, <3>7, <4>2, <5>2, WordLeft
            <4>4. counter < Len(ws) /\ raw = ws[counter + 1] /\ UNCHANGED words
                BY <4>1, <4>3
            <4>5. Standing(Turn(s, raw), pool', taken')
                BY <1>types, <2>1, <3>7, <4>1, <4>2, WordStep
            <4>6. run[counter + 1] = Turn(s, raw)
                <5>1. counter + 1 \in 1..Len(ws) /\ (counter + 1) - 1 = counter
                    BY <3>5, <4>4
                <5> QED
                    BY <3>2, <4>4, <5>1 DEF LeadsTo, Path, s
            <4>7. counter' <= Len(ws)
                BY <3>5, <4>2, <4>4
            <4> QED
                BY <3>6, <4>2, <4>4, <4>5, <4>6, <4>7
        <3>9. CASE SampleOnlyIndex
            <4>1. Remaining = 1 /\ Take(0) /\ UNCHANGED <<counter, words>>
                BY <3>9 DEF SampleOnlyIndex
            <4>2. Standing(s, pool', taken')
                BY <1>types, <2>1, <3>7, <4>1, OnlyStep
            <4> QED
                BY <3>2, <3>6, <4>1, <4>2 DEF s
        <3> QED
            BY <1>2, <3>8, <3>9
    <2> QED
        BY <2>2, <2>3
<1>3. CASE FinishDraw
    <2>1. PICK event \in Events :
            record' = [winners |-> Winners, reserveWinners |-> Reserve,
                       winnerIds |-> Winners, reserveWinnerIds |-> Reserve,
                       seed |-> seed, event |-> event,
                       algorithmVersion |-> ALGORITHM_VERSION_V1, proof |-> Proof,
                       audit |-> ComputeAuditEventHash(event, Proof)]
        BY <1>3 DEF FinishDraw, DrawResult
    <2>2. /\ stage = "drawing" /\ stage' = "drawn" /\ ~MoreRounds
          /\ genuine' = [snapshot |-> snapshot, record |-> record']
          /\ UNCHANGED <<snapshot, counts, seed, pool, taken, counter, words, verdict>>
        BY <1>3 DEF FinishDraw
    <2>3. /\ pool \in Seq(Ids) /\ taken \in Seq(Nat) /\ IsInjective(pool)
          /\ counts \in Nat \X Nat /\ Len(taken) <= Needed /\ Needed <= Len(pool)
        BY <1>types, <2>2 DEF TypeOK, Shuffling, PoolIsPermutation
    <2>4. Len(Winners) = counts[1] /\ Len(Reserve) = counts[2]
        BY <2>3, PrefixDelivers DEF Winners, Reserve, Needed
    <2>5. Needed \in Nat /\ Len(taken) = Needed
        BY <2>2, <2>3 DEF MoreRounds, Needed
    <2>6. PICK run : /\ Path(run, snapshot.rows, words[Context], Needed)
                     /\ Standing(run[Len(words[Context])], pool, taken)
        BY <2>2 DEF Drawing
    <2>7. GenuineContext' = Context /\ words' = words
        BY <2>1, <2>2 DEF GenuineContext, Context
    <2> DEFINE last == run[Len(words[Context])]
    <2>8. pool = last.pool /\ (Len(last.taken) = Needed \/ Len(last.pool) - Len(last.taken) = 1)
        BY <2>5, <2>6 DEF Standing
    <2>9. LeadsTo(run, words[Context], snapshot, record')
        <3>1. /\ record'.winnerIds = SubSeq(pool, 1, counts[1])
              /\ record'.reserveWinnerIds = SubSeq(pool, counts[1] + 1, Needed)
              /\ Len(record'.winnerIds) = counts[1]
              /\ Len(record'.winnerIds) + Len(record'.reserveWinnerIds) = Needed
            BY <2>1, <2>4 DEF Winners, Reserve, Needed
        <3> QED
            BY <2>6, <2>8, <3>1 DEF LeadsTo
    <2> QED
        BY <2>2, <2>7, <2>9 DEF Replaying, ReplayReproduces
<1>4. CASE ReadBack
    <2>1. /\ stage = "drawn" /\ stage' = "toVerify" /\ UNCHANGED <<words, genuine>>
        BY <1>4 DEF ReadBack
    <2> QED
        BY <2>1 DEF Replaying, ReplayReproduces, GenuineContext
<1>5. CASE VerifyDrawResult
    <2>1. /\ stage = "toVerify" /\ UNCHANGED <<snapshot, words, record, genuine>>
          /\ counts' = <<Len(record.winners), Len(record.reserveWinners)>>
          /\ seed' = record.seed
        BY <1>5 DEF VerifyDrawResult, ClaimedCounts
    <2>2. /\ genuine \in [snapshot : Snapshots, record : Records] /\ snapshot \in Snapshots
          /\ record \in Records /\ Sealed(genuine.snapshot, genuine.record)
        BY <1>types, <2>1 DEF Kept, Stored, TypeOK
    <2>3. Untouched' <=> Untouched
        BY <2>1 DEF Untouched
    <2>4. CASE Execute("replaying") /\ UNCHANGED verdict
        <3>1. stage' = "replaying" /\ pool' = CanonicalSort(snapshot.rows) /\ taken' = <<>>
              /\ counter' = 0
            BY <2>4 DEF Execute
        <3>2. ASSUME Untouched
              PROVE  \E run : /\ LeadsTo(run, ws, genuine.snapshot, genuine.record)
                              /\ counter' <= Len(ws)
                              /\ Standing(run[counter'], pool', taken')
            <4>1. PICK run : LeadsTo(run, ws, genuine.snapshot, genuine.record)
                BY <2>1 DEF Replaying
            <4>2. run[0] = [pool |-> CanonicalSort(genuine.snapshot.rows), taken |-> <<>>]
                BY <4>1 DEF LeadsTo, Path
            <4>3. CanonicalSort(snapshot.rows) = CanonicalSort(genuine.snapshot.rows)
                BY <2>2, <3>2, UntouchedMeans
            <4>4. Standing(run[0], pool', taken')
                BY <3>1, <4>2, <4>3 DEF Standing
            <4>5. ws \in Seq(Nat)
                <5>1. GenuineContext \in Seeds \X (SUBSET Ids)
                    BY <2>2 DEF GenuineContext, Snapshots, Records
                <5> QED
                    BY <1>0, <5>1
            <4>6. counter' <= Len(ws)
                BY <3>1, <4>5
            <4> QED
                BY <3>1, <4>1, <4>4, <4>6
        <3>3. ws' = ws /\ genuine' = genuine
            BY <2>1 DEF GenuineContext
        <3> HIDE DEF ws
        <3> QED
            BY <2>3, <3>1, <3>2, <3>3 DEF Replaying, ReplayReproduces, ws
    <2>5. CASE Refused(Len(record.winners), Len(record.reserveWinners)) /\ stage' = "checked"
        <3>1. ~Untouched
            <4>1. SUFFICES ASSUME Untouched PROVE FALSE
                OBVIOUS
            <4>2. Agree(record, genuine.record) /\ Len(snapshot.rows) = Len(genuine.snapshot.rows)
                BY <2>2, <4>1, UntouchedMeans
            <4>3. /\ Len(snapshot.rows) \in Nat
                  /\ Len(record.winners) \in Nat /\ Len(record.reserveWinners) \in Nat
                <5>1. snapshot.rows \in Arrays /\ record \in Records
                    BY <2>2 DEF Snapshots
                <5> QED
                    BY <5>1, ArrayShape DEF Records
            <4>4. /\ Len(snapshot.rows) > 0
                  /\ Len(record.winners) + Len(record.reserveWinners) <= Len(snapshot.rows)
                BY <2>2, <4>2, Zenon DEF Sealed, Agree
            <4>5. \A w, r, n \in Nat : n > 0 /\ w + r <= n => ~(n = 0 \/ w + r > n)
                OBVIOUS
            <4> QED
                BY <2>5, <4>3, <4>4, <4>5, Zenon DEF Refused
        <3> QED
            BY <2>3, <2>5, <3>1 DEF Replaying, ReplayReproduces
    <2> QED
        BY <1>5, <2>4, <2>5 DEF VerifyDrawResult, ClaimedCounts
<1>6. CASE FinishReplay
    <2>1. /\ stage = "replaying" /\ stage' = "checked" /\ ~MoreRounds
          /\ UNCHANGED <<snapshot, counts, seed, pool, taken, counter, words, record, genuine>>
          /\ verdict' = /\ record.algorithmVersion = ALGORITHM_VERSION_V1
                        /\ SnapshotIntegrity
                        /\ Winners = record.winnerIds
                        /\ Reserve = record.reserveWinnerIds
                        /\ Proof = record.proof
                        /\ ComputeAuditEventHash(record.event, Proof) = record.audit
        BY <1>6 DEF FinishReplay
    <2>2. ASSUME Untouched
          PROVE  /\ record.algorithmVersion = ALGORITHM_VERSION_V1 /\ SnapshotIntegrity
                 /\ Winners = record.winnerIds /\ Reserve = record.reserveWinnerIds
                 /\ Proof = record.proof
                 /\ ComputeAuditEventHash(record.event, Proof) = record.audit
        <3> DEFINE gs == genuine.snapshot
                   gr == genuine.record
        <3>1. /\ genuine \in [snapshot : Snapshots, record : Records] /\ snapshot \in Snapshots
              /\ Hashed(gs) /\ Sealed(gs, gr) /\ record \in Records
            BY <1>types, <2>1 DEF Kept, Stored, TypeOK
        <3>2. /\ Agree(record, gr) /\ snapshot.hash = gs.hash /\ snapshot.rules = gs.rules
              /\ snapshot.conditions = gs.conditions
              /\ Range(snapshot.rows) = Range(gs.rows) /\ Len(snapshot.rows) = Len(gs.rows)
            BY <2>2, <3>1, UntouchedMeans
        <3>3. /\ seed = gr.seed /\ counts[1] = Len(gr.winnerIds)
              /\ Needed = Len(gr.winnerIds) + Len(gr.reserveWinnerIds)
            BY <1>types, <2>1, <2>2, SameDraw
        <3>4. PICK run : /\ LeadsTo(run, ws, gs, gr)
                         /\ counter <= Len(ws)
                         /\ Standing(run[counter], pool, taken)
            BY <2>1, <2>2 DEF Replaying
        <3>5. ws \in Seq(Nat)
            <4>1. GenuineContext \in Seeds \X (SUBSET Ids)
                BY <3>1 DEF GenuineContext, Snapshots, Records
            <4> QED
                BY <1>0, <4>1
        <3>6. Needed \in Nat /\ Len(taken) = Needed
            <4>1. /\ counts \in Nat \X Nat /\ taken \in Seq(Nat) /\ Len(taken) <= Needed
                BY <1>types, <2>1 DEF TypeOK, Shuffling
            <4> QED
                BY <2>1, <4>1 DEF MoreRounds, Needed
        <3>7. Path(run, gs.rows, ws, Needed)
            BY <3>3, <3>4 DEF LeadsTo
        <3> HIDE DEF ws, gs, gr
        <3>8. counter = Len(ws)
            BY <1>types, <3>4, <3>5, <3>6, <3>7, WordsUsedUp
        <3>9. pool = run[Len(ws)].pool
            BY <3>4, <3>8 DEF Standing
        <3>10. Winners = gr.winnerIds /\ Reserve = gr.reserveWinnerIds
            BY <3>3, <3>4, <3>9 DEF LeadsTo, Winners, Reserve
        <3>11. Proof = gr.proof
            BY <3>1, <3>2, <3>3, <3>10 DEF Proof, Sealed, ComputeDeterministicProofHash
        <3>12. SnapshotIntegrity
            BY <3>1, <3>2 DEF SnapshotIntegrity, Hashed, ComputeParticipantsSnapshotHash,
                ComputeConditionsHash
        <3> QED
            BY <3>1, <3>2, <3>10, <3>11, <3>12 DEF Sealed, Agree
    <2>3. Untouched' => verdict' = TRUE
        BY <2>1, <2>2 DEF Untouched
    <2> QED
        BY <2>1, <2>3 DEF Replaying, ReplayReproduces
<1>7. CASE UNCHANGED vars
    BY <1>7 DEF vars, Replaying, ReplayReproduces, Untouched, GenuineContext
<1> QED
    BY <1>1, <1>2, <1>3, <1>4, <1>5, <1>6, <1>7 DEF Next

(* What the draw stored, the words that led to it and the replay's place among *)
(* them are known in every reachable state.                                    *)
LEMMA History == Spec => []HistoryInv
<1>1. Init => HistoryInv
    <2> SUFFICES ASSUME Init PROVE HistoryInv
        OBVIOUS
    <2>1. /\ stage = "toDraw" /\ verdict = None /\ verdict # TRUE
          /\ words = [c \in Seeds \X (SUBSET Ids) |-> <<>>] /\ Hashed(snapshot)
        <3>1. PICK rows \in Arrays, rules \in Rules :
                snapshot = [rows |-> rows, hash |-> ComputeParticipantsSnapshotHash(rows),
                            rules |-> rules, conditions |-> ComputeConditionsHash(rules)]
            BY DEF Init
        <3>2. Hashed(snapshot)
            BY <3>1 DEF Hashed
        <3> QED
            BY <3>2, ConstantsAssumption DEF Init
    <2>2. Context \in Seeds \X (SUBSET Ids)
        BY ArrayShape DEF Init, Context, ComputeParticipantsSnapshotHash
    <2> QED
        BY <2>1, <2>2 DEF HistoryInv, Kept, Stored, Drawing, Replaying, ReplayReproduces
<1>2. IInv /\ HistoryInv /\ [Next]_vars => HistoryInv'
    BY KeptStep, DrawingStep, ReplayingStep DEF HistoryInv
<1> QED
    BY <1>1, <1>2, Invariance, PTL DEF Spec

(* A stored draw verifies, in whatever order the store returns its rows and  *)
(* whomever its JSON lists name by then: the replay takes the words of the   *)
(* draw, turn by turn, and ends where it did (verifyDrawResult).             *)
THEOREM ReplayVerifies == Spec => []ReplayReproduces
<1>1. HistoryInv => ReplayReproduces
    BY DEF HistoryInv, Replaying
<1> QED
    BY <1>1, History, PTL

(* Nothing else verifies: one change to rows, rules, seed, winners' ids, the *)
(* number of winners in the JSON lists, the division into winners and        *)
(* reserve, event, version or a hash breaks a comparison (verifyDrawResult). *)
THEOREM ChangesShow == Spec => []ChangesAreNoticed
<1>1. HistoryInv => ChangesAreNoticed
    BY DEF HistoryInv, Kept, ChangesAreNoticed
<1> QED
    BY <1>1, History, PTL

-----------------------------------------------------------------------------
(* What the order of the rows tells of the offsets. *)

(* A set of numbers has a least one: the order of Nat is well-founded.       *)
LEMMA LeastNumber ==
    ASSUME NEW T, T \subseteq Nat, T # {}
    PROVE  \E n \in T : \A m \in T : n <= m
<1> DEFINE R == OpToRel(<, Nat)
<1>1. IsWellFoundedOn(R, Nat)
    BY NatLessThanWellFounded
<1>2. \A x, y \in Nat : <<y, x>> \in R <=> y < x
    BY DEF OpToRel
<1> HIDE DEF R
<1>3. PICK x \in T : \A y \in T : ~ (<<y, x>> \in R)
    BY <1>1, WFMin
<1>4. \A y \in T : ~ (y < x)
    BY <1>2, <1>3
<1> QED
    BY <1>3, <1>4

(* Induction, for what a set of numbers can say.                             *)
LEMMA Induction ==
    ASSUME NEW T, 0 \in T, \A n \in Nat : n \in T => n + 1 \in T
    PROVE  Nat \subseteq T
<1>1. SUFFICES ASSUME Nat \ T # {} PROVE FALSE
    OBVIOUS
<1>2. PICK n \in Nat \ T : \A m \in Nat \ T : n <= m
    BY <1>1, LeastNumber
<1>3. n # 0 /\ n - 1 \in Nat
    BY <1>2
<1>4. n - 1 \in T
    BY <1>2, <1>3
<1> QED
    BY <1>3, <1>4, <1>2

(* after[i] is the array after i rounds with the offsets.                    *)
Rounds(after, rows, offsets) ==
    /\ after[0] = rows
    /\ \A i \in 1..Len(offsets) :
        after[i] = SwapInPlace(after[i - 1], i, Pick(i, offsets[i]))

(* Every offset leads to a place that is not decided yet.                    *)
InPlace(offsets, n) == \A i \in 1..Len(offsets) : offsets[i] \in 0..(n - i)

RoundsOf(f, rows, offsets, n) ==
    f = [i \in 0..n |-> IF i = 0 THEN rows ELSE SwapInPlace(f[i - 1], i, Pick(i, offsets[i]))]

LEMMA RoundsExist ==
    ASSUME NEW rows, NEW offsets, NEW n \in Nat
    PROVE  \E f : RoundsOf(f, rows, offsets, n)
<1> DEFINE T == {k \in Nat : \E f : RoundsOf(f, rows, offsets, k)}
           next(f, i) == SwapInPlace(f, i, Pick(i, offsets[i]))
<1>1. 0 \in T
    <2>1. RoundsOf([i \in 0..0 |-> rows], rows, offsets, 0)
        BY DEF RoundsOf
    <2> QED
        BY <2>1
<1>2. ASSUME NEW k \in Nat, k \in T PROVE k + 1 \in T
    <2>1. PICK f : RoundsOf(f, rows, offsets, k)
        BY <1>2
    <2> HIDE DEF next
    <2>2. f = [i \in 0..k |-> IF i = 0 THEN rows ELSE next(f[i - 1], i)]
        BY <2>1 DEF RoundsOf, next
    <2> DEFINE g == [i \in 0..(k + 1) |-> IF i = k + 1 THEN next(f[k], k + 1) ELSE f[i]]
    <2>3. ASSUME NEW i \in 0..(k + 1)
          PROVE  g[i] = IF i = 0 THEN rows ELSE next(g[i - 1], i)
        <3>1. CASE i = k + 1
            <4>1. i # 0 /\ i - 1 = k /\ k \in 0..(k + 1) /\ k # k + 1
                BY <3>1
            <4> QED
                BY <3>1, <4>1
        <3>2. CASE i \in 0..k
            <4>1. i # k + 1 /\ (i # 0 => i - 1 \in 0..(k + 1) /\ i - 1 # k + 1)
                BY <3>2
            <4>2. g[i] = f[i] /\ (i # 0 => g[i - 1] = f[i - 1])
                BY <4>1
            <4>3. f[i] = IF i = 0 THEN rows ELSE next(f[i - 1], i)
                BY <2>2, <3>2
            <4> QED
                BY <4>2, <4>3
        <3> QED
            BY <3>1, <3>2
    <2>4. g = [i \in 0..(k + 1) |-> g[i]]
        OBVIOUS
    <2> HIDE DEF g
    <2>5. g = [i \in 0..(k + 1) |-> IF i = 0 THEN rows ELSE next(g[i - 1], i)]
        BY <2>3, <2>4
    <2>6. RoundsOf(g, rows, offsets, k + 1)
        BY <2>5 DEF RoundsOf, next
    <2> QED
        BY <2>6
<1> HIDE DEF T
<1>3. Nat \subseteq T
    BY <1>1, <1>2, Induction
<1> QED
    BY <1>3 DEF T

(* Shuffled is the array after the last round.                               *)
LEMMA ShuffledRounds ==
    ASSUME NEW rows, NEW offsets, Len(offsets) \in Nat
    PROVE  \E after : /\ Rounds(after, rows, offsets)
                      /\ Shuffled(rows, offsets) = after[Len(offsets)]
<1> DEFINE n == Len(offsets)
           f == CHOOSE f : RoundsOf(f, rows, offsets, n)
<1>1. RoundsOf(f, rows, offsets, n)
    BY RoundsExist
<1>2. Shuffled(rows, offsets) = f[n]
    BY DEF Shuffled, RoundsOf
<1> HIDE DEF f
<1>3. f[0] = rows
    BY <1>1 DEF RoundsOf
<1>4. \A i \in 1..n : f[i] = SwapInPlace(f[i - 1], i, Pick(i, offsets[i]))
    <2> SUFFICES ASSUME NEW i \in 1..n PROVE f[i] = SwapInPlace(f[i - 1], i, Pick(i, offsets[i]))
        OBVIOUS
    <2>1. i \in 0..n /\ i # 0
        OBVIOUS
    <2> HIDE DEF n
    <2> QED
        BY <1>1, <2>1 DEF RoundsOf
<1> QED
    BY <1>2, <1>3, <1>4 DEF Rounds

(* All along, the array holds the same rows.                                 *)
LEMMA RoundsPermute ==
    ASSUME NEW rows \in Seq(Ids), IsInjective(rows), NEW offsets, Len(offsets) \in Nat,
           Len(offsets) <= Len(rows), InPlace(offsets, Len(rows)),
           NEW after, Rounds(after, rows, offsets)
    PROVE  \A i \in 0..Len(offsets) :
                after[i] \in Seq(Ids) /\ IsInjective(after[i]) /\ Len(after[i]) = Len(rows)
<1> DEFINE n == Len(offsets)
           Good(i) == /\ after[i] \in Seq(Ids) /\ IsInjective(after[i])
                      /\ Len(after[i]) = Len(rows)
           T == {i \in Nat : i <= n => Good(i)}
<1>1. 0 \in T
    BY DEF Rounds
<1>2. ASSUME NEW i \in Nat, i \in T PROVE i + 1 \in T
    <2> SUFFICES ASSUME i + 1 <= n PROVE Good(i + 1)
        OBVIOUS
    <2>1. Good(i)
        BY <1>2
    <2>2. i + 1 \in 1..Len(offsets) /\ (i + 1) - 1 = i
        OBVIOUS
    <2>3. offsets[i + 1] \in 0..(Len(rows) - (i + 1))
        BY <2>2 DEF InPlace
    <2>4. Len(rows) \in Nat
        OBVIOUS
    <2>5. i + 1 \in 1..Len(after[i]) /\ Pick(i + 1, offsets[i + 1]) \in 1..Len(after[i])
        BY <2>1, <2>2, <2>3, <2>4 DEF Pick
    <2>6. after[i + 1] = SwapInPlace(after[i], i + 1, Pick(i + 1, offsets[i + 1]))
        BY <2>2 DEF Rounds
    <2> QED
        BY <2>1, <2>5, <2>6, SwapPermutes
<1> HIDE DEF T
<1>3. Nat \subseteq T
    BY <1>1, <1>2, Induction
<1> QED
    BY <1>3 DEF T

(* A round decides its own place for good.                                   *)
LEMMA RoundsDecide ==
    ASSUME NEW rows \in Seq(Ids), IsInjective(rows), NEW offsets, Len(offsets) \in Nat,
           Len(offsets) <= Len(rows), InPlace(offsets, Len(rows)),
           NEW after, Rounds(after, rows, offsets), NEW i \in 1..Len(offsets)
    PROVE  after[Len(offsets)][i] = after[i - 1][i + offsets[i]]
<1> DEFINE n == Len(offsets)
           T == {j \in Nat : i <= j /\ j <= n => after[j][i] = after[i - 1][i + offsets[i]]}
<1>0. \A j \in 0..n : /\ after[j] \in Seq(Ids) /\ IsInjective(after[j])
                      /\ Len(after[j]) = Len(rows) /\ Len(rows) \in Nat
    BY RoundsPermute
<1>1. 0 \in T
    OBVIOUS
<1>2. ASSUME NEW j \in Nat, j \in T PROVE j + 1 \in T
    <2> SUFFICES ASSUME i <= j + 1, j + 1 <= n
                 PROVE  after[j + 1][i] = after[i - 1][i + offsets[i]]
        OBVIOUS
    <2> DEFINE o == offsets[j + 1]
               p == after[j]
    <2>1. j + 1 \in 1..Len(offsets) /\ (j + 1) - 1 = j /\ j \in 0..n
        OBVIOUS
    <2>2. o \in 0..(Len(rows) - (j + 1))
        BY <2>1 DEF InPlace
    <2>3. after[j + 1] = SwapInPlace(p, j + 1, Pick(j + 1, o))
        BY <2>1 DEF Rounds
    <2>4. p \in Seq(Ids) /\ Len(p) = Len(rows) /\ Len(rows) \in Nat
        BY <1>0, <2>1
    <2> HIDE DEF o, p
    <2>5. i \in 1..Len(p) /\ j + 1 \in 1..Len(p) /\ (j + 1) + o \in 1..Len(p) /\ o \in Nat
        BY <2>1, <2>2, <2>4
    <2>6. after[j + 1][i] = IF i = (j + 1) + o THEN p[j + 1]
                            ELSE IF i = j + 1 THEN p[(j + 1) + o] ELSE p[i]
        BY <2>3, <2>4, <2>5 DEF SwapInPlace, Pick
    <2>7. CASE i = j + 1
        <3>1. after[j + 1][i] = p[(j + 1) + o]
            BY <2>5, <2>6, <2>7
        <3> QED
            BY <2>1, <2>7, <3>1 DEF p, o
    <2>8. CASE i < j + 1
        <3>1. after[j + 1][i] = p[i]
            BY <2>5, <2>6, <2>8
        <3>2. i <= j /\ j <= n
            BY <2>1, <2>8
        <3> QED
            BY <1>2, <3>1, <3>2 DEF p
    <2> QED
        BY <2>7, <2>8
<1> HIDE DEF T
<1>3. Nat \subseteq T
    BY <1>1, <1>2, Induction
<1> QED
    BY <1>3 DEF T

(* The first places of the shuffled array tell the offsets.                  *)
LEMMA OrderTellsOffsets ==
    ASSUME NEW rows \in Seq(Ids), IsInjective(rows), NEW k \in Nat, k <= Len(rows),
           NEW v, NEW w, Len(v) = k, Len(w) = k,
           InPlace(v, Len(rows)), InPlace(w, Len(rows)),
           NEW a, NEW b, Rounds(a, rows, v), Rounds(b, rows, w),
           \A i \in 1..k : a[k][i] = b[k][i]
    PROVE  \A i \in 1..k : v[i] = w[i]
<1> DEFINE T == {i \in Nat : i <= k => a[i] = b[i] /\ \A j \in 1..i : v[j] = w[j]}
<1>1. 0 \in T
    BY DEF Rounds
<1>2. ASSUME NEW i \in Nat, i \in T PROVE i + 1 \in T
    <2> SUFFICES ASSUME i + 1 <= k
                 PROVE  a[i + 1] = b[i + 1] /\ \A j \in 1..(i + 1) : v[j] = w[j]
        OBVIOUS
    <2> DEFINE m == i + 1
               p == a[i]
    <2>1. m \in 1..k /\ m - 1 = i /\ i \in 0..k /\ i <= k
        OBVIOUS
    <2>2. a[i] = b[i] /\ \A j \in 1..i : v[j] = w[j]
        BY <1>2, <2>1
    <2>3. p \in Seq(Ids) /\ IsInjective(p) /\ Len(p) = Len(rows) /\ Len(rows) \in Nat
        BY <2>1, RoundsPermute
    <2>4. v[m] \in 0..(Len(rows) - m) /\ w[m] \in 0..(Len(rows) - m)
        BY <2>1 DEF InPlace
    <2>5. a[k][m] = p[m + v[m]] /\ b[k][m] = p[m + w[m]]
        <3>1. a[k][m] = a[m - 1][m + v[m]]
            BY <2>1, RoundsDecide
        <3>2. b[k][m] = b[m - 1][m + w[m]]
            BY <2>1, RoundsDecide
        <3> QED
            BY <2>1, <2>2, <3>1, <3>2
    <2>6. p[m + v[m]] = p[m + w[m]]
        BY <2>1, <2>5
    <2> HIDE DEF p
    <2>7. m + v[m] \in 1..Len(p) /\ m + w[m] \in 1..Len(p)
        BY <2>1, <2>3, <2>4
    <2>8. m + v[m] = m + w[m]
        BY <2>3, <2>6, <2>7 DEF IsInjective
    <2>9. v[m] = w[m]
        BY <2>1, <2>4, <2>8
    <2>10. a[m] = b[m]
        <3>1. a[m] = SwapInPlace(a[m - 1], m, Pick(m, v[m]))
            BY <2>1 DEF Rounds
        <3>2. b[m] = SwapInPlace(b[m - 1], m, Pick(m, w[m]))
            BY <2>1 DEF Rounds
        <3> QED
            BY <2>1, <2>2, <2>9, <3>1, <3>2
    <2>11. \A j \in 1..m : j \in 1..i \/ j = m
        OBVIOUS
    <2> QED
        BY <2>2, <2>9, <2>10, <2>11
<1> HIDE DEF T
<1>3. Nat \subseteq T
    BY <1>1, <1>2, Induction
<1> QED
    BY <1>3 DEF T

(* The array is what the offsets taken so far made of the sorted rows.       *)
Shuffle ==
    stage \notin {"toDraw", "refused"} =>
        /\ pool \in Arrays
        /\ Len(taken) <= Len(pool)
        /\ InPlace(taken, Len(pool))
        /\ \E after : Rounds(after, CanonicalSort(pool), taken) /\ after[Len(taken)] = pool

(* An array with the same rows is sorted to the same.                        *)
LEMMA SameRows ==
    ASSUME NEW p \in Arrays, NEW q \in Seq(Ids), IsInjective(q), Range(q) = Range(p),
           Len(q) = Len(p)
    PROVE  q \in Arrays /\ CanonicalSort(q) = CanonicalSort(p)
<1>1. PICK S \in SUBSET Ids : p \in Injection(1..Cardinality(S), S)
    BY DEF Arrays
<1>2. Cardinality(S) \in Nat
    BY <1>1, ConstantsAssumption, FS_Subset, FS_CardinalityType
<1>3. p \in [1..Cardinality(S) -> S] /\ Len(p) = Cardinality(S) /\ Range(p) \subseteq S
    BY <1>1, <1>2 DEF Injection, Range
<1>4. q \in [1..Cardinality(S) -> S]
    <2>1. DOMAIN q = 1..Len(q) /\ \A i \in 1..Len(q) : q[i] \in Range(q)
        BY DEF Range
    <2>2. q = [i \in 1..Len(q) |-> q[i]]
        OBVIOUS
    <2> QED
        BY <1>3, <2>1, <2>2
<1>5. q \in Arrays
    BY <1>4 DEF Injection, Arrays
<1> QED
    BY <1>5, SortAssumption DEF CanonicalSort

(* An execution starts from the sorted rows.                                 *)
LEMMA ShuffleStarts ==
    ASSUME snapshot \in Snapshots, NEW next, Execute(next)
    PROVE  /\ pool' \in Arrays /\ Len(taken') <= Len(pool') /\ InPlace(taken', Len(pool'))
           /\ \E after : Rounds(after, CanonicalSort(pool'), taken')
                         /\ after[Len(taken')] = pool'
<1>1. snapshot.rows \in Arrays
    BY DEF Snapshots
<1>2. pool' = CanonicalSort(snapshot.rows) /\ taken' = <<>>
    BY DEF Execute
<1>3. pool' \in Arrays /\ CanonicalSort(pool') = pool' /\ Len(pool') \in Nat
    BY <1>1, <1>2, SortedShape, SameRows, ArrayShape
<1>4. Rounds([i \in {0} |-> pool'], pool', taken')
    BY <1>2 DEF Rounds
<1> QED
    BY <1>2, <1>3, <1>4 DEF InPlace

(* A round is one more of them.                                              *)
LEMMA ShuffleGoesOn ==
    ASSUME TypeOK, PoolIsPermutation, Shuffle, Shuffling, Remaining > 0,
           NEW o \in 0..(Remaining - 1), Take(o)
    PROVE  /\ pool' \in Arrays /\ Len(taken') <= Len(pool') /\ InPlace(taken', Len(pool'))
           /\ \E after : Rounds(after, CanonicalSort(pool'), taken')
                         /\ after[Len(taken')] = pool'
<1> DEFINE k == Len(taken)
           n == Len(pool)
<1>1. /\ pool \in Seq(Ids) /\ IsInjective(pool) /\ taken \in Seq(Nat)
      /\ k \in Nat /\ n \in Nat
    BY DEF TypeOK, PoolIsPermutation
<1>2. /\ pool \in Arrays /\ InPlace(taken, n)
      /\ \E after : Rounds(after, CanonicalSort(pool), taken) /\ after[k] = pool
    BY DEF Shuffle, Shuffling
<1>3. pool' = SwapInPlace(pool, k + 1, Pick(k + 1, o)) /\ taken' = Append(taken, o)
    BY DEF Take, Round
<1>4. o \in 0..(n - (k + 1)) /\ o \in Nat
    BY <1>1 DEF Remaining
<1>5. k + 1 \in 1..n /\ Pick(k + 1, o) \in 1..n
    BY <1>1, <1>4 DEF Pick
<1>6. /\ pool' \in Seq(Ids) /\ IsInjective(pool') /\ Range(pool') = Range(pool)
      /\ Len(pool') = n
    BY <1>1, <1>3, <1>5, SwapPermutes
<1>7. pool' \in Arrays /\ CanonicalSort(pool') = CanonicalSort(pool)
    BY <1>2, <1>6, SameRows
<1>8. Len(taken') = k + 1 /\ taken'[k + 1] = o /\ \A i \in 1..k : taken'[i] = taken[i]
    BY <1>1, <1>3, <1>4
<1> HIDE DEF k, n
<1>9. \A i \in 1..(k + 1) : i \in 1..k \/ i = k + 1
    BY <1>1
<1>10. InPlace(taken', n)
    BY <1>2, <1>4, <1>8, <1>9 DEF InPlace, k
<1>11. PICK after : Rounds(after, CanonicalSort(pool), taken) /\ after[k] = pool
    BY <1>2
<1> DEFINE new == [i \in 0..(k + 1) |-> IF i = k + 1 THEN pool' ELSE after[i]]
<1>12. new[k + 1] = pool' /\ \A i \in 0..k : new[i] = after[i]
    BY <1>1
<1> HIDE DEF new
<1>13. Rounds(new, CanonicalSort(pool'), taken')
    <2>1. new[0] = CanonicalSort(pool')
        BY <1>1, <1>7, <1>11, <1>12 DEF Rounds
    <2>2. ASSUME NEW i \in 1..(k + 1)
          PROVE  new[i] = SwapInPlace(new[i - 1], i, Pick(i, taken'[i]))
        <3>1. CASE i \in 1..k
            <4>1. new[i] = after[i] /\ new[i - 1] = after[i - 1] /\ taken'[i] = taken[i]
                BY <1>1, <1>8, <1>12, <3>1
            <4> QED
                BY <1>11, <3>1, <4>1 DEF Rounds, k
        <3>2. CASE i = k + 1
            <4>1. new[i] = pool' /\ new[i - 1] = pool /\ taken'[i] = o
                BY <1>1, <1>8, <1>11, <1>12, <3>2
            <4> QED
                BY <1>3, <3>2, <4>1
        <3> QED
            BY <1>9, <3>1, <3>2
    <2> QED
        BY <1>8, <2>1, <2>2 DEF Rounds
<1>14. Len(taken') <= Len(pool')
    BY <1>1, <1>5, <1>6, <1>8
<1> QED
    BY <1>6, <1>7, <1>8, <1>10, <1>12, <1>13, <1>14

LEMMA ShuffleStep ==
    ASSUME IInv, Shuffle, [Next]_vars
    PROVE  Shuffle'
<1>types. TypeOK /\ PoolIsPermutation /\ snapshot \in Snapshots
    BY DEF IInv, TypeOK
<1>1. CASE ExecuteDraw
    <2>1. Execute("drawing") \/ stage' = "refused"
        BY <1>1 DEF ExecuteDraw
    <2> QED
        BY <1>types, <2>1, ShuffleStarts DEF Shuffle
<1>2. CASE SampleUnbiasedIndex
    <2>1. PICK raw \in 0..(Word - 1) :
            Take(raw % Remaining) \/ UNCHANGED <<pool, taken>>
        BY <1>2 DEF SampleUnbiasedIndex
    <2>2. Shuffling /\ Remaining > 1 /\ UNCHANGED stage
        BY <1>2 DEF SampleUnbiasedIndex
    <2>3. raw \in Nat /\ Remaining \in Nat \ {0}
        BY <1>types, <2>2, ConstantsAssumption DEF Remaining, TypeOK
    <2>4. raw % Remaining \in 0..(Remaining - 1)
        BY <2>3, DivMod
    <2>5. Remaining > 0
        BY <2>3
    <2>6. CASE Take(raw % Remaining)
        <3> DEFINE o == raw % Remaining
        <3> HIDE DEF o
        <3>1. o \in 0..(Remaining - 1) /\ Take(o)
            BY <2>4, <2>6 DEF o
        <3> QED
            BY <1>types, <2>2, <2>5, <3>1, ShuffleGoesOn DEF Shuffle
    <2>7. CASE UNCHANGED <<pool, taken>>
        BY <2>2, <2>7 DEF Shuffle
    <2> QED
        BY <2>1, <2>6, <2>7
<1>3. CASE SampleOnlyIndex
    <2>1. Shuffling /\ Remaining = 1 /\ Take(0) /\ UNCHANGED stage
        BY <1>3 DEF SampleOnlyIndex
    <2>2. 0 \in 0..(Remaining - 1) /\ Remaining > 0
        BY <2>1
    <2> QED
        BY <1>types, <2>1, <2>2, ShuffleGoesOn DEF Shuffle
<1>4. CASE FinishDraw \/ ReadBack \/ FinishReplay
    <2>1. UNCHANGED <<pool, taken>> /\ stage \notin {"toDraw", "refused"}
        BY <1>4 DEF FinishDraw, ReadBack, FinishReplay
    <2> QED
        BY <2>1 DEF Shuffle
<1>5. CASE VerifyDrawResult
    <2>1. stage = "toVerify" /\ (Execute("replaying") \/ UNCHANGED <<pool, taken>>)
        BY <1>5 DEF VerifyDrawResult
    <2> QED
        BY <1>types, <2>1, ShuffleStarts DEF Shuffle
<1>6. CASE UNCHANGED vars
    BY <1>6 DEF vars, Shuffle
<1> QED
    BY <1>1, <1>2, <1>3, <1>4, <1>5, <1>6 DEF Next

(* No two ways to take the offsets lead to the same winners in the same      *)
(* order: with unbiased offsets all orders are equally likely, for any       *)
(* number of rows (the Fisher-Yates loop of executeDraw).                    *)
THEOREM OffsetsFollow == Spec => []OffsetsDetermined
<1>1. Init => Shuffle
    BY DEF Init, Shuffle
<1>2. IInv /\ Shuffle => OffsetsDetermined
    <2> DEFINE n == Len(pool)
               k == Len(taken)
               rows == CanonicalSort(pool)
    <2> SUFFICES ASSUME IInv, Shuffle, stage \in {"drawn", "checked"},
                        NEW v \in OffsetVectors(n, k),
                        SubSeq(Shuffled(rows, v), 1, k) = SubSeq(pool, 1, k)
                 PROVE  v = taken
        BY DEF OffsetsDetermined
    <2>1. /\ pool \in Arrays /\ taken \in Seq(Nat) /\ k \in Nat /\ n \in Nat /\ k <= n
          /\ InPlace(taken, n)
          /\ \E after : Rounds(after, rows, taken) /\ after[k] = pool
        BY ArrayShape DEF Shuffle, IInv, TypeOK
    <2>2. rows \in Seq(Ids) /\ IsInjective(rows) /\ Len(rows) = n
        BY <2>1, SortedShape
    <2>3. PICK b : Rounds(b, rows, taken) /\ b[k] = pool
        BY <2>1
    <2> HIDE DEF n, rows
    <2>4. v \in [1..k -> 0..(n - 1)] /\ \A i \in 1..k : v[i] <= n - i
        BY DEF OffsetVectors
    <2>5. Len(v) = k /\ InPlace(v, n)
        <3>1. v \in Seq(Nat) /\ Len(v) = k /\ \A i \in 1..k : v[i] \in Nat
            <4>1. 0..(n - 1) \subseteq Nat
                BY <2>1
            <4>2. \A i \in 1..k : v[i] \in Nat
                BY <2>4, <4>1
            <4>3. v \in [1..k -> Nat]
                BY <2>4, <4>2
            <4> HIDE DEF k
            <4> QED
                BY <2>1, <4>2, <4>3
        <3> QED
            BY <2>1, <2>4, <3>1 DEF InPlace
    <2>6. PICK a : Rounds(a, rows, v) /\ Shuffled(rows, v) = a[k]
        BY <2>1, <2>5, ShuffledRounds
    <2>7. a[k] \in Seq(Ids) /\ Len(a[k]) = n
        BY <2>1, <2>2, <2>5, <2>6, RoundsPermute
    <2>8. \A i \in 1..k : a[k][i] = b[k][i]
        <3>1. \A i \in 1..k : SubSeq(a[k], 1, k)[i] = a[k][i]
            BY <2>1, <2>7
        <3>2. pool \in Seq(Ids) /\ Len(pool) = n
            BY <2>1, ArrayShape DEF n
        <3>3. \A i \in 1..k : SubSeq(pool, 1, k)[i] = pool[i]
            BY <2>1, <3>2
        <3> QED
            BY <2>3, <2>6, <3>1, <3>3
    <2>9. \A i \in 1..k : v[i] = taken[i]
        <3>1. /\ k <= Len(rows) /\ Len(v) = k /\ Len(taken) = k
              /\ InPlace(v, Len(rows)) /\ InPlace(taken, Len(rows))
            BY <2>1, <2>2, <2>5
        <3> HIDE DEF k
        <3> QED
            BY <2>1, <2>2, <2>3, <2>6, <2>8, <3>1, OrderTellsOffsets
    <2> QED
        BY <2>1, <2>4, <2>9
<1>3. IInv /\ Shuffle /\ [Next]_vars => Shuffle'
    BY ShuffleStep
<1> QED
    BY <1>1, <1>2, <1>3, Invariance, PTL DEF Spec
===============================================================================

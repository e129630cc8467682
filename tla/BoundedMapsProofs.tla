--------------------------- MODULE BoundedMapsProofs --------------------------
(***************************************************************************)
(* Proofs about the two stores that live in a Map of bounded size: the     *)
(* limiter SlidingWindow, for any number of keys, any capacity, window and *)
(* quota, and the IdempotencyStore, for any number of keys, payloads and   *)
(* handlers, any capacity and TTL.  What is shared is that of the Map: its *)
(* keys are in the order of their insertion, and the oldest makes room.    *)
(***************************************************************************)
EXTENDS PreAuth, IdempotencyStore, FiniteSetTheorems, WellFoundedInduction, TLAPS

-----------------------------------------------------------------------------
(* The arithmetic of one bucket. *)

(* A set of numbers that is not empty has a least one. *)
LEMMA MinIsLeast ==
    ASSUME NEW S \in SUBSET Nat, S # {}
    PROVE  Min(S) \in S /\ \A x \in S : Min(S) <= x
<1>1. \E x \in S : \A y \in S : ~(<<y, x>> \in {ss \in Nat \X Nat : ss[1] < ss[2]})
    <2>1. IsWellFoundedOn({ss \in Nat \X Nat : ss[1] < ss[2]}, Nat)
        BY NatLessThanWellFounded DEF OpToRel
    <2> QED
        BY <2>1, WFMin
<1>2. \E x \in S : \A y \in S : x <= y
    <2>1. PICK x \in S : \A y \in S : ~(<<y, x>> \in {ss \in Nat \X Nat : ss[1] < ss[2]})
        BY <1>1
    <2>2. ASSUME NEW y \in S PROVE x <= y
        <3>1. ~(y < x)
            BY <2>1
        <3> QED
            BY <3>1
    <2> QED
        BY <2>1, <2>2
<1> QED
    BY <1>2 DEF Min

(* As time passes stamps only leave the window. *)
LEMMA WindowShrinks ==
    ASSUME NEW S \in SUBSET Stamps, NEW t \in Nat, NEW u \in Nat, t <= u
    PROVE  /\ InWindow(S, u) \subseteq InWindow(S, t)
           /\ InWindow(InWindow(S, t), u) = InWindow(S, u)
BY WindowAssumption DEF InWindow, Stamps

(* A part of a finite set is finite and no larger. *)
LEMMA FewerStamps ==
    ASSUME NEW S, IsFiniteSet(S), NEW T \in SUBSET S
    PROVE  /\ IsFiniteSet(T) /\ Cardinality(T) \in Nat /\ Cardinality(S) \in Nat
           /\ Cardinality(T) <= Cardinality(S)
           /\ S # T => Cardinality(T) < Cardinality(S)
BY FS_Subset, FS_CardinalityType

-----------------------------------------------------------------------------
(* What holds of every bucket at every moment. *)

Buckets == [timestamps : SUBSET Stamps, lastAccessed : 0..MaxNow]

Types ==
    /\ now \in 0..MaxNow
    /\ records \in [Keys -> Buckets \cup {None}]
    /\ granted \in [Keys -> SUBSET Stamps]
    /\ promised \in [Keys -> Nat \cup {None}]

Bucket(k) == Timestamps(records[k])

(* The bucket is within its quota. *)
WithinQuota ==
    \A k \in Keys :
        IsFiniteSet(Bucket(k)) /\ Cardinality(InWindow(Bucket(k), now)) <= MaxRequests

(* It remembers all that was let through in the window. *)
GrantsKept == \A k \in Keys : InWindow(granted[k], now) \subseteq Bucket(k)

(* And what it promised is when the answer changes. *)
Promises ==
    \A k \in Keys : promised[k] # None =>
        \A t \in Nat : t >= now =>
            /\ t >= promised[k] => Allowed(Bucket(k), t)
            /\ t < promised[k] /\ granted[k] # {} => ~Allowed(Bucket(k), t)

Inv == Types /\ WithinQuota /\ GrantsKept /\ Promises

(* Cleanup loses nothing that counts now or later. *)
LEMMA CleanupLosesNothing ==
    ASSUME Types, NEW k \in Keys
    PROVE  /\ Cleaned(k) \in Buckets \cup {None}
           /\ Timestamps(Cleaned(k)) \in SUBSET Stamps
           /\ Timestamps(Cleaned(k)) \subseteq Bucket(k)
           /\ \A t \in Nat : t >= now =>
                 InWindow(Timestamps(Cleaned(k)), t) = InWindow(Bucket(k), t)
<1> USE LimiterAssumption, WindowAssumption
<1>1. now \in Nat /\ records[k] \in Buckets \cup {None} /\ None \notin Buckets
    BY DEF Types, Buckets
<1>2. Bucket(k) \in SUBSET Stamps
    BY <1>1 DEF Bucket, Timestamps, Buckets
<1>3. CASE Cleaned(k) = records[k]
    BY <1>1, <1>2, <1>3 DEF Bucket
<1>4. CASE records[k] # None /\ Idle(records[k]) /\ Cleaned(k) = None
    <2>1. InWindow(Bucket(k), now) = {}
        BY <1>4 DEF Idle, Bucket, Timestamps
    <2>2. ASSUME NEW t \in Nat, t >= now PROVE InWindow(Bucket(k), t) = {}
        BY <1>1, <1>2, <2>1, <2>2, WindowShrinks
    <2>3. Timestamps(Cleaned(k)) = {}
        BY <1>4 DEF Timestamps
    <2>4. ASSUME NEW t \in Nat PROVE InWindow({}, t) = {}
        BY DEF InWindow
    <2> QED
        BY <1>4, <2>2, <2>3, <2>4
<1>5. CASE records[k] # None
           /\ Cleaned(k) = [timestamps |-> InWindow(records[k].timestamps, now),
                            lastAccessed |-> records[k].lastAccessed]
    <2>1. Cleaned(k) \in Buckets
        BY <1>1, <1>5 DEF Buckets, InWindow
    <2>2. Timestamps(Cleaned(k)) = InWindow(Bucket(k), now)
        BY <1>1, <1>5, <2>1 DEF Timestamps, Bucket
    <2>3. InWindow(Bucket(k), now) \subseteq Bucket(k)
        BY DEF InWindow
    <2> QED
        BY <1>1, <1>2, <2>1, <2>2, <2>3, WindowShrinks
<1> QED
    BY <1>3, <1>4, <1>5 DEF Cleaned, CleanedBucket

-----------------------------------------------------------------------------
(* One check of one bucket. *)

(* What is let through goes into the window, and there is room for it. *)
LEMMA CheckedStaysInQuota ==
    ASSUME NEW S \in SUBSET Stamps, IsFiniteSet(S), NEW t \in Nat,
           Cardinality(InWindow(S, t)) <= MaxRequests
    PROVE  /\ Checked(S, t) \in SUBSET Stamps
           /\ IsFiniteSet(Checked(S, t))
           /\ Cardinality(InWindow(Checked(S, t), t)) <= MaxRequests
<1> USE WindowAssumption
<1> DEFINE W == InWindow(S, t)
<1>1. W \in SUBSET S /\ IsFiniteSet(W) /\ Cardinality(W) \in Nat
    BY FewerStamps DEF InWindow
<1>2. {s \in S : s.at = t} \in SUBSET S
    OBVIOUS
<1>3. Stamp(S, t) \in Stamps
    BY <1>2, FewerStamps DEF Stamp, Stamps
<1>4. Checked(S, t) \in SUBSET Stamps /\ InWindow(Checked(S, t), t) \subseteq Checked(S, t)
    BY <1>1, <1>3 DEF Checked, InWindow
<1>5. IsFiniteSet(Checked(S, t)) /\ Cardinality(Checked(S, t)) <= MaxRequests
    <2>1. CASE Allowed(S, t)
        <3>1. Checked(S, t) = W \cup {Stamp(S, t)}
            BY <2>1 DEF Checked
        <3>2. Cardinality(W) < MaxRequests
            BY <2>1 DEF Allowed
        <3>3. /\ IsFiniteSet(W \cup {Stamp(S, t)})
              /\ Cardinality(W \cup {Stamp(S, t)}) =
                    IF Stamp(S, t) \in W THEN Cardinality(W) ELSE Cardinality(W) + 1
            BY <1>1, FS_AddElement
        <3> QED
            BY <1>1, <3>1, <3>2, <3>3
    <2>2. CASE ~Allowed(S, t)
        <3>1. Checked(S, t) = W
            BY <2>2 DEF Checked
        <3> QED
            BY <1>1, <3>1
    <2> QED
        BY <2>1, <2>2
<1>6. Cardinality(InWindow(Checked(S, t), t)) <= Cardinality(Checked(S, t))
      /\ Cardinality(InWindow(Checked(S, t), t)) \in Nat /\ Cardinality(Checked(S, t)) \in Nat
    BY <1>4, <1>5, FewerStamps
<1> QED
    BY <1>4, <1>5, <1>6

(* A refusal says when the oldest stamp leaves the window: until then all  *)
(* of them stay in it, from then on there is room.                         *)
LEMMA RefusalTellsWhen ==
    ASSUME NEW S \in SUBSET Stamps, IsFiniteSet(S), NEW t \in Nat,
           Cardinality(InWindow(S, t)) <= MaxRequests, ~Allowed(S, t)
    PROVE  /\ Checked(S, t) = InWindow(S, t)
           /\ t + ResetInMs(S, t) \in Nat
           /\ \A u \in Nat : u >= t =>
                 (Allowed(InWindow(S, t), u) <=> u >= t + ResetInMs(S, t))
<1> USE WindowAssumption
<1> DEFINE W == InWindow(S, t)
           ats == {s.at : s \in W}
           m == Min(ats)
<1>1. W \in SUBSET S /\ IsFiniteSet(W) /\ Cardinality(W) \in Nat
    BY FewerStamps DEF InWindow
<1>2. Cardinality(W) = MaxRequests /\ W # {}
    <2>1. Cardinality(W) >= MaxRequests
        BY <1>1 DEF Allowed
    <2>2. Cardinality(W) # 0
        BY <1>1, <2>1
    <2> QED
        BY <1>1, <2>1, <2>2, FS_EmptySet
<1>3. ats \in SUBSET Nat /\ ats # {}
    BY <1>1, <1>2 DEF Stamps
<1>4. m \in ats /\ \A x \in ats : m <= x
    BY <1>3, MinIsLeast
<1>5. t + ResetInMs(S, t) = m + WindowMs /\ m \in Nat
    <2>1. m \in Nat
        BY <1>3, <1>4
    <2>2. ResetInMs(S, t) = m + WindowMs - t
        BY DEF ResetInMs
    <2> HIDE DEF m
    <2> QED
        BY <2>1, <2>2
<1>6. Checked(S, t) = W
    BY DEF Checked
<1> HIDE DEF ats, m
<1>7. ASSUME NEW u \in Nat, u >= t, u < m + WindowMs PROVE ~Allowed(W, u)
    <2>1. \A s \in W : s.at \in Nat /\ m <= s.at
        BY <1>1, <1>4 DEF ats, Stamps
    <2>2. InWindow(W, u) = W
        BY <1>5, <1>7, <2>1 DEF InWindow
    <2> QED
        BY <1>2, <2>2 DEF Allowed
<1>8. ASSUME NEW u \in Nat, u >= m + WindowMs PROVE Allowed(W, u)
    <2>1. PICK s \in W : s.at = m
        BY <1>4 DEF ats
    <2>2. s \notin InWindow(W, u) /\ InWindow(W, u) \in SUBSET W
        BY <1>5, <1>8, <2>1 DEF InWindow
    <2>3. Cardinality(InWindow(W, u)) < Cardinality(W)
        BY <1>1, <2>1, <2>2, FewerStamps
    <2> QED
        BY <1>2, <2>3 DEF Allowed
<1>9. ASSUME NEW u \in Nat, u >= t PROVE Allowed(W, u) <=> u >= t + ResetInMs(S, t)
    BY <1>5, <1>7, <1>8, <1>9
<1> QED
    BY <1>5, <1>6, <1>9

-----------------------------------------------------------------------------
(* The invariant. *)

LEMMA InvInit == Init => Inv
<1> SUFFICES ASSUME Init PROVE Inv
    OBVIOUS
<1> USE LimiterAssumption, WindowAssumption DEF Init
<1>1. Types
    BY DEF Types
<1>2. ASSUME NEW k \in Keys PROVE Bucket(k) = {} /\ granted[k] = {} /\ promised[k] = None
    BY DEF Bucket, Timestamps
<1>3. \A t : InWindow({}, t) = {}
    BY DEF InWindow
<1>4. WithinQuota
    <2>1. IsFiniteSet({}) /\ Cardinality({}) = 0
        BY FS_EmptySet
    <2>2. ASSUME NEW k \in Keys
          PROVE  IsFiniteSet(Bucket(k)) /\ Cardinality(InWindow(Bucket(k), now)) <= MaxRequests
        <3>1. Bucket(k) = {} /\ InWindow(Bucket(k), now) = {}
            BY <1>2, <1>3
        <3>2. 0 <= MaxRequests
            OBVIOUS
        <3> QED
            BY <2>1, <3>1, <3>2, Zenon
    <2> QED
        BY <2>2 DEF WithinQuota
<1>5. GrantsKept /\ Promises
    BY <1>2, <1>3 DEF GrantsKept, Promises
<1> QED
    BY <1>1, <1>4, <1>5 DEF Inv

LEMMA InvTick == Inv /\ Tick => Inv'
<1> SUFFICES ASSUME Inv, Tick PROVE Inv'
    OBVIOUS
<1>1. /\ now \in Nat /\ now' \in Nat /\ now <= now'
      /\ \A k \in Keys : Bucket(k) \in SUBSET Stamps /\ granted[k] \in SUBSET Stamps
    BY LimiterAssumption DEF Inv, Types, Tick, Bucket, Timestamps, Buckets
<1>2. Types'
    BY LimiterAssumption DEF Inv, Types, Tick, Recent
<1>3. UNCHANGED <<records, promised>> /\ \A k \in Keys : granted'[k] \subseteq granted[k]
    BY DEF Tick, Recent
<1>4. \A k \in Keys : /\ Bucket(k)' = Bucket(k)
                      /\ InWindow(Bucket(k), now') \subseteq InWindow(Bucket(k), now)
                      /\ InWindow(granted'[k], now') \subseteq InWindow(granted[k], now)
    BY <1>1, <1>3, WindowShrinks DEF Bucket, InWindow
<1>5. WithinQuota'
    <2>1. ASSUME NEW k \in Keys
          PROVE  /\ IsFiniteSet(Bucket(k))
                 /\ Cardinality(InWindow(Bucket(k), now')) <= MaxRequests
        <3>1. IsFiniteSet(Bucket(k)) /\ Cardinality(InWindow(Bucket(k), now)) <= MaxRequests
            BY DEF Inv, WithinQuota
        <3>2. InWindow(Bucket(k), now) \in SUBSET Bucket(k)
            BY DEF InWindow
        <3>3. IsFiniteSet(InWindow(Bucket(k), now))
            BY <3>1, <3>2, FewerStamps
        <3>4. /\ Cardinality(InWindow(Bucket(k), now')) <= Cardinality(InWindow(Bucket(k), now))
              /\ Cardinality(InWindow(Bucket(k), now')) \in Nat
              /\ Cardinality(InWindow(Bucket(k), now)) \in Nat
            BY <1>4, <3>3, FewerStamps
        <3> QED
            BY <3>1, <3>4, WindowAssumption
    <2> QED
        BY <1>4, <2>1 DEF WithinQuota
<1>6. GrantsKept'
    BY <1>3, <1>4 DEF Inv, GrantsKept
<1>7. Promises'
    BY <1>1, <1>3, <1>4 DEF Inv, Promises
<1> QED
    BY <1>2, <1>5, <1>6, <1>7 DEF Inv

(* A bucket that the check only cleaned keeps what it remembered. *)
LEMMA OthersKeep ==
    ASSUME Inv, Types, NEW k \in Keys, NEW B \in SUBSET Stamps,
           B = Timestamps(Cleaned(k))
    PROVE  /\ IsFiniteSet(B) /\ Cardinality(InWindow(B, now)) <= MaxRequests
           /\ InWindow(granted[k], now) \subseteq B
           /\ \A t \in Nat : t >= now => (Allowed(B, t) <=> Allowed(Bucket(k), t))
<1>1. /\ now \in Nat /\ B \subseteq Bucket(k)
      /\ \A t \in Nat : t >= now => InWindow(B, t) = InWindow(Bucket(k), t)
    BY CleanupLosesNothing, LimiterAssumption DEF Types
<1>2. IsFiniteSet(Bucket(k)) /\ Cardinality(InWindow(Bucket(k), now)) <= MaxRequests
    BY DEF Inv, WithinQuota
<1>3. InWindow(B, now) = InWindow(Bucket(k), now)
    BY <1>1
<1>4. IsFiniteSet(B)
    BY <1>1, <1>2, FewerStamps
<1>5. InWindow(granted[k], now) \subseteq InWindow(Bucket(k), now)
    BY DEF Inv, GrantsKept, InWindow
<1>6. InWindow(granted[k], now) \subseteq B
    BY <1>3, <1>5 DEF InWindow
<1>7. ASSUME NEW t \in Nat, t >= now PROVE Allowed(B, t) <=> Allowed(Bucket(k), t)
    BY <1>1, <1>7 DEF Allowed
<1> QED
    BY <1>2, <1>3, <1>4, <1>6, <1>7

LEMMA InvCheck ==
    ASSUME Inv, NEW k \in Keys, Check(k)
    PROVE  Inv'
<1> USE LimiterAssumption, WindowAssumption
<1> DEFINE S == Timestamps(Cleaned(k))
<1>0. Types /\ now \in Nat /\ now' = now /\ now \in 0..MaxNow
    BY DEF Inv, Types, Check
<1>1. /\ S \in SUBSET Stamps /\ IsFiniteSet(S)
      /\ Cardinality(InWindow(S, now)) <= MaxRequests
      /\ InWindow(granted[k], now) \subseteq S
    BY <1>0, CleanupLosesNothing, OthersKeep
<1>2. /\ Checked(S, now) \in SUBSET Stamps /\ IsFiniteSet(Checked(S, now))
      /\ Cardinality(InWindow(Checked(S, now), now)) <= MaxRequests
    BY <1>0, <1>1, CheckedStaysInQuota
<1>3. Stamp(S, now) \in Stamps
    <2>1. IsFiniteSet({s \in S : s.at = now}) /\ Cardinality({s \in S : s.at = now}) \in Nat
        BY <1>1, FewerStamps
    <2> QED
        BY <1>0, <2>1 DEF Stamp, Stamps
<1>4. ~Allowed(S, now) => now + ResetInMs(S, now) \in Nat
    BY <1>0, <1>1, RefusalTellsWhen
<1>k. /\ records'[k] = [timestamps |-> Checked(S, now), lastAccessed |-> now]
      /\ granted'[k] \in {{}, granted[k],
             IF Allowed(S, now) THEN granted[k] \cup {Stamp(S, now)} ELSE granted[k]}
      /\ promised'[k] = IF Allowed(S, now) THEN None ELSE now + ResetInMs(S, now)
    BY <1>0 DEF Check, Types
<1>j. ASSUME NEW j \in Keys, j # k
      PROVE  /\ promised'[j] = promised[j]
             /\ \/ records'[j] = None /\ granted'[j] = {}
                \/ records'[j] = Cleaned(j) /\ granted'[j] = granted[j]
    BY <1>0, <1>j DEF Check, Types
<1>5. Types'
    <2>1. ASSUME NEW j \in Keys PROVE records'[j] \in Buckets \cup {None}
        <3>1. CASE j = k
            BY <1>0, <1>2, <1>k, <3>1 DEF Buckets
        <3>2. CASE j # k
            BY <1>0, <1>j, <3>2, CleanupLosesNothing
        <3> QED
            BY <3>1, <3>2
    <2>2. ASSUME NEW j \in Keys PROVE granted'[j] \in SUBSET Stamps
        <3>1. granted[j] \in SUBSET Stamps
            BY <1>0 DEF Types
        <3>2. CASE j = k
            BY <1>3, <1>k, <3>1, <3>2
        <3>3. CASE j # k
            BY <1>j, <3>1, <3>3
        <3> QED
            BY <3>2, <3>3
    <2>3. ASSUME NEW j \in Keys PROVE promised'[j] \in Nat \cup {None}
        <3>1. promised[j] \in Nat \cup {None}
            BY <1>0 DEF Types
        <3> QED
            BY <1>4, <1>k, <1>j, <3>1
    <2>4. /\ records' = [j \in Keys |-> records'[j]]
          /\ granted' = [j \in Keys |-> granted'[j]]
          /\ promised' = [j \in Keys |-> promised'[j]]
        BY <1>0 DEF Check, Types
    <2> QED
        BY <1>0, <2>1, <2>2, <2>3, <2>4 DEF Types
<1>6. Bucket(k)' = Checked(S, now)
    <2>1. records'[k] \in Buckets
        BY <1>0, <1>2, <1>k DEF Buckets
    <2> QED
        BY <1>k, <2>1 DEF Bucket, Timestamps, Buckets
<1>7. ASSUME NEW j \in Keys, j # k
      PROVE  \/ Bucket(j)' = {} /\ granted'[j] = {}
             \/ Bucket(j)' = Timestamps(Cleaned(j)) /\ granted'[j] = granted[j]
    BY <1>j, <1>7 DEF Bucket, Timestamps
<1>8. /\ IsFiniteSet({}) /\ Cardinality({}) = 0 /\ 0 < MaxRequests
      /\ \A t : InWindow({}, t) = {}
    BY FS_EmptySet DEF InWindow
<1>9. \A j \in Keys : Timestamps(Cleaned(j)) \in SUBSET Stamps
    BY <1>0, CleanupLosesNothing
<1>10. WithinQuota'
    <2>1. ASSUME NEW j \in Keys
          PROVE  IsFiniteSet(Bucket(j)') /\ Cardinality(InWindow(Bucket(j)', now)) <= MaxRequests
        <3>1. CASE j = k
            BY <1>2, <1>6, <3>1
        <3>2. CASE j # k /\ Bucket(j)' = {}
            <4>1. Cardinality(InWindow(Bucket(j)', now)) = 0
                BY <1>8, <3>2
            <4> QED
                BY <1>8, <3>2, <4>1
        <3>3. CASE Bucket(j)' = Timestamps(Cleaned(j))
            BY <1>0, <1>9, <3>3, OthersKeep
        <3> QED
            BY <1>7, <3>1, <3>2, <3>3
    <2> QED
        BY <1>0, <2>1 DEF WithinQuota
<1>11. GrantsKept'
    <2>1. ASSUME NEW j \in Keys PROVE InWindow(granted'[j], now) \subseteq Bucket(j)'
        <3>1. CASE j = k
            <4>1. InWindow(granted[k], now) \subseteq InWindow(S, now)
                BY <1>1 DEF InWindow
            <4>2. CASE Allowed(S, now)
                <5>1. Checked(S, now) = InWindow(S, now) \cup {Stamp(S, now)}
                    BY <4>2 DEF Checked
                <5> QED
                    BY <1>6, <1>k, <3>1, <4>1, <4>2, <5>1 DEF InWindow
            <4>3. CASE ~Allowed(S, now)
                <5>1. Checked(S, now) = InWindow(S, now)
                    BY <4>3 DEF Checked
                <5> QED
                    BY <1>6, <1>k, <3>1, <4>1, <4>3, <5>1 DEF InWindow
            <4> QED
                BY <4>2, <4>3
        <3>2. CASE j # k /\ granted'[j] = {}
            BY <1>8, <3>2
        <3>3. CASE Bucket(j)' = Timestamps(Cleaned(j)) /\ granted'[j] = granted[j]
            BY <1>0, <1>9, <3>3, OthersKeep
        <3> QED
            BY <1>7, <3>1, <3>2, <3>3
    <2> QED
        BY <1>0, <2>1 DEF GrantsKept
<1>12. Promises'
    <2>1. ASSUME NEW j \in Keys, promised'[j] # None, NEW t \in Nat, t >= now
          PROVE  /\ t >= promised'[j] => Allowed(Bucket(j)', t)
                 /\ t < promised'[j] /\ granted'[j] # {} => ~Allowed(Bucket(j)', t)
        <3>1. CASE j = k
            <4>1. ~Allowed(S, now) /\ promised'[k] = now + ResetInMs(S, now)
                BY <1>k, <2>1, <3>1
            <4>2. /\ Bucket(k)' = InWindow(S, now)
                  /\ Allowed(InWindow(S, now), t) <=> t >= promised'[k]
                BY <1>0, <1>1, <1>6, <2>1, <4>1, RefusalTellsWhen
            <4> QED
                BY <1>4, <2>1, <3>1, <4>1, <4>2
        <3>2. CASE j # k /\ Bucket(j)' = {} /\ granted'[j] = {}
            <4>1. Allowed(Bucket(j)', t)
                BY <1>8, <3>2 DEF Allowed
            <4> QED
                BY <3>2, <4>1
        <3>3. CASE j # k /\ Bucket(j)' = Timestamps(Cleaned(j)) /\ granted'[j] = granted[j]
            <4>1. Allowed(Bucket(j)', t) <=> Allowed(Bucket(j), t)
                BY <1>0, <1>9, <2>1, <3>3, OthersKeep
            <4>2. promised'[j] = promised[j]
                BY <1>j, <3>3
            <4> QED
                BY <2>1, <3>3, <4>1, <4>2 DEF Inv, Promises
        <3> QED
            BY <1>7, <3>1, <3>2, <3>3
    <2> QED
        BY <1>0, <2>1 DEF Promises
<1> QED
    BY <1>5, <1>10, <1>11, <1>12 DEF Inv

-----------------------------------------------------------------------------
(* What users may rely on. *)

LEMMA InvNext == Inv /\ [Next]_vars => Inv'
<1> SUFFICES ASSUME Inv, [Next]_vars PROVE Inv'
    OBVIOUS
<1>1. CASE Tick
    BY <1>1, InvTick
<1>2. ASSUME NEW k \in Keys, Check(k) PROVE Inv'
    BY <1>2, InvCheck
<1>3. CASE UNCHANGED vars
    BY <1>3 DEF vars, Inv, Types, WithinQuota, GrantsKept, Promises, Bucket
<1> QED
    BY <1>1, <1>2, <1>3 DEF Next

(* The invariant of the limiter in every reachable state. *)
THEOREM InvHolds == Spec => []Inv
BY InvInit, InvNext, PTL DEF Spec

(* What is in the window of what was let through is in the bucket's window, *)
(* which is within the quota.                                               *)
LEMMA InvRespectsWindow == Inv => WindowRespected
<1> SUFFICES ASSUME Inv, NEW k \in Keys
             PROVE  Cardinality(Recent(granted[k], now)) <= MaxRequests
    BY DEF WindowRespected
<1> USE WindowAssumption, LimiterAssumption
<1>1. now \in Nat /\ granted[k] \in SUBSET Stamps
    BY DEF Inv, Types
<1>2. Recent(granted[k], now) = InWindow(granted[k], now)
    BY <1>1 DEF Recent, InWindow, Stamps
<1>3. InWindow(granted[k], now) \in SUBSET InWindow(Bucket(k), now)
    BY DEF Inv, GrantsKept, InWindow
<1>4. IsFiniteSet(Bucket(k)) /\ Cardinality(InWindow(Bucket(k), now)) <= MaxRequests
    BY DEF Inv, WithinQuota
<1>5. InWindow(Bucket(k), now) \in SUBSET Bucket(k)
    BY DEF InWindow
<1>6. IsFiniteSet(InWindow(Bucket(k), now))
    BY <1>4, <1>5, FewerStamps
<1>7. /\ Cardinality(InWindow(granted[k], now)) \in Nat
      /\ Cardinality(InWindow(Bucket(k), now)) \in Nat
      /\ Cardinality(InWindow(granted[k], now)) <= Cardinality(InWindow(Bucket(k), now))
    BY <1>3, <1>6, FewerStamps
<1> QED
    BY <1>2, <1>4, <1>7

(* SlidingWindowRateLimiter lets no more than maxRequests of a key through *)
(* in any window, for any number of keys and whatever cleanup does.        *)
THEOREM WindowHolds == Spec => []WindowRespected
BY InvHolds, InvRespectsWindow, PTL

(* Before the time it was told a key that was let through stays refused. *)
LEMMA RefusedUntilThen ==
    ASSUME Inv, NEW k \in Keys, promised[k] # None, now < promised[k], granted[k] # {}
    PROVE  ~PeekAllowed(k)
<1>1. now \in Nat
    BY LimiterAssumption DEF Inv, Types
<1> QED
    BY <1>1 DEF Inv, Promises, PeekAllowed, Bucket

(* From then on it is let through. *)
LEMMA StepKeepsPromise ==
    ASSUME Inv, [Next]_vars, NEW k \in Keys, promised[k] # None, now >= promised[k]
    PROVE  PeekAllowed(k) /\ promised'[k] \in {None, promised[k]}
<1>1. now \in Nat /\ Types
    BY LimiterAssumption DEF Inv, Types
<1>2. Allowed(Bucket(k), now)
    BY <1>1 DEF Inv, Promises
<1>3. CASE Check(k)
    <2>1. InWindow(Timestamps(Cleaned(k)), now) = InWindow(Bucket(k), now)
        BY <1>1, CleanupLosesNothing
    <2>2. Allowed(Timestamps(Cleaned(k)), now)
        BY <1>2, <2>1 DEF Allowed
    <2> QED
        BY <1>1, <1>2, <1>3, <2>2 DEF Check, Types, PeekAllowed, Bucket
<1>4. ASSUME NEW j \in Keys, j # k, Check(j) PROVE promised'[k] = promised[k]
    BY <1>1, <1>4 DEF Check, Types
<1>5. CASE Tick \/ UNCHANGED vars
    BY <1>2, <1>5 DEF Tick, vars, PeekAllowed, Bucket
<1> QED
    BY <1>2, <1>3, <1>4, <1>5 DEF Next, PeekAllowed, Bucket

(* resetInMs is exact: who waits for as long is let through, unless some-  *)
(* thing else was let through for the key meanwhile, and nobody waits for  *)
(* nothing.                                                                *)
THEOREM PromiseIsExact == Spec => PromiseExact
<1>1. ASSUME Inv, [Next]_vars, NEW k \in Keys, promised[k] # None
      PROVE  IF now >= promised[k]
             THEN PeekAllowed(k) /\ promised'[k] \in {None, promised[k]}
             ELSE granted[k] # {} => ~PeekAllowed(k)
    <2>1. now \in Nat /\ promised[k] \in Nat
        BY <1>1, LimiterAssumption DEF Inv, Types
    <2> QED
        BY <1>1, <2>1, RefusedUntilThen, StepKeepsPromise
<1>2. Inv /\ [Next]_vars =>
        [\A k \in Keys : promised[k] # None =>
            IF now >= promised[k]
            THEN PeekAllowed(k) /\ promised'[k] \in {None, promised[k]}
            ELSE granted[k] # {} => ~PeekAllowed(k)]_vars
    BY <1>1
<1> QED
    BY <1>2, InvHolds, PTL DEF Spec, PromiseExact

-----------------------------------------------------------------------------
(* The keys of a Map. *)

(* The keys of a Map stay in an order, whatever is deleted and put. *)
LEMMA OrderKept ==
    ASSUME NEW S, NEW order, IsOrder(order, S), NEW kept \in SUBSET S, NEW k
    PROVE  /\ IsOrder(Among(order, kept), kept)
           /\ IsOrder(Put(order, kept, k), kept \cup {k})
<1>1. IsOrder(Among(order, kept), kept)
    BY DEF IsOrder, Among
<1>2. CASE k \in kept
  <2>1. Put(order, kept, k) = Among(order, kept) /\ kept \cup {k} = kept
      BY <1>2 DEF Put
  <2> QED BY <1>1, <2>1
<1>3. CASE k \notin kept
  <2> DEFINE rel == Among(order, kept)
             new == Put(order, kept, k)
             all == kept \cup {k}
  <2>1. /\ rel \subseteq kept \X kept
        /\ \A i \in kept : <<i, i>> \notin rel
        /\ \A i, j \in kept : i = j \/ <<i, j>> \in rel \/ <<j, i>> \in rel
        /\ \A i, j, l \in kept : <<i, j>> \in rel /\ <<j, l>> \in rel => <<i, l>> \in rel
      BY <1>1 DEF IsOrder
  <2> HIDE DEF rel
  <2>2. new = rel \cup (kept \X {k})
      BY <1>3 DEF Put, rel
  <2> HIDE DEF new
  <2>3. \A i, j : <<i, j>> \in new <=> <<i, j>> \in rel \/ (i \in kept /\ j = k)
      BY <2>2
  <2>4. \A i, j : <<i, j>> \in rel => i \in kept /\ j \in kept
      BY <2>1
  <2>5. new \subseteq all \X all
      BY <2>1, <2>2
  <2>6. \A i \in all : <<i, i>> \notin new
      BY <1>3, <2>1, <2>3, <2>4
  <2>7. ASSUME NEW i \in all, NEW j \in all PROVE i = j \/ <<i, j>> \in new \/ <<j, i>> \in new
    <3>1. CASE i \in kept /\ j \in kept
        BY <2>1, <2>3, <3>1
    <3>2. CASE i = k /\ j \in kept
        BY <2>3, <3>2
    <3>3. CASE i \in kept /\ j = k
        BY <2>3, <3>3
    <3> QED BY <3>1, <3>2, <3>3
  <2>8. \A i, j, l \in all : <<i, j>> \in new /\ <<j, l>> \in new => <<i, l>> \in new
      BY <1>3, <2>1, <2>3, <2>4
  <2>9. IsOrder(new, all)
    <3> HIDE DEF all
    <3> QED BY <2>5, <2>6, <2>7, <2>8 DEF IsOrder
  <2> QED BY <1>1, <2>9 DEF new
<1> QED BY <1>1, <1>2, <1>3

(* In a Map that is not empty one key is the oldest. *)
LEMMA OneIsOldest ==
    ASSUME NEW S, IsFiniteSet(S), S # {}, NEW order, IsOrder(order, S)
    PROVE  \E k \in S : Oldest(order, S) = {k}
<1> DEFINE Before(k) == {j \in S : <<j, k>> \in order}
           ranks == {Cardinality(Before(k)) : k \in S}
<1>1. \A k \in S : IsFiniteSet(Before(k)) /\ Cardinality(Before(k)) \in Nat
    BY FewerStamps
<1>2. Min(ranks) \in ranks /\ \A x \in ranks : Min(ranks) <= x
  <2>1. ranks \in SUBSET Nat /\ ranks # {}
      BY <1>1
  <2> HIDE DEF ranks
  <2> QED BY <2>1, MinIsLeast
<1>3. PICK k \in S : \A j \in S : Cardinality(Before(k)) <= Cardinality(Before(j))
    BY <1>2
<1>4. k \in Oldest(order, S)
  <2> SUFFICES ASSUME NEW j \in S, <<j, k>> \in order PROVE FALSE
      BY DEF Oldest
  <2>1. Before(j) \in SUBSET Before(k)
      BY DEF IsOrder
  <2>2. j \in Before(k) /\ j \notin Before(j)
      BY DEF IsOrder
  <2>3. Cardinality(Before(j)) < Cardinality(Before(k))
      BY <1>1, <2>1, <2>2, FewerStamps
  <2> HIDE DEF Before
  <2> QED BY <1>1, <1>3, <2>3
<1>5. \A j \in Oldest(order, S) : j = k
    BY <1>4 DEF Oldest, IsOrder
<1> QED BY <1>4, <1>5

(* Whatever cleanup has left, whoever has to make room when a key is put:   *)
(* the keys stay in an order, and there are no more than fit.               *)
LEMMA RoomIsMade ==
    ASSUME NEW before, IsFiniteSet(before), NEW order, IsOrder(order, before),
           NEW capacity \in Nat \ {0}, Cardinality(before) <= capacity,
           NEW S \in SUBSET before, NEW out \in SUBSET S, NEW k,
           \/ k \in S \ out
           \/ Cardinality(S) < capacity
           \/ out = Oldest(order, S)
    PROVE  /\ IsOrder(Put(order, S \ out, k), (S \ out) \cup {k})
           /\ IsFiniteSet((S \ out) \cup {k})
           /\ Cardinality((S \ out) \cup {k}) <= capacity
<1> DEFINE kept == S \ out
           rel == Among(order, S)
<1>1. /\ IsFiniteSet(S) /\ Cardinality(S) \in Nat
      /\ Cardinality(before) \in Nat /\ Cardinality(S) <= Cardinality(before)
    BY FewerStamps
<1>2. /\ IsFiniteSet(kept) /\ Cardinality(kept) \in Nat
      /\ Cardinality(kept) <= Cardinality(S)
      /\ S # kept => Cardinality(kept) < Cardinality(S)
    BY <1>1, FewerStamps
<1>3. /\ IsFiniteSet(kept \cup {k})
      /\ Cardinality(kept \cup {k}) =
            IF k \in kept THEN Cardinality(kept) ELSE Cardinality(kept) + 1
    BY <1>2, FS_AddElement
<1>4. IsOrder(rel, S) /\ IsOrder(Put(order, kept, k), kept \cup {k})
    BY OrderKept
<1>5. Oldest(rel, S) = Oldest(order, S)
    BY DEF Oldest, Among
<1>6. k \in kept \/ Cardinality(kept) < capacity
  <2>1. CASE Cardinality(S) < capacity
      BY <1>1, <1>2, <2>1
  <2>2. CASE out = Oldest(order, S) /\ S # {}
    <3>1. S # kept
        BY <1>1, <1>4, <1>5, <2>2, OneIsOldest
    <3> QED BY <1>1, <1>2, <3>1
  <2>3. CASE S = {}
      BY <1>1, <1>2, <2>3, FS_EmptySet
  <2> QED BY <2>1, <2>2, <2>3
<1> HIDE DEF kept
<1>7. Cardinality(kept \cup {k}) <= capacity
    BY <1>1, <1>2, <1>3, <1>6
<1> QED BY <1>3, <1>4, <1>7 DEF kept

-----------------------------------------------------------------------------
(* The Map of buckets. *)

MapOK ==
    /\ opCounter \in 0..(CleanupEvery - 1)
    /\ IsOrder(older, Present)
    /\ IsFiniteSet(Present) /\ Cardinality(Present) <= MaxBuckets

LEMMA MapInit == Init => MapOK
<1> SUFFICES ASSUME Init PROVE MapOK
    OBVIOUS
<1>1. Present = {}
    BY DEF Init, Present
<1>2. IsFiniteSet({}) /\ Cardinality({}) = 0
    BY FS_EmptySet
<1>3. opCounter \in 0..(CleanupEvery - 1) /\ 0 <= MaxBuckets
    BY LimiterAssumption DEF Init
<1>4. IsOrder({}, {})
    BY DEF IsOrder
<1> QED BY <1>1, <1>2, <1>3, <1>4 DEF MapOK, Init

LEMMA MapCheck ==
    ASSUME Inv, MapOK, NEW k \in Keys, Check(k)
    PROVE  MapOK'
<1> USE LimiterAssumption
<1>1. /\ Left \in SUBSET Present /\ Evicted(k) \in SUBSET Left
    BY DEF Left, Present, Cleaned, CleanedBucket, Evicted, Oldest
<1>2. Present' = (Left \ Evicted(k)) \cup {k}
  <2>1. None \notin Buckets
      BY DEF Buckets
  <2>2. records'[k] # None
    <3> DEFINE S == Timestamps(Cleaned(k))
    <3>1. S \in SUBSET Stamps /\ now \in 0..MaxNow /\ now \in Nat
        BY CleanupLosesNothing DEF Inv, Types
    <3>2. IsFiniteSet(S) /\ Cardinality(InWindow(S, now)) <= MaxRequests
        BY <3>1, OthersKeep DEF Inv
    <3>3. Checked(S, now) \in SUBSET Stamps
        BY <3>1, <3>2, CheckedStaysInQuota
    <3>4. records'[k] = [timestamps |-> Checked(S, now), lastAccessed |-> now]
        BY DEF Check
    <3> HIDE DEF S
    <3>5. records'[k] \in Buckets
        BY <3>1, <3>3, <3>4 DEF Buckets
    <3> QED BY <2>1, <3>5
  <2>3. \A j \in Keys \ {k} : records'[j] = IF j \in Evicted(k) THEN None ELSE Cleaned(j)
      BY DEF Check
  <2> QED BY <2>2, <2>3 DEF Present, Left
<1>3. older' = Put(older, Left \ Evicted(k), k)
    BY DEF Check
<1>4. \/ k \in Left \ Evicted(k) \/ Cardinality(Left) < MaxBuckets
      \/ Evicted(k) = Oldest(older, Left)
  <2>1. Cardinality(Left) \in Nat
      BY <1>1, FewerStamps DEF MapOK
  <2> QED BY <2>1 DEF Evicted, Left
<1>5. /\ IsOrder(Put(older, Left \ Evicted(k), k), (Left \ Evicted(k)) \cup {k})
      /\ IsFiniteSet((Left \ Evicted(k)) \cup {k})
      /\ Cardinality((Left \ Evicted(k)) \cup {k}) <= MaxBuckets
    BY <1>1, <1>4, RoomIsMade DEF MapOK
<1>6. opCounter' \in 0..(CleanupEvery - 1)
  <2>1. opCounter' = (opCounter + 1) % CleanupEvery
      BY DEF Check
  <2> QED BY <2>1 DEF MapOK
<1> QED BY <1>2, <1>3, <1>5, <1>6 DEF MapOK

LEMMA MapStep == Inv /\ MapOK /\ [Next]_vars => MapOK'
<1> SUFFICES ASSUME Inv, MapOK, [Next]_vars PROVE MapOK'
    OBVIOUS
<1>1. ASSUME NEW k \in Keys, Check(k) PROVE MapOK'
    BY <1>1, MapCheck
<1>2. CASE Tick \/ UNCHANGED vars
    BY <1>2 DEF Tick, vars, MapOK, Present
<1> QED BY <1>1, <1>2 DEF Next

(* SlidingWindowRateLimiter never keeps more than maxBuckets buckets,       *)
(* whatever cleanup leaves and whoever has to make room.                    *)
THEOREM TypesHold == Spec => []TypeOK
<1>1. Init => Inv /\ MapOK
    BY InvInit, MapInit
<1>2. Inv /\ MapOK /\ [Next]_vars => Inv' /\ MapOK'
    BY InvNext, MapStep
<1>3. Inv /\ MapOK => TypeOK
  <2>1. None \notin Buckets
      BY LimiterAssumption DEF Buckets
  <2> QED BY <2>1 DEF Inv, Types, MapOK, TypeOK, Buckets
<1> QED BY <1>1, <1>2, <1>3, PTL DEF Spec

-----------------------------------------------------------------------------
(* The quota of requireAuthenticatedUser. *)

(* What is let through at a moment is let through when the moment is over, *)
(* but for the key of which a check is made.                               *)
LEMMA OthersStayAllowed ==
    ASSUME Inv, NEW k \in Keys, Check(k), NEW j \in Keys, j # k, PeekAllowed(j)
    PROVE  PeekAllowed(j)'
<1> USE LimiterAssumption, WindowAssumption
<1>1. Types /\ now \in Nat /\ now' = now
    BY DEF Inv, Types, Check
<1>2. InWindow(Timestamps(Cleaned(j)), now) = InWindow(Bucket(j), now)
    BY <1>1, CleanupLosesNothing
<1>3. Allowed(Timestamps(Cleaned(j)), now)
    BY <1>2 DEF PeekAllowed, Allowed, Bucket
<1>4. records'[j] = None \/ records'[j] = Cleaned(j)
    BY DEF Check
<1>5. Timestamps(None) = {} /\ InWindow({}, now) = {} /\ Cardinality({}) = 0
    BY FS_EmptySet DEF Timestamps, InWindow
<1>6. Allowed({}, now)
    BY <1>5 DEF Allowed
<1> QED
    BY <1>1, <1>3, <1>4, <1>5, <1>6 DEF PeekAllowed

(* And time only makes room. *)
LEMMA TimeMakesRoom ==
    ASSUME Inv, Tick, NEW j \in Keys, PeekAllowed(j)
    PROVE  PeekAllowed(j)'
<1>1. now \in Nat /\ now' \in Nat /\ now <= now' /\ Bucket(j) \in SUBSET Stamps
    BY LimiterAssumption DEF Inv, Types, Tick, Bucket, Timestamps, Buckets
<1>2. IsFiniteSet(Bucket(j)) /\ Cardinality(InWindow(Bucket(j), now)) < MaxRequests
    BY DEF Inv, WithinQuota, PeekAllowed, Allowed, Bucket
<1>3. InWindow(Bucket(j), now) \in SUBSET Bucket(j)
    BY DEF InWindow
<1>4. /\ Cardinality(InWindow(Bucket(j), now')) <= Cardinality(InWindow(Bucket(j), now))
      /\ Cardinality(InWindow(Bucket(j), now')) \in Nat
      /\ Cardinality(InWindow(Bucket(j), now)) \in Nat
    BY <1>1, <1>2, <1>3, WindowShrinks, FewerStamps
<1>5. Cardinality(InWindow(Bucket(j), now')) < MaxRequests
    BY <1>2, <1>4, WindowAssumption
<1> QED
    BY <1>5 DEF Tick, PeekAllowed, Allowed, Bucket

-----------------------------------------------------------------------------
(* Stamps are numbered, so each that is let through is a new one. *)

Numbered(S) == \A s \in S : s.n < Cardinality({r \in S : r.at = s.at})

LEMMA StampIsNew ==
    ASSUME NEW S \in SUBSET Stamps, Numbered(S), NEW t \in Nat
    PROVE  Stamp(S, t) \notin S
<1> SUFFICES ASSUME Stamp(S, t) \in S PROVE FALSE
    OBVIOUS
<1>1. Stamp(S, t).at = t /\ Stamp(S, t).n = Cardinality({r \in S : r.at = t})
    BY DEF Stamp
<1>2. Stamp(S, t).n \in Nat
    BY DEF Stamps
<1> QED
    BY <1>1, <1>2 DEF Numbered

LEMMA WindowIsNumbered ==
    ASSUME NEW S \in SUBSET Stamps, Numbered(S), NEW t \in Nat
    PROVE  Numbered(InWindow(S, t))
<1>1. ASSUME NEW s \in InWindow(S, t)
      PROVE  {r \in InWindow(S, t) : r.at = s.at} = {r \in S : r.at = s.at}
    BY <1>1 DEF InWindow
<1> QED
    BY <1>1 DEF Numbered, InWindow

LEMMA CheckedIsNumbered ==
    ASSUME NEW S \in SUBSET Stamps, IsFiniteSet(S), Numbered(S), NEW t \in Nat
    PROVE  Numbered(Checked(S, t))
<1> USE WindowAssumption
<1> DEFINE W == InWindow(S, t)
           x == Stamp(S, t)
           now0 == {r \in S : r.at = t}
<1>1. Numbered(W) /\ W \in SUBSET S
    BY WindowIsNumbered DEF InWindow
<1>2. now0 \in SUBSET S /\ IsFiniteSet(now0) /\ Cardinality(now0) \in Nat
    BY FewerStamps
<1>3. x.at = t /\ x.n = Cardinality(now0) /\ x \notin S
    BY StampIsNew DEF Stamp
<1>4. now0 = {r \in W : r.at = t}
    BY DEF InWindow, Stamps
<1>5. IsFiniteSet(now0 \cup {x}) /\ Cardinality(now0 \cup {x}) = Cardinality(now0) + 1
    BY <1>2, <1>3, FS_AddElement
<1> HIDE DEF x, now0, W
<1>6. ASSUME NEW s \in W \cup {x}
      PROVE  s.n < Cardinality({r \in W \cup {x} : r.at = s.at})
    <2>1. CASE s.at = t
        <3> DEFINE there == {r \in W \cup {x} : r.at = s.at}
        <3>0. there = now0 \cup {x}
            BY <1>3, <1>4, <2>1
        <3> HIDE DEF there
        <3>1. Cardinality(there) = Cardinality(now0) + 1
            BY <1>5, <3>0, Zenon
        <3>2. CASE s = x
            <4>1. s.n = Cardinality(now0)
                BY <1>3, <3>2, Zenon
            <4>2. s.n < Cardinality(there)
                BY <1>2, <3>1, <4>1
            <4> QED
                BY <4>2 DEF there
        <3>3. CASE s \in W
            <4>1. s.n < Cardinality(now0)
                BY <1>1, <1>4, <2>1, <3>3 DEF Numbered
            <4>2. s.n \in Nat
                BY <1>1, <3>3 DEF Stamps
            <4>3. s.n < Cardinality(there)
                BY <1>2, <3>1, <4>1, <4>2
            <4> QED
                BY <4>3 DEF there
        <3> QED
            BY <1>6, <3>2, <3>3
    <2>2. CASE s.at # t
        <3>1. s \in W
            BY <1>3, <1>6, <2>2
        <3>2. {r \in W \cup {x} : r.at = s.at} = {r \in W : r.at = s.at}
            BY <1>3, <2>2
        <3> QED
            BY <1>1, <3>1, <3>2 DEF Numbered
    <2> QED
        BY <2>1, <2>2
<1>7. Checked(S, t) = W \cup {x} \/ Checked(S, t) = W
    BY DEF Checked, W, x
<1> QED
    BY <1>1, <1>6, <1>7 DEF Numbered

-----------------------------------------------------------------------------
(* How many lookups failed, and how many requests were let through, from a *)
(* moment on: F and G are the stamps of the ones and of the others.        *)

Since(S, c) == {s \in S : s.at >= c}

Paid(F, G) ==
    \A c \in Int : Cardinality(Since(F, c)) <= Cardinality(Since(G, c)) + 1

(* One more may fail. *)
Covered(F, G) ==
    \A c \in Int : Since(F, c) = {} \/ Cardinality(Since(F, c)) <= Cardinality(Since(G, c))

History(S, t) == S \in SUBSET Stamps /\ IsFiniteSet(S) /\ \A s \in S : s.at <= t

LEMMA SinceIsFinite ==
    ASSUME NEW S, IsFiniteSet(S), NEW c \in Int
    PROVE  IsFiniteSet(Since(S, c)) /\ Cardinality(Since(S, c)) \in Nat
<1>1. Since(S, c) \in SUBSET S
    BY DEF Since
<1> QED
    BY <1>1, FewerStamps

LEMMA NothingFailed ==
    ASSUME NEW G, IsFiniteSet(G)
    PROVE  Paid({}, G) /\ Covered({}, G)
<1>1. \A c : Since({}, c) = {}
    BY DEF Since
<1>2. Cardinality({}) = 0
    BY FS_EmptySet
<1>3. ASSUME NEW c \in Int PROVE 0 <= Cardinality(Since(G, c)) + 1
    BY SinceIsFinite
<1> QED
    BY <1>1, <1>2, <1>3 DEF Paid, Covered

(* Whoever is let through now covers one that will fail. *)
LEMMA GrantCovers ==
    ASSUME NEW t \in Nat, NEW F, NEW G, History(F, t), History(G, t), Paid(F, G),
           NEW g \in Stamps, g.at = t, g \notin G
    PROVE  History(G \cup {g}, t) /\ Covered(F, G \cup {g})
<1>1. IsFiniteSet(G \cup {g})
    BY FS_AddElement DEF History
<1>2. History(G \cup {g}, t)
    BY <1>1 DEF History
<1>3. ASSUME NEW c \in Int, c <= t
      PROVE  Cardinality(Since(F, c)) <= Cardinality(Since(G \cup {g}, c))
    <2>1. Since(G \cup {g}, c) = Since(G, c) \cup {g} /\ g \notin Since(G, c)
        BY <1>3 DEF Since
    <2>2. IsFiniteSet(Since(G, c)) /\ Cardinality(Since(G, c)) \in Nat
        BY SinceIsFinite DEF History
    <2>3. Cardinality(Since(G, c) \cup {g}) = Cardinality(Since(G, c)) + 1
        BY <2>1, <2>2, FS_AddElement
    <2> QED
        BY <2>1, <2>3 DEF Paid
<1>4. ASSUME NEW c \in Int, c > t PROVE Since(F, c) = {}
    BY <1>4 DEF Since, History, Stamps
<1>5. ASSUME NEW c \in Int
      PROVE  Since(F, c) = {} \/ Cardinality(Since(F, c)) <= Cardinality(Since(G \cup {g}, c))
    BY <1>3, <1>4
<1> QED
    BY <1>2, <1>5 DEF Covered

(* And then it may. *)
LEMMA CoveredMayFail ==
    ASSUME NEW t \in Nat, NEW F, NEW G, History(F, t), History(G, t), Covered(F, G),
           NEW x \in Stamps, x.at = t
    PROVE  History(F \cup {x}, t) /\ Paid(F \cup {x}, G)
<1>1. IsFiniteSet(F \cup {x})
    BY FS_AddElement DEF History
<1>2. History(F \cup {x}, t)
    BY <1>1 DEF History
<1>3. ASSUME NEW c \in Int
      PROVE  Cardinality(Since(F \cup {x}, c)) <= Cardinality(Since(G, c)) + 1
    <2>1. /\ IsFiniteSet(Since(F, c)) /\ Cardinality(Since(F, c)) \in Nat
          /\ Cardinality(Since(G, c)) \in Nat
        BY SinceIsFinite DEF History
    <2>2. Since(F \cup {x}, c) = Since(F, c) \/ Since(F \cup {x}, c) = Since(F, c) \cup {x}
        BY DEF Since
    <2>3. Cardinality(Since(F, c) \cup {x}) <= Cardinality(Since(F, c)) + 1
          /\ Cardinality(Since(F, c) \cup {x}) \in Nat
        BY <2>1, FS_AddElement
    <2>4. Cardinality(Since(F \cup {x}, c)) <= Cardinality(Since(F, c)) + 1
          /\ Cardinality(Since(F \cup {x}, c)) \in Nat
        <3>1. CASE Since(F \cup {x}, c) = Since(F, c)
            <4>1. Cardinality(Since(F \cup {x}, c)) = Cardinality(Since(F, c))
                BY <3>1, Zenon
            <4> QED
                BY <2>1, <4>1
        <3>2. CASE Since(F \cup {x}, c) = Since(F, c) \cup {x}
            <4>1. Cardinality(Since(F \cup {x}, c)) = Cardinality(Since(F, c) \cup {x})
                BY <3>2, Zenon
            <4> QED
                BY <2>3, <4>1
        <3> QED
            BY <2>2, <3>1, <3>2
    <2>5. CASE Since(F, c) = {}
        <3>1. Cardinality(Since(F, c)) = 0
            BY <2>5, FS_EmptySet
        <3> QED
            BY <2>1, <2>4, <3>1
    <2>6. CASE Cardinality(Since(F, c)) <= Cardinality(Since(G, c))
        BY <2>1, <2>4, <2>6
    <2> QED
        BY <2>5, <2>6 DEF Covered
<1> QED
    BY <1>2, <1>3 DEF Paid

(* What is forgotten is forgotten of both. *)
LEMMA ForgottenOfBoth ==
    ASSUME NEW t \in Nat, NEW F, NEW G, History(F, t), History(G, t), NEW d \in Int
    PROVE  /\ History(Since(F, d), t) /\ History(Since(G, d), t)
           /\ Paid(F, G) => Paid(Since(F, d), Since(G, d))
           /\ Covered(F, G) => Covered(Since(F, d), Since(G, d))
<1>1. History(Since(F, d), t) /\ History(Since(G, d), t)
    <2>1. Since(F, d) \in SUBSET F /\ Since(G, d) \in SUBSET G
        BY DEF Since
    <2>2. IsFiniteSet(Since(F, d)) /\ IsFiniteSet(Since(G, d))
        BY SinceIsFinite DEF History
    <2> QED
        BY <2>1, <2>2 DEF History
<1>2. ASSUME NEW c \in Int
      PROVE  \E e \in Int : /\ Since(Since(F, d), c) = Since(F, e)
                            /\ Since(Since(G, d), c) = Since(G, e)
    <2>1. CASE c >= d
        <3>1. Since(Since(F, d), c) = Since(F, c) /\ Since(Since(G, d), c) = Since(G, c)
            BY <2>1 DEF Since, History, Stamps
        <3> QED
            BY <3>1
    <2>2. CASE c < d
        <3>1. Since(Since(F, d), c) = Since(F, d) /\ Since(Since(G, d), c) = Since(G, d)
            BY <2>2 DEF Since, History, Stamps
        <3> QED
            BY <3>1
    <2> QED
        BY <2>1, <2>2
<1>3. Paid(F, G) => Paid(Since(F, d), Since(G, d))
    BY <1>2 DEF Paid
<1>4. Covered(F, G) => Covered(Since(F, d), Since(G, d))
    BY <1>2 DEF Covered
<1> QED
    BY <1>1, <1>3, <1>4

LEMMA RecentIsSince ==
    ASSUME NEW S \in SUBSET Stamps, NEW t \in Nat
    PROVE  Recent(S, t) = Since(S, t - WindowMs + 1)
BY WindowAssumption DEF Recent, Since, Stamps

-----------------------------------------------------------------------------
(* The invariant of the guard: its histories are of the past, lookups that *)
(* failed are paid for, and so will be those under way: there is room for  *)
(* them, or another request has taken it.                                  *)

Histories ==
    /\ lookup \in [Lookups -> Keys \cup {None}]
    /\ failed \in [Lookups -> [Keys -> SUBSET Stamps]]
    /\ \A k \in Keys : Numbered(Bucket(k)) /\ History(granted[k], now)
    /\ \A l \in Lookups, k \in Keys : History(failed[l][k], now)

Accounts ==
    \A l \in Lookups, k \in Keys :
        /\ Paid(failed[l][k], granted[k])
        /\ lookup[l] = k => PeekAllowed(k) \/ Covered(failed[l][k], granted[k])

GuardInv == Histories /\ Accounts

(* What a check does to the histories. *)
LEMMA CheckIsNoted ==
    ASSUME Inv, Histories, NEW k \in Keys, Check(k)
    PROVE  /\ now' = now /\ now \in Nat /\ k \notin Evicted(k)
           /\ \A j \in Keys : Numbered(Bucket(j)') /\ History(granted'[j], now)
           /\ \A j \in Keys : j # k =>
                 granted'[j] = IF j \in Evicted(k) THEN {} ELSE granted[j]
           /\ IF PeekAllowed(k)
              THEN \E g \in Stamps :
                      g.at = now /\ g \notin granted[k] /\ granted'[k] = granted[k] \cup {g}
              ELSE granted'[k] = granted[k]
<1> USE LimiterAssumption, WindowAssumption
<1> DEFINE S == Timestamps(Cleaned(k))
<1>1. Types /\ now \in Nat /\ now' = now /\ now \in 0..MaxNow
    BY DEF Inv, Types, Check
<1>2. k \notin Evicted(k)
    BY DEF Evicted, Oldest, Left
<1>3. /\ S \in SUBSET Stamps /\ IsFiniteSet(S)
      /\ InWindow(granted[k], now) \subseteq S
      /\ InWindow(S, now) = InWindow(Bucket(k), now)
    BY <1>1, CleanupLosesNothing, OthersKeep
<1>4. ASSUME NEW j \in Keys PROVE Numbered(Timestamps(Cleaned(j)))
    <2>1. Bucket(j) \in SUBSET Stamps /\ Numbered(Bucket(j)) /\ None \notin Buckets
        BY <1>1 DEF Types, Bucket, Timestamps, Buckets, Histories
    <2>2. Numbered({}) /\ Timestamps(None) = {}
        BY DEF Numbered, Timestamps
    <2>3. CASE Cleaned(j) = None \/ Cleaned(j) = records[j]
        BY <2>1, <2>2, <2>3 DEF Bucket
    <2>4. CASE records[j] # None
               /\ Cleaned(j) = [timestamps |-> InWindow(records[j].timestamps, now),
                                lastAccessed |-> records[j].lastAccessed]
        <3>1. records[j] \in Buckets
            BY <1>1, <2>4 DEF Types
        <3>2. Cleaned(j) \in Buckets
            BY <1>1, <2>4, <3>1 DEF Buckets, InWindow
        <3>3. Timestamps(Cleaned(j)) = InWindow(Bucket(j), now)
            BY <2>1, <2>4, <3>2 DEF Timestamps, Bucket
        <3> QED
            BY <1>1, <2>1, <3>3, WindowIsNumbered
    <2> QED
        BY <2>3, <2>4 DEF Cleaned, CleanedBucket
<1>5. ASSUME NEW j \in Keys PROVE Numbered(Bucket(j)')
    <2>1. CASE j = k
        <3>1. Checked(S, now) \in SUBSET Stamps
            BY <1>1, <1>3, CheckedStaysInQuota, OthersKeep
        <3>2. records'[k] = [timestamps |-> Checked(S, now), lastAccessed |-> now]
            BY DEF Check
        <3>3. records'[k] \in Buckets
            BY <1>1, <3>1, <3>2 DEF Buckets
        <3>4. Bucket(k)' = Checked(S, now)
            BY <3>2, <3>3 DEF Bucket, Timestamps, Buckets
        <3> QED
            BY <1>1, <1>3, <1>4, <2>1, <3>4, CheckedIsNumbered
    <2>2. CASE j # k
        <3>1. records'[j] = None \/ records'[j] = Cleaned(j)
            BY <2>2 DEF Check
        <3>2. Numbered(Timestamps(None))
            BY DEF Numbered, Timestamps
        <3> QED
            BY <1>4, <3>1, <3>2 DEF Bucket
    <2> QED
        BY <2>1, <2>2
<1>6. ASSUME NEW j \in Keys, j # k
      PROVE  granted'[j] = IF j \in Evicted(k) THEN {} ELSE granted[j]
    BY <1>6 DEF Check
<1>7. PeekAllowed(k) <=> Allowed(S, now)
    BY <1>3 DEF PeekAllowed, Allowed, Bucket
<1>8. granted'[k] = IF Allowed(S, now) THEN granted[k] \cup {Stamp(S, now)} ELSE granted[k]
    BY <1>2 DEF Check
<1>9. Stamp(S, now) \in Stamps /\ Stamp(S, now).at = now
    <2>1. {s \in S : s.at = now} \in SUBSET S
        OBVIOUS
    <2>2. Cardinality({s \in S : s.at = now}) \in Nat
        BY <1>3, <2>1, FewerStamps
    <2> QED
        BY <1>1, <2>2 DEF Stamp, Stamps
<1>10. Stamp(S, now) \notin granted[k]
    <2>1. Stamp(S, now) \notin S
        BY <1>1, <1>3, <1>4, StampIsNew
    <2>2. Stamp(S, now) \in granted[k] => Stamp(S, now) \in InWindow(granted[k], now)
        BY <1>1, <1>9 DEF InWindow
    <2> QED
        BY <1>3, <2>1, <2>2
<1>11. ASSUME NEW j \in Keys PROVE History(granted'[j], now)
    <2>1. History(granted[j], now)
        BY DEF Histories
    <2>2. History({}, now)
        BY FS_EmptySet DEF History
    <2>3. CASE j = k
        <3>1. IsFiniteSet(granted[k] \cup {Stamp(S, now)})
            BY <2>1, <2>3, FS_AddElement DEF History
        <3>2. History(granted[k] \cup {Stamp(S, now)}, now)
            BY <1>1, <1>9, <2>1, <2>3, <3>1 DEF History
        <3> QED
            BY <1>8, <2>1, <2>3, <3>2
    <2>4. CASE j # k
        BY <1>6, <2>1, <2>2, <2>4
    <2> QED
        BY <2>3, <2>4
<1> QED
    BY <1>1, <1>2, <1>5, <1>6, <1>7, <1>8, <1>9, <1>10, <1>11

(* Whoever fails for k after a check of k has been paid for; all others    *)
(* are as well off as they were.                                           *)
LEMMA CheckPays ==
    ASSUME Inv, GuardInv, NEW k \in Keys, Check(k), NEW l \in Lookups, NEW j \in Keys,
           NEW F, F = IF j \in Evicted(k) THEN {} ELSE failed[l][j]
    PROVE  /\ History(F, now) /\ History(granted'[j], now)
           /\ Paid(F, granted'[j])
           /\ lookup[l] = j =>
                 IF j = k THEN Covered(F, granted'[j])
                 ELSE PeekAllowed(j)' \/ Covered(F, granted'[j])
<1>1. /\ now \in Nat /\ k \notin Evicted(k)
      /\ j # k => granted'[j] = IF j \in Evicted(k) THEN {} ELSE granted[j]
    BY CheckIsNoted DEF GuardInv
<1>2. /\ History(failed[l][j], now) /\ History(granted[j], now)
      /\ Paid(failed[l][j], granted[j])
      /\ lookup[l] = j => PeekAllowed(j) \/ Covered(failed[l][j], granted[j])
    BY DEF GuardInv, Histories, Accounts
<1>3. CASE j = k /\ PeekAllowed(k)
    <2>1. PICK g \in Stamps :
             g.at = now /\ g \notin granted[k] /\ granted'[k] = granted[k] \cup {g}
        BY <1>3, CheckIsNoted DEF GuardInv
    <2>2. F = failed[l][j]
        BY <1>1, <1>3
    <2>3. History(granted'[j], now) /\ Covered(F, granted'[j])
        BY <1>1, <1>2, <1>3, <2>1, <2>2, GrantCovers
    <2>4. ASSUME NEW c \in Int
          PROVE  Cardinality(Since(F, c)) <= Cardinality(Since(granted'[j], c)) + 1
        <3>1. /\ Cardinality(Since(F, c)) \in Nat
              /\ Cardinality(Since(granted'[j], c)) \in Nat
            BY <1>2, <2>2, <2>3, SinceIsFinite DEF History
        <3>2. Cardinality({}) = 0
            BY FS_EmptySet
        <3> QED
            BY <2>3, <3>1, <3>2 DEF Covered
    <2> QED
        BY <1>2, <1>3, <2>2, <2>3, <2>4 DEF Paid
<1>4. CASE j = k /\ ~PeekAllowed(k)
    <2>1. granted'[k] = granted[k]
        BY <1>4, CheckIsNoted DEF GuardInv
    <2> QED
        BY <1>1, <1>2, <1>4, <2>1
<1>5. CASE j # k /\ j \in Evicted(k)
    <2>1. History({}, now) /\ IsFiniteSet({})
        BY FS_EmptySet DEF History
    <2> QED
        BY <1>1, <1>5, <2>1, NothingFailed
<1>6. CASE j # k /\ j \notin Evicted(k)
    BY <1>1, <1>2, <1>6, OthersStayAllowed
<1> QED
    BY <1>3, <1>4, <1>5, <1>6

(* A check by somebody without a lookup. *)
LEMMA GuardCheck ==
    ASSUME Inv, GuardInv, NEW k \in Keys, Check(k), failed' = StillFailed(k),
           UNCHANGED lookup
    PROVE  GuardInv'
<1>1. /\ now' = now /\ \A j \in Keys : Numbered(Bucket(j)')
    BY CheckIsNoted DEF GuardInv
<1>2. ASSUME NEW l \in Lookups, NEW j \in Keys
      PROVE  /\ failed'[l][j] = IF j \in Evicted(k) THEN {} ELSE failed[l][j]
             /\ History(failed'[l][j], now) /\ History(granted'[j], now)
             /\ Paid(failed'[l][j], granted'[j])
             /\ lookup[l] = j => PeekAllowed(j)' \/ Covered(failed'[l][j], granted'[j])
    <2>1. failed'[l][j] = IF j \in Evicted(k) THEN {} ELSE failed[l][j]
        BY DEF StillFailed
    <2> QED
        BY <2>1, CheckPays
<1>3. ASSUME NEW j \in Keys PROVE History(granted'[j], now)
    BY CheckIsNoted DEF GuardInv
<1>4. failed' \in [Lookups -> [Keys -> SUBSET Stamps]]
    BY DEF StillFailed, GuardInv, Histories
<1>5. Histories'
    BY <1>1, <1>2, <1>3, <1>4 DEF GuardInv, Histories
<1>6. Accounts'
    BY <1>2 DEF Accounts
<1> QED
    BY <1>5, <1>6 DEF GuardInv

(* The check by which a lookup that found no session pays. *)
LEMMA GuardNoSession ==
    ASSUME Inv, GuardInv, NEW l \in Lookups, NoSession(l)
    PROVE  GuardInv'
<1> USE LookupAssumption
<1>1. PICK k \in Keys : lookup[l] = k
    BY DEF NoSession, GuardInv, Histories
<1> DEFINE x == Stamp(failed[l][k], now)
<1>2. /\ Check(k) /\ lookup' = [lookup EXCEPT ![l] = None]
      /\ failed' = [StillFailed(k) EXCEPT ![l][k] = @ \cup {Stamp(@, now)}]
    BY <1>1 DEF NoSession
<1>3. /\ now' = now /\ now \in Nat /\ k \notin Evicted(k)
      /\ \A j \in Keys : Numbered(Bucket(j)') /\ History(granted'[j], now)
    BY <1>2, CheckIsNoted DEF GuardInv
<1>4. History(failed[l][k], now)
    BY DEF GuardInv, Histories
<1>5. x \in Stamps /\ x.at = now
    <2>1. {s \in failed[l][k] : s.at = now} \in SUBSET failed[l][k]
        OBVIOUS
    <2>2. Cardinality({s \in failed[l][k] : s.at = now}) \in Nat
        BY <1>4, <2>1, FewerStamps DEF History
    <2> QED
        BY <1>3, <2>2 DEF Stamp, Stamps
<1>6. /\ StillFailed(k) \in [Lookups -> [Keys -> SUBSET Stamps]]
      /\ \A i \in Lookups, j \in Keys :
            StillFailed(k)[i][j] = IF j \in Evicted(k) THEN {} ELSE failed[i][j]
    BY DEF StillFailed, GuardInv, Histories
<1>7. StillFailed(k)[l][k] = failed[l][k]
    BY <1>3, <1>6
<1> HIDE DEF x
<1>8. /\ failed' \in [Lookups -> [Keys -> SUBSET Stamps]]
      /\ failed'[l][k] = failed[l][k] \cup {x}
      /\ \A i \in Lookups, j \in Keys : i # l \/ j # k =>
            failed'[i][j] = StillFailed(k)[i][j]
    <2> DEFINE new == [StillFailed(k) EXCEPT ![l][k] = failed[l][k] \cup {x}]
               kept == StillFailed(k)
    <2>1. failed' = new
        BY <1>2, <1>6, <1>7 DEF x
    <2>2. kept \in [Lookups -> [Keys -> SUBSET Stamps]]
        BY <1>6
    <2>3. failed[l][k] \cup {x} \in SUBSET Stamps
        BY <1>4, <1>5 DEF History
    <2>4. new = [kept EXCEPT ![l][k] = failed[l][k] \cup {x}]
        OBVIOUS
    <2> HIDE DEF kept, new
    <2>5. /\ new \in [Lookups -> [Keys -> SUBSET Stamps]]
          /\ new[l][k] = failed[l][k] \cup {x}
          /\ \A i \in Lookups, j \in Keys : i # l \/ j # k => new[i][j] = kept[i][j]
        BY <2>2, <2>3, <2>4
    <2> QED
        BY <2>1, <2>5 DEF kept
<1>9. ASSUME NEW i \in Lookups, NEW j \in Keys
      PROVE  /\ History(failed'[i][j], now)
             /\ Paid(failed'[i][j], granted'[j])
             /\ lookup'[i] = j => PeekAllowed(j)' \/ Covered(failed'[i][j], granted'[j])
    <2>1. CASE i = l /\ j = k
        <3>1. History(granted'[k], now) /\ Covered(failed[l][k], granted'[k])
            BY <1>1, <1>2, <1>3, CheckPays
        <3>2. lookup'[l] = None
            BY <1>2 DEF GuardInv, Histories
        <3> QED
            BY <1>3, <1>4, <1>5, <1>8, <2>1, <3>1, <3>2, CoveredMayFail
    <2>2. CASE i # l \/ j # k
        <3>1. failed'[i][j] = IF j \in Evicted(k) THEN {} ELSE failed[i][j]
            BY <1>6, <1>8, <2>2
        <3>2. lookup'[i] = j => lookup[i] = j
            BY <1>2 DEF GuardInv, Histories
        <3> QED
            BY <1>2, <3>1, <3>2, CheckPays
    <2> QED
        BY <2>1, <2>2
<1>10. lookup' \in [Lookups -> Keys \cup {None}]
    BY <1>2 DEF GuardInv, Histories
<1>11. Histories'
    BY <1>3, <1>8, <1>9, <1>10 DEF Histories
<1>12. Accounts'
    BY <1>9 DEF Accounts
<1> QED
    BY <1>11, <1>12 DEF GuardInv

LEMMA GuardTick ==
    ASSUME Inv, GuardInv, PreAuthTick
    PROVE  GuardInv'
<1> USE LimiterAssumption, WindowAssumption
<1> DEFINE d == now' - WindowMs + 1
<1>1. /\ Tick /\ UNCHANGED lookup
      /\ failed' = [l \in Lookups |-> [k \in Keys |-> Recent(failed[l][k], now')]]
      /\ granted' = [k \in Keys |-> Recent(granted[k], now')]
    BY DEF PreAuthTick, Tick
<1>2. now \in Nat /\ now' \in Nat /\ now <= now' /\ d \in Int /\ records' = records
    BY <1>1 DEF Inv, Types, Tick
<1>3. ASSUME NEW S, History(S, now)
      PROVE  Recent(S, now') = Since(S, d)
    BY <1>2, <1>3, RecentIsSince DEF History
<1>4. ASSUME NEW S, History(S, now) PROVE History(S, now')
    BY <1>2, <1>4 DEF History, Stamps
<1> HIDE DEF d
<1>5. ASSUME NEW k \in Keys
      PROVE  /\ History(granted[k], now) /\ History(granted'[k], now')
             /\ granted'[k] = Since(granted[k], d) /\ Numbered(Bucket(k))
    <2>1. History(granted[k], now) /\ Numbered(Bucket(k))
        BY DEF GuardInv, Histories
    <2>2. granted'[k] = Since(granted[k], d)
        BY <1>1, <1>3, <2>1
    <2>3. History(Since(granted[k], d), now)
        BY <1>2, <2>1, ForgottenOfBoth
    <2> QED
        BY <1>4, <2>1, <2>2, <2>3
<1>6. ASSUME NEW l \in Lookups, NEW k \in Keys
      PROVE  /\ History(failed'[l][k], now') /\ Paid(failed'[l][k], granted'[k])
             /\ lookup'[l] = k => PeekAllowed(k)' \/ Covered(failed'[l][k], granted'[k])
    <2>1. History(failed[l][k], now)
        BY DEF GuardInv, Histories
    <2>2. failed'[l][k] = Since(failed[l][k], d)
        BY <1>1, <1>3, <2>1
    <2>3. /\ History(Since(failed[l][k], d), now)
          /\ Paid(failed[l][k], granted[k]) =>
                Paid(Since(failed[l][k], d), Since(granted[k], d))
          /\ Covered(failed[l][k], granted[k]) =>
                Covered(Since(failed[l][k], d), Since(granted[k], d))
        BY <1>2, <1>5, <2>1, ForgottenOfBoth
    <2>4. /\ Paid(failed[l][k], granted[k])
          /\ lookup[l] = k => PeekAllowed(k) \/ Covered(failed[l][k], granted[k])
        BY DEF GuardInv, Accounts
    <2>5. PeekAllowed(k) => PeekAllowed(k)'
        BY <1>1, TimeMakesRoom
    <2> QED
        BY <1>1, <1>4, <1>5, <2>2, <2>3, <2>4, <2>5
<1>7. failed' \in [Lookups -> [Keys -> SUBSET Stamps]]
    BY <1>1 DEF GuardInv, Histories, Recent
<1>8. Histories'
    BY <1>1, <1>2, <1>5, <1>6, <1>7 DEF GuardInv, Histories, Bucket
<1>9. Accounts'
    BY <1>6 DEF Accounts
<1> QED
    BY <1>8, <1>9 DEF GuardInv

LEMMA GuardStep ==
    ASSUME Inv, GuardInv, [PreAuthNext]_preAuthVars
    PROVE  GuardInv'
<1> USE LookupAssumption
<1>1. ASSUME NEW k \in Keys, Anonymous(k) \/ AssertAllowed(k) PROVE GuardInv'
    BY <1>1, GuardCheck DEF Anonymous, AssertAllowed
<1>2. ASSUME UNCHANGED <<vars, failed>>,
             lookup' \in [Lookups -> Keys \cup {None}],
             \A l \in Lookups, k \in Keys :
                lookup'[l] = k => lookup[l] = k \/ PeekAllowed(k)
      PROVE  GuardInv'
    <2>1. /\ now' = now /\ failed' = failed /\ granted' = granted
          /\ \A k : PeekAllowed(k)' = PeekAllowed(k) /\ Bucket(k)' = Bucket(k)
        BY <1>2 DEF vars, PeekAllowed, Bucket
    <2>2. Histories'
        BY <1>2, <2>1 DEF GuardInv, Histories
    <2>3. Accounts'
        BY <1>2, <2>1 DEF GuardInv, Accounts
    <2> QED
        BY <2>2, <2>3 DEF GuardInv
<1>3. ASSUME NEW l \in Lookups, LookUp(l) PROVE GuardInv'
    <2>1. PICK k \in Keys : PeekAllowed(k) /\ lookup' = [lookup EXCEPT ![l] = k]
        BY <1>3 DEF LookUp, CanAttempt
    <2>2. lookup \in [Lookups -> Keys \cup {None}]
        BY DEF GuardInv, Histories
    <2>3. \A i \in Lookups, j \in Keys : lookup'[i] = j => lookup[i] = j \/ PeekAllowed(j)
        BY <2>1, <2>2
    <2> QED
        BY <1>2, <1>3, <2>1, <2>2, <2>3 DEF LookUp
<1>4. ASSUME NEW l \in Lookups, SessionFound(l) PROVE GuardInv'
    <2>1. lookup \in [Lookups -> Keys \cup {None}]
        BY DEF GuardInv, Histories
    <2>2. \A i \in Lookups, j \in Keys : lookup'[i] = j => lookup[i] = j
        BY <1>4, <2>1 DEF SessionFound
    <2> QED
        BY <1>2, <1>4, <2>1, <2>2 DEF SessionFound
<1>5. ASSUME NEW l \in Lookups, NoSession(l) PROVE GuardInv'
    BY <1>5, GuardNoSession
<1>6. CASE PreAuthTick
    BY <1>6, GuardTick
<1>7. CASE UNCHANGED preAuthVars
    BY <1>2, <1>7 DEF preAuthVars, GuardInv, Histories
<1> QED
    BY <1>1, <1>3, <1>4, <1>5, <1>6, <1>7 DEF PreAuthNext

(* The guard calls the limiter in no other way than others do. *)
LEMMA GuardIsAUser == GuardInv /\ [PreAuthNext]_preAuthVars => [Next]_vars
<1> SUFFICES ASSUME GuardInv, [PreAuthNext]_preAuthVars PROVE [Next]_vars
    OBVIOUS
<1>1. ASSUME NEW k \in Keys, Check(k) PROVE Next
    BY <1>1 DEF Next
<1>2. ASSUME NEW l \in Lookups, NoSession(l) PROVE Next
    <2>1. lookup[l] \in Keys /\ Check(lookup[l])
        BY <1>2 DEF NoSession, GuardInv, Histories
    <2> QED
        BY <2>1 DEF Next
<1>3. ASSUME NEW l \in Lookups, LookUp(l) \/ SessionFound(l) PROVE UNCHANGED vars
    BY <1>3 DEF LookUp, SessionFound
<1>4. CASE \E k \in Keys : Anonymous(k) \/ AssertAllowed(k)
    BY <1>1, <1>4 DEF Anonymous, AssertAllowed
<1>5. CASE PreAuthTick \/ UNCHANGED preAuthVars
    BY <1>5 DEF Next, PreAuthTick, preAuthVars
<1> QED
    BY <1>2, <1>3, <1>4, <1>5 DEF PreAuthNext

LEMMA GuardInit == PreAuthInit => GuardInv
<1> SUFFICES ASSUME PreAuthInit PROVE GuardInv
    OBVIOUS
<1> USE LookupAssumption DEF PreAuthInit, Init
<1>1. /\ now \in Nat /\ History({}, now) /\ IsFiniteSet({})
      /\ \A k \in Keys : granted[k] = {} /\ Bucket(k) = {}
      /\ \A l \in Lookups, k \in Keys : failed[l][k] = {}
    BY FS_EmptySet DEF History, Bucket, Timestamps
<1>2. Histories
    BY <1>1 DEF Histories, Numbered
<1>3. Paid({}, {})
    BY <1>1, NothingFailed
<1>4. \A l \in Lookups, k \in Keys : lookup[l] # k
    OBVIOUS
<1>5. Accounts
    BY <1>1, <1>3, <1>4 DEF Accounts
<1> QED
    BY <1>2, <1>5 DEF GuardInv

LEMMA GuardInvHolds == PreAuthSpec => [](Inv /\ GuardInv)
<1>1. PreAuthInit => Inv /\ GuardInv
    BY InvInit, GuardInit DEF PreAuthInit
<1>2. Inv /\ GuardInv /\ [PreAuthNext]_preAuthVars => Inv' /\ GuardInv'
    BY GuardStep, GuardIsAUser, InvNext
<1> QED
    BY <1>1, <1>2, PTL DEF PreAuthSpec

(* Whatever the guard does is what the limiter allows its users: all that  *)
(* is proved of Spec holds of it.                                          *)
THEOREM GuardUsesTheLimiter == PreAuthSpec => Spec
<1>1. PreAuthInit => Init
    BY DEF PreAuthInit
<1> QED
    BY <1>1, GuardIsAUser, GuardInvHolds, PTL DEF PreAuthSpec, Spec

(* Lookups of requireAuthenticatedUser that find no session are paid for:  *)
(* in each place no more of them fail within a window than requests of the *)
(* address were let through in it, and one.                                *)
THEOREM LookupsCounted == PreAuthSpec => []LookupsAreCounted
<1>1. ASSUME Inv, GuardInv, NEW l \in Lookups, NEW k \in Keys
      PROVE  Cardinality(Recent(failed[l][k], now)) <= Cardinality(Recent(granted[k], now)) + 1
    <2>1. now \in Nat /\ now - WindowMs + 1 \in Int
        BY <1>1, LimiterAssumption, WindowAssumption DEF Inv, Types
    <2>2. /\ Recent(failed[l][k], now) = Since(failed[l][k], now - WindowMs + 1)
          /\ Recent(granted[k], now) = Since(granted[k], now - WindowMs + 1)
        BY <1>1, <2>1, RecentIsSince DEF GuardInv, Histories, History
    <2>3. Paid(failed[l][k], granted[k])
        BY <1>1 DEF GuardInv, Accounts
    <2> QED
        BY <2>1, <2>2, <2>3 DEF Paid
<1>2. Inv /\ GuardInv => LookupsAreCounted
    BY <1>1 DEF LookupsAreCounted
<1> QED
    BY <1>2, GuardInvHolds, PTL

-----------------------------------------------------------------------------
(* The Map of responses. *)

EntryShapes ==
    /\ now \in 0..MaxNow
    /\ entries \in [Keys -> Entries \cup {None}]
    /\ job \in [Requests -> [key : Keys, payload : Payloads] \cup {None}]
    /\ answered \in [key : Keys, payload : Payloads, replayed : BOOLEAN] \cup {None}
    /\ stored \in [Keys -> [payload : Payloads, at : 0..MaxNow] \cup {None}]

(* The keys are in an order, and there are no more than fit. *)
EntriesInPlace ==
    /\ opCounter \in 0..(CleanupEvery - 1)
    /\ IsOrder(older, EntryKeys)
    /\ IsFiniteSet(EntryKeys) /\ Cardinality(EntryKeys) <= MaxEntries

(* What is in the Map is what was stored last, and what is remembered is there. *)
EntriesTruthful ==
    \A k \in Keys :
        /\ entries[k] # None =>
              /\ stored[k] # None
              /\ entries[k].fingerprint = stored[k].payload
              /\ entries[k].expiresAt = stored[k].at + Ttl
        /\ Remembered(k) => entries[k] # None

IdemInv == EntryShapes /\ EntriesInPlace /\ EntriesTruthful /\ AnswersAreTrue

LEMMA IdemInvInit ==
    ASSUME IdemInit
    PROVE  IdemInv
<1> USE IdemAssumption DEF IdemInit
<1>1. EntryShapes /\ EntriesTruthful /\ AnswersAreTrue
    BY DEF EntryShapes, EntriesTruthful, Remembered, AnswersAreTrue
<1>2. EntryKeys = {} /\ IsFiniteSet({}) /\ Cardinality({}) = 0 /\ IsOrder({}, {})
    BY FS_EmptySet DEF EntryKeys, IsOrder
<1>3. opCounter \in 0..(CleanupEvery - 1) /\ 0 <= MaxEntries
    OBVIOUS
<1>4. EntriesInPlace
    BY <1>2, <1>3 DEF EntriesInPlace
<1> QED BY <1>1, <1>4 DEF IdemInv

(* What is remembered is found, and what is found is what was stored.      *)
LEMMA RememberedIsLive ==
    ASSUME EntryShapes, EntriesTruthful, NEW k \in Keys
    PROVE  /\ Remembered(k) => Live(k)
           /\ Live(k) => Remembered(k) /\ entries[k].fingerprint = stored[k].payload
<1>1. now \in Nat /\ Ttl \in Nat
    BY IdemAssumption DEF EntryShapes
<1>2. stored[k] # None => stored[k].at \in Nat
    BY DEF EntryShapes
<1> QED BY <1>1, <1>2 DEF EntriesTruthful, Remembered, Live, Expired

LEMMA IdemInvAnswer ==
    ASSUME IdemInv, NEW r \in Requests, Answer(r)
    PROVE  IdemInv'
<1>1. PICK k \in Keys, payload \in Payloads :
         /\ Live(k)
         /\ answered' = [key |-> k, payload |-> payload,
                          replayed |-> FingerprintMatches(entries[k], payload)]
    BY DEF Answer
<1>2. UNCHANGED <<now, entries, older, opCounter, job, stored>>
    BY DEF Answer
<1>3. Remembered(k) /\ entries[k].fingerprint = stored[k].payload
    BY <1>1, RememberedIsLive DEF IdemInv
<1>4. Remembered(k)' <=> Remembered(k)
    BY <1>2 DEF Remembered
<1>5. AnswersAreTrue'
    BY <1>1, <1>2, <1>3, <1>4 DEF AnswersAreTrue, FingerprintMatches
<1>6. EntryShapes'
  <2>1. answered' \in [key : Keys, payload : Payloads, replayed : BOOLEAN]
      BY <1>1 DEF FingerprintMatches
  <2> QED BY <1>2, <2>1 DEF IdemInv, EntryShapes
<1>7. EntriesInPlace' /\ EntriesTruthful'
    BY <1>2 DEF IdemInv, EntriesInPlace, EntryKeys, EntriesTruthful, Remembered
<1> QED BY <1>5, <1>6, <1>7 DEF IdemInv

(* An expired entry is deleted: nothing that was remembered goes with it.  *)
LEMMA IdemInvExecute ==
    ASSUME IdemInv, NEW r \in Requests, Execute(r)
    PROVE  IdemInv'
<1>1. PICK k \in Keys, payload \in Payloads :
         /\ ~Live(k)
         /\ entries' = [entries EXCEPT ![k] = None]
         /\ older' = Among(older, EntryKeys \ {k})
         /\ job' = [job EXCEPT ![r] = [key |-> k, payload |-> payload]]
    BY DEF Execute
<1>2. answered' = None /\ UNCHANGED <<now, opCounter, stored>>
    BY DEF Execute
<1>3. EntryShapes'
    BY <1>1, <1>2 DEF IdemInv, EntryShapes
<1>4. EntryKeys' = EntryKeys \ {k}
    BY <1>1 DEF EntryKeys, IdemInv, EntryShapes
<1>5. EntriesInPlace'
  <2>1. IsOrder(older, EntryKeys)' 
      BY <1>1, <1>4, OrderKept DEF IdemInv, EntriesInPlace
  <2>2. /\ IsFiniteSet(EntryKeys')
        /\ Cardinality(EntryKeys') \in Nat /\ Cardinality(EntryKeys) \in Nat
        /\ Cardinality(EntryKeys') <= Cardinality(EntryKeys)
      BY <1>4, FewerStamps DEF IdemInv, EntriesInPlace
  <2>3. Cardinality(EntryKeys') <= MaxEntries
      BY <2>2, IdemAssumption DEF IdemInv, EntriesInPlace
  <2> QED BY <1>2, <2>1, <2>2, <2>3 DEF IdemInv, EntriesInPlace
<1>6. EntriesTruthful'
  <2>1. ~Remembered(k)
      BY <1>1, RememberedIsLive DEF IdemInv
  <2>2. \A i \in Keys : Remembered(i)' <=> Remembered(i)
      BY <1>2 DEF Remembered
  <2>3. \A i \in Keys \ {k} : entries'[i] = entries[i]
      BY <1>1 DEF IdemInv, EntryShapes
  <2>4. entries'[k] = None
      BY <1>1 DEF IdemInv, EntryShapes
  <2> QED BY <1>2, <2>1, <2>2, <2>3, <2>4 DEF IdemInv, EntriesTruthful
<1>7. AnswersAreTrue'
    BY <1>2 DEF AnswersAreTrue
<1> QED BY <1>3, <1>5, <1>6, <1>7 DEF IdemInv

(* set deletes what has expired, and perhaps the oldest, before it puts.   *)
LEMMA IdemInvStore ==
    ASSUME IdemInv, NEW r \in Requests, Store(r)
    PROVE  IdemInv'
<1> USE IdemAssumption
<1> DEFINE k == job[r].key
           payload == job[r].payload
           new == [fingerprint |-> payload, expiresAt |-> now + Ttl]
<1>1. /\ k \in Keys /\ payload \in Payloads /\ now \in 0..MaxNow /\ now \in Nat
      /\ job' = [job EXCEPT ![r] = None] /\ answered' = None /\ UNCHANGED now
    BY DEF Store, IdemInv, EntryShapes
<1>2. /\ entries' = [i \in Keys |->
            IF i = k THEN new ELSE IF i \in Kept THEN entries[i] ELSE None]
      /\ older' = Put(older, Kept, k)
      /\ stored' = [i \in Keys |-> IF i = k THEN [payload |-> payload, at |-> now]
                                   ELSE IF i \in MakesRoom THEN None ELSE stored[i]]
      /\ opCounter' = (opCounter + 1) % CleanupEvery
    BY DEF Store
<1>3. new \in Entries /\ new # None
    BY <1>1 DEF Entries
<1>4. [payload |-> payload, at |-> now] \in [payload : Payloads, at : 0..MaxNow]
    BY <1>1
<1> HIDE DEF k, payload, new
<1>5. EntryShapes'
    BY <1>1, <1>2, <1>3, <1>4 DEF IdemInv, EntryShapes
<1>6. /\ KeysLeft \in SUBSET EntryKeys /\ MakesRoom \in SUBSET KeysLeft
      /\ Kept = KeysLeft \ MakesRoom
    BY DEF KeysLeft, MakesRoom, Kept, EntryKeys, Live,
           Oldest
<1>7. EntryKeys' = Kept \cup {k}
    BY <1>1, <1>2, <1>3, <1>6 DEF EntryKeys
<1>8. EntriesInPlace'
  <2>1. Cardinality(KeysLeft) < MaxEntries \/ MakesRoom = Oldest(older, KeysLeft)
    <3>1. Cardinality(KeysLeft) \in Nat
        BY <1>6, FewerStamps DEF IdemInv, EntriesInPlace
    <3>2. MakesRoom = IF Cardinality(KeysLeft) >= MaxEntries
                         THEN Oldest(older, KeysLeft) ELSE {}
        BY DEF MakesRoom, NoRoom
    <3> QED BY <3>1, <3>2, IdemAssumption
  <2>2. /\ IsOrder(Put(older, Kept, k), Kept \cup {k})
        /\ IsFiniteSet(Kept \cup {k}) /\ Cardinality(Kept \cup {k}) <= MaxEntries
      BY <1>6, <2>1, RoomIsMade DEF IdemInv, EntriesInPlace
  <2>3. opCounter' \in 0..(CleanupEvery - 1)
      BY <1>2 DEF IdemInv, EntriesInPlace
  <2> QED BY <1>2, <1>7, <2>2, <2>3 DEF EntriesInPlace
<1>9. EntriesTruthful'
  <2> SUFFICES ASSUME NEW i \in Keys
               PROVE  /\ entries'[i] # None =>
                            /\ stored'[i] # None
                            /\ entries'[i].fingerprint = stored'[i].payload
                            /\ entries'[i].expiresAt = stored'[i].at + Ttl
                      /\ Remembered(i)' => entries'[i] # None
      BY DEF EntriesTruthful
  <2>1. CASE i = k
      BY <1>2, <1>3, <1>4, <2>1 DEF new
  <2>2. CASE i # k /\ i \in Kept
    <3>1. entries'[i] = entries[i] /\ stored'[i] = stored[i]
        BY <1>2, <1>6, <2>2
    <3> QED BY <1>1, <3>1 DEF IdemInv, EntriesTruthful, Remembered
  <2>3. CASE i # k /\ i \in MakesRoom
    <3>1. entries'[i] = None /\ stored'[i] = None
        BY <1>2, <1>6, <2>3
    <3> QED BY <3>1 DEF Remembered
  <2>4. CASE i # k /\ i \notin KeysLeft
    <3>1. entries'[i] = None /\ stored'[i] = stored[i]
        BY <1>2, <1>6, <2>4
    <3>2. ~Live(i)
        BY <2>4 DEF KeysLeft, Live, EntryKeys
    <3>3. ~Remembered(i)
        BY <3>2, RememberedIsLive DEF IdemInv
    <3> QED BY <1>1, <3>1, <3>3 DEF Remembered
  <2> QED BY <1>6, <2>1, <2>2, <2>3, <2>4
<1> QED BY <1>1, <1>5, <1>8, <1>9 DEF IdemInv, AnswersAreTrue

LEMMA IdemInvRest ==
    ASSUME IdemInv,
           (\E r \in Requests : Fail(r)) \/ IdemTick \/ UNCHANGED idemVars
    PROVE  IdemInv'
<1> USE IdemAssumption
<1>1. /\ UNCHANGED <<entries, older, opCounter, stored>> /\ now' >= now
      /\ UNCHANGED <<answered, now>> \/ answered' = None
    BY DEF Fail, IdemTick, idemVars, IdemInv, EntryShapes
<1>2. EntryShapes'
    BY DEF Fail, IdemTick, idemVars, IdemInv, EntryShapes
<1>3. \A k \in Keys : Remembered(k)' => Remembered(k)
  <2>1. now \in Nat /\ now' \in Nat /\ \A k \in Keys : stored[k] # None => stored[k].at \in Nat
      BY <1>2 DEF IdemInv, EntryShapes
  <2> QED BY <1>1, <2>1 DEF Remembered
<1>4. EntriesInPlace' /\ EntriesTruthful'
    BY <1>1, <1>3 DEF IdemInv, EntriesInPlace, EntryKeys, EntriesTruthful
<1>5. AnswersAreTrue'
    BY <1>1 DEF IdemInv, AnswersAreTrue, Remembered
<1> QED BY <1>2, <1>4, <1>5 DEF IdemInv

LEMMA IdemInvRestart ==
    ASSUME IdemInv, Restart
    PROVE  IdemInv'
<1> USE IdemAssumption DEF Restart
<1>1. EntryShapes' /\ EntriesTruthful' /\ AnswersAreTrue'
    BY DEF IdemInv, EntryShapes, EntriesTruthful, Remembered, AnswersAreTrue
<1>2. EntryKeys' = {} /\ IsFiniteSet({}) /\ Cardinality({}) = 0 /\ IsOrder({}, {})
    BY FS_EmptySet DEF EntryKeys, IsOrder
<1>3. opCounter' \in 0..(CleanupEvery - 1) /\ 0 <= MaxEntries
    OBVIOUS
<1>4. EntriesInPlace'
    BY <1>2, <1>3 DEF EntriesInPlace
<1> QED BY <1>1, <1>4 DEF IdemInv

LEMMA IdemInvStep ==
    ASSUME IdemInv, [IdemNext]_idemVars
    PROVE  IdemInv'
<1> QED BY IdemInvAnswer, IdemInvExecute, IdemInvStore, IdemInvRest, IdemInvRestart DEF IdemNext

LEMMA IdemInvHolds == IdemSpec => []IdemInv
<1>1. IdemInit => IdemInv
    BY IdemInvInit
<1>2. IdemInv /\ [IdemNext]_idemVars => IdemInv'
    BY IdemInvStep
<1> QED BY <1>1, <1>2, PTL DEF IdemSpec

(* MemoryIdempotencyStore never keeps more than maxEntries entries, and    *)
(* what it keeps and what the handlers hold has its shape.                 *)
THEOREM IdemTypesHold == IdemSpec => []IdemTypeOK
<1>1. IdemInv => IdemTypeOK
    BY DEF IdemInv, EntryShapes, EntriesInPlace, IdemTypeOK
<1> QED BY <1>1, IdemInvHolds, PTL

(* What get answers is the last response stored for the key, still within  *)
(* its TTL, and is replayed exactly to its own payload.                    *)
THEOREM AnswersHold == IdemSpec => []AnswersAreTrue
<1>1. IdemInv => AnswersAreTrue
    BY DEF IdemInv
<1> QED BY <1>1, IdemInvHolds, PTL

(* A handler never executes what is remembered: get finds it until its TTL *)
(* has passed, or until it has had to make room for another key.           *)
THEOREM RetriesAreReplayed == IdemSpec => RetryIsReplayed
<1>1. ASSUME IdemInv, [IdemNext]_idemVars, NEW r \in Requests, job[r] = None, job'[r] # None
      PROVE  ~Remembered(job'[r].key)
  <2>1. job \in [Requests -> [key : Keys, payload : Payloads] \cup {None}]
      BY <1>1 DEF IdemInv, EntryShapes
  <2>2. PICK q \in Requests : Execute(q)
    <3>1. CASE \E q \in Requests : Answer(q)
        BY <1>1, <3>1 DEF Answer
    <3>2. ASSUME NEW q \in Requests, Store(q) \/ Fail(q) PROVE FALSE
        BY <1>1, <2>1, <3>2 DEF Store, Fail
    <3>3. CASE Restart \/ IdemTick \/ UNCHANGED idemVars
        BY <1>1, <3>3 DEF Restart, IdemTick, idemVars
    <3> QED BY <1>1, <3>1, <3>2, <3>3 DEF IdemNext
  <2>3. PICK k \in Keys, payload \in Payloads :
           ~Live(k) /\ job' = [job EXCEPT ![q] = [key |-> k, payload |-> payload]]
      BY <2>2 DEF Execute
  <2>4. job'[r].key = k
      BY <1>1, <2>1, <2>3
  <2> QED BY <1>1, <2>3, <2>4, RememberedIsLive DEF IdemInv
<1>2. IdemInv /\ [IdemNext]_idemVars =>
        [\A r \in Requests :
            job[r] = None /\ job'[r] # None => ~Remembered(job'[r].key)]_(idemVars)
    BY <1>1
<1> QED BY <1>2, IdemInvHolds, PTL DEF IdemSpec, RetryIsReplayed

===============================================================================

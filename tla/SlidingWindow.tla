------------------------------ MODULE SlidingWindow ----------------------------
(***************************************************************************)
(* SlidingWindowRateLimiter: a Map of buckets, one per key (a user, a      *)
(* client address), with a periodic cleanup and a capacity at which the    *)
(* oldest bucket makes room.  check runs to completion, so each is a step. *)
(***************************************************************************)
EXTENDS RateWindow, BoundedMap

CONSTANT MaxBuckets  \* capacity of the Map

ASSUME LimiterAssumption ==
    /\ MaxBuckets \in Nat \ {0} /\ CleanupEvery \in Nat \ {0} /\ MaxNow \in Nat
    /\ None \notin [timestamps : SUBSET Stamps, lastAccessed : 0..MaxNow]

VARIABLES
    records,    \* the Map: per key its bucket, None where there is none
    granted,    \* history: per key, the recent requests let through since
                \* its bucket last had to make room for another
    promised    \* history: per key, when the last refusal said to come back

vars == <<now, records, older, opCounter, granted, promised>>

-----------------------------------------------------------------------------
(* The Map. *)

Timestamps(bucket) == IF bucket = None THEN {} ELSE bucket.timestamps

(* Cleanup purges every bucket and deletes those that are empty and idle.  *)
Idle(bucket) ==
    InWindow(bucket.timestamps, now) = {} /\ now - bucket.lastAccessed > WindowMs

CleanedBucket(bucket) ==
    IF bucket = None \/ Idle(bucket) THEN None
    ELSE [timestamps |-> InWindow(bucket.timestamps, now),
          lastAccessed |-> bucket.lastAccessed]

Present == {k \in Keys : records[k] # None}
Full == Cardinality(Present) >= MaxBuckets

(* What check finds in the Map after the cleanup it may begin with. *)
Cleans == opCounter + 1 = CleanupEvery \/ Full
Cleaned(k) == IF Cleans THEN CleanedBucket(records[k]) ELSE records[k]
Left == {k \in Keys : Cleaned(k) # None}

(* The oldest bucket, when a new one does not fit. *)
EvictedLate(k) ==
    IF Cleaned(k) = None /\ Cardinality(Left) > MaxBuckets THEN Oldest(older, Left) ELSE {}
Evicted(k) ==
    IF Cleaned(k) = None /\ Cardinality(Left) >= MaxBuckets THEN Oldest(older, Left) ELSE {}

PeekAllowed(k) == Allowed(Timestamps(records[k]), now)

-----------------------------------------------------------------------------
(* What of a history is still in a window that ends at time t. *)
Recent(stamps, t) == {s \in stamps : t - s.at < WindowMs}

Init ==
    /\ now = 0
    /\ records = [k \in Keys |-> None]
    /\ older = {}
    /\ opCounter = 0
    /\ granted = [k \in Keys |-> {}]
    /\ promised = [k \in Keys |-> None]

(* check, and consume and assertAllowed which call it. *)
Check(k) ==
    LET stamps == Timestamps(Cleaned(k)) IN
        /\ records' = [j \in Keys |->
              IF j = k THEN [timestamps |-> Checked(stamps, now), lastAccessed |-> now]
              ELSE IF j \in Evicted(k) THEN None ELSE Cleaned(j)]
        /\ older' = Put(older, Left \ Evicted(k), k)
        /\ opCounter' = (opCounter + 1) % CleanupEvery
        /\ granted' = [j \in Keys |->
              IF j \in Evicted(k) THEN {}
              ELSE IF j = k /\ Allowed(stamps, now) THEN granted[j] \cup {Stamp(stamps, now)}
              ELSE granted[j]]
        /\ promised' = [promised EXCEPT ![k] =
              IF Allowed(stamps, now) THEN None ELSE now + ResetInMs(stamps, now)]
        /\ UNCHANGED now

Tick ==
    /\ now < MaxNow
    /\ now' = now + 1
    /\ granted' = [k \in Keys |-> Recent(granted[k], now')]
    /\ UNCHANGED <<records, older, opCounter, promised>>

Next == Tick \/ \E k \in Keys : Check(k)

Spec == Init /\ [][Next]_vars

-----------------------------------------------------------------------------
(* Properties. *)

(* Buckets have the shape the code gives them; there are never more than   *)
(* fit, whatever cleanup left and whoever had to make room, and their keys *)
(* are in an order.                                                        *)
TypeOK ==
    /\ now \in 0..MaxNow
    /\ \A k \in Keys : records[k] # None =>
          records[k].timestamps \subseteq Stamps /\ records[k].lastAccessed \in 0..MaxNow
    /\ IsOrder(older, Present) /\ Cardinality(Present) <= MaxBuckets
    /\ opCounter \in 0..(CleanupEvery - 1)
    /\ \A k \in Keys : granted[k] \subseteq Stamps
    /\ promised \in [Keys -> Nat \cup {None}]

(* No more than MaxRequests of a key are let through within any window,    *)
(* whatever other keys do and however cleanup interferes, as long as its   *)
(* bucket has not had to make room for another.                            *)
WindowRespected ==
    \A k \in Keys :
        Cardinality(Recent(granted[k], now)) <= MaxRequests

(* What a refusal tells to wait for is exact.  Who waits for as long is    *)
(* let through, if nothing was let through for the key since: peek says so,*)
(* and check does so.  Before that the answer stays no, unless the bucket  *)
(* has had to make room: nobody waits for nothing.                         *)
PromiseExact ==
    [][\A k \in Keys : promised[k] # None =>
          IF now >= promised[k]
          THEN PeekAllowed(k) /\ promised'[k] \in {None, promised[k]}
          ELSE granted[k] # {} => ~PeekAllowed(k)]_vars

===============================================================================

------------------------------- MODULE RateWindow ------------------------------
(***************************************************************************)
(* The arithmetic of SlidingWindowRateLimiter on the timestamps of one     *)
(* bucket.  A timestamp is the time of a request that was let through and  *)
(* its number among those of the same millisecond; the code's array of     *)
(* times, which is in ascending order, is the set of them.                 *)
(***************************************************************************)
EXTENDS Integers, FiniteSets, FiniteSetsExt

CONSTANTS
    WindowMs,    \* length of the window
    MaxRequests  \* requests let through within it

ASSUME WindowAssumption == WindowMs \in Nat \ {0} /\ MaxRequests \in Nat \ {0}

Stamps == [at : Nat, n : Nat]

(* Purge timestamps outside the current window. *)
InWindowLonger(stamps, t) == {s \in stamps : s.at >= t - WindowMs}
InWindowShorter(stamps, t) == {s \in stamps : s.at > t - (WindowMs - 1)}
InWindow(stamps, t) == {s \in stamps : s.at > t - WindowMs}

Allowed(stamps, t) == Cardinality(InWindow(stamps, t)) < MaxRequests

Stamp(stamps, t) == [at |-> t, n |-> Cardinality({s \in stamps : s.at = t})]

(* The timestamps a check at time t leaves in the bucket. *)
Checked(stamps, t) ==
    IF Allowed(stamps, t) THEN InWindow(stamps, t) \cup {Stamp(stamps, t)}
    ELSE InWindow(stamps, t)

(* resetInMs of a check or peek that is refused. *)
ResetInMsOfNewest(stamps, t) == Max({s.at : s \in InWindow(stamps, t)}) + WindowMs - t
ResetInMs(stamps, t) == Min({s.at : s \in InWindow(stamps, t)}) + WindowMs - t
===============================================================================

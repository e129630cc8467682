-------------------------------- MODULE PreAuth --------------------------------
(***************************************************************************)
(* requireAuthenticatedUser and the quota of preAuthRateLimiter: a client  *)
(* address that has attempts left may have a session looked up, and pays   *)
(* for it when the lookup has found none.  The lookup is awaited, so that  *)
(* requests of the address overtake each other.  A cached session passes   *)
(* before the quota is looked at, and is left out.                         *)
(***************************************************************************)
EXTENDS SlidingWindow

CONSTANT Lookups  \* places of the requests that look up a session at a time

ASSUME LookupAssumption == None \notin Keys

VARIABLES
    lookup,  \* per place, the key of the address that a session is looked
             \* up for, or None
    failed   \* history: per place and key the recent lookups that found no
             \* session, since the key's bucket last had to make room

preAuthVars == <<vars, lookup, failed>>

(* assertCanAttempt. *)
AnybodyCanAttempt(k) == TRUE
CanAttempt(k) == PeekAllowed(k)

(* What is left of failed when a check of k takes the bucket of another. *)
StillFailed(k) ==
    [l \in Lookups |-> [j \in Keys |-> IF j \in Evicted(k) THEN {} ELSE failed[l][j]]]

-----------------------------------------------------------------------------
PreAuthInit ==
    /\ Init
    /\ lookup = [l \in Lookups |-> None]
    /\ failed = [l \in Lookups |-> [k \in Keys |-> {}]]

(* A request without a cookie pays at once. *)
Anonymous(k) ==
    /\ CanAttempt(k)
    /\ Check(k)
    /\ failed' = StillFailed(k)
    /\ UNCHANGED lookup

(* getSessionFromRequest is awaited. *)
LookUp(l) ==
    /\ lookup[l] = None
    /\ \E k \in Keys : CanAttempt(k) /\ lookup' = [lookup EXCEPT ![l] = k]
    /\ UNCHANGED <<vars, failed>>

(* A session is found, or the lookup throws: nobody pays. *)
SessionFound(l) ==
    /\ lookup[l] # None
    /\ lookup' = [lookup EXCEPT ![l] = None]
    /\ UNCHANGED <<vars, failed>>

(* Without a session the request pays: consume, whatever it answers. *)
NoSessionUnpaid(l) ==
    /\ lookup[l] # None
    /\ lookup' = [lookup EXCEPT ![l] = None]
    /\ failed' = [failed EXCEPT ![l][lookup[l]] = @ \cup {Stamp(@, now)}]
    /\ UNCHANGED vars

NoSession(l) ==
    /\ lookup[l] # None
    /\ Check(lookup[l])
    /\ lookup' = [lookup EXCEPT ![l] = None]
    /\ failed' = [StillFailed(lookup[l]) EXCEPT ![l][lookup[l]] = @ \cup {Stamp(@, now)}]

(* assertAllowed of a route; the routes have limiters of their own, which  *)
(* are the same but for the guard.                                         *)
AssertAllowed(k) == Check(k) /\ failed' = StillFailed(k) /\ UNCHANGED lookup

PreAuthTick ==
    /\ Tick
    /\ failed' = [l \in Lookups |-> [k \in Keys |-> Recent(failed[l][k], now')]]
    /\ UNCHANGED lookup

PreAuthNext ==
    \/ \E k \in Keys : Anonymous(k) \/ AssertAllowed(k)
    \/ \E l \in Lookups : LookUp(l) \/ SessionFound(l) \/ NoSession(l)
    \/ PreAuthTick

PreAuthSpec == PreAuthInit /\ [][PreAuthNext]_preAuthVars

-----------------------------------------------------------------------------
(* Properties. *)

(* Lookups that find no session are paid for.  In each place no more of    *)
(* them fail within a window than requests of the address were let through *)
(* in it, and one, which may have been overtaken before.  So the session   *)
(* store sees up to MaxRequests + 1 for each place, as many as there are   *)
(* requests at a time: those that look before any has paid pass together.  *)
LookupsAreCounted ==
    \A l \in Lookups, k \in Keys :
        Cardinality(Recent(failed[l][k], now)) <= Cardinality(Recent(granted[k], now)) + 1

===============================================================================

------------------------------- MODULE BoundedMap ------------------------------
(***************************************************************************)
(* What the rate limiter and the idempotency store share: a JavaScript Map *)
(* of bounded size, whose oldest key makes room for a new one and which is *)
(* cleaned up every so many operations.  What the Map holds per key is     *)
(* declared by each of the two.  Its keys are in the order of their        *)
(* insertion, here the relation "was inserted before".                     *)
(***************************************************************************)
EXTENDS Integers, FiniteSets

CONSTANTS
    Keys,
    CleanupEvery,  \* 200 checks, 100 sets in the code: then the Map is cleaned up
    MaxNow,        \* bound: time
    None

VARIABLES
    now,        \* Date.now()
    older,      \* the order in which the Map's keys were inserted
    opCounter   \* operations since the start, modulo CleanupEvery

(* The key that keys().next() gives. *)
Oldest(order, keys) == {k \in keys : \A j \in keys : <<j, k>> \notin order}

(* Some keys have been deleted. *)
Among(order, kept) == order \cap (kept \X kept)

(* A key is set: it keeps its place, and comes last if it had none. *)
Put(order, kept, k) ==
    Among(order, kept) \cup (IF k \in kept THEN {} ELSE kept \X {k})

(* Of two keys in the Map one was inserted before the other. *)
IsOrder(order, keys) ==
    /\ order \subseteq keys \X keys
    /\ \A i \in keys : <<i, i>> \notin order
    /\ \A i, j \in keys : i = j \/ <<i, j>> \in order \/ <<j, i>> \in order
    /\ \A i, j, k \in keys : <<i, j>> \in order /\ <<j, k>> \in order => <<i, k>> \in order

===============================================================================

---------------------------- MODULE MCLoginSessions ----------------------------
(* LoginSessions on small instances: requests are spread over two instances. *)
EXTENDS LoginSessions, TLC

CONSTANTS r1, r2, r3, a, b

TwoRequests == {r1, r2}
ThreeRequests == {r1, r2, r3}
TwoInstances == {a, b}
OnBoth == (r1 :> a) @@ (r2 :> b)
TwoOnOne == (r1 :> a) @@ (r2 :> a) @@ (r3 :> b)

Symmetry == Permutations(States) \cup Permutations(Sessions)
===============================================================================

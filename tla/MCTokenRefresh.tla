----------------------------- MODULE MCTokenRefresh ----------------------------
(* TokenRefresh on small instances: three calls on two servers. *)
EXTENDS TokenRefresh, TLC

CONSTANTS r1, r2, r3, a, b
ThreeRequests == {r1, r2, r3}
TwoInstances == {a, b}
TwoOnOne == (r1 :> a @@ r2 :> a @@ r3 :> b)
===============================================================================

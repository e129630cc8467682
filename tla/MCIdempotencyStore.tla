--------------------------- MODULE MCIdempotencyStore --------------------------
(* IdempotencyStore on small instances. *)
EXTENDS IdempotencyStore, TLC

Symmetry == Permutations(Requests) \cup Permutations(Keys) \cup Permutations(Payloads)
===============================================================================

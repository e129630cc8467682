------------------------------- MODULE MCPreAuth -------------------------------
(* SlidingWindow under PreAuth on a small instance: more keys than buckets. *)
EXTENDS PreAuth, TLC

Symmetry == Permutations(Keys) \cup Permutations(Lookups)
===============================================================================

------------------------------ MODULE MCRandomizer -----------------------------
(* Randomizer on small instances. *)
EXTENDS Randomizer, TLC

(* Ids are numbers, which have the order localeCompare gives them. *)
MCSort(rows) == SortSeq(rows, <)

MCCounts == {<<1, 0>>, <<1, 1>>, <<2, 1>>}

Symmetry == Permutations(Rules) \cup Permutations(Seeds) \cup Permutations(Events)
===============================================================================

-------------------------- MODULE MCGiveawayLifecycle --------------------------
(* GiveawayLifecycle on small instances. *)
EXTENDS GiveawayLifecycle, SequencesExt

(* Rows are numbers, so that they have the canonical order the draw sorts  *)
(* by; seed s starts the selection s rows further on.                      *)
MCOutcome(s, E, n) ==
    LET sorted == SetToSortSeq(E, <)
        shown  == IF n <= Len(sorted) THEN n ELSE Len(sorted)
    IN  [i \in 1..shown |-> sorted[((s + i) % Len(sorted)) + 1]]

(* "all" accepts every row, "liked" only the even ones. *)
MCPassing == [u \in Rules |-> IF u = "all" THEN Rows ELSE {p \in Rows : p % 2 = 0}]

Symmetry == Permutations(Requests)
===============================================================================

---------------------------- MODULE GiveawayContract ---------------------------
(***************************************************************************)
(* What a giveaway promises, without requests, repositories or races: a    *)
(* ledger of locks that only grows, a phase, and one result, drawn while a *)
(* lock is in force from the rows and the seed of one and the same ledger  *)
(* entry.                                                                  *)
(***************************************************************************)
EXTENDS Naturals, Sequences, FiniteSets

CONSTANTS Rows, Rules, Seeds, Needs, Outcome(_, _, _), None

VARIABLES
    phase,      \* "open", "locked" or "drawn"
    ledger,     \* the locks made so far: rows, rules and seed of each
    result      \* the draw, or None

vars == <<phase, ledger, result>>

Init ==
    /\ phase = "open"
    /\ ledger = <<>>
    /\ result = None

(* Every lock commits to a seed no earlier lock has used. *)
Lock ==
    /\ phase = "open"
    /\ \E E \in (SUBSET Rows) \ {{}}, u \in Rules, s \in Seeds :
          /\ \A v \in 1..Len(ledger) : ledger[v].seed # s
          /\ ledger' = Append(ledger, [eligible |-> E, rules |-> u, seed |-> s])
    /\ phase' = "locked"
    /\ UNCHANGED result

Unlock ==
    /\ phase = "locked"
    /\ phase' = "open"
    /\ UNCHANGED <<ledger, result>>

Draw ==
    /\ phase = "locked"
    /\ \E v \in 1..Len(ledger), n \in Needs :
          /\ n <= Cardinality(ledger[v].eligible)
          /\ result' = [version |-> v, seed |-> ledger[v].seed, need |-> n,
                        winners |-> Outcome(ledger[v].seed, ledger[v].eligible, n)]
    /\ phase' = "drawn"
    /\ UNCHANGED ledger

Next == Lock \/ Unlock \/ Draw

Spec == Init /\ [][Next]_vars
===============================================================================

--------------------------- MODULE MCDecisionLedger ---------------------------
(***************************************************************************)
(* DecisionLedger on small instances.                                      *)
(***************************************************************************)
EXTENDS DecisionLedger, TLC

Symmetry == Permutations(Actions) \cup Permutations(Revisions)

\* The clock stands still, is set back or goes on.
AnyClock == {-1, 0, 1}
=============================================================================

----------------------------- MODULE MCTaskLoop -----------------------------
(***************************************************************************)
(* TaskLoop on small instances: the interchangeable values are symmetric.  *)
(***************************************************************************)
EXTENDS TaskLoop, TLC

Symmetry == Permutations(Engines) \cup Permutations(Tasks)
              \cup Permutations(Evidence)
=============================================================================

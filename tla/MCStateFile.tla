----------------------------- MODULE MCStateFile -----------------------------
(***************************************************************************)
(* StateFile on small instances: an engine that crashes or not, another,   *)
(* and an operator's route command, which all do the same to the file.     *)
(***************************************************************************)
EXTENDS StateFile

Processes == {"engine", "engine2", "operator"}
=============================================================================

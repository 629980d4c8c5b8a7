---------------------------- MODULE MCProgression ----------------------------
(***************************************************************************)
(* Progression on small instances: three Tasks, of which the first may be  *)
(* changed once and the second needs an approval.                          *)
(***************************************************************************)
EXTENDS Progression

ThreeTasks == {"task-0002", "task-0007", "task-0003"}
ThreeInOrder == <<"task-0002", "task-0007", "task-0003">>
SecondRequired == {"task-0007"}
FirstRetries == [t \in ThreeTasks |-> IF t = "task-0002" THEN 1 ELSE 0]
===============================================================================

---------------------------- MODULE TaskLifecycle ----------------------------
(***************************************************************************)
(* What the Loop Engine promises about one Task, without engines, files,   *)
(* Workers or crashes: an Attempt is implemented, gets exactly one verdict *)
(* and the verdict is acted on exactly once; changes are requested at most *)
(* limit times before the Task is blocked; a Task that requires approval   *)
(* is done only by a decision.                                             *)
(***************************************************************************)
EXTENDS Integers

CONSTANTS Tasks

VARIABLES
    life,     \* Tasks -> the Task's position in the lifecycle
    verdict   \* Tasks -> the verdict on the current Attempt not acted on yet

vars == <<life, verdict>>

Init ==
    /\ \A t \in Tasks : /\ life[t].state = "implement"
                        /\ life[t].count = 0
                        /\ life[t].attempts = 0
                        /\ life[t].approval \in {"not_required", "required"}
    /\ verdict = [t \in Tasks |-> "none"]

Implement(t) ==
    /\ life[t].state = "implement"
    /\ life' = [life EXCEPT ![t].state = "review", ![t].attempts = @ + 1]
    /\ UNCHANGED verdict

Judge(t) ==
    /\ life[t].state = "review"
    /\ verdict[t] = "none"
    /\ \E v \in {"pass", "changes_requested"} :
          verdict' = [verdict EXCEPT ![t] = v]
    /\ UNCHANGED life

Pass(t) ==
    /\ verdict[t] = "pass"
    /\ life' = [life EXCEPT ![t].state = IF life[t].approval = "required"
                                         THEN "approval" ELSE "done"]
    /\ verdict' = [verdict EXCEPT ![t] = "none"]

Retry(t) ==
    /\ verdict[t] = "changes_requested"
    /\ life[t].count < life[t].limit
    /\ life' = [life EXCEPT ![t].state = "implement", ![t].count = @ + 1]
    /\ verdict' = [verdict EXCEPT ![t] = "none"]

Exhaust(t) ==
    /\ verdict[t] = "changes_requested"
    /\ life[t].count = life[t].limit
    /\ life' = [life EXCEPT ![t].state = "blocked"]
    /\ verdict' = [verdict EXCEPT ![t] = "none"]

Answer(t) ==
    /\ life[t].state = "approval"
    /\ \/ life' = [life EXCEPT ![t].state = "done", ![t].approval = "approved"]
       \/ life' = [life EXCEPT ![t].state = "blocked",
                               ![t].approval = "rejected"]
    /\ UNCHANGED verdict

Next == \E t \in Tasks : \/ Implement(t) \/ Judge(t) \/ Pass(t)
                         \/ Retry(t) \/ Exhaust(t) \/ Answer(t)

Spec == Init /\ [][Next]_vars
=============================================================================

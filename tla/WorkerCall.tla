----------------------------- MODULE WorkerCall -----------------------------
(***************************************************************************)
(* What the Loop Engine relies on when it awaits worker.execute: a call    *)
(* settles once; it fails if the signal was aborted before the child was   *)
(* spawned; a capacity deferral is a settlement like any other.  TaskLoop  *)
(* abstracts the transport to this, and CommandWorker implements it.       *)
(***************************************************************************)
CONSTANTS Engines

VARIABLES call    \* Engines -> where the engine's call is

Settlements == {"result", "deferred", "error"}

Init == call = [e \in Engines |-> "idle"]

Begin(e) ==
    /\ call[e] = "idle"
    /\ \E late \in {"active", "late"} : call' = [call EXCEPT ![e] = late]

Settle(e) ==
    /\ call[e] = "active"
    /\ \E how \in Settlements : call' = [call EXCEPT ![e] = how]

SettleLate(e) ==
    /\ call[e] = "late"
    /\ call' = [call EXCEPT ![e] = "error"]

Consume(e) ==
    /\ call[e] \in Settlements
    /\ call' = [call EXCEPT ![e] = "idle"]

Next == \E e \in Engines : Begin(e) \/ Settle(e) \/ SettleLate(e) \/ Consume(e)

Spec == Init /\ [][Next]_call
=============================================================================

------------------------------ MODULE MCWorkers ------------------------------
(***************************************************************************)
(* The Worker side on small instances: the transport, and the two provider *)
(* adapters it starts.  A behaviour is one of the three, and the variables *)
(* of the other two stay as they are: what passes between them is an exit  *)
(* code and an execution, which each of the modules covers in full.        *)
(* Liveness is checked, so no symmetry.                                    *)
(***************************************************************************)
EXTENDS CommandWorker, ClaudeWorker, CodexWorker

VARIABLE worker    \* the one of the three this behaviour is about

all == <<worker, vars, claudeVars, codexVars>>

MCInit == /\ worker \in {"transport", "claude", "codex"}
          /\ Init /\ ClaudeInit /\ CodexInit

MCNext ==
    \/ /\ worker = "transport"
       /\ Next /\ UNCHANGED <<worker, claudeVars, codexVars>>
    \/ /\ worker = "claude"
       /\ ClaudeNext /\ UNCHANGED <<worker, vars, codexVars>>
    \/ /\ worker = "codex"
       /\ CodexNext /\ UNCHANGED <<worker, vars, claudeVars>>

MCSpec == MCInit /\ [][MCNext]_all
MCFairSpec == MCSpec /\ Fairness /\ ClaudeFairness /\ CodexFairness

\* The Roles of one Task, which may not share a provider session.
Roles == {"implementer", "reviewer"}

-------------------------------------------------------------------------------
(* What a Claude session writes *)

About(type, s) == [type |-> type, session |-> s]
Limit(s, status, reset) ==
    [type |-> "rate_limit_event", session |-> s, status |-> status, resetsAt |-> reset]
Reply(s, text) == [type |-> "result", session |-> s, text |-> text, is_error |-> FALSE]

ClaudeLines ==
    {About("init", "s1"), About("malformed", "none"),
     Limit("s1", "rejected", 5), Limit("s2", "rejected", 7), Limit("s1", "rejected", 0),
     Reply("s1", <<"prose", "answer">>), Reply("s1", <<"answer", "misshapen">>)}

-------------------------------------------------------------------------------
(* What a Codex session writes, and its app-server answers *)

\* Two months: the first has a day more in the second of three years.
Month(first, days) == [first |-> first, days |-> days]
Leap == <<<<Month(0, 1), Month(1, 2)>>, <<Month(3, 2), Month(5, 2)>>,
          <<Month(7, 1), Month(8, 2)>>>>

Text(kind) == [kind |-> kind]
FebruaryLast == [kind |-> "monthday", month |-> 1, day |-> 2]
Noon == [kind |-> "clock", unit |-> 1]

CodexLines ==
    {[type |-> "thread.started", thread |-> "t1"],
     [type |-> "thread.started", thread |-> "t2"],
     [type |-> "turn.completed"], [type |-> "malformed"],
     [type |-> "turn.failed", message |-> Text("none")],
     [type |-> "turn.failed", message |-> FebruaryLast],
     [type |-> "error", message |-> Noon]}

Turn(id, failed, limit) ==
    [status |-> "ok", thread |-> id, failed |-> failed, usageLimit |-> limit]
TurnReplies ==
    {[status |-> "error"], Turn("t1", TRUE, TRUE), Turn("t2", TRUE, TRUE),
     Turn("t1", TRUE, FALSE), Turn("t1", FALSE, FALSE)}

Open == [exhausted |-> FALSE, resetsAt |-> 0]
Full(t) == [exhausted |-> TRUE, resetsAt |-> t]
Limits(first, second) ==
    [status |-> "ok", limitId |-> "codex", reached |-> TRUE,
     primary |-> first, secondary |-> second]
LimitReplies ==
    {[status |-> "error"], Limits(Open, Open), Limits(Full(9), Open),
     Limits(Full(8), Full(9)), Limits(Full(9), Full(-1)), Limits(Full(60), Open),
     [Limits(Full(9), Open) EXCEPT !.limitId = "other"],
     [Limits(Full(9), Open) EXCEPT !.reached = FALSE]}

Texts == {<<"answer">>}
===============================================================================

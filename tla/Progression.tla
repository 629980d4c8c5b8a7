----------------------------- MODULE Progression -----------------------------
(***************************************************************************)
(* `aios progress`: the Tasks of an adopted plan, run one after the other  *)
(* in the order of PLAN.md, each by one call of the Loop Engine, until all *)
(* are done or one of them stops the command, which then reports the       *)
(* Tasks that are done, the current one, and why it stopped.               *)
(*                                                                         *)
(* What the engine does to a Task is a step of TaskLifecycle (TaskLoop     *)
(* shows that it is).  Meanwhile other engines take such steps too, the    *)
(* operator writes decision files, files are damaged and repaired, and the *)
(* command may get a signal.  The command is called again and again.       *)
(*                                                                         *)
(* derivePlanProgressState is the second reading of the same files, for    *)
(* the dashboard.  Left out: Workers and files (TaskLoop), routing's part  *)
(* of the report, wording, and PLAN.md changing to another valid order.    *)
(***************************************************************************)
EXTENDS Integers, Sequences, FiniteSets, SequencesExt

CONSTANTS
    Tasks,      \* the Tasks the plan names
    Order,      \* the order in which it names them
    Required,   \* those that need an approval
    Limit,      \* Tasks -> how often changes may be requested
    MaxDamaged  \* how many documents are damaged at a time (bound)

Plan == "PLAN.md"
NoTask == "none"

ASSUME ProgressionAssumption ==
    /\ Order \in Seq(Tasks) /\ IsInjective(Order) /\ Range(Order) = Tasks
    /\ Plan \notin Tasks /\ NoTask \notin Tasks
    /\ Required \subseteq Tasks /\ Limit \in [Tasks -> Nat] /\ MaxDamaged \in Nat

VARIABLES
    life, verdict,  \* the Tasks, as in TaskLifecycle
    decision,   \* the approval decision files
    broken,     \* PLAN.md and the Task files that cannot be read
    unsound,    \* the Tasks whose Review is missing or does not fit
    pc,         \* where the command is
    index,      \* the position in the order it has come to
    seen,       \* the Task as the engine has loaded it
    completed,  \* the Tasks it knows to be done
    report,     \* what it is about to print
    signalled,  \* whether it got SIGINT or SIGTERM
    last,       \* what the previous call printed, if that lasts
    disturbed,  \* when others last changed something: before or during this
                \* call (history)
    damaged     \* the broken documents that were damaged during this call
                \* (history)

vars == <<life, verdict, decision, broken, unsound, pc, index, seen, completed,
          report, signalled, last, disturbed, damaged>>
documents == <<life, verdict, decision, broken, unsound>>
command == <<index, seen, completed>>
history == <<last, disturbed, damaged>>

L == INSTANCE TaskLifecycle

Reasons == {"plan_complete", "awaiting_approval", "blocked_rejected",
            "blocked_retry_exhausted", "worker_failure", "invalid_document",
            "capacity_wait", "cancelled", "conflict"}

\* Those that only a change to the repository can lift.
Durable == {"plan_complete", "awaiting_approval", "blocked_rejected",
            "blocked_retry_exhausted"}

Nothing == [reason |-> "none", task |-> NoTask, completed |-> << >>]
Unread == [doc |-> "none"]

Init ==
    /\ life = [t \in Tasks |->
                 [state |-> "implement", count |-> 0, attempts |-> 0,
                  limit |-> Limit[t],
                  approval |-> IF t \in Required THEN "required" ELSE "not_required"]]
    /\ verdict = [t \in Tasks |-> "none"]
    /\ decision = [t \in Tasks |-> "none"]
    /\ broken = {} /\ unsound = {}
    /\ pc = "idle" /\ index = 1 /\ seen = Unread /\ completed = << >>
    /\ report = Nothing /\ last = Nothing
    /\ signalled = FALSE /\ disturbed = "before" /\ damaged = {}

State(t) == life[t].state
Current == Order[index]

\* The command's next point; Stop leaves the loop with a report (stopFor).
Goto(point) == pc' = point /\ UNCHANGED report

Stop(reason, task) ==
    /\ report' = [reason |-> reason, task |-> task, completed |-> completed']
    /\ pc' = "stopped"

-------------------------------------------------------------------------------
\* The command.

\* A slip: only PLAN.md is read before the first Task runs.
Start_PlanOnly ==
    /\ pc = "idle"
    /\ signalled' = FALSE
    /\ index' = 1 /\ completed' = << >> /\ seen' = Unread
    /\ IF Plan \in broken THEN Stop("invalid_document", NoTask) ELSE Goto("select")
    /\ UNCHANGED <<documents, history>>

\* readPlanOrder: PLAN.md, and every Task it names, must load.
Start ==
    /\ pc = "idle"
    /\ signalled' = FALSE
    /\ index' = 1 /\ completed' = << >> /\ seen' = Unread
    /\ IF broken # {} THEN Stop("invalid_document", NoTask) ELSE Goto("select")
    /\ UNCHANGED <<documents, history>>

\* A slip: the last Task is taken for the end of the order.
Finished_Early == index >= Len(Order)

Finished == index > Len(Order)

\* A slip: a Task that is blocked is passed over.
Select_SkipsBlocked ==
    /\ pc = "select" /\ ~Finished
    /\ UNCHANGED seen
    /\ \/ /\ State(Current) \in {"done", "blocked"}
          /\ completed' = Append(completed, Current)
          /\ index' = index + 1
          /\ Goto("select")
       \/ /\ State(Current) \notin {"done", "blocked"}
          /\ UNCHANGED <<completed, index>>
          /\ Goto("boundary")
    /\ UNCHANGED <<documents, signalled, history>>

\* selectNextTask, one Task at a time: what is done is skipped.
Select ==
    /\ pc = "select" /\ ~Finished
    /\ UNCHANGED seen
    /\ \/ /\ Current \in broken
          /\ completed' = << >>
          /\ UNCHANGED index
          /\ Stop("invalid_document", NoTask)
       \/ /\ Current \notin broken /\ State(Current) = "done"
          /\ completed' = Append(completed, Current)
          /\ index' = index + 1
          /\ Goto("select")
       \/ /\ Current \notin broken /\ State(Current) # "done"
          /\ UNCHANGED <<completed, index>>
          /\ Goto("boundary")
    /\ UNCHANGED <<documents, signalled, history>>

\* The top of the loop: a signal is looked at, and engine.run is called.
Boundary ==
    /\ pc = "boundary" /\ ~Finished
    /\ UNCHANGED command
    /\ IF signalled THEN Stop("cancelled", Current) ELSE Goto("load")
    /\ UNCHANGED <<documents, signalled, history>>

PlanComplete ==
    /\ pc \in {"select", "boundary", "skip"} /\ Finished
    /\ UNCHANGED command
    /\ Stop("plan_complete", NoTask)
    /\ UNCHANGED <<documents, signalled, history>>

\* skipDoneSuffix: what is done already after the Task that was just run.  A
\* Task that cannot be read throws past runProgression.
Skip ==
    /\ pc = "skip" /\ ~Finished
    /\ UNCHANGED seen
    /\ \/ /\ Current \in broken
          /\ UNCHANGED <<completed, index>>
          /\ Goto("rejected")
       \/ /\ Current \notin broken /\ State(Current) = "done"
          /\ completed' = Append(completed, Current)
          /\ index' = index + 1
          /\ Goto("skip")
       \/ /\ Current \notin broken /\ State(Current) # "done"
          /\ UNCHANGED <<completed, index>>
          /\ Goto("boundary")
    /\ UNCHANGED <<documents, signalled, history>>

-------------------------------------------------------------------------------
\* engine.run(Current).

BlockedReason(t) == IF life[t].approval = "rejected" THEN "blocked_rejected"
                                                     ELSE "blocked_retry_exhausted"

\* A slip: the Task that was just run is not counted.
Load_Forgets ==
    /\ pc = "load"
    /\ LET t == Current IN
       \/ /\ State(t) = "done"
          /\ index' = index + 1
          /\ seen' = Unread
          /\ UNCHANGED completed
          /\ Goto("skip")
       \/ /\ State(t) = "blocked"
          /\ UNCHANGED command
          /\ Stop(BlockedReason(t), t)
       \/ /\ State(t) \notin {"done", "blocked"}
          /\ seen' = [doc |-> life[t], verdict |-> verdict[t]]
          /\ UNCHANGED <<completed, index>>
          /\ Goto("role")
    /\ UNCHANGED <<documents, signalled, history>>

\* The Task and its evidence are loaded before every Role.
Load ==
    /\ pc = "load"
    /\ LET t == Current IN
       \/ /\ t \in broken \cup unsound
          /\ UNCHANGED command
          /\ Stop("invalid_document", t)
       \/ /\ t \notin broken \cup unsound /\ State(t) = "done"
          /\ completed' = Append(completed, t)
          /\ index' = index + 1
          /\ seen' = Unread
          /\ Goto("skip")
       \/ /\ t \notin broken \cup unsound /\ State(t) = "blocked"
          /\ UNCHANGED command
          /\ Stop(BlockedReason(t), t)
       \/ /\ t \notin broken \cup unsound /\ State(t) \notin {"done", "blocked"}
          /\ seen' = [doc |-> life[t], verdict |-> verdict[t]]
          /\ UNCHANGED <<completed, index>>
          /\ Goto("role")
    /\ UNCHANGED <<documents, signalled, history>>

Unchanged(t) == t \notin broken /\ life[t] = seen.doc

\* A slip: a Worker that fails is started again.
Halt_Retries ==
    /\ pc = "role" /\ seen.verdict = "none"
    /\ Goto("load")
    /\ UNCHANGED <<documents, command, signalled, history>>

\* A Worker ends without a Result: it fails, defers, is cancelled, or is an
\* approver that found no decision.
Halt ==
    /\ pc = "role" /\ seen.verdict = "none"
    /\ UNCHANGED command
    /\ LET t == Current IN
       \/ ~Unchanged(t) /\ Stop("conflict", t)
       \/ /\ Unchanged(t)
          /\ \/ Stop("worker_failure", t)
             \/ Stop("capacity_wait", t)
             \/ signalled /\ Stop("cancelled", t)
             \/ /\ State(t) = "approval" /\ decision[t] = "none"
                /\ Stop("awaiting_approval", t)
    /\ UNCHANGED <<documents, signalled, history>>

\* A Result, and what the engine writes for it.
WriteResult ==
    /\ pc = "role" /\ seen.verdict = "none" /\ Unchanged(Current)
    /\ \/ L!Implement(Current)
       \/ L!Answer(Current) /\ life'[Current].approval = decision[Current]
    /\ Goto("load")
    /\ UNCHANGED <<decision, broken, unsound, command, signalled, history>>

\* createReview refuses a second Review of the Attempt.
PersistReview ==
    /\ pc = "role" /\ seen.verdict = "none" /\ Unchanged(Current)
    /\ State(Current) = "review"
    /\ \/ /\ L!Judge(Current)
          /\ seen' = [seen EXCEPT !.verdict = verdict'[Current]]
          /\ Goto("role")
          /\ UNCHANGED <<index, completed>>
       \/ /\ verdict[Current] # "none"
          /\ UNCHANGED <<life, verdict, command>>
          /\ Stop("invalid_document", Current)
    /\ UNCHANGED <<decision, broken, unsound, signalled, history>>

\* The Task takes the step its Review asks for, its own or an orphan it found.
ApplyReview ==
    /\ pc = "role" /\ seen.verdict # "none"
    /\ \/ /\ Unchanged(Current)
          /\ L!Pass(Current) \/ L!Retry(Current) \/ L!Exhaust(Current)
          /\ Goto("load")
          /\ UNCHANGED command
       \/ /\ ~Unchanged(Current)
          /\ UNCHANGED <<life, verdict, command>>
          /\ Stop("conflict", Current)
    /\ UNCHANGED <<decision, broken, unsound, signalled, history>>

\* The report is printed, or the command has failed without one.
Exit ==
    /\ pc \in {"stopped", "rejected"}
    /\ last' = IF report.reason \in Durable THEN report ELSE Nothing
    /\ pc' = "idle" /\ report' = Nothing
    /\ index' = 1 /\ completed' = << >> /\ seen' = Unread
    /\ signalled' = FALSE
    /\ disturbed' = IF disturbed = "during" THEN "before" ELSE "no"
    /\ damaged' = {}
    /\ UNCHANGED documents

Step == \/ Select \/ Boundary \/ PlanComplete \/ Skip \/ Load \/ Halt
        \/ WriteResult \/ PersistReview \/ ApplyReview \/ Exit

-------------------------------------------------------------------------------
\* Everybody else.

Disturb == /\ disturbed' = IF pc = "idle" THEN "before" ELSE "during"
           /\ UNCHANGED <<pc, command, report, signalled, last>>

\* Another engine runs a Role on a Task.
OtherEngine ==
    /\ \E t \in Tasks \ broken :
          \/ L!Implement(t) \/ L!Judge(t)
          \/ L!Pass(t) \/ L!Retry(t) \/ L!Exhaust(t)
          \/ L!Answer(t) /\ life'[t].approval = decision[t]
    /\ Disturb
    /\ UNCHANGED <<decision, broken, unsound, damaged>>

\* The operator answers while the Task waits for it.
Decide ==
    /\ \E t \in Tasks, d \in {"approved", "rejected"} :
          /\ State(t) = "approval" /\ decision[t] = "none"
          /\ decision' = [decision EXCEPT ![t] = d]
    /\ Disturb
    /\ UNCHANGED <<life, verdict, broken, unsound, damaged>>

HasReview(t) == State(t) \in {"approval", "done", "blocked"} \/ life[t].count > 0

Damage ==
    /\ Cardinality(broken) + Cardinality(unsound) < MaxDamaged
    /\ \/ /\ \E x \in Tasks \cup {Plan} : broken' = broken \cup {x}
          /\ UNCHANGED unsound
       \/ /\ \E t \in Tasks : HasReview(t) /\ unsound' = unsound \cup {t}
          /\ UNCHANGED broken
    /\ damaged' = IF pc = "idle" THEN {} ELSE damaged \cup (broken' \ broken)
    /\ Disturb
    /\ UNCHANGED <<life, verdict, decision>>

Repair ==
    /\ broken \cup unsound # {}
    /\ broken' = {} /\ unsound' = {} /\ damaged' = {}
    /\ Disturb
    /\ UNCHANGED <<life, verdict, decision>>

Signal ==
    /\ pc \notin {"idle", "stopped", "rejected"} /\ ~signalled
    /\ signalled' = TRUE
    /\ UNCHANGED <<documents, pc, command, report, history>>

Next == Start \/ Step \/ OtherEngine \/ Decide \/ Damage \/ Repair \/ Signal

Spec == Init /\ [][Next]_vars

\* Every await of the command comes back; the operator need not call it.
FairSpec == Spec /\ WF_vars(Step)

-------------------------------------------------------------------------------
\* derivePlanProgressState.

\* What its loop has counted as done after n Tasks of the order.
Counted[n \in 0 .. Len(Order)] ==
    IF n = 0 THEN << >>
    ELSE IF State(Order[n]) = "done" THEN Append(Counted[n - 1], Order[n])
    ELSE Counted[n - 1]

derivePlanProgressState ==
    LET unsoundAt == {k \in 1 .. Len(Order) : Order[k] \in unsound}
        openAt == {k \in 1 .. Len(Order) : State(Order[k]) # "done"}
        First(ks) == CHOOSE k \in ks : \A j \in ks : k <= j
        t == Order[First(openAt)] IN
    CASE broken # {} ->
           [reason |-> "invalid_document", task |-> NoTask, completed |-> << >>]
      [] broken = {} /\ unsoundAt # {} ->
           [reason |-> "invalid_document", task |-> Order[First(unsoundAt)],
            completed |-> Counted[First(unsoundAt) - 1]]
      [] broken = {} /\ unsoundAt = {} /\ openAt = {} ->
           [reason |-> "plan_complete", task |-> NoTask,
            completed |-> Counted[Len(Order)]]
      [] broken = {} /\ unsoundAt = {} /\ openAt # {} ->
           [task |-> t, completed |-> Counted[Len(Order)],
            reason |-> CASE State(t) = "approval" -> "awaiting_approval"
                         [] State(t) = "blocked"  -> BlockedReason(t)
                         [] OTHER                 -> "none"]

-------------------------------------------------------------------------------
TypeOK ==
    /\ decision \in [Tasks -> {"none", "approved", "rejected"}]
    /\ broken \subseteq Tasks \cup {Plan} /\ unsound \subseteq Tasks
    /\ pc \in {"idle", "select", "boundary", "load", "role", "skip", "stopped",
               "rejected"}
    /\ index \in 1 .. Len(Order) + 1
    /\ Range(completed) \subseteq Tasks
    /\ \A r \in {report, last} : /\ r.reason \in Reasons \cup {"none"}
                                 /\ r.task \in Tasks \cup {NoTask}
    /\ signalled \in BOOLEAN /\ disturbed \in {"no", "before", "during"}
    /\ damaged \subseteq Tasks \cup {Plan}

\* No Task is run before every Task the plan orders before it is done, and what
\* the command believes to be done is: whatever other engines do meanwhile.
DependenciesDone ==
    pc \in {"boundary", "load", "role", "skip"} =>
        /\ completed = SubSeq(Order, 1, index - 1)
        /\ \A k \in 1 .. index - 1 : State(Order[k]) = "done"

\* The two readings of the repository agree.  When nobody else touched it during
\* the call (and nothing is damaged but the evidence of the Task reported on),
\* the report and derivePlanProgressState name the same Task; if what stopped the
\* command is in the documents they name the same reason; and the dashboard
\* counts as done what the command does, and perhaps Tasks further on.
ReportAgrees ==
    pc = "stopped" /\ disturbed # "during" /\ unsound \subseteq {report.task} =>
        LET d == derivePlanProgressState IN
        /\ d.task = report.task
        /\ report.reason \in Durable \cup {"invalid_document"} =>
              d.reason = report.reason
        /\ IsPrefix(report.completed, d.completed)

\* Running the same command again changes nothing and says the same: a call that
\* follows one that stopped for a durable reason, with nothing changed by others
\* since, reports the same Tasks and the same reason, unless a signal or the
\* approver's own Worker stops it at that same Task.
RerunSame ==
    pc = "stopped" /\ disturbed = "no" /\ last.reason \in Durable =>
        /\ report.task = last.task
        /\ report.completed = last.completed
        /\ \/ report.reason = last.reason
           \/ report.reason = "cancelled" /\ signalled
           \/ /\ last.reason = "awaiting_approval"
              /\ report.reason \in {"worker_failure", "capacity_wait"}

\* The command throws its report away for one reason only: the file of the very
\* Task it comes to next is unreadable, and was damaged during this call.
\* What was damaged before, what is damaged elsewhere, and any other change that
\* is made meanwhile end in a report.
ReportLostByDamageOnly ==
    [][pc # "rejected" /\ pc' = "rejected" => Current \in damaged]_vars

\* Every call ends, whatever others do: no Task keeps the command busy for ever.
CommandEnds == (pc # "idle") ~> (pc = "idle")
===============================================================================

---------------------------- MODULE RoutedDispatch ----------------------------
(***************************************************************************)
(* One Role action under routing: RoutedAssignmentResolver.resolve,         *)
(* RoutedWorker and the part of LoopEngine.run that drives them, from the   *)
(* Task that asks for the action to the Task write that answers it.  Every  *)
(* await that writes the decision ledger is a step, so that a crash, a      *)
(* refused write, an edit or an operator's reset can fall between two.      *)
(*                                                                          *)
(* The ledger is the action's current decision sequence, as ActionRoutes    *)
(* has it: DecisionLedger shows that the file implements it.  A ledger      *)
(* write can always be refused (another writer, a lock left behind, a clock *)
(* set back), and nobody else works on this action.  Which candidate is     *)
(* eligible is left open: selectCandidate may return any candidate the      *)
(* sequence has not used, or none.  A capacity wait is one step.            *)
(***************************************************************************)
EXTENDS RouteEvents, Integers, Sequences, FiniteSets

CONSTANTS
    Candidates,   \* routing candidates of the Role
    None,         \* no candidate, no session
    Revisions,    \* policy revisions an operator's configuration can have
    MaxPauses,    \* maxCapacityPauses of a run
    MaxRuns,      \* runs of the command (bound)
    MaxChanges,   \* edits of the configuration and of the Task (bound)
    MaxCrashes    \* crashes of the engine's process (bound)

ASSUME DispatchAssumption ==
    /\ None \notin Candidates
    /\ MaxPauses \in Nat /\ MaxRuns \in Nat
    /\ MaxChanges \in Nat /\ MaxCrashes \in Nat

VARIABLES
    route,      \* rows of the action's current decision sequence
    pinned,     \* its override input: a candidate pinned without fallback
    asks,       \* the Task on disk still asks for the action
    stale,      \* the Task on disk is not the one the run loaded
    revision,   \* policy revision of the configuration file
    engine,     \* the running command
    outcome,    \* how the last command ended
    runs, changes, crashes   \* what the bounds count

vars == <<route, pinned, asks, stale, revision, engine, outcome,
          runs, changes, crashes>>

outside == <<revision, runs, changes, crashes>>

Places == {"idle", "resolve", "decide", "launch", "running", "judge", "reject",
           "report", "advance", "pause", "cooldown", "policy", "fail", "follow",
           "record", "deferred", "accept", "write"}
Outcomes == {"none", "done", "refused", "waiting", "cancelled", "conflict",
             "halted", "crashed"}
Reasons == {"none", "capacity", "failure", "repeated_evidence"}

Idle == [at |-> "idle", revision |-> CHOOSE r \in Revisions : TRUE,
         pin |-> FALSE, step |-> 0, choice |-> None, reason |-> "none",
         next |-> None, deferred |-> None, continuation |-> None, pauses |-> 0]

Open == route # <<>> /\ \E k \in DOMAIN route : route[k].status # "superseded"

Used == {route[k].choice : k \in DOMAIN route}

Init ==
    /\ route = <<>> /\ pinned = FALSE
    /\ asks = TRUE /\ stale = FALSE
    /\ revision \in Revisions
    /\ engine = Idle /\ outcome = "none"
    /\ runs = 0 /\ changes = 0 /\ crashes = 0

At(place) == engine.at = place

Go(place) == engine' = [engine EXCEPT !.at = place]

End(how) ==
    /\ engine' = Idle
    /\ outcome' = how
    /\ UNCHANGED <<asks, stale>> /\ UNCHANGED outside

Inside == UNCHANGED <<asks, stale, outcome>> /\ UNCHANGED outside

-----------------------------------------------------------------------------
(* Ledger writes *)

\* Does the row the engine works on take this event?  It is looked up in the
\* current sequence by policy revision and step.
Fits(kind) ==
    /\ engine.step \in DOMAIN route
    /\ route[engine.step].revision = engine.revision
    /\ eventFits(kind, route[engine.step].status)

Event(kind) ==
    /\ Fits(kind)
    /\ route' = [route EXCEPT ![engine.step].status = statusAfter(kind, @)]
    /\ UNCHANGED pinned

Row(choice) ==
    [revision |-> engine.revision, choice |-> choice, status |-> "selected"]

\* The run ends; an error of execute is reported as a conflict if the Task
\* changed meanwhile.
Stop(how) == End(IF stale THEN "conflict" ELSE how)

\* A write of the ledger or of the cooldown store is refused, or resolve finds
\* no candidate.
WriteRefused ==
    /\ \/ /\ engine.at \in {"decide", "reject", "accept"}
          /\ End("halted")
       \/ /\ engine.at \in {"launch", "report", "pause", "cooldown", "fail",
                            "follow", "record"}
          /\ Stop("halted")
    /\ UNCHANGED <<route, pinned>>

-----------------------------------------------------------------------------
(* RoutedAssignmentResolver.resolve *)

\* The command starts: the Task is loaded, and the operator's override given.
Start ==
    /\ At("idle") /\ asks
    /\ runs < MaxRuns
    /\ \E pin \in BOOLEAN :
          engine' = [Idle EXCEPT !.at = "resolve", !.pin = pin]
    /\ stale' = FALSE /\ runs' = runs + 1 /\ outcome' = "none"
    /\ UNCHANGED <<route, pinned, asks, revision, changes, crashes>>

LoadPolicy ==
    /\ At("resolve")
    /\ engine' = [engine EXCEPT !.at = "decide", !.revision = revision]
    /\ UNCHANGED <<route, pinned>> /\ Inside

\* What a run with this policy and override can take up where it is: nothing
\* recorded, or an undispatched row of the same policy input.
Resumable(policy, pin) ==
    Open => /\ \A k \in DOMAIN route : route[k].revision = policy
            /\ pinned = pin
            /\ route[Len(route)].status = "selected"

ResolveRefuses ==
    /\ At("decide")
    /\ ~Resumable(engine.revision, engine.pin)
    /\ End("refused") /\ UNCHANGED <<route, pinned>>

ReuseRow ==
    /\ At("decide")
    /\ Open /\ Resumable(engine.revision, engine.pin)
    /\ engine' = [engine EXCEPT !.at = "launch", !.step = Len(route),
                                !.choice = route[Len(route)].choice]
    /\ UNCHANGED <<route, pinned>> /\ Inside

SelectFirst ==
    /\ At("decide") /\ ~Open
    /\ \E choice \in Candidates :
          /\ route' = <<Row(choice)>>
          /\ engine' = [engine EXCEPT !.at = "launch", !.step = 1, !.choice = choice]
    /\ pinned' = engine.pin
    /\ Inside

-----------------------------------------------------------------------------
(* RoutedWorker.execute *)

\* A slip: the Worker is launched before its row says so.
Launch_Unrecorded ==
    /\ At("launch")
    /\ engine.deferred \in {None, engine.choice} \/ engine.continuation = None
    /\ UNCHANGED <<route, pinned>>
    /\ Go("running") /\ Inside

Launch ==
    /\ At("launch")
    /\ engine.deferred \in {None, engine.choice} \/ engine.continuation = None
    /\ Event("launch")
    /\ Go("running") /\ Inside

\* The Worker succeeds, fails in a way another candidate may recover, reports
\* a failure, or defers.
WorkerSettles ==
    /\ At("running")
    /\ \/ Go("judge")
       \/ Go("report")
       \/ \E reason \in {"capacity", "failure"} :
             engine' = [engine EXCEPT !.at = "advance", !.reason = reason]
    /\ UNCHANGED <<route, pinned>> /\ Inside

\* Another error is not recovered, nor is a cancellation.
WorkerErrs ==
    /\ At("running")
    /\ \E how \in {"halted", "cancelled"} : Stop(how)
    /\ UNCHANGED <<route, pinned>>

FailureReported ==
    /\ At("report")
    /\ Event("failure") /\ Stop("halted")

-----------------------------------------------------------------------------
(* RoutedWorker.#advance *)

AdvanceConflict ==
    /\ At("advance") /\ stale
    /\ End("conflict") /\ UNCHANGED <<route, pinned>>

Advance ==
    /\ At("advance") /\ ~stale
    /\ Go(CASE engine.reason = "capacity" -> "pause"
            [] engine.reason # "capacity" /\ engine.pin -> "fail"
            [] OTHER -> "policy")
    /\ UNCHANGED <<route, pinned>> /\ Inside

Pause ==
    /\ At("pause")
    /\ Event("capacity_pause")
    /\ Go("cooldown") /\ Inside

RecordCooldown ==
    /\ At("cooldown")
    /\ Go(IF engine.pin THEN "deferred" ELSE "policy")
    /\ UNCHANGED <<route, pinned>> /\ Inside

PolicyChanged ==
    /\ At("policy") /\ revision # engine.revision
    /\ Stop("halted") /\ UNCHANGED <<route, pinned>>

\* A slip: a candidate may be tried again.
Unused_Any == Candidates

Unused == Candidates \ Used

SelectNext ==
    /\ At("policy") /\ revision = engine.revision
    /\ \E next \in Unused \cup {None} :
          engine' = [engine EXCEPT
                        !.next = next,
                        !.at = IF next = None /\ engine.reason = "capacity"
                               THEN "deferred" ELSE "fail"]
    /\ UNCHANGED <<route, pinned>> /\ Inside

FailRow ==
    /\ At("fail")
    /\ Event("failure")
    /\ Go("follow") /\ Inside

FollowRow ==
    /\ At("follow")
    /\ IF engine.next = None
       THEN Event("exhausted") /\ Stop("halted")
       ELSE /\ \E kind \in {"fallback", "escalation"} : Event(kind)
            /\ Go("record") /\ Inside

\* A slip: the continuation is kept.
Relaunch_Continued ==
    [engine EXCEPT !.at = "launch", !.step = @ + 1, !.choice = engine.next,
                   !.next = None, !.reason = "none", !.deferred = None]

Relaunch ==
    [engine EXCEPT !.at = "launch", !.step = @ + 1, !.choice = engine.next,
                   !.next = None, !.reason = "none", !.deferred = None,
                   !.continuation = None]

\* A slip: the row is recorded after a sequence that a reset has closed.
Extends_Closed == engine.step = Len(route)

\* record: the next step of an open sequence under one policy.
Extends ==
    /\ Open /\ engine.step = Len(route)
    /\ \A k \in DOMAIN route : route[k].revision = engine.revision

RecordNext ==
    /\ At("record") /\ Extends
    /\ route' = Append(route, Row(engine.next))
    /\ engine' = Relaunch
    /\ UNCHANGED pinned /\ Inside

-----------------------------------------------------------------------------
(* LoopEngine.run around a routed Worker *)

\* The candidate stays deferred: the run returns, exceeds its limits, or waits.
DeferredEnds ==
    /\ At("deferred")
    /\ \E how \in {"waiting", "halted", "cancelled"} : Stop(how)
    /\ UNCHANGED <<route, pinned>>

\* A slip: the pause is not counted.
Resumed_Uncounted ==
    [engine EXCEPT !.at = "launch", !.reason = "none", !.deferred = engine.choice,
                   !.continuation = engine.choice]

Resumed ==
    [engine EXCEPT !.at = "launch", !.reason = "none", !.deferred = engine.choice,
                   !.continuation = engine.choice, !.pauses = @ + 1]

WaitForCapacity ==
    /\ At("deferred") /\ ~stale
    /\ engine.pauses < MaxPauses
    /\ engine' = Resumed
    /\ UNCHANGED <<route, pinned>> /\ Inside

JudgeConflict ==
    /\ At("judge") /\ stale
    /\ End("conflict") /\ UNCHANGED <<route, pinned>>

\* The Result is refused, repeats the previous Attempt, or is to be accepted.
Judge ==
    /\ At("judge") /\ ~stale
    /\ \/ Go("reject")
       \/ Go("accept")
       \/ engine' = [engine EXCEPT !.at = "advance", !.reason = "repeated_evidence"]
    /\ UNCHANGED <<route, pinned>> /\ Inside

RejectResult ==
    /\ At("reject")
    /\ Event("failure") /\ End("halted")

\* A slip: the Task is written first.
Accept_Unrecorded ==
    /\ At("accept")
    /\ UNCHANGED <<route, pinned>>
    /\ Go("write") /\ Inside

Accept ==
    /\ At("accept")
    /\ Event("completion")
    /\ Go("write") /\ Inside

WriteTask ==
    /\ At("write") /\ ~stale
    /\ asks' = FALSE
    /\ engine' = Idle /\ outcome' = "done"
    /\ UNCHANGED <<route, pinned, stale>> /\ UNCHANGED outside

WriteFails ==
    /\ At("write")
    /\ Stop("halted") /\ UNCHANGED <<route, pinned>>

Step ==
    \/ LoadPolicy \/ ResolveRefuses \/ ReuseRow \/ SelectFirst
    \/ Launch \/ WorkerSettles \/ WorkerErrs \/ FailureReported
    \/ AdvanceConflict \/ Advance \/ Pause \/ RecordCooldown
    \/ PolicyChanged \/ SelectNext \/ FailRow \/ FollowRow \/ RecordNext
    \/ DeferredEnds \/ WaitForCapacity \/ JudgeConflict \/ Judge
    \/ RejectResult \/ Accept \/ WriteTask \/ WriteFails \/ WriteRefused

-----------------------------------------------------------------------------
(* Everybody else *)

Crash ==
    /\ ~At("idle") /\ crashes < MaxCrashes
    /\ engine' = Idle /\ outcome' = "crashed" /\ crashes' = crashes + 1
    /\ UNCHANGED <<route, pinned, asks, stale, revision, runs, changes>>

EditTask ==
    /\ ~At("idle") /\ ~stale /\ changes < MaxChanges
    /\ stale' = TRUE /\ changes' = changes + 1
    /\ UNCHANGED <<route, pinned, asks, revision, engine, outcome, runs, crashes>>

EditConfig ==
    /\ changes < MaxChanges /\ changes' = changes + 1
    /\ \E r \in Revisions \ {revision} : revision' = r
    /\ UNCHANGED <<route, pinned, asks, stale, engine, outcome, runs, crashes>>

\* What "aios route reset" accepts.
Resettable ==
    /\ route # <<>>
    /\ \A k \in DOMAIN route : route[k].status \in {"selected", "dispatched", "failed"}

ResetRoute ==
    /\ Resettable
    /\ route' = [k \in DOMAIN route |-> [route[k] EXCEPT !.status = "superseded"]]
    /\ UNCHANGED <<pinned, asks, stale, revision, engine, outcome, runs, changes,
                   crashes>>

Next == Start \/ Step \/ Crash \/ EditTask \/ EditConfig \/ ResetRoute

Spec == Init /\ [][Next]_vars

\* A started command goes on: its awaits settle and its Workers time out.
FairSpec == Spec /\ WF_vars(Step)

-----------------------------------------------------------------------------
(* Properties *)

TypeOK ==
    /\ route \in Seq([revision : Revisions, choice : Candidates, status : Statuses])
    /\ pinned \in BOOLEAN /\ asks \in BOOLEAN /\ stale \in BOOLEAN
    /\ revision \in Revisions
    /\ engine \in [at : Places, revision : Revisions, pin : BOOLEAN, step : Nat,
                   choice : Candidates \cup {None}, reason : Reasons,
                   next : Candidates \cup {None}, deferred : Candidates \cup {None},
                   continuation : Candidates \cup {None}, pauses : 0 .. MaxPauses]
    /\ outcome \in Outcomes
    /\ runs \in 0 .. MaxRuns /\ changes \in 0 .. MaxChanges
    /\ crashes \in 0 .. MaxCrashes

\* No Worker runs without the last row of the ledger naming its candidate as
\* dispatched, or superseded by a reset that came after the launch.
RecordedBeforeLaunch ==
    At("running") =>
        /\ engine.step = Len(route)
        /\ route[engine.step].choice = engine.choice
        /\ route[engine.step].status \in {"dispatched", "superseded"}

\* A continuation token reaches only the candidate whose session it continues.
ContinuationSafe ==
    engine.at \in {"launch", "running"} => engine.continuation \in {None, engine.choice}

\* A Task is answered only with a completed row on record.
AnswerHasRecord ==
    ~asks => route # <<>> /\ route[Len(route)].status = "completed"

\* A route is one path: each step follows one that failed, on a candidate not
\* used before, whatever crashes, edits and resets come in between.
OnePath ==
    /\ \A j, k \in DOMAIN route : route[j].choice = route[k].choice => j = k
    /\ Open => \A k \in 1 .. Len(route) - 1 : route[k].status = "failed"

\* Once a row is completed, the sequence stays as it is: nothing is launched,
\* recorded or superseded for this action again.
FinishedStays ==
    [][route # <<>> /\ route[Len(route)].status = "completed" => route' = route]_vars

\* Every command ends: fallbacks, repeated evidence and capacity pauses run out.
RunsEnd == ~At("idle") ~> At("idle")

Routes == INSTANCE ActionRoutes WITH
    Actions <- {"action"}, Choices <- Candidates,
    route <- [a \in {"action"} |-> route]

\* Every step changes the ledger as one route of the abstract ledger.
ImplementsRoutes == Routes!Spec

-----------------------------------------------------------------------------
(* What the documents promise and the code does not keep *)

\* A command that returned "waiting" can be given again: its route can be
\* taken up with the same policy and override ("rerun progression at or after
\* that time").
WaitingCanBeRerun ==
    At("idle") /\ outcome = "waiting" /\ Open =>
        \E policy \in Revisions, pin \in BOOLEAN : Resumable(policy, pin)

=============================================================================

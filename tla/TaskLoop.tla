------------------------------ MODULE TaskLoop ------------------------------
(***************************************************************************)
(* LoopEngine.run over a TaskStore.                                        *)
(*                                                                         *)
(* A set of engine processes ("aios run") works on Task files and on the   *)
(* append-only directory of Reviews.  Everything between two awaits of the *)
(* code is one action, so that the other processes, the people who edit    *)
(* Task files and write approval files, signals and crashes come in        *)
(* between.  In particular the byte comparison that opens writeTask and    *)
(* the rename that ends it are two actions, and so are the three file      *)
(* system calls of createReview.                                           *)
(*                                                                         *)
(* The Worker is the assignments.json mode's child process.  Its Result is *)
(* any the role allows; the Approver is human-approver.mjs.                *)
(***************************************************************************)
EXTENDS TaskContracts

CONSTANTS
    Engines,      \* engine processes
    Interruptible,  \* those whose command handles SIGINT (the others just die)
    WaitChoices,  \* the values of --wait-for-capacity tried
    Limits,       \* retry limits Tasks are created with
    MaxPauses,    \* maxCapacityPauses
    MaxWait,      \* maxCapacityWaitMs
    MaxDelay,     \* longest refill a Worker reports (bound)
    MaxReviewId,  \* Review ids in use (bound)
    MaxCrashes    \* engine processes that die (bound)

ASSUME LoopAssumption ==
    /\ Limits \subseteq Nat
    /\ Interruptible \subseteq Engines
    /\ WaitChoices \subseteq BOOLEAN
    /\ MaxPauses \in Nat \ {0} /\ MaxWait \in Nat \ {0}
    /\ MaxDelay \in Nat /\ MaxReviewId \in Nat /\ MaxCrashes \in Nat
    /\ Texts \ Unparsable # {}

VARIABLES
    disk,        \* Tasks -> the bytes of the Task file
    reviews,     \* the Review files
    approvals,   \* Tasks -> content of .aios/approvals/<task>
    crashes,     \* engine processes that died so far
    pc,          \* where each engine waits
    taskId,      \* the argument of run
    waits,       \* waitForCapacity
    aborted,     \* signal.aborted
    task,        \* the document the engine loaded
    raw,         \* what worker.execute or the sleep settled with
    pauses,      \* capacityPauses
    waited,      \* requestedCapacityWaitMs
    pending,     \* the document writeTask is about to write
    newId,       \* the id nextReviewId returned
    lateStarts,  \* Workers spawned although signal.aborted was true
    outcome      \* what the last run returned

files  == <<disk, reviews, approvals>>
budget == <<pauses, waited>>
params == <<taskId, waits>>
vars == <<files, crashes, pc, params, aborted, task, raw, budget, pending,
          newId, lateStarts, outcome>>

Payloads(role) == CASE role = "implementer" -> Evidence
                    [] role = "reviewer"    -> Verdicts
                    [] role = "approver"    -> Decisions

Role(e) == roleForState(task[e].state)

NoResult == [kind |-> "none", payload |-> "none", delay |-> 0]
Failed(kind) == [kind |-> kind, payload |-> "none", delay |-> 0]
Reported(payload) == [kind |-> "success", payload |-> payload, delay |-> 0]
Deferred(delay) == [kind |-> "capacity", payload |-> "none", delay |-> delay]

ResultKinds == {"none", "success", "failure", "malformed", "error",
                "capacity", "slept", "sleepError"}
PCs == {"idle", "load", "findReviews", "resolve", "running", "checkExec",
        "sleep", "checkSleep", "findExisting", "allocate", "link",
        "writeCheck", "rename"}
Outcomes == {"none", "crashed", "done", "blocked", "waiting", "cancelled",
             "worker_failure", "approval_gate", "invalid_document", "conflict"}
ApprovalFiles == {"absent", "invalid"} \cup Decisions

Init ==
    /\ disk \in [Tasks -> {[id |-> t, state |-> "implement", count |-> 0,
                            limit |-> limit, approval |-> approval,
                            last_review |-> 0, attempts |-> <<>>,
                            text |-> text] :
                              t \in Tasks, limit \in Limits,
                              approval \in {"not_required", "required"},
                              text \in Texts \ Unparsable}]
    /\ \A t \in Tasks : disk[t].id = t
    /\ reviews = {}
    /\ approvals = [t \in Tasks |-> "absent"]
    /\ crashes = 0
    /\ pc = [e \in Engines |-> "idle"]
    /\ taskId \in [Engines -> Tasks]
    /\ waits = [e \in Engines |-> FALSE]
    /\ aborted = [e \in Engines |-> FALSE]
    /\ task = [e \in Engines |-> disk[taskId[e]]]
    /\ raw = [e \in Engines |-> NoResult]
    /\ pauses = [e \in Engines |-> 0]
    /\ waited = [e \in Engines |-> 0]
    /\ pending = task
    /\ newId = [e \in Engines |-> 0]
    /\ lateStarts = [e \in Engines |-> 0]
    /\ outcome = [e \in Engines |-> "none"]

Goto(e, place) == pc' = [pc EXCEPT ![e] = place]

\* run returns: the process ends, nothing of it survives but the files.
Return(e, kind) ==
    /\ Goto(e, "idle")
    /\ outcome' = [outcome EXCEPT ![e] = kind]
    /\ raw' = [raw EXCEPT ![e] = NoResult]
    /\ newId' = [newId EXCEPT ![e] = 0]
    /\ pending' = [pending EXCEPT ![e] = task[e]]
    /\ pauses' = [pauses EXCEPT ![e] = 0]
    /\ waited' = [waited EXCEPT ![e] = 0]
    /\ aborted' = [aborted EXCEPT ![e] = FALSE]
    /\ lateStarts' = [lateStarts EXCEPT ![e] = 0]
    /\ UNCHANGED <<task, params>>

\* The engine awaits the next call; nothing else changes.
Move(e, place) ==
    /\ Goto(e, place)
    /\ UNCHANGED <<files, crashes, params, aborted, task, raw, budget,
                   pending, newId, lateStarts, outcome>>

\* A Worker or a sleep settles.
Settle(e, result, place) ==
    /\ raw' = [raw EXCEPT ![e] = result]
    /\ Goto(e, place)
    /\ UNCHANGED <<files, crashes, params, aborted, task, budget, pending,
                   newId, lateStarts, outcome>>

\* writeTask is called with a new document.
Propose(e, doc) ==
    /\ pending' = [pending EXCEPT ![e] = doc]
    /\ Goto(e, "writeCheck")
    /\ UNCHANGED <<files, crashes, params, aborted, task, raw, budget, newId,
                   lateStarts, outcome>>

Halt(e, kind) == Return(e, kind) /\ UNCHANGED <<files, crashes>>

\* taskIsUnchanged: the bytes on disk are still the bytes loaded.
Unchanged(e) == disk[taskId[e]] = task[e]

-----------------------------------------------------------------------------
(* One run of the engine *)

Start(e, t) ==
    /\ pc[e] = "idle"
    /\ Goto(e, "load")
    /\ taskId' = [taskId EXCEPT ![e] = t]
    /\ \E wait \in WaitChoices : waits' = [waits EXCEPT ![e] = wait]
    /\ outcome' = [outcome EXCEPT ![e] = "none"]
    /\ UNCHANGED <<files, crashes, aborted, task, raw, budget, pending,
                   newId, lateStarts>>

LoadInvalid(e) ==
    /\ pc[e] = "load"
    /\ \/ ~Loadable(disk[taskId[e]])
       \/ ~EvidenceValid(disk[taskId[e]], reviews)
    /\ Halt(e, "invalid_document")

LoadFinished(e) ==
    LET doc == disk[taskId[e]] IN
    /\ pc[e] = "load"
    /\ Loadable(doc) /\ EvidenceValid(doc, reviews)
    /\ doc.state \in {"done", "blocked"}
    /\ Halt(e, doc.state)

LoadActive(e) ==
    LET doc == disk[taskId[e]] IN
    /\ pc[e] = "load"
    /\ Loadable(doc) /\ EvidenceValid(doc, reviews)
    /\ doc.state \in ActiveStates
    /\ task' = [task EXCEPT ![e] = doc]
    /\ pending' = [pending EXCEPT ![e] = doc]
    /\ Goto(e, IF doc.state = "review" THEN "findReviews" ELSE "resolve")
    /\ UNCHANGED <<files, crashes, params, aborted, raw, budget, newId,
                   lateStarts, outcome>>

\* A Review for this Attempt without the transition it asks for: a crash or
\* a conflict came between createReview and writeTask.
AttachOrphan(e) ==
    /\ pc[e] = "findReviews"
    /\ \E orphan \in ReviewsOf(task[e], reviews) :
          /\ ReviewsOf(task[e], reviews) = {orphan}
          /\ Propose(e, transitionFromReview(task[e], orphan))

MultipleReviews(e) ==
    /\ pc[e] = "findReviews"
    /\ Cardinality(ReviewsOf(task[e], reviews)) > 1
    /\ Halt(e, "invalid_document")

\* A slip: the engine asks for a Review without looking for an orphan.
NoReviewYet_Unlooked(e) ==
    /\ pc[e] = "findReviews"
    /\ Move(e, "resolve")

NoReviewYet(e) ==
    /\ pc[e] = "findReviews"
    /\ ReviewsOf(task[e], reviews) = {}
    /\ Move(e, "resolve")

\* assignments.resolve rejects: no Assignment, or an unreadable file.
ResolveFails(e) == pc[e] = "resolve" /\ Halt(e, "worker_failure")

\* worker.execute: the child is spawned whatever signal.aborted says.
SpawnWorker(e) ==
    /\ Goto(e, "running")
    /\ raw' = [raw EXCEPT ![e] = NoResult]
    /\ lateStarts' = [lateStarts EXCEPT
                         ![e] = IF aborted[e] THEN @ + 1 ELSE @]
    /\ UNCHANGED <<files, crashes, params, aborted, task, budget, pending,
                   newId, outcome>>

Dispatch(e) == pc[e] = "resolve" /\ SpawnWorker(e)

\* What the child can settle with.  The Approver reports the approval file.
Reports(e) ==
    IF Role(e) = "approver"
    THEN IF approvals[taskId[e]] \in Decisions
         THEN {Reported(approvals[taskId[e]])}
         ELSE {Failed("failure")}
    ELSE {Reported(payload) : payload \in Payloads(Role(e))}
            \cup {Failed("failure"), Failed("malformed")}
            \cup {Deferred(delay) : delay \in 0..MaxDelay}

\* A slip: the transport looks at the signal only while the child runs.
WorkerSettles_Deaf(e) ==
    /\ pc[e] = "running"
    /\ \E result \in Reports(e) \cup {Failed("error")} :
          Settle(e, result, "checkExec")

\* A Worker that found its signal aborted when it was spawned is killed and
\* rejects; one that is aborted later may already have closed.
WorkerSettles(e) ==
    /\ pc[e] = "running"
    /\ \E result \in (IF lateStarts[e] > 0 THEN {} ELSE Reports(e))
                        \cup {Failed("error")} :
          Settle(e, result, "checkExec")

ExecConflict(e) ==
    /\ pc[e] = "checkExec"
    /\ ~Unchanged(e)
    /\ Halt(e, "conflict")

\* The Worker settled and the Task file is still the one that was loaded.
Executed(e) == pc[e] = "checkExec" /\ Unchanged(e)

\* isCancellation reads signal.aborted after the comparison, so an ordinary
\* Worker error counts as a cancellation once the signal is aborted.
ExecError(e) ==
    /\ Executed(e)
    /\ raw[e].kind = "error"
    /\ Halt(e, IF aborted[e] THEN "cancelled" ELSE "worker_failure")

CapacityStale(e) ==
    /\ Executed(e)
    /\ raw[e].kind = "capacity"
    /\ raw[e].delay = 0
    /\ Halt(e, "worker_failure")

CapacityDeferred(e) ==
    Executed(e) /\ raw[e].kind = "capacity" /\ raw[e].delay > 0

CapacityReported(e) ==
    /\ CapacityDeferred(e)
    /\ ~waits[e]
    /\ Halt(e, "waiting")

\* The two limits are cumulative over the run, whatever Roles it went through.
WithinCapacityLimits(e) ==
    /\ pauses[e] + 1 <= MaxPauses
    /\ waited[e] + raw[e].delay <= MaxWait

CapacityExceeded(e) ==
    /\ CapacityDeferred(e)
    /\ waits[e]
    /\ ~WithinCapacityLimits(e)
    /\ Halt(e, "worker_failure")

\* A slip: the counters of the run are not advanced.
CapacityPause_Uncounted(e) ==
    /\ CapacityDeferred(e)
    /\ waits[e]
    /\ WithinCapacityLimits(e)
    /\ Move(e, "sleep")

CapacityPause(e) ==
    /\ CapacityDeferred(e)
    /\ waits[e]
    /\ WithinCapacityLimits(e)
    /\ pauses' = [pauses EXCEPT ![e] = @ + 1]
    /\ waited' = [waited EXCEPT ![e] = @ + raw[e].delay]
    /\ Goto(e, "sleep")
    /\ UNCHANGED <<files, crashes, params, aborted, task, raw, pending, newId,
                   lateStarts, outcome>>

Wake(e) ==
    /\ pc[e] = "sleep"
    /\ Settle(e, Failed(IF aborted[e] THEN "sleepError" ELSE "slept"),
              "checkSleep")

SleepConflict(e) ==
    /\ pc[e] = "checkSleep"
    /\ ~Unchanged(e)
    /\ Halt(e, "conflict")

SleepCancelled(e) ==
    /\ pc[e] = "checkSleep"
    /\ Unchanged(e)
    /\ raw[e].kind = "sleepError"
    /\ Halt(e, "cancelled")

Resume(e) ==
    /\ pc[e] = "checkSleep"
    /\ Unchanged(e)
    /\ raw[e].kind = "slept"
    /\ SpawnWorker(e)

\* validateResult: the payload must be one the active Role may report.
ResultValid(e) ==
    raw[e].kind = "success" /\ raw[e].payload \in Payloads(Role(e))

ResultRefused(e) ==
    /\ Executed(e)
    /\ \/ raw[e].kind \in {"failure", "malformed"}
       \/ /\ Role(e) = "implementer"
          /\ ResultValid(e)
          /\ RepeatsEvidence(task[e], raw[e].payload)
    /\ Halt(e, IF raw[e].kind = "failure" /\ Role(e) = "approver"
               THEN "approval_gate" ELSE "worker_failure")

AcceptImplementation(e) ==
    /\ Executed(e)
    /\ Role(e) = "implementer"
    /\ ResultValid(e)
    /\ ~RepeatsEvidence(task[e], raw[e].payload)
    /\ Propose(e, RecordAttempt(task[e], raw[e].payload))

AcceptReview(e) ==
    /\ Executed(e)
    /\ Role(e) = "reviewer"
    /\ ResultValid(e)
    /\ Move(e, "findExisting")

AcceptDecision(e) ==
    /\ Executed(e)
    /\ Role(e) = "approver"
    /\ ResultValid(e)
    /\ Propose(e, ApplyDecision(task[e], raw[e].payload))

(* createReview: findReviews, nextReviewId, createImmutable *)

ReviewExists(e) ==
    /\ pc[e] = "findExisting"
    /\ ReviewsOf(task[e], reviews) # {}
    /\ Halt(e, "invalid_document")

FindNoReview(e) ==
    /\ pc[e] = "findExisting"
    /\ ReviewsOf(task[e], reviews) = {}
    /\ Move(e, "allocate")

AllocateReviewId(e) ==
    /\ pc[e] = "allocate"
    /\ \E id \in 1..MaxReviewId :
          /\ IsNextReviewId(id, reviews)
          /\ newId' = [newId EXCEPT ![e] = id]
    /\ Goto(e, "link")
    /\ UNCHANGED <<files, crashes, params, aborted, task, raw, budget,
                   pending, lateStarts, outcome>>

\* link refuses a name that exists.
LinkRefused(e) ==
    /\ pc[e] = "link"
    /\ \E review \in reviews : review.id = newId[e]
    /\ Halt(e, "invalid_document")

NewReview(e) == [id |-> newId[e], task |-> task[e].id,
                 attempt |-> currentAttempt(task[e]),
                 verdict |-> raw[e].payload]

\* A slip: rename in place of link, so that an existing file is no obstacle.
LinkReview_Unguarded(e) ==
    /\ pc[e] = "link"
    /\ reviews' = reviews \cup {NewReview(e)}
    /\ pending' = [pending EXCEPT
                      ![e] = transitionFromReview(task[e], NewReview(e))]
    /\ Goto(e, "writeCheck")
    /\ UNCHANGED <<disk, approvals, crashes, params, aborted, task, raw,
                   budget, newId, lateStarts, outcome>>

LinkReview(e) ==
    /\ pc[e] = "link"
    /\ \A review \in reviews : review.id # newId[e]
    /\ reviews' = reviews \cup {NewReview(e)}
    /\ pending' = [pending EXCEPT
                      ![e] = transitionFromReview(task[e], NewReview(e))]
    /\ Goto(e, "writeCheck")
    /\ UNCHANGED <<disk, approvals, crashes, params, aborted, task, raw,
                   budget, newId, lateStarts, outcome>>

(* writeTask: compare, validate, rename *)

WriteConflict(e) ==
    /\ pc[e] = "writeCheck"
    /\ ~Unchanged(e)
    /\ Halt(e, "conflict")

WriteChecked(e) ==
    /\ pc[e] = "writeCheck"
    /\ Unchanged(e)
    /\ IF Writable(pending[e])
       THEN Move(e, "rename")
       ELSE Halt(e, "invalid_document")

\* writeTask reloads what it wrote; run drops that copy and loads again.
Rename(e) ==
    /\ pc[e] = "rename"
    /\ disk' = [disk EXCEPT ![taskId[e]] = pending[e]]
    /\ raw' = [raw EXCEPT ![e] = NoResult]
    /\ newId' = [newId EXCEPT ![e] = 0]
    /\ Goto(e, "load")
    /\ UNCHANGED <<reviews, approvals, crashes, params, aborted, task, budget,
                   pending, lateStarts, outcome>>

-----------------------------------------------------------------------------
(* The environment *)

\* A person saves the Task file with other prose.
Edit(t) ==
    /\ \E text \in Texts \ {disk[t].text} :
          disk' = [disk EXCEPT ![t].text = text]
    /\ UNCHANGED <<reviews, approvals, crashes, pc, params, aborted, task,
                   raw, budget, pending, newId, lateStarts, outcome>>

\* The operator answers, or answers badly and corrects it.
Decide(t) ==
    /\ approvals[t] \notin Decisions
    /\ \E file \in ApprovalFiles \ {"absent", approvals[t]} :
          approvals' = [approvals EXCEPT ![t] = file]
    /\ UNCHANGED <<disk, reviews, crashes, pc, params, aborted, task, raw,
                   budget, pending, newId, lateStarts, outcome>>

Cancel(e) ==
    /\ e \in Interruptible
    /\ pc[e] # "idle"
    /\ ~aborted[e]
    /\ aborted' = [aborted EXCEPT ![e] = TRUE]
    /\ UNCHANGED <<files, crashes, pc, params, task, raw, budget, pending,
                   newId, lateStarts, outcome>>

Crash(e) ==
    /\ pc[e] # "idle"
    /\ crashes < MaxCrashes
    /\ crashes' = crashes + 1
    /\ Return(e, "crashed")
    /\ UNCHANGED files

-----------------------------------------------------------------------------
RunStep(e) ==
    \/ LoadInvalid(e) \/ LoadFinished(e) \/ LoadActive(e)
    \/ AttachOrphan(e) \/ MultipleReviews(e) \/ NoReviewYet(e)
    \/ ResolveFails(e) \/ Dispatch(e) \/ WorkerSettles(e)
    \/ ExecConflict(e) \/ ExecError(e)
    \/ CapacityStale(e) \/ CapacityReported(e) \/ CapacityExceeded(e)
    \/ CapacityPause(e)
    \/ Wake(e) \/ SleepConflict(e) \/ SleepCancelled(e) \/ Resume(e)
    \/ ResultRefused(e) \/ AcceptImplementation(e) \/ AcceptReview(e)
    \/ AcceptDecision(e)
    \/ ReviewExists(e) \/ FindNoReview(e) \/ AllocateReviewId(e)
    \/ LinkRefused(e) \/ LinkReview(e)
    \/ WriteConflict(e) \/ WriteChecked(e) \/ Rename(e)

Next ==
    \/ \E e \in Engines : RunStep(e) \/ Cancel(e) \/ Crash(e)
    \/ \E e \in Engines, t \in Tasks : Start(e, t)
    \/ \E t \in Tasks : Edit(t) \/ Decide(t)

Spec == Init /\ [][Next]_vars

\* An engine's own steps happen: its file system calls and timers complete and
\* CommandWorker kills a Worker after timeoutMs.  Nobody must start an engine.
FairSpec == Spec /\ \A e \in Engines : WF_vars(RunStep(e))

\* Besides, an operator reruns a Task whose run returned.
RerunSpec == FairSpec /\ \A e \in Engines, t \in Tasks : WF_vars(Start(e, t))

-----------------------------------------------------------------------------
(* Properties *)

\* Every variable has its type; documents, Reviews and Results are well formed.
TypeOK ==
    /\ disk \in [Tasks -> TaskDoc]
    /\ \A t \in Tasks : disk[t].id = t
    /\ reviews \subseteq Review
    /\ approvals \in [Tasks -> ApprovalFiles]
    /\ crashes \in 0..MaxCrashes
    /\ pc \in [Engines -> PCs]
    /\ taskId \in [Engines -> Tasks]
    /\ waits \in [Engines -> BOOLEAN]
    /\ aborted \in [Engines -> BOOLEAN]
    /\ task \in [Engines -> TaskDoc]
    /\ DOMAIN raw = Engines
    /\ \A e \in Engines : raw[e].kind \in ResultKinds /\ raw[e].delay \in Nat
    /\ pauses \in [Engines -> Nat]
    /\ waited \in [Engines -> Nat]
    /\ pending \in [Engines -> TaskDoc]
    /\ newId \in [Engines -> 0..MaxReviewId]
    /\ lateStarts \in [Engines -> Nat]
    /\ outcome \in [Engines -> Outcomes]

\* The engine never leaves a Task file it would refuse to load again: whatever
\* engines, crashes and conflicts did, the metadata rules hold, the Attempts
\* are the ones the state implies, and last_review names the Review the state
\* needs as evidence (writeTask against loadTask and validateTaskEvidence).
DiskSound ==
    \A t \in Tasks : Writable(disk[t]) /\ EvidenceValid(disk[t], reviews)

\* One Attempt gets one Review, although createReview looks, allocates an id
\* and links in three calls and a crash may come after any of them.
OneReviewPerAttempt ==
    \A r, s \in reviews : r.task = s.task /\ r.attempt = s.attempt => r = s

\* A Review id names one file for ever, however many engines allocate ids at
\* the same time (nextReviewId reads, createImmutable links).
ReviewIdsUnique ==
    \A r, s \in reviews : r.id = s.id => r = s

\* As long as people keep the files parsable, no run of the engine ends with
\* invalid_document: what a crashed or conflicting run left behind is a state
\* the next run continues from.
NeverInvalid == \A e \in Engines : outcome[e] # "invalid_document"

\* The only way out of "required" is the answer in the approval file, given to
\* a Task whose Review passed.
ApprovalGate ==
    [][\A t \in Tasks :
         disk'[t].approval # disk[t].approval =>
            /\ disk[t].state = "approval"
            /\ disk'[t].approval = approvals[t]
            /\ disk'[t].state = IF approvals[t] = "approved" THEN "done"
                                                           ELSE "blocked"]_vars

\* After the signal is aborted a run starts at most one more Worker, and that
\* one is killed at once (engine.run does not look at the signal before
\* worker.execute, which spawns before it looks).
AtMostOneLateWorker == \A e \in Engines : lateStarts[e] <= 1

\* Every run returns: capacity pauses are bounded across Roles and retries by
\* the Task's limit, so no sequence of Worker answers keeps a run going.
Termination == \A e \in Engines : pc[e] # "idle" ~> pc[e] = "idle"

\* A Review whose transition was not written is attached when the Task is run
\* again: after finitely many crashes the verdict takes effect.
OrphanAttached ==
    \A t \in Tasks :
        (disk[t].state = "review" /\ ReviewsOf(disk[t], reviews) # {})
            ~> disk[t].state # "review"

\* The Task files and Reviews of one engine at a time implement TaskLifecycle.
Lifecycle == INSTANCE TaskLifecycle WITH
    life <- [t \in Tasks |-> [state |-> disk[t].state, count |-> disk[t].count,
                              limit |-> disk[t].limit,
                              approval |-> disk[t].approval,
                              attempts |-> Len(disk[t].attempts)]],
    verdict <- [t \in Tasks |->
                  IF disk[t].state = "review"
                     /\ ReviewsOf(disk[t], reviews) # {}
                  THEN (CHOOSE r \in ReviewsOf(disk[t], reviews) : TRUE).verdict
                  ELSE "none"]

\* The detailed loop implements the lifecycle it promises.
ImplementsLifecycle == Lifecycle!Spec
=============================================================================

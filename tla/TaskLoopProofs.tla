--------------------------- MODULE TaskLoopProofs ---------------------------
(***************************************************************************)
(* TaskLoop for every set of engines and Tasks and every bound.            *)
(*                                                                         *)
(* Argument.  TypeOK is inductive.  DiskSound is not: that the document an *)
(* engine renames into place is sound depends on the document it loaded    *)
(* and on the Review it read or linked.  Local says what an engine knows   *)
(* at each place of the run; Reviews are only ever added, so the evidence  *)
(* an engine saw stays there whatever the others do.                       *)
(*                                                                         *)
(* The second part assumes that no Task is run twice at the same time:     *)
(* any number of engines over any number of Tasks, each Task worked on by  *)
(* one run.  The documents take this for granted of "aios run" (src/plans/ *)
(* inter-task-progression/PLAN.md:94), and the byte comparison of          *)
(* writeTask does not replace it: a Task file may change between the       *)
(* comparison and the rename.                                              *)
(*                                                                         *)
(* Argument.  While a run works on a Task only people touch the file, and  *)
(* they edit prose: the document in memory agrees with the file in all     *)
(* that the engine reads (Knows).  So what the run derives from the        *)
(* document is derived from the file, and a Review it does not find is not *)
(* there until the run links one (Judged).                                 *)
(***************************************************************************)
EXTENDS TaskLoop, FiniteSetTheorems, TLAPS

\* What engine e knows where it waits.
Local(e) ==
    /\ pc[e] \notin {"idle", "load"} =>
          /\ task[e].id = taskId[e]
          /\ task[e].state \in ActiveStates
          /\ Writable(task[e])
          /\ EvidenceValid(task[e], reviews)
    /\ pc[e] \in {"findReviews", "findExisting", "allocate", "link"} =>
          task[e].state = "review"
    /\ pc[e] \in {"findExisting", "allocate", "link"} =>
          raw[e].payload \in Verdicts
    /\ pc[e] = "link" => newId[e] # 0
    /\ pc[e] \in {"writeCheck", "rename"} =>
          /\ pending[e].id = taskId[e]
          /\ EvidenceValid(pending[e], reviews)
    /\ pc[e] = "rename" => Writable(pending[e])

IInv == TypeOK /\ DiskSound /\ \A e \in Engines : Local(e)

-----------------------------------------------------------------------------
(* The documents the engine derives *)

LEMMA RecordAttemptType ==
    ASSUME NEW doc \in TaskDoc, NEW evidence \in Evidence
    PROVE  /\ RecordAttempt(doc, evidence) \in TaskDoc
           /\ RecordAttempt(doc, evidence).id = doc.id
<1> DEFINE more == Append(doc.attempts, evidence)
<1>1. doc.attempts \in Seq(Evidence)
  BY DEF TaskDoc
<1>2. more \in Seq(Evidence)
  BY <1>1
<1> HIDE DEF more
<1>3. [doc EXCEPT !.state = "review", !.attempts = more] \in TaskDoc
  BY <1>2 DEF TaskDoc, TaskStates
<1>4. QED
  BY <1>3 DEF RecordAttempt, more, TaskDoc

LEMMA ApplyDecisionType ==
    ASSUME NEW doc \in TaskDoc, NEW decision \in Decisions
    PROVE  /\ ApplyDecision(doc, decision) \in TaskDoc
           /\ ApplyDecision(doc, decision).id = doc.id
BY DEF ApplyDecision, TaskDoc, TaskStates, Decisions, ApprovalStates

LEMMA TransitionType ==
    ASSUME NEW doc \in TaskDoc, NEW review \in Review
    PROVE  /\ transitionFromReview(doc, review) \in TaskDoc
           /\ transitionFromReview(doc, review).id = doc.id
<1>1. /\ review.id \in Nat
      /\ doc.count \in Nat
  BY DEF Review, TaskDoc
<1>2. CASE review.verdict = "pass"
  <2> DEFINE next == IF doc.approval = "required" THEN "approval" ELSE "done"
  <2>1. next \in TaskStates
    BY DEF TaskStates
  <2> HIDE DEF next
  <2>2. transitionFromReview(doc, review)
          = [doc EXCEPT !.last_review = review.id, !.state = next]
    BY <1>2 DEF transitionFromReview, next
  <2>3. QED
    BY <1>1, <2>1, <2>2 DEF TaskDoc
<1>3. CASE review.verdict # "pass" /\ doc.count < doc.limit
  <2>1. transitionFromReview(doc, review)
          = [doc EXCEPT !.last_review = review.id, !.count = doc.count + 1,
                        !.state = "implement"]
    BY <1>3 DEF transitionFromReview
  <2>2. doc.count + 1 \in Nat /\ "implement" \in TaskStates
    BY <1>1 DEF TaskStates
  <2>3. QED
    BY <1>1, <2>1, <2>2 DEF TaskDoc
<1>4. CASE review.verdict # "pass" /\ ~(doc.count < doc.limit)
  <2>1. transitionFromReview(doc, review)
          = [doc EXCEPT !.last_review = review.id, !.count = doc.count,
                        !.state = "blocked"]
    BY <1>4 DEF transitionFromReview
  <2>2. QED
    BY <1>1, <2>1 DEF TaskDoc, TaskStates
<1>5. QED
  BY <1>2, <1>3, <1>4

LEMMA RecordAttemptEvidence ==
    ASSUME NEW doc \in TaskDoc, NEW evidence \in Evidence, NEW rs,
           doc.state = "implement", EvidenceValid(doc, rs)
    PROVE  EvidenceValid(RecordAttempt(doc, evidence), rs)
BY DEF RecordAttempt, TaskDoc, EvidenceValid, ReviewFits, currentAttempt

LEMMA ApplyDecisionEvidence ==
    ASSUME NEW doc \in TaskDoc, NEW decision \in Decisions, NEW rs,
           doc.state = "approval", EvidenceValid(doc, rs)
    PROVE  EvidenceValid(ApplyDecision(doc, decision), rs)
BY DEF ApplyDecision, TaskDoc, EvidenceValid, ReviewFits, currentAttempt,
       Decisions

LEMMA TransitionEvidence ==
    ASSUME NEW doc \in TaskDoc, NEW rs, NEW review \in Review, review \in rs,
           doc.state = "review", Writable(doc),
           review.task = doc.id, review.attempt = currentAttempt(doc)
    PROVE  EvidenceValid(transitionFromReview(doc, review), rs)
BY DEF transitionFromReview, TaskDoc, Review, EvidenceValid, ReviewFits,
       currentAttempt, Writable, MetadataValid, Verdicts

\* Linking a Review takes no evidence away.
LEMMA EvidenceMonotone ==
    ASSUME NEW doc, NEW rs, NEW more, rs \subseteq more, EvidenceValid(doc, rs)
    PROVE  EvidenceValid(doc, more)
BY DEF EvidenceValid

\* The prose of a Task is not evidence.
LEMMA TextIrrelevant ==
    ASSUME NEW doc \in TaskDoc, NEW text \in Texts, NEW rs,
           Writable(doc), EvidenceValid(doc, rs)
    PROVE  /\ [doc EXCEPT !.text = text] \in TaskDoc
           /\ [doc EXCEPT !.text = text].id = doc.id
           /\ Writable([doc EXCEPT !.text = text])
           /\ EvidenceValid([doc EXCEPT !.text = text], rs)
BY DEF TaskDoc, Writable, MetadataValid, AttemptsProjected, currentAttempt,
       EvidenceValid, ReviewFits

LEMMA PayloadTypes ==
    ASSUME TypeOK, NEW e \in Engines
    PROVE  /\ Role(e) = "implementer" /\ task[e].state \in ActiveStates =>
                task[e].state = "implement" /\ Payloads(Role(e)) = Evidence
           /\ Role(e) = "reviewer" /\ task[e].state \in ActiveStates =>
                task[e].state = "review" /\ Payloads(Role(e)) = Verdicts
           /\ Role(e) = "approver" /\ task[e].state \in ActiveStates =>
                task[e].state = "approval" /\ Payloads(Role(e)) = Decisions
BY DEF Role, roleForState, Payloads, ActiveStates

-----------------------------------------------------------------------------
(* Type correctness, one lemma for each way a step ends *)

LEMMA ReturnType ==
    ASSUME TypeOK, NEW e \in Engines, NEW kind \in Outcomes, Return(e, kind),
           UNCHANGED files, crashes' \in 0..MaxCrashes
    PROVE  TypeOK'
<1>1. "idle" \in PCs /\ "none" \in ResultKinds
  BY DEF PCs, ResultKinds
<1>2. \A x \in Engines : raw'[x].kind \in ResultKinds /\ raw'[x].delay \in Nat
  BY <1>1 DEF Return, TypeOK, NoResult
<1>3. pending' \in [Engines -> TaskDoc]
  BY DEF Return, TypeOK
<1>4. newId' \in [Engines -> 0..MaxReviewId]
  BY LoopAssumption DEF Return, TypeOK
<1>5. QED
  BY <1>1, <1>2, <1>3, <1>4
  DEF TypeOK, Return, Goto, files, params

LEMMA MoveType ==
    ASSUME TypeOK, NEW e \in Engines, NEW place \in PCs, Move(e, place)
    PROVE  TypeOK'
BY DEF TypeOK, Move, Goto, files, params, budget

LEMMA SettleType ==
    ASSUME TypeOK, NEW e \in Engines, NEW place \in PCs, NEW result,
           result.kind \in ResultKinds, result.delay \in Nat,
           Settle(e, result, place)
    PROVE  TypeOK'
BY DEF TypeOK, Settle, Goto, files, params, budget

LEMMA ProposeType ==
    ASSUME TypeOK, NEW e \in Engines, NEW doc \in TaskDoc, Propose(e, doc)
    PROVE  TypeOK'
<1>1. "writeCheck" \in PCs
  BY DEF PCs
<1>2. QED
  BY <1>1 DEF TypeOK, Propose, Goto, files, params, budget

LEMMA SpawnType ==
    ASSUME TypeOK, NEW e \in Engines, SpawnWorker(e)
    PROVE  TypeOK'
<1>1. "running" \in PCs /\ "none" \in ResultKinds
  BY DEF PCs, ResultKinds
<1>2. \A x \in Engines : raw'[x].kind \in ResultKinds /\ raw'[x].delay \in Nat
  BY <1>1 DEF SpawnWorker, TypeOK, NoResult
<1>3. lateStarts' \in [Engines -> Nat]
  BY DEF SpawnWorker, TypeOK
<1>4. QED
  BY <1>1, <1>2, <1>3 DEF TypeOK, SpawnWorker, Goto, files, params, budget

LEMMA HaltType ==
    ASSUME TypeOK, NEW e \in Engines, NEW kind \in Outcomes, Halt(e, kind)
    PROVE  TypeOK'
<1>1. crashes' \in 0..MaxCrashes /\ Return(e, kind) /\ UNCHANGED files
  BY DEF Halt, TypeOK
<1>2. QED
  BY <1>1, ReturnType

\* One case per action of an engine.
LEMMA RunStepType ==
    ASSUME IInv, NEW e \in Engines, RunStep(e)
    PROVE  TypeOK'
<1> USE DEF IInv
<1>0. /\ {"worker_failure", "invalid_document", "conflict", "cancelled",
          "waiting", "approval_gate", "done", "blocked"} \subseteq Outcomes
      /\ {"findReviews", "resolve", "checkExec", "sleep", "checkSleep",
          "findExisting", "allocate", "link", "writeCheck", "rename",
          "load"} \subseteq PCs
      /\ {"none", "success", "failure", "malformed", "error", "capacity",
          "slept", "sleepError"} \subseteq ResultKinds
  BY DEF Outcomes, PCs, ResultKinds
<1>1. ASSUME NEW kind \in Outcomes, Halt(e, kind) PROVE TypeOK'
  BY <1>1, HaltType
<1>2. ASSUME NEW place \in PCs, Move(e, place) PROVE TypeOK'
  BY <1>2, MoveType
<1>3. CASE \/ LoadInvalid(e) \/ LoadFinished(e) \/ MultipleReviews(e)
           \/ ResolveFails(e) \/ ExecConflict(e) \/ ExecError(e)
  BY <1>0, <1>1, <1>3 DEF LoadInvalid, LoadFinished, MultipleReviews,
     ResolveFails, ExecConflict, ExecError
<1>4. CASE \/ CapacityStale(e) \/ CapacityReported(e) \/ CapacityExceeded(e)
           \/ SleepConflict(e) \/ SleepCancelled(e) \/ ResultRefused(e)
           \/ ReviewExists(e) \/ LinkRefused(e) \/ WriteConflict(e)
  BY <1>0, <1>1, <1>4 DEF CapacityStale, CapacityReported, CapacityExceeded,
     SleepConflict, SleepCancelled, ResultRefused, ReviewExists, LinkRefused,
     WriteConflict
<1>5. CASE NoReviewYet(e) \/ AcceptReview(e) \/ FindNoReview(e)
  BY <1>0, <1>2, <1>5 DEF NoReviewYet, AcceptReview, FindNoReview
<1>6. CASE WriteChecked(e)
  BY <1>0, <1>1, <1>2, <1>6 DEF WriteChecked
<1>7. CASE Dispatch(e) \/ Resume(e)
  BY <1>7, SpawnType DEF Dispatch, Resume
<1>8. CASE LoadActive(e)
  BY <1>0, <1>8 DEF LoadActive, TypeOK, Goto, files, params, budget
<1>9. CASE AttachOrphan(e)
  <2>1. PICK orphan \in ReviewsOf(task[e], reviews) :
            Propose(e, transitionFromReview(task[e], orphan))
    BY <1>9 DEF AttachOrphan
  <2>2. orphan \in Review /\ task[e] \in TaskDoc
    BY <2>1 DEF ReviewsOf, TypeOK
  <2>3. QED
    BY <2>1, <2>2, TransitionType, ProposeType
<1>10. CASE WorkerSettles(e)
  <2>1. \A result \in Reports(e) \cup {Failed("error")} :
            result.kind \in ResultKinds /\ result.delay \in Nat
    BY <1>0, LoopAssumption DEF Reports, Failed, Reported, Deferred
  <2>2. \E result \in Reports(e) \cup {Failed("error")} :
            Settle(e, result, "checkExec")
    BY <1>10 DEF WorkerSettles
  <2>3. QED
    BY <1>0, <2>1, <2>2, SettleType
<1>11. CASE Wake(e)
  <2>1. \A kind \in ResultKinds : /\ Failed(kind).kind \in ResultKinds
                                 /\ Failed(kind).delay \in Nat
    BY DEF Failed
  <2>2. \E kind \in ResultKinds : Settle(e, Failed(kind), "checkSleep")
    BY <1>0, <1>11 DEF Wake
  <2>3. QED
    BY <1>0, <2>1, <2>2, SettleType
<1>12. CASE CapacityPause(e)
  <2>1. raw[e].delay \in Nat
    BY DEF TypeOK
  <2>2. pauses' \in [Engines -> Nat] /\ waited' \in [Engines -> Nat]
    BY <1>12, <2>1 DEF CapacityPause, TypeOK
  <2>3. pc' \in [Engines -> PCs]
    BY <1>0, <1>12 DEF CapacityPause, Goto, TypeOK
  <2>4. QED
    BY <1>12, <2>2, <2>3 DEF CapacityPause, TypeOK, files, params
<1>13. CASE AcceptImplementation(e)
  <2>1. raw[e].payload \in Evidence /\ task[e] \in TaskDoc
    BY <1>13 DEF AcceptImplementation, ResultValid, Payloads, TypeOK
  <2>2. QED
    BY <1>13, <2>1, RecordAttemptType, ProposeType DEF AcceptImplementation
<1>14. CASE AcceptDecision(e)
  <2>1. raw[e].payload \in Decisions /\ task[e] \in TaskDoc
    BY <1>14 DEF AcceptDecision, ResultValid, Payloads, TypeOK
  <2>2. QED
    BY <1>14, <2>1, ApplyDecisionType, ProposeType DEF AcceptDecision
<1>15. CASE AllocateReviewId(e)
  <2>1. newId' \in [Engines -> 0..MaxReviewId]
    BY <1>15, LoopAssumption DEF AllocateReviewId, TypeOK
  <2>2. pc' \in [Engines -> PCs]
    BY <1>0, <1>15 DEF AllocateReviewId, Goto, TypeOK
  <2>3. QED
    BY <1>15, <2>1, <2>2 DEF AllocateReviewId, TypeOK, files, params, budget
<1>16. CASE LinkReview(e)
  <2>1. NewReview(e) \in Review
    <3>1. Local(e) /\ pc[e] = "link"
      BY <1>16 DEF LinkReview
    <3>2. /\ newId[e] \in Nat \ {0}
          /\ raw[e].payload \in Verdicts
      BY <3>1, LoopAssumption DEF Local, TypeOK
    <3>3. task[e].id \in Tasks /\ task[e].count \in Nat
      BY DEF TypeOK, TaskDoc
    <3>4. task[e].count + 1 \in Nat \ {0}
      BY <3>3
    <3>5. QED
      BY <3>2, <3>3, <3>4 DEF NewReview, Review, currentAttempt
  <2>2. task[e] \in TaskDoc
    BY DEF TypeOK
  <2>3. transitionFromReview(task[e], NewReview(e)) \in TaskDoc
    BY <2>1, <2>2, TransitionType
  <2>4. pending' \in [Engines -> TaskDoc]
    BY <1>16, <2>3 DEF LinkReview, TypeOK
  <2>5. reviews' \subseteq Review
    BY <1>16, <2>1 DEF LinkReview, TypeOK
  <2>6. pc' \in [Engines -> PCs]
    BY <1>0, <1>16 DEF LinkReview, Goto, TypeOK
  <2>7. QED
    BY <1>16, <2>4, <2>5, <2>6 DEF LinkReview, TypeOK, params, budget
<1>17. CASE Rename(e)
  <2>1. pending[e] \in TaskDoc /\ pending[e].id = taskId[e]
    BY <1>17 DEF Rename, Local, TypeOK
  <2>2. /\ disk' \in [Tasks -> TaskDoc]
        /\ \A t \in Tasks : disk'[t].id = t
    BY <1>17, <2>1 DEF Rename, TypeOK
  <2>3. /\ pc' \in [Engines -> PCs]
        /\ newId' \in [Engines -> 0..MaxReviewId]
    BY <1>0, <1>17, LoopAssumption DEF Rename, Goto, TypeOK
  <2>4. /\ DOMAIN raw' = Engines
        /\ \A x \in Engines : raw'[x].kind \in ResultKinds /\ raw'[x].delay \in Nat
    BY <1>0, <1>17 DEF Rename, TypeOK, NoResult
  <2>5. QED
    BY <1>17, <2>2, <2>3, <2>4 DEF Rename, TypeOK, params, budget
<1>18. QED
  BY <1>3, <1>4, <1>5, <1>6, <1>7, <1>8, <1>9, <1>10, <1>11, <1>12, <1>13,
     <1>14, <1>15, <1>16, <1>17 DEF RunStep

LEMMA EnvironmentType ==
    ASSUME IInv
    PROVE  /\ \A e \in Engines, t \in Tasks : Start(e, t) => TypeOK'
           /\ \A e \in Engines : Cancel(e) \/ Crash(e) => TypeOK'
           /\ \A t \in Tasks : Edit(t) \/ Decide(t) => TypeOK'
<1> USE DEF IInv
<1>1. ASSUME NEW e \in Engines, NEW t \in Tasks, Start(e, t) PROVE TypeOK'
  <2>1. "load" \in PCs /\ "none" \in Outcomes
    BY DEF PCs, Outcomes
  <2>2. waits' \in [Engines -> BOOLEAN]
    BY <1>1, LoopAssumption DEF Start, TypeOK
  <2>3. QED
    BY <1>1, <2>1, <2>2 DEF Start, Goto, TypeOK, files, budget
<1>2. ASSUME NEW e \in Engines, Cancel(e) PROVE TypeOK'
  BY <1>2 DEF Cancel, TypeOK, files, params, budget
<1>3. ASSUME NEW e \in Engines, Crash(e) PROVE TypeOK'
  <2>1. crashes' \in 0..MaxCrashes /\ "crashed" \in Outcomes
    BY <1>3, LoopAssumption DEF Crash, TypeOK, Outcomes
  <2>2. Return(e, "crashed") /\ UNCHANGED files
    BY <1>3 DEF Crash
  <2>3. QED
    BY <2>1, <2>2, ReturnType
<1>4. ASSUME NEW t \in Tasks, Edit(t) PROVE TypeOK'
  <2>1. PICK text \in Texts : disk' = [disk EXCEPT ![t].text = text]
    BY <1>4 DEF Edit
  <2>2. /\ [disk[t] EXCEPT !.text = text] \in TaskDoc
        /\ [disk[t] EXCEPT !.text = text].id = t
    BY TextIrrelevant DEF TypeOK, DiskSound
  <2>3. /\ disk' \in [Tasks -> TaskDoc]
        /\ \A u \in Tasks : disk'[u].id = u
    BY <2>1, <2>2 DEF TypeOK
  <2>4. QED
    BY <1>4, <2>3 DEF Edit, TypeOK, params, budget
<1>5. ASSUME NEW t \in Tasks, Decide(t) PROVE TypeOK'
  BY <1>5 DEF Decide, TypeOK, params, budget
<1>6. QED
  BY <1>1, <1>2, <1>3, <1>4, <1>5

-----------------------------------------------------------------------------
(* What each engine knows *)

\* A step of somebody else, which may add Reviews, takes nothing away.
LEMMA LocalFrame ==
    ASSUME NEW x \in Engines, Local(x), reviews \subseteq reviews',
           pc'[x] = pc[x], task'[x] = task[x], taskId'[x] = taskId[x],
           raw'[x] = raw[x], newId'[x] = newId[x], pending'[x] = pending[x]
    PROVE  Local(x)'
<1>1. \A doc : EvidenceValid(doc, reviews) => EvidenceValid(doc, reviews')
  BY EvidenceMonotone
<1>2. QED
  BY <1>1 DEF Local

LEMMA LocalAtRest ==
    ASSUME NEW e \in Engines, pc'[e] \in {"idle", "load"}
    PROVE  Local(e)'
BY DEF Local

LEMMA RunStepFrame ==
    ASSUME TypeOK, NEW e \in Engines, RunStep(e)
    PROVE  /\ reviews \subseteq reviews'
           /\ taskId' = taskId
           /\ \A x \in Engines \ {e} :
                 /\ pc'[x] = pc[x] /\ task'[x] = task[x] /\ raw'[x] = raw[x]
                 /\ newId'[x] = newId[x] /\ pending'[x] = pending[x]
<1> USE DEF Halt, Return, Move, Settle, Propose, SpawnWorker, Goto, files,
            params, budget, TypeOK
<1>1. CASE \/ LoadInvalid(e) \/ LoadFinished(e) \/ MultipleReviews(e)
           \/ ResolveFails(e) \/ ExecConflict(e) \/ ExecError(e)
  BY <1>1 DEF LoadInvalid, LoadFinished, MultipleReviews, ResolveFails,
     ExecConflict, ExecError
<1>2. CASE \/ CapacityStale(e) \/ CapacityReported(e) \/ CapacityExceeded(e)
           \/ SleepConflict(e) \/ SleepCancelled(e) \/ ResultRefused(e)
           \/ ReviewExists(e) \/ LinkRefused(e) \/ WriteConflict(e)
  BY <1>2 DEF CapacityStale, CapacityReported, CapacityExceeded,
     SleepConflict, SleepCancelled, ResultRefused, ReviewExists, LinkRefused,
     WriteConflict
<1>3. CASE \/ LoadActive(e) \/ AttachOrphan(e) \/ NoReviewYet(e)
           \/ Dispatch(e) \/ WorkerSettles(e) \/ CapacityPause(e)
           \/ Wake(e) \/ Resume(e)
  BY <1>3 DEF LoadActive, AttachOrphan, NoReviewYet, Dispatch, WorkerSettles,
     CapacityPause, Wake, Resume
<1>4. CASE \/ AcceptImplementation(e) \/ AcceptReview(e) \/ AcceptDecision(e)
           \/ FindNoReview(e) \/ AllocateReviewId(e) \/ LinkReview(e)
           \/ WriteChecked(e) \/ Rename(e)
  BY <1>4 DEF AcceptImplementation, AcceptReview, AcceptDecision,
     FindNoReview, AllocateReviewId, LinkReview, WriteChecked, Rename
<1>5. QED
  BY <1>1, <1>2, <1>3, <1>4 DEF RunStep

\* Halting, or staying at a place that asks nothing new.
LEMMA LocalHalt ==
    ASSUME TypeOK, NEW e \in Engines, NEW kind, Halt(e, kind)
    PROVE  Local(e)'
<1>1. pc'[e] = "idle"
  BY DEF Halt, Return, Goto, TypeOK
<1>2. QED
  BY <1>1, LocalAtRest

\* The document an engine proposes is the Task it works on, with evidence.
LEMMA LocalPropose ==
    ASSUME IInv, NEW e \in Engines, NEW doc, Propose(e, doc),
           pc[e] \notin {"idle", "load"},
           doc.id = taskId[e], EvidenceValid(doc, reviews)
    PROVE  Local(e)'
BY DEF IInv, TypeOK, Local, Propose, Goto, files, params

LEMMA RunStepLocal ==
    ASSUME IInv, NEW e \in Engines, RunStep(e)
    PROVE  Local(e)'
<1>0. TypeOK /\ Local(e) /\ task[e] \in TaskDoc
  BY DEF IInv, TypeOK
<1>1. CASE \/ LoadInvalid(e) \/ LoadFinished(e) \/ MultipleReviews(e)
           \/ ResolveFails(e) \/ ExecConflict(e) \/ ExecError(e)
  BY <1>0, <1>1, LocalHalt DEF LoadInvalid, LoadFinished, MultipleReviews,
     ResolveFails, ExecConflict, ExecError
<1>2. CASE \/ CapacityStale(e) \/ CapacityReported(e) \/ CapacityExceeded(e)
           \/ SleepConflict(e) \/ SleepCancelled(e) \/ ResultRefused(e)
           \/ ReviewExists(e) \/ LinkRefused(e) \/ WriteConflict(e)
  BY <1>0, <1>2, LocalHalt DEF CapacityStale, CapacityReported,
     CapacityExceeded, SleepConflict, SleepCancelled, ResultRefused,
     ReviewExists, LinkRefused, WriteConflict
<1>3. CASE LoadActive(e)
  <2> DEFINE doc == disk[taskId[e]]
  <2>1. /\ task'[e] = doc /\ taskId' = taskId /\ reviews' = reviews
        /\ pc'[e] = IF doc.state = "review" THEN "findReviews" ELSE "resolve"
    BY <1>0, <1>3 DEF LoadActive, Goto, TypeOK, files, params
  <2>2. /\ doc.id = taskId[e] /\ doc.state \in ActiveStates
        /\ Writable(doc) /\ EvidenceValid(doc, reviews)
    BY <1>0, <1>3 DEF LoadActive, Loadable, TypeOK
  <2> HIDE DEF doc
  <2>3. QED
    BY <2>1, <2>2 DEF Local
<1>4. CASE \/ NoReviewYet(e) \/ Dispatch(e) \/ WorkerSettles(e)
           \/ CapacityPause(e) \/ Wake(e) \/ Resume(e)
  <2>1. /\ pc[e] \notin {"idle", "load"}
        /\ pc'[e] \in {"resolve", "running", "checkExec", "sleep",
                       "checkSleep"}
        /\ task' = task /\ taskId' = taskId /\ reviews' = reviews
    BY <1>0, <1>4 DEF NoReviewYet, Dispatch, WorkerSettles, CapacityPause,
       Wake, Resume, Executed, CapacityDeferred, Move, Settle, SpawnWorker,
       Goto, files, params, TypeOK
  <2>2. QED
    BY <1>0, <2>1 DEF Local
<1>5. CASE AttachOrphan(e)
  <2>1. PICK orphan \in ReviewsOf(task[e], reviews) :
            Propose(e, transitionFromReview(task[e], orphan))
    BY <1>5 DEF AttachOrphan
  <2>2. /\ orphan \in Review /\ orphan \in reviews
        /\ orphan.task = task[e].id
        /\ orphan.attempt = currentAttempt(task[e])
    BY <1>0, <2>1 DEF ReviewsOf, TypeOK
  <2>3. /\ task[e].state = "review" /\ Writable(task[e])
        /\ task[e].id = taskId[e] /\ pc[e] = "findReviews"
    BY <1>0, <1>5 DEF AttachOrphan, Local
  <2>4. EvidenceValid(transitionFromReview(task[e], orphan), reviews)
    BY <1>0, <2>2, <2>3, TransitionEvidence
  <2>5. transitionFromReview(task[e], orphan).id = taskId[e]
    BY <1>0, <2>2, <2>3, TransitionType
  <2>6. QED
    BY <2>1, <2>3, <2>4, <2>5, LocalPropose
<1>6. CASE AcceptImplementation(e)
  <2>1. /\ raw[e].payload \in Evidence /\ pc[e] = "checkExec"
        /\ Propose(e, RecordAttempt(task[e], raw[e].payload))
    BY <1>6 DEF AcceptImplementation, Executed, ResultValid, Payloads
  <2>2. /\ task[e].state = "implement" /\ task[e].id = taskId[e]
        /\ EvidenceValid(task[e], reviews)
    BY <1>0, <1>6, <2>1, PayloadTypes DEF AcceptImplementation, Local
  <2>3. QED
    BY <1>0, <2>1, <2>2, RecordAttemptType, RecordAttemptEvidence, LocalPropose
<1>7. CASE AcceptDecision(e)
  <2>1. /\ raw[e].payload \in Decisions /\ pc[e] = "checkExec"
        /\ Propose(e, ApplyDecision(task[e], raw[e].payload))
    BY <1>7 DEF AcceptDecision, Executed, ResultValid, Payloads
  <2>2. /\ task[e].state = "approval" /\ task[e].id = taskId[e]
        /\ EvidenceValid(task[e], reviews)
    BY <1>0, <1>7, <2>1, PayloadTypes DEF AcceptDecision, Local
  <2>3. QED
    BY <1>0, <2>1, <2>2, ApplyDecisionType, ApplyDecisionEvidence, LocalPropose
<1>8. CASE AcceptReview(e)
  <2>1. raw[e].payload \in Verdicts /\ pc[e] = "checkExec"
    BY <1>8 DEF AcceptReview, Executed, ResultValid, Payloads
  <2>2. task[e].state = "review"
    BY <1>0, <1>8, <2>1, PayloadTypes DEF AcceptReview, Local
  <2>3. QED
    BY <1>0, <1>8, <2>1, <2>2
    DEF AcceptReview, Move, Goto, files, params, Local, TypeOK
<1>9. CASE FindNoReview(e) \/ AllocateReviewId(e)
  <2>1. \A id \in 1..MaxReviewId : id # 0
    OBVIOUS
  <2>2. QED
    BY <1>0, <1>9, <2>1 DEF FindNoReview, AllocateReviewId, Move, Goto, files,
       params, Local, TypeOK
<1>10. CASE LinkReview(e)
  <2>1. /\ task[e].state = "review" /\ Writable(task[e])
        /\ task[e].id = taskId[e] /\ pc[e] = "link"
        /\ raw[e].payload \in Verdicts /\ newId[e] # 0
        /\ EvidenceValid(task[e], reviews)
    BY <1>0, <1>10 DEF LinkReview, Local
  <2>2. /\ newId[e] \in Nat \ {0} /\ task[e].id \in Tasks
        /\ task[e].count \in Nat
    BY <1>0, <2>1, LoopAssumption DEF TypeOK, TaskDoc
  <2>3. task[e].count + 1 \in Nat \ {0}
    BY <2>2
  <2>4. /\ NewReview(e) \in Review /\ NewReview(e).task = task[e].id
        /\ NewReview(e).attempt = currentAttempt(task[e])
    BY <2>1, <2>2, <2>3 DEF NewReview, Review, currentAttempt
  <2>5. /\ NewReview(e) \in reviews' /\ reviews \subseteq reviews'
        /\ pending'[e] = transitionFromReview(task[e], NewReview(e))
        /\ pc'[e] = "writeCheck" /\ task' = task /\ taskId' = taskId
    BY <1>0, <1>10 DEF LinkReview, Goto, params, TypeOK
  <2>6. EvidenceValid(pending'[e], reviews')
    BY <1>0, <2>1, <2>4, <2>5, TransitionEvidence
  <2>7. pending'[e].id = taskId[e]
    BY <1>0, <2>1, <2>4, <2>5, TransitionType
  <2>8. EvidenceValid(task[e], reviews')
    BY <2>1, <2>5, EvidenceMonotone
  <2>9. QED
    BY <1>0, <2>1, <2>5, <2>6, <2>7, <2>8 DEF Local
<1>11. CASE WriteChecked(e)
  <2>1. CASE Writable(pending[e]) /\ Move(e, "rename")
    BY <1>0, <1>11, <2>1
    DEF WriteChecked, Move, Goto, files, params, Local, TypeOK
  <2>2. QED
    BY <1>0, <1>11, <2>1, LocalHalt DEF WriteChecked
<1>12. CASE Rename(e)
  <2>1. pc'[e] = "load"
    BY <1>0, <1>12 DEF Rename, Goto, TypeOK
  <2>2. QED
    BY <2>1, LocalAtRest
<1>13. QED
  BY <1>1, <1>2, <1>3, <1>4, <1>5, <1>6, <1>7, <1>8, <1>9, <1>10, <1>11, <1>12
  DEF RunStep

-----------------------------------------------------------------------------
(* The files *)

LEMMA RunStepDisk ==
    ASSUME IInv, NEW e \in Engines, RunStep(e)
    PROVE  DiskSound'
<1>1. CASE disk' = disk
  <2>1. reviews \subseteq reviews'
    BY RunStepFrame DEF IInv
  <2>2. QED
    BY <1>1, <2>1, EvidenceMonotone DEF IInv, DiskSound
<1>2. CASE Rename(e)
  <2>1. /\ Writable(pending[e]) /\ EvidenceValid(pending[e], reviews)
        /\ reviews' = reviews
        /\ disk' = [disk EXCEPT ![taskId[e]] = pending[e]]
    BY <1>2 DEF IInv, Local, Rename
  <2>2. QED
    BY <2>1 DEF IInv, DiskSound, TypeOK
<1>3. disk' = disk \/ Rename(e)
  BY DEF RunStep, LoadInvalid, LoadFinished, MultipleReviews, ResolveFails,
     ExecConflict, ExecError, CapacityStale, CapacityReported,
     CapacityExceeded, SleepConflict, SleepCancelled, ResultRefused,
     ReviewExists, LinkRefused, WriteConflict, LoadActive, AttachOrphan,
     NoReviewYet, Dispatch, WorkerSettles, CapacityPause, Wake, Resume,
     AcceptImplementation, AcceptReview, AcceptDecision, FindNoReview,
     AllocateReviewId, LinkReview, WriteChecked, Halt, Move, Settle, Propose,
     SpawnWorker, files
<1>4. QED
  BY <1>1, <1>2, <1>3

LEMMA InitInv == Init => IInv
<1> SUFFICES ASSUME Init PROVE IInv
  OBVIOUS
<1> USE DEF Init
<1>1. ASSUME NEW t \in Tasks
      PROVE  /\ disk[t] \in TaskDoc /\ Writable(disk[t])
             /\ EvidenceValid(disk[t], reviews)
  <2>1. PICK limit \in Limits, approval \in {"not_required", "required"},
             text \in Texts \ Unparsable, id \in Tasks :
          disk[t] = [id |-> id, state |-> "implement", count |-> 0,
                     limit |-> limit, approval |-> approval,
                     last_review |-> 0, attempts |-> <<>>, text |-> text]
    OBVIOUS
  <2>2. limit \in Nat /\ <<>> \in Seq(Evidence) /\ Len(<<>>) = 0
    BY LoopAssumption
  <2>3. QED
    BY <2>1, <2>2 DEF TaskDoc, TaskStates, ApprovalStates, Writable,
       MetadataValid, AttemptsProjected, currentAttempt, EvidenceValid
<1>2. disk \in [Tasks -> TaskDoc]
  BY <1>1
<1>3. /\ task \in [Engines -> TaskDoc] /\ pending \in [Engines -> TaskDoc]
      /\ taskId \in [Engines -> Tasks]
  BY <1>2
<1>4. /\ reviews \subseteq Review /\ crashes \in 0..MaxCrashes
      /\ approvals \in [Tasks -> ApprovalFiles]
      /\ newId \in [Engines -> 0..MaxReviewId]
  BY LoopAssumption DEF ApprovalFiles
<1>5. /\ pc \in [Engines -> PCs] /\ outcome \in [Engines -> Outcomes]
      /\ DOMAIN raw = Engines
      /\ \A e \in Engines : raw[e].kind \in ResultKinds /\ raw[e].delay \in Nat
  BY DEF PCs, Outcomes, ResultKinds, NoResult
<1>6. /\ waits \in [Engines -> BOOLEAN] /\ aborted \in [Engines -> BOOLEAN]
      /\ pauses \in [Engines -> Nat] /\ waited \in [Engines -> Nat]
      /\ lateStarts \in [Engines -> Nat]
  OBVIOUS
<1>7. TypeOK
  BY <1>2, <1>3, <1>4, <1>5, <1>6 DEF TypeOK
<1>8. DiskSound
  BY <1>1 DEF DiskSound
<1>9. \A e \in Engines : Local(e)
  BY DEF Local
<1>10. QED
  BY <1>7, <1>8, <1>9 DEF IInv

LEMMA NextInv == IInv /\ [Next]_vars => IInv'
<1> SUFFICES ASSUME IInv, [Next]_vars PROVE IInv'
  OBVIOUS
<1>1. ASSUME NEW e \in Engines, RunStep(e) PROVE IInv'
  <2>1. TypeOK' /\ DiskSound' /\ Local(e)'
    BY <1>1, RunStepType, RunStepDisk, RunStepLocal
  <2>2. ASSUME NEW x \in Engines \ {e} PROVE Local(x)'
    BY <1>1, RunStepFrame, LocalFrame DEF IInv
  <2>3. QED
    BY <2>1, <2>2 DEF IInv
<1>2. ASSUME NEW e \in Engines, NEW t \in Tasks, Start(e, t) PROVE IInv'
  <2>1. TypeOK'
    BY <1>2, EnvironmentType
  <2>2. DiskSound'
    BY <1>2 DEF Start, files, IInv, DiskSound
  <2>3. Local(e)'
    BY <1>2, LocalAtRest DEF Start, Goto, IInv, TypeOK
  <2>4. ASSUME NEW x \in Engines \ {e} PROVE Local(x)'
    BY <1>2, LocalFrame DEF Start, Goto, files, IInv, TypeOK
  <2>5. QED
    BY <2>1, <2>2, <2>3, <2>4 DEF IInv
<1>3. ASSUME NEW e \in Engines, Cancel(e) PROVE IInv'
  <2>1. TypeOK'
    BY <1>3, EnvironmentType
  <2>2. DiskSound' /\ \A x \in Engines : Local(x)'
    BY <1>3 DEF Cancel, files, params, IInv, DiskSound, Local
  <2>3. QED
    BY <2>1, <2>2 DEF IInv
<1>4. ASSUME NEW e \in Engines, Crash(e) PROVE IInv'
  <2>1. TypeOK'
    BY <1>4, EnvironmentType
  <2>2. DiskSound'
    BY <1>4 DEF Crash, files, IInv, DiskSound
  <2>3. Local(e)'
    BY <1>4, LocalAtRest DEF Crash, Return, Goto, IInv, TypeOK
  <2>4. ASSUME NEW x \in Engines \ {e} PROVE Local(x)'
    BY <1>4, LocalFrame DEF Crash, Return, Goto, files, params, IInv, TypeOK
  <2>5. QED
    BY <2>1, <2>2, <2>3, <2>4 DEF IInv
<1>5. ASSUME NEW t \in Tasks, Edit(t) PROVE IInv'
  <2>1. TypeOK'
    BY <1>5, EnvironmentType
  <2>2. PICK text \in Texts : disk' = [disk EXCEPT ![t].text = text]
    BY <1>5 DEF Edit
  <2>3. reviews' = reviews
    BY <1>5 DEF Edit
  <2>4. DiskSound'
    BY <2>2, <2>3, TextIrrelevant DEF IInv, DiskSound, TypeOK
  <2>5. \A x \in Engines : Local(x)'
    BY <1>5, <2>3 DEF Edit, params, IInv, Local
  <2>6. QED
    BY <2>1, <2>4, <2>5 DEF IInv
<1>6. ASSUME NEW t \in Tasks, Decide(t) PROVE IInv'
  <2>1. TypeOK'
    BY <1>6, EnvironmentType
  <2>2. DiskSound' /\ \A x \in Engines : Local(x)'
    BY <1>6 DEF Decide, params, IInv, DiskSound, Local
  <2>3. QED
    BY <2>1, <2>2 DEF IInv
<1>7. CASE UNCHANGED vars
  BY <1>7 DEF vars, files, params, budget, IInv, TypeOK, DiskSound, Local
<1>8. QED
  BY <1>1, <1>2, <1>3, <1>4, <1>5, <1>6, <1>7 DEF Next

\* Every reachable state is well typed, for any number of engines and Tasks.
THEOREM TypeCorrect == Spec => []TypeOK
<1>1. IInv => TypeOK
  BY DEF IInv
<1>2. QED
  BY <1>1, InitInv, NextInv, PTL DEF Spec

\* No interleaving of engines, crashes, edits of prose and signals leaves a
\* Task file behind whose metadata, Attempts or Review evidence the engine
\* would refuse to load.
THEOREM DiskAlwaysSound == Spec => []DiskSound
<1>1. IInv => DiskSound
  BY DEF IInv
<1>2. QED
  BY <1>1, InitInv, NextInv, PTL DEF Spec

-----------------------------------------------------------------------------
(* Review ids, and Workers after a cancellation *)

\* Whatever the engines allocate at the same time, a Review id names one file:
\* only link adds one, and it refuses a name that exists.
THEOREM ReviewIdsAlwaysUnique == Spec => []ReviewIdsUnique
<1>1. Init => ReviewIdsUnique
  BY DEF Init, ReviewIdsUnique
<1>2. ReviewIdsUnique /\ [Next]_vars => ReviewIdsUnique'
  <2> SUFFICES ASSUME ReviewIdsUnique, [Next]_vars PROVE ReviewIdsUnique'
    OBVIOUS
  <2>1. ASSUME NEW e \in Engines, LinkReview(e) PROVE ReviewIdsUnique'
    <3>1. NewReview(e).id = newId[e]
      BY DEF NewReview
    <3>2. QED
      BY <2>1, <3>1 DEF LinkReview, ReviewIdsUnique
  <2>2. reviews' = reviews \/ \E e \in Engines : LinkReview(e)
    BY DEF Next, vars, files, RunStep, Start, Cancel, Crash, Edit, Decide,
       LoadInvalid, LoadFinished, MultipleReviews, ResolveFails, ExecConflict,
       ExecError, CapacityStale, CapacityReported, CapacityExceeded,
       SleepConflict, SleepCancelled, ResultRefused, ReviewExists,
       LinkRefused, WriteConflict, LoadActive, AttachOrphan, NoReviewYet,
       Dispatch, WorkerSettles, CapacityPause, Wake, Resume,
       AcceptImplementation, AcceptReview, AcceptDecision, FindNoReview,
       AllocateReviewId, WriteChecked, Rename, Halt, Move, Settle, Propose,
       SpawnWorker
  <2>3. QED
    BY <2>1, <2>2 DEF ReviewIdsUnique
<1>3. QED
  BY <1>1, <1>2, PTL DEF Spec

\* A run that started a Worker after its signal was aborted is waiting for
\* that Worker, or has its error in hand and will return.
LateInv ==
    \A e \in Engines :
        /\ lateStarts[e] \in {0, 1}
        /\ lateStarts[e] = 1 =>
              /\ pc[e] \in {"running", "checkExec"}
              /\ pc[e] = "checkExec" => raw[e].kind = "error"

LEMMA LateRunStep ==
    ASSUME TypeOK, LateInv, NEW e \in Engines, RunStep(e)
    PROVE  LateInv'
<1> USE DEF TypeOK, LateInv, Goto
<1>1. CASE \/ LoadInvalid(e) \/ LoadFinished(e) \/ MultipleReviews(e)
           \/ ResolveFails(e) \/ ExecConflict(e) \/ ExecError(e)
  BY <1>1 DEF LoadInvalid, LoadFinished, MultipleReviews, ResolveFails,
     ExecConflict, ExecError, Halt, Return
<1>2. CASE \/ CapacityStale(e) \/ CapacityReported(e) \/ CapacityExceeded(e)
           \/ SleepConflict(e) \/ SleepCancelled(e) \/ ResultRefused(e)
           \/ ReviewExists(e) \/ LinkRefused(e) \/ WriteConflict(e)
  BY <1>2 DEF CapacityStale, CapacityReported, CapacityExceeded,
     SleepConflict, SleepCancelled, ResultRefused, ReviewExists, LinkRefused,
     WriteConflict, Halt, Return
<1>3. CASE Dispatch(e) \/ Resume(e)
  <2>1. lateStarts[e] = 0 /\ SpawnWorker(e)
    BY <1>3 DEF Dispatch, Resume
  <2>2. pc'[e] = "running" /\ lateStarts'[e] \in {0, 1}
    BY <2>1 DEF SpawnWorker
  <2>3. \A x \in Engines \ {e} : /\ pc'[x] = pc[x] /\ raw'[x] = raw[x]
                                /\ lateStarts'[x] = lateStarts[x]
    BY <2>1 DEF SpawnWorker
  <2>4. QED
    BY <2>2, <2>3
<1>4. CASE WorkerSettles(e)
  <2>1. PICK result :
            /\ lateStarts[e] > 0 => result = Failed("error")
            /\ Settle(e, result, "checkExec")
    BY <1>4 DEF WorkerSettles
  <2>2. lateStarts[e] = 1 => result.kind = "error"
    BY <2>1 DEF Failed
  <2>3. QED
    BY <2>1, <2>2 DEF Settle
<1>5. CASE \/ LoadActive(e) \/ AttachOrphan(e) \/ NoReviewYet(e)
           \/ CapacityPause(e) \/ Wake(e)
  <2>1. lateStarts[e] # 1
    BY <1>5 DEF LoadActive, AttachOrphan, NoReviewYet, CapacityPause,
       CapacityDeferred, Executed, Wake
  <2>2. /\ lateStarts' = lateStarts
        /\ \A x \in Engines \ {e} : pc'[x] = pc[x] /\ raw'[x] = raw[x]
    BY <1>5, RunStepFrame DEF LoadActive, AttachOrphan, NoReviewYet,
       CapacityPause, Wake, Move, Settle, Propose
  <2>3. QED
    BY <2>1, <2>2
<1>6. CASE \/ AcceptImplementation(e) \/ AcceptReview(e) \/ AcceptDecision(e)
           \/ FindNoReview(e) \/ AllocateReviewId(e) \/ LinkReview(e)
           \/ WriteChecked(e) \/ Rename(e)
  BY <1>6 DEF AcceptImplementation, AcceptReview, AcceptDecision, ResultValid,
     Executed, FindNoReview, AllocateReviewId, LinkReview, WriteChecked,
     Rename, Move, Propose, Halt, Return
<1>7. QED
  BY <1>1, <1>2, <1>3, <1>4, <1>5, <1>6 DEF RunStep

\* After its signal is aborted a run starts at most one more Worker.
THEOREM OneLateWorker == Spec => []AtMostOneLateWorker
<1>1. Init => LateInv
  BY DEF Init, LateInv
<1>2. TypeOK /\ LateInv /\ [Next]_vars => LateInv'
  <2> SUFFICES ASSUME TypeOK, LateInv, [Next]_vars PROVE LateInv'
    OBVIOUS
  <2>1. ASSUME NEW e \in Engines, RunStep(e) PROVE LateInv'
    BY <2>1, LateRunStep
  <2>2. ASSUME NEW e \in Engines, NEW t \in Tasks, Start(e, t) PROVE LateInv'
    BY <2>2 DEF Start, Goto, TypeOK, LateInv
  <2>3. ASSUME NEW e \in Engines, Cancel(e) \/ Crash(e) PROVE LateInv'
    BY <2>3 DEF Cancel, Crash, Return, Goto, TypeOK, LateInv
  <2>4. ASSUME NEW t \in Tasks, Edit(t) \/ Decide(t) PROVE LateInv'
    BY <2>4 DEF Edit, Decide, LateInv
  <2>5. CASE UNCHANGED vars
    BY <2>5 DEF vars, LateInv
  <2>6. QED
    BY <2>1, <2>2, <2>3, <2>4, <2>5 DEF Next
<1>3. LateInv => AtMostOneLateWorker
  BY DEF LateInv, AtMostOneLateWorker
<1>4. QED
  BY <1>1, <1>2, <1>3, TypeCorrect, PTL DEF Spec

-----------------------------------------------------------------------------
(* When no Task is run twice at the same time *)

\* What is assumed of the operators, in every state.
OneRunPerTask ==
    \A d, e \in Engines :
        pc[d] # "idle" /\ pc[e] # "idle" /\ taskId[d] = taskId[e] => d = e

\* The two documents differ in prose only.
SameTask(doc, file) ==
    /\ doc.id = file.id /\ doc.state = file.state
    /\ doc.count = file.count /\ doc.limit = file.limit
    /\ doc.approval = file.approval /\ doc.last_review = file.last_review
    /\ doc.attempts = file.attempts

\* A Review is for an Attempt the Task has reached, none is for an Attempt
\* still to be implemented, and no Attempt has two.
Judged ==
    /\ OneReviewPerAttempt
    /\ \A r \in reviews : r.attempt <= currentAttempt(disk[r.task])
    /\ \A t \in Tasks :
          disk[t].state = "implement" => ReviewsOf(disk[t], reviews) = {}

Working == PCs \ {"idle", "load"}
Writing == {"writeCheck", "rename"}
Asking == Working \ (Writing \cup {"findReviews"})

\* The document about to be written is one step from the one loaded.
Derived(e) ==
    \/ /\ task[e].state = "implement"
       /\ \E evidence \in Evidence :
             pending[e] = RecordAttempt(task[e], evidence)
    \/ /\ task[e].state = "review"
       /\ \E review \in ReviewsOf(task[e], reviews) :
             pending[e] = transitionFromReview(task[e], review)
    \/ /\ task[e].state = "approval"
       /\ approvals[taskId[e]] \in Decisions
       /\ pending[e] = ApplyDecision(task[e], approvals[taskId[e]])

Knows(e) ==
    /\ pc[e] \in Working => SameTask(task[e], disk[taskId[e]])
    /\ pc[e] \in Asking /\ task[e].state = "review" =>
          ReviewsOf(task[e], reviews) = {}
    /\ /\ pc[e] = "checkExec"
       /\ task[e].state = "approval"
       /\ raw[e].kind = "success"
       => /\ approvals[taskId[e]] \in Decisions
          /\ raw[e].payload = approvals[taskId[e]]
    /\ pc[e] \in Writing => Derived(e)

OneRunInv == IInv /\ Judged /\ \A e \in Engines : Knows(e)

-----------------------------------------------------------------------------
(* The documents *)

\* Nothing the engine looks for in a Task file is in its prose.
LEMMA SameTaskReviews ==
    ASSUME NEW doc, NEW file, SameTask(doc, file), NEW rs
    PROVE  ReviewsOf(doc, rs) = ReviewsOf(file, rs)
BY DEF SameTask, ReviewsOf, currentAttempt

\* A Review of one Task is none of another.
LEMMA OtherReviews ==
    ASSUME NEW doc, NEW rs, NEW review, review.task # doc.id
    PROVE  ReviewsOf(doc, rs \cup {review}) = ReviewsOf(doc, rs)
BY DEF ReviewsOf

LEMMA EditedTask ==
    ASSUME NEW doc \in TaskDoc, NEW text
    PROVE  SameTask([doc EXCEPT !.text = text], doc)
BY DEF SameTask, TaskDoc

LEMMA SameTaskSymmetric ==
    ASSUME NEW a, NEW b, SameTask(a, b)
    PROVE  SameTask(b, a)
BY DEF SameTask

LEMMA SameTaskTransitive ==
    ASSUME NEW a, NEW b, NEW c, SameTask(a, b), SameTask(b, c)
    PROVE  SameTask(a, c)
BY DEF SameTask

\* What a derived document keeps of the one it is derived from.
LEMMA RecordAttemptFields ==
    ASSUME NEW doc \in TaskDoc, NEW evidence \in Evidence
    PROVE  LET new == RecordAttempt(doc, evidence) IN
           /\ new.id = doc.id /\ new.state = "review"
           /\ new.count = doc.count /\ new.limit = doc.limit
           /\ new.approval = doc.approval
           /\ Len(new.attempts) = Len(doc.attempts) + 1
<1>1. doc.attempts \in Seq(Evidence)
  BY DEF TaskDoc
<1>2. Len(Append(doc.attempts, evidence)) = Len(doc.attempts) + 1
  BY <1>1
<1>3. QED
  BY <1>2 DEF RecordAttempt, TaskDoc

LEMMA TransitionFields ==
    ASSUME NEW doc \in TaskDoc, NEW review
    PROVE  LET new == transitionFromReview(doc, review) IN
           /\ new.id = doc.id /\ new.limit = doc.limit
           /\ new.approval = doc.approval /\ new.attempts = doc.attempts
           /\ review.verdict = "pass" =>
                 /\ new.count = doc.count
                 /\ new.state = IF doc.approval = "required"
                                THEN "approval" ELSE "done"
           /\ review.verdict # "pass" /\ doc.count < doc.limit =>
                 new.count = doc.count + 1 /\ new.state = "implement"
           /\ review.verdict # "pass" /\ ~(doc.count < doc.limit) =>
                 new.count = doc.count /\ new.state = "blocked"
BY DEF transitionFromReview, TaskDoc

LEMMA DecisionFields ==
    ASSUME NEW doc \in TaskDoc, NEW decision
    PROVE  LET new == ApplyDecision(doc, decision) IN
           /\ new.id = doc.id /\ new.limit = doc.limit
           /\ new.count = doc.count /\ new.attempts = doc.attempts
           /\ new.approval = decision
           /\ new.state = IF decision = "approved" THEN "done" ELSE "blocked"
BY DEF ApplyDecision, TaskDoc

-----------------------------------------------------------------------------
(* The steps that touch files *)

\* An engine links a Review or renames a Task file; nothing else of its run
\* shows in the files.
LEMMA RunStepFiles ==
    ASSUME NEW e \in Engines, RunStep(e)
    PROVE  LinkReview(e) \/ Rename(e) \/ UNCHANGED files
BY DEF RunStep, LoadInvalid, LoadFinished, MultipleReviews, ResolveFails,
       ExecConflict, ExecError, CapacityStale, CapacityReported,
       CapacityExceeded, SleepConflict, SleepCancelled, ResultRefused,
       ReviewExists, LinkRefused, WriteConflict, LoadActive, AttachOrphan,
       NoReviewYet, Dispatch, WorkerSettles, CapacityPause, Wake, Resume,
       AcceptImplementation, AcceptReview, AcceptDecision, FindNoReview,
       AllocateReviewId, WriteChecked, Halt, Move, Settle, Propose,
       SpawnWorker, files

\* Linking: the Attempt under review had no Review, and gets this one.
LEMMA LinkFacts ==
    ASSUME OneRunInv, NEW e \in Engines, LinkReview(e)
    PROVE  LET t == taskId[e] IN
           /\ t \in Tasks /\ disk[t].state = "review"
           /\ disk' = disk /\ approvals' = approvals
           /\ reviews' = reviews \cup {NewReview(e)}
           /\ NewReview(e) \in Review /\ NewReview(e).task = t
           /\ NewReview(e).attempt = currentAttempt(disk[t])
           /\ NewReview(e).verdict = raw[e].payload
           /\ ReviewsOf(disk[t], reviews) = {}
           /\ ReviewsOf(disk[t], reviews') = {NewReview(e)}
           /\ \A u \in Tasks \ {t} :
                 ReviewsOf(disk[u], reviews') = ReviewsOf(disk[u], reviews)
<1>1. /\ TypeOK /\ Local(e) /\ Knows(e) /\ pc[e] = "link"
      /\ pc[e] \in Working /\ pc[e] \in Asking
  BY DEF OneRunInv, IInv, LinkReview, Working, Asking, Writing, PCs
<1>2. /\ task[e].id = taskId[e] /\ task[e].state = "review"
      /\ raw[e].payload \in Verdicts /\ newId[e] # 0
      /\ SameTask(task[e], disk[taskId[e]])
      /\ ReviewsOf(task[e], reviews) = {}
  BY <1>1 DEF Local, Knows
<1>3. /\ taskId[e] \in Tasks /\ disk[taskId[e]].state = "review"
      /\ currentAttempt(task[e]) = currentAttempt(disk[taskId[e]])
  BY <1>1, <1>2 DEF TypeOK, SameTask, currentAttempt
<1>4. /\ newId[e] \in Nat \ {0} /\ task[e].count + 1 \in Nat \ {0}
  <2>1. newId[e] \in 0..MaxReviewId /\ MaxReviewId \in Nat
    BY <1>1, LoopAssumption DEF TypeOK
  <2>2. task[e].count \in Nat
    BY <1>1 DEF TypeOK, TaskDoc
  <2>3. QED
    BY <1>2, <2>1, <2>2
<1>5. /\ NewReview(e) \in Review /\ NewReview(e).task = taskId[e]
      /\ NewReview(e).attempt = currentAttempt(disk[taskId[e]])
      /\ NewReview(e).verdict = raw[e].payload
  BY <1>2, <1>3, <1>4 DEF NewReview, Review, currentAttempt
<1>6. /\ disk' = disk /\ approvals' = approvals
      /\ reviews' = reviews \cup {NewReview(e)}
  BY DEF LinkReview
<1>7. disk[taskId[e]].id = taskId[e] /\ \A u \in Tasks : disk[u].id = u
  BY <1>1, <1>3 DEF TypeOK
<1>8. ReviewsOf(disk[taskId[e]], reviews) = {}
  BY <1>2, SameTaskReviews
<1>9. ReviewsOf(disk[taskId[e]], reviews') = {NewReview(e)}
  BY <1>5, <1>6, <1>7, <1>8 DEF ReviewsOf
<1>10. \A u \in Tasks \ {taskId[e]} :
          ReviewsOf(disk[u], reviews') = ReviewsOf(disk[u], reviews)
  BY <1>5, <1>6, <1>7, OtherReviews
<1>11. QED
  BY <1>2, <1>3, <1>5, <1>6, <1>8, <1>9, <1>10

\* Renaming: the new file is derived from the one it replaces.
LEMMA RenameFacts ==
    ASSUME OneRunInv, NEW e \in Engines, Rename(e)
    PROVE  LET t == taskId[e] IN
           /\ t \in Tasks /\ UNCHANGED <<reviews, approvals>>
           /\ disk' = [disk EXCEPT ![t] = pending[e]]
           /\ task[e] \in TaskDoc /\ pending[e] \in TaskDoc
           /\ Writable(task[e]) /\ pending[e].id = t
           /\ Derived(e) /\ SameTask(task[e], disk[t])
           /\ ReviewsOf(disk[t], reviews) = ReviewsOf(task[e], reviews)
<1>1. /\ TypeOK /\ Local(e) /\ Knows(e) /\ pc[e] = "rename"
      /\ pc[e] \in Working /\ pc[e] \in Writing
  BY DEF OneRunInv, IInv, Rename, Working, Writing, PCs
<1>2. /\ SameTask(task[e], disk[taskId[e]]) /\ Derived(e)
      /\ pending[e].id = taskId[e] /\ Writable(task[e])
  BY <1>1 DEF Knows, Local
<1>3. /\ taskId[e] \in Tasks /\ task[e] \in TaskDoc /\ pending[e] \in TaskDoc
  BY <1>1 DEF TypeOK
<1>4. UNCHANGED <<reviews, approvals>>
      /\ disk' = [disk EXCEPT ![taskId[e]] = pending[e]]
  BY DEF Rename
<1>5. ReviewsOf(disk[taskId[e]], reviews) = ReviewsOf(task[e], reviews)
  BY <1>2, SameTaskReviews
<1>6. QED
  BY <1>2, <1>3, <1>4, <1>5

LEMMA EditFacts ==
    ASSUME TypeOK, NEW t \in Tasks, Edit(t)
    PROVE  /\ UNCHANGED <<reviews, approvals>>
           /\ \A u \in Tasks : SameTask(disk'[u], disk[u])
<1>1. PICK text \in Texts : disk' = [disk EXCEPT ![t].text = text]
  BY DEF Edit
<1>2. \A u \in Tasks : SameTask(disk[u], disk[u])
  BY DEF SameTask
<1>3. SameTask([disk[t] EXCEPT !.text = text], disk[t])
  BY EditedTask DEF TypeOK
<1>4. \A u \in Tasks : SameTask(disk'[u], disk[u])
  BY <1>1, <1>2, <1>3 DEF TypeOK
<1>5. QED
  BY <1>4 DEF Edit

-----------------------------------------------------------------------------
(* Judged *)

LEMMA JudgedStays ==
    ASSUME TypeOK, Judged, reviews' = reviews,
           \A t \in Tasks : SameTask(disk'[t], disk[t])
    PROVE  Judged'
<1>1. ASSUME NEW t \in Tasks
      PROVE  /\ currentAttempt(disk'[t]) = currentAttempt(disk[t])
             /\ disk'[t].state = disk[t].state
             /\ ReviewsOf(disk'[t], reviews') = ReviewsOf(disk[t], reviews)
  BY SameTaskReviews DEF SameTask, currentAttempt
<1>2. \A r \in reviews : r.task \in Tasks
  BY DEF TypeOK, Review
<1>3. \A r \in reviews' : r.attempt <= currentAttempt(disk'[r.task])
  BY <1>1, <1>2 DEF Judged
<1>4. QED
  BY <1>1, <1>3 DEF Judged, OneReviewPerAttempt

LEMMA JudgedLink ==
    ASSUME OneRunInv, NEW e \in Engines, LinkReview(e)
    PROVE  Judged'
<1> DEFINE new == NewReview(e)
           t == taskId[e]
<1>1. /\ t \in Tasks /\ disk[t].state = "review" /\ disk' = disk
      /\ reviews' = reviews \cup {new} /\ new.task = t
      /\ new.attempt = currentAttempt(disk[t])
      /\ ReviewsOf(disk[t], reviews) = {}
      /\ \A u \in Tasks \ {t} :
            ReviewsOf(disk[u], reviews') = ReviewsOf(disk[u], reviews)
  BY LinkFacts
<1> HIDE DEF new, t
<1>2. disk[t].id = t /\ currentAttempt(disk[t]) \in Nat
  <2>1. disk[t].id = t /\ disk[t] \in TaskDoc
    BY <1>1 DEF OneRunInv, IInv, TypeOK
  <2>2. QED
    BY <2>1 DEF TaskDoc, currentAttempt
<1>3. \A r \in reviews : ~(r.task = new.task /\ r.attempt = new.attempt)
  BY <1>1, <1>2 DEF ReviewsOf
<1>4. OneReviewPerAttempt'
  BY <1>1, <1>3 DEF OneRunInv, Judged, OneReviewPerAttempt
<1>5. \A r \in reviews' : r.attempt <= currentAttempt(disk'[r.task])
  BY <1>1, <1>2 DEF OneRunInv, Judged
<1>6. \A u \in Tasks :
         disk'[u].state = "implement" => ReviewsOf(disk'[u], reviews') = {}
  BY <1>1 DEF OneRunInv, Judged
<1>7. QED
  BY <1>4, <1>5, <1>6 DEF Judged

LEMMA JudgedRename ==
    ASSUME OneRunInv, NEW e \in Engines, Rename(e)
    PROVE  Judged'
<1> DEFINE t == taskId[e]
           new == pending[e]
           doc == task[e]
<1>1. /\ t \in Tasks /\ reviews' = reviews
      /\ disk' = [disk EXCEPT ![t] = new]
      /\ doc \in TaskDoc /\ new.id = t /\ Derived(e)
      /\ SameTask(doc, disk[t])
      /\ ReviewsOf(disk[t], reviews) = ReviewsOf(doc, reviews)
  BY RenameFacts
<1>2. disk'[t] = new /\ \A u \in Tasks \ {t} : disk'[u] = disk[u]
  BY <1>1 DEF OneRunInv, IInv, TypeOK
<1>3. doc.count \in Nat /\ doc.count = disk[t].count /\ doc.id = t
      /\ doc.state = disk[t].state /\ disk[t].id = t
  BY <1>1 DEF TaskDoc, SameTask, OneRunInv, IInv, TypeOK
<1>4. /\ new.count = doc.count
         \/ new.count = doc.count + 1
      /\ new.state = "implement" => new.count = doc.count + 1
  <2>1. CASE \E evidence \in Evidence : new = RecordAttempt(doc, evidence)
    BY <1>1, <2>1, RecordAttemptFields
  <2>2. CASE \E review : new = transitionFromReview(doc, review)
    <3>1. PICK review : new = transitionFromReview(doc, review)
      BY <2>2
    <3>2. QED
      BY <1>1, <3>1, TransitionFields
  <2>3. CASE \E decision : new = ApplyDecision(doc, decision)
    <3>1. PICK decision : new = ApplyDecision(doc, decision)
      BY <2>3
    <3>2. QED
      BY <1>1, <3>1, DecisionFields
  <2>4. QED
    BY <1>1, <2>1, <2>2, <2>3 DEF Derived
<1> HIDE DEF t, new, doc
<1>5. \A r \in reviews : r.task \in Tasks /\ r.attempt \in Nat
  BY DEF OneRunInv, IInv, TypeOK, Review
<1>6. ASSUME NEW r \in reviews PROVE r.attempt <= currentAttempt(disk'[r.task])
  <2>1. r.attempt <= currentAttempt(disk[r.task])
    BY DEF OneRunInv, Judged
  <2>2. CASE r.task = t
    BY <1>2, <1>3, <1>4, <1>5, <2>1, <2>2 DEF currentAttempt
  <2>3. CASE r.task # t
    BY <1>2, <1>5, <2>1, <2>3
  <2>4. QED
    BY <2>2, <2>3
<1>7. ASSUME NEW u \in Tasks, disk'[u].state = "implement"
      PROVE  ReviewsOf(disk'[u], reviews') = {}
  <2>1. CASE u = t
    <3>1. new.count = doc.count + 1
      BY <1>2, <1>4, <1>7, <2>1
    <3>2. ASSUME NEW r \in ReviewsOf(new, reviews) PROVE FALSE
      <4>1. r \in reviews /\ r.task = t /\ r.attempt = doc.count + 2
        BY <1>1, <1>3, <3>1, <3>2 DEF ReviewsOf, currentAttempt
      <4>2. r.attempt <= doc.count + 1
        BY <1>3, <4>1 DEF OneRunInv, Judged, currentAttempt
      <4>3. QED
        BY <1>3, <4>1, <4>2
    <3>3. QED
      BY <1>1, <1>2, <2>1, <3>2
  <2>2. CASE u # t
    BY <1>1, <1>2, <1>7, <2>2 DEF OneRunInv, Judged
  <2>3. QED
    BY <2>1, <2>2
<1>8. QED
  BY <1>1, <1>6, <1>7 DEF OneRunInv, Judged, OneReviewPerAttempt

-----------------------------------------------------------------------------
(* What a run knows *)

LEMMA KnowsAtRest ==
    ASSUME NEW e \in Engines, pc'[e] \in {"idle", "load"}
    PROVE  Knows(e)'
BY DEF Knows, Working, Asking, Writing

\* A step of somebody else leaves the Task's file but for its prose, its
\* Reviews, and an answer once given.
LEMMA KnowsFrame ==
    ASSUME NEW x \in Engines, Knows(x),
           pc'[x] = pc[x], task'[x] = task[x], taskId'[x] = taskId[x],
           raw'[x] = raw[x], pending'[x] = pending[x],
           pc[x] \in Working =>
              /\ SameTask(disk'[taskId[x]], disk[taskId[x]])
              /\ ReviewsOf(task[x], reviews') = ReviewsOf(task[x], reviews)
              /\ approvals[taskId[x]] \in Decisions =>
                    approvals'[taskId[x]] = approvals[taskId[x]]
    PROVE  Knows(x)'
<1>1. CASE pc[x] \notin Working
  BY <1>1 DEF Knows, Working, Asking, Writing, PCs
<1>2. CASE pc[x] \in Working
  <2>1. /\ SameTask(task[x], disk[taskId[x]])
        /\ SameTask(disk[taskId[x]], disk'[taskId[x]])
    BY <1>2, SameTaskSymmetric DEF Knows
  <2>2. SameTask(task'[x], disk'[taskId'[x]])
    BY <2>1, SameTaskTransitive
  <2>3. pc[x] \in Writing => Derived(x)'
    BY <1>2 DEF Knows, Derived
  <2>4. QED
    BY <1>2, <2>2, <2>3 DEF Knows
<1>3. QED
  BY <1>1, <1>2

\* The run's own step leaves the document, and asks nothing new of it.
LEMMA KnowsStays ==
    ASSUME OneRunInv, NEW e \in Engines, UNCHANGED <<files, task, taskId>>,
           pc[e] \in Working, pc'[e] \in Working \ Writing,
           pc'[e] # "checkExec",
           pc'[e] \in Asking /\ task[e].state = "review" =>
              ReviewsOf(task[e], reviews) = {}
    PROVE  Knows(e)'
<1>1. SameTask(task[e], disk[taskId[e]])
  BY DEF OneRunInv, Knows
<1>2. QED
  BY <1>1 DEF Knows, files

LEMMA KnowsPropose ==
    ASSUME OneRunInv, NEW e \in Engines, NEW doc, Propose(e, doc),
           pc[e] \in Working,
           Derived(e)'
    PROVE  Knows(e)'
<1>1. SameTask(task[e], disk[taskId[e]])
  BY DEF OneRunInv, Knows
<1>2. UNCHANGED <<files, task, taskId>> /\ pc'[e] = "writeCheck"
  BY DEF Propose, Goto, params, OneRunInv, IInv, TypeOK
<1>3. QED
  BY <1>1, <1>2 DEF Knows, files, Asking, Writing

LEMMA RunStepKnows ==
    ASSUME OneRunInv, NEW e \in Engines, RunStep(e)
    PROVE  Knows(e)'
<1>0. /\ TypeOK /\ Local(e) /\ Knows(e) /\ task[e] \in TaskDoc
      /\ pc \in [Engines -> PCs] /\ taskId[e] \in Tasks
      /\ {"findReviews", "resolve", "running", "checkExec", "sleep",
          "checkSleep", "findExisting", "allocate", "link", "writeCheck",
          "rename"} = Working
      /\ Asking = {"resolve", "running", "checkExec", "sleep", "checkSleep",
                   "findExisting", "allocate", "link"}
  BY DEF OneRunInv, IInv, TypeOK, Working, Asking, Writing, PCs
<1>1. ASSUME NEW kind, Halt(e, kind) PROVE Knows(e)'
  <2>1. pc'[e] = "idle"
    BY <1>0, <1>1 DEF Halt, Return, Goto
  <2>2. QED
    BY <2>1, KnowsAtRest
<1>2. CASE \/ LoadInvalid(e) \/ LoadFinished(e) \/ MultipleReviews(e)
           \/ ResolveFails(e) \/ ExecConflict(e) \/ ExecError(e)
           \/ CapacityStale(e) \/ CapacityReported(e) \/ CapacityExceeded(e)
  BY <1>1, <1>2 DEF LoadInvalid, LoadFinished, MultipleReviews, ResolveFails,
     ExecConflict, ExecError, CapacityStale, CapacityReported, CapacityExceeded
<1>3. CASE \/ SleepConflict(e) \/ SleepCancelled(e) \/ ResultRefused(e)
           \/ ReviewExists(e) \/ LinkRefused(e) \/ WriteConflict(e)
  BY <1>1, <1>3 DEF SleepConflict, SleepCancelled, ResultRefused,
     ReviewExists, LinkRefused, WriteConflict
<1>4. CASE LoadActive(e)
  <2> DEFINE doc == disk[taskId[e]]
  <2>1. /\ UNCHANGED <<files, taskId>> /\ task'[e] = doc
        /\ pc'[e] = IF doc.state = "review" THEN "findReviews" ELSE "resolve"
    BY <1>0, <1>4 DEF LoadActive, Goto, params, TypeOK
  <2>2. SameTask(doc, doc)
    BY DEF SameTask
  <2> HIDE DEF doc
  <2>3. SameTask(task'[e], disk'[taskId'[e]])
    BY <2>1, <2>2 DEF doc, files
  <2>4. QED
    BY <1>0, <2>1, <2>3 DEF Knows, Writing
<1>5. CASE AttachOrphan(e)
  <2>1. PICK orphan \in ReviewsOf(task[e], reviews) :
            Propose(e, transitionFromReview(task[e], orphan))
    BY <1>5 DEF AttachOrphan
  <2>2. task[e].state = "review" /\ pc[e] \in Working
    BY <1>0, <1>5 DEF AttachOrphan, Local
  <2>3. /\ pending'[e] = transitionFromReview(task[e], orphan)
        /\ task' = task /\ reviews' = reviews
    BY <1>0, <2>1 DEF Propose, TypeOK, files
  <2>4. Derived(e)'
    BY <2>2, <2>3 DEF Derived
  <2>5. QED
    BY <2>1, <2>2, <2>4, KnowsPropose
<1>6. CASE NoReviewYet(e)
  <2>1. /\ ReviewsOf(task[e], reviews) = {} /\ pc[e] \in Working
        /\ UNCHANGED <<files, task, taskId>> /\ pc'[e] = "resolve"
    BY <1>0, <1>6 DEF NoReviewYet, Move, Goto, params
  <2>2. QED
    BY <1>0, <2>1, KnowsStays DEF Writing
<1>7. CASE \/ Dispatch(e) \/ CapacityPause(e) \/ Wake(e) \/ Resume(e)
           \/ AcceptReview(e) \/ FindNoReview(e) \/ AllocateReviewId(e)
  <2>1. /\ pc[e] \in Asking /\ pc'[e] \in Asking \ {"checkExec"}
        /\ UNCHANGED <<files, task, taskId>>
    BY <1>0, <1>7 DEF Dispatch, CapacityPause, CapacityDeferred, Executed,
       Wake, Resume, AcceptReview, FindNoReview, AllocateReviewId, Settle,
       Move, SpawnWorker, Goto, params
  <2>2. task[e].state = "review" => ReviewsOf(task[e], reviews) = {}
    BY <1>0, <2>1 DEF Knows
  <2>3. QED
    BY <1>0, <2>1, <2>2, KnowsStays DEF Writing
<1>8. CASE WorkerSettles(e)
  <2>1. PICK result \in Reports(e) \cup {Failed("error")} :
            Settle(e, result, "checkExec")
    BY <1>8 DEF WorkerSettles
  <2>2. /\ pc[e] = "running" /\ pc'[e] = "checkExec" /\ raw'[e] = result
        /\ UNCHANGED <<files, task, taskId>>
    BY <1>0, <1>8, <2>1 DEF WorkerSettles, Settle, Goto, params, TypeOK
  <2>3. ASSUME task[e].state = "approval", result.kind = "success"
        PROVE  /\ approvals[taskId[e]] \in Decisions
               /\ result.payload = approvals[taskId[e]]
    <3>1. Role(e) = "approver" /\ result # Failed("error")
      BY <2>3 DEF Role, roleForState, Failed
    <3>2. CASE approvals[taskId[e]] \in Decisions
      <4>1. result = Reported(approvals[taskId[e]])
        BY <3>1, <3>2 DEF Reports
      <4>2. QED
        BY <3>2, <4>1 DEF Reported
    <3>3. CASE approvals[taskId[e]] \notin Decisions
      <4>1. result = Failed("failure")
        BY <3>1, <3>3 DEF Reports
      <4>2. QED
        BY <2>3, <4>1 DEF Failed
    <3>4. QED
      BY <3>2, <3>3
  <2>4. /\ SameTask(task[e], disk[taskId[e]])
        /\ task[e].state = "review" => ReviewsOf(task[e], reviews) = {}
    BY <1>0, <2>2 DEF Knows
  <2>5. QED
    BY <2>2, <2>3, <2>4 DEF Knows, files, Writing
<1>9. CASE AcceptImplementation(e)
  <2>1. /\ Propose(e, RecordAttempt(task[e], raw[e].payload))
        /\ raw[e].payload \in Evidence /\ pc[e] = "checkExec"
        /\ task[e].state \in ActiveStates
    BY <1>0, <1>9 DEF AcceptImplementation, ResultValid, Payloads, Executed,
       Local
  <2>2. task[e].state = "implement"
    BY <1>0, <1>9, <2>1, PayloadTypes DEF AcceptImplementation
  <2>3. /\ pending'[e] = RecordAttempt(task[e], raw[e].payload)
        /\ task' = task
    BY <1>0, <2>1 DEF Propose, TypeOK
  <2>4. Derived(e)'
    BY <2>1, <2>2, <2>3 DEF Derived
  <2>5. QED
    BY <1>0, <2>1, <2>4, KnowsPropose
<1>10. CASE AcceptDecision(e)
  <2>1. /\ Propose(e, ApplyDecision(task[e], raw[e].payload))
        /\ raw[e].kind = "success" /\ pc[e] = "checkExec"
        /\ task[e].state \in ActiveStates
    BY <1>0, <1>10 DEF AcceptDecision, ResultValid, Executed, Local
  <2>2. task[e].state = "approval"
    BY <1>0, <1>10, <2>1, PayloadTypes DEF AcceptDecision
  <2>3. /\ approvals[taskId[e]] \in Decisions
        /\ raw[e].payload = approvals[taskId[e]]
    BY <1>0, <2>1, <2>2 DEF Knows
  <2>4. /\ pending'[e] = ApplyDecision(task[e], raw[e].payload)
        /\ task' = task /\ taskId' = taskId /\ approvals' = approvals
    BY <1>0, <2>1 DEF Propose, TypeOK, files, params
  <2>5. Derived(e)'
    BY <2>2, <2>3, <2>4 DEF Derived
  <2>6. QED
    BY <1>0, <2>1, <2>5, KnowsPropose
<1>11. CASE LinkReview(e)
  <2>1. /\ pc'[e] = "writeCheck" /\ disk' = disk
        /\ task' = task /\ taskId' = taskId
        /\ reviews' = reviews \cup {NewReview(e)}
        /\ pending'[e] = transitionFromReview(task[e], NewReview(e))
    BY <1>0, <1>11 DEF LinkReview, Goto, params, TypeOK
  <2>2. task[e].state = "review" /\ SameTask(task[e], disk[taskId[e]])
    BY <1>0, <1>11 DEF LinkReview, Local, Knows
  <2>3. NewReview(e) \in ReviewsOf(task'[e], reviews')
    BY <2>1 DEF ReviewsOf, NewReview
  <2>4. Derived(e)'
    BY <2>1, <2>2, <2>3 DEF Derived
  <2>5. QED
    BY <2>1, <2>2, <2>4 DEF Knows, Asking, Writing
<1>12. CASE WriteChecked(e)
  <2>1. CASE Move(e, "rename")
    <3>1. /\ pc[e] = "writeCheck" /\ pc'[e] = "rename"
          /\ UNCHANGED <<files, task, taskId, pending>>
      BY <1>0, <1>12, <2>1 DEF WriteChecked, Move, Goto, params
    <3>2. SameTask(task[e], disk[taskId[e]]) /\ Derived(e)
      BY <1>0, <3>1 DEF Knows, Writing
    <3>3. Derived(e)'
      BY <3>1, <3>2 DEF Derived, files
    <3>4. QED
      BY <3>1, <3>2, <3>3 DEF Knows, files, Asking, Writing
  <2>2. QED
    BY <1>1, <1>12, <2>1 DEF WriteChecked
<1>13. CASE Rename(e)
  <2>1. pc'[e] = "load"
    BY <1>0, <1>13 DEF Rename, Goto
  <2>2. QED
    BY <2>1, KnowsAtRest
<1>14. QED
  BY <1>2, <1>3, <1>4, <1>5, <1>6, <1>7, <1>8, <1>9, <1>10, <1>11, <1>12,
     <1>13 DEF RunStep

\* A run's step touches only the Task the run works on, and what the others
\* know is about theirs.
LEMMA RunStepOthers ==
    ASSUME OneRunInv, OneRunPerTask, NEW e \in Engines, RunStep(e),
           NEW x \in Engines \ {e}
    PROVE  Knows(x)'
<1>1. /\ taskId' = taskId /\ pc'[x] = pc[x] /\ task'[x] = task[x]
      /\ raw'[x] = raw[x] /\ pending'[x] = pending[x] /\ Knows(x)
      /\ TypeOK
  BY RunStepFrame DEF OneRunInv, IInv
<1>2. SUFFICES ASSUME pc[x] \in Working
               PROVE  /\ SameTask(disk'[taskId[x]], disk[taskId[x]])
                      /\ ReviewsOf(task[x], reviews')
                            = ReviewsOf(task[x], reviews)
                      /\ approvals'[taskId[x]] = approvals[taskId[x]]
  BY <1>1, KnowsFrame
<1>3. SameTask(disk[taskId[x]], disk[taskId[x]])
  BY DEF SameTask
<1>4. task[x].id = taskId[x] /\ taskId[x] \in Tasks
  BY <1>1, <1>2 DEF OneRunInv, IInv, Local, TypeOK, Working
<1>5. CASE UNCHANGED files
  BY <1>3, <1>5 DEF files
<1>6. CASE LinkReview(e)
  <2>1. pc[e] # "idle" /\ taskId[e] # taskId[x]
    BY <1>2, <1>6 DEF LinkReview, OneRunPerTask, Working
  <2>2. /\ UNCHANGED <<disk, approvals>> /\ NewReview(e).task = taskId[e]
        /\ reviews' = reviews \cup {NewReview(e)}
    BY <1>6, LinkFacts
  <2>3. ReviewsOf(task[x], reviews') = ReviewsOf(task[x], reviews)
    BY <1>4, <2>1, <2>2, OtherReviews
  <2>4. QED
    BY <1>3, <2>2, <2>3
<1>7. CASE Rename(e)
  <2>1. pc[e] # "idle" /\ taskId[e] # taskId[x]
    BY <1>2, <1>7 DEF Rename, OneRunPerTask, Working
  <2>2. /\ UNCHANGED <<reviews, approvals>>
        /\ disk' = [disk EXCEPT ![taskId[e]] = pending[e]]
    BY <1>7 DEF Rename
  <2>3. disk'[taskId[x]] = disk[taskId[x]]
    BY <1>1, <1>4, <2>1, <2>2 DEF TypeOK
  <2>4. QED
    BY <1>3, <2>2, <2>3
<1>8. QED
  BY <1>5, <1>6, <1>7, RunStepFiles

LEMMA OneRunInit == Init => OneRunInv
<1> SUFFICES ASSUME Init PROVE OneRunInv
  OBVIOUS
<1>1. Judged
  BY DEF Init, Judged, OneReviewPerAttempt, ReviewsOf
<1>2. \A e \in Engines : Knows(e)
  BY DEF Init, Knows, Working, Asking, Writing
<1>3. QED
  BY <1>1, <1>2, InitInv DEF OneRunInv

LEMMA OneRunNext == OneRunInv /\ OneRunPerTask /\ [Next]_vars => OneRunInv'
<1> SUFFICES ASSUME OneRunInv, OneRunPerTask, [Next]_vars PROVE OneRunInv'
  OBVIOUS
<1>0. IInv' /\ TypeOK
  BY NextInv DEF OneRunInv, IInv
<1>same. \A t \in Tasks : SameTask(disk[t], disk[t])
  BY DEF SameTask
<1>1. ASSUME NEW e \in Engines, RunStep(e) PROVE OneRunInv'
  <2>1. Knows(e)' /\ \A x \in Engines \ {e} : Knows(x)'
    BY <1>1, RunStepKnows, RunStepOthers
  <2>2. CASE UNCHANGED files
    <3>1. Judged'
      BY <1>0, <1>same, <2>2, JudgedStays DEF files, OneRunInv
    <3>2. QED
      BY <1>0, <2>1, <3>1 DEF OneRunInv
  <2>3. CASE LinkReview(e) \/ Rename(e)
    <3>1. Judged'
      BY <2>3, JudgedLink, JudgedRename
    <3>2. QED
      BY <1>0, <2>1, <3>1 DEF OneRunInv
  <2>4. QED
    BY <1>1, <2>2, <2>3, RunStepFiles
<1>2. ASSUME NEW e \in Engines, NEW t \in Tasks, Start(e, t) PROVE OneRunInv'
  <2>1. UNCHANGED files
    BY <1>2 DEF Start
  <2>2. Judged'
    BY <1>0, <1>same, <2>1, JudgedStays DEF files, OneRunInv
  <2>3. Knows(e)'
    BY <1>0, <1>2, KnowsAtRest DEF Start, Goto, TypeOK
  <2>4. ASSUME NEW x \in Engines \ {e} PROVE Knows(x)'
    <3>1. /\ pc'[x] = pc[x] /\ task'[x] = task[x] /\ taskId'[x] = taskId[x]
          /\ raw'[x] = raw[x] /\ pending'[x] = pending[x] /\ Knows(x)
          /\ taskId[x] \in Tasks
      BY <1>0, <1>2 DEF Start, Goto, TypeOK, OneRunInv
    <3>2. QED
      BY <1>same, <2>1, <3>1, KnowsFrame DEF files
  <2>5. QED
    BY <1>0, <2>2, <2>3, <2>4 DEF OneRunInv
<1>3. ASSUME NEW e \in Engines, Crash(e) PROVE OneRunInv'
  <2>1. UNCHANGED files
    BY <1>3 DEF Crash
  <2>2. Judged'
    BY <1>0, <1>same, <2>1, JudgedStays DEF files, OneRunInv
  <2>3. Knows(e)'
    BY <1>0, <1>3, KnowsAtRest DEF Crash, Return, Goto, TypeOK
  <2>4. ASSUME NEW x \in Engines \ {e} PROVE Knows(x)'
    <3>1. /\ pc'[x] = pc[x] /\ task'[x] = task[x] /\ taskId'[x] = taskId[x]
          /\ raw'[x] = raw[x] /\ pending'[x] = pending[x] /\ Knows(x)
          /\ taskId[x] \in Tasks
      BY <1>0, <1>3 DEF Crash, Return, Goto, params, TypeOK, OneRunInv
    <3>2. QED
      BY <1>same, <2>1, <3>1, KnowsFrame DEF files
  <2>5. QED
    BY <1>0, <2>2, <2>3, <2>4 DEF OneRunInv
<1>4. ASSUME \/ \E e \in Engines : Cancel(e)
             \/ \E t \in Tasks : Edit(t) \/ Decide(t)
             \/ UNCHANGED vars
      PROVE  OneRunInv'
  <2>1. UNCHANGED <<reviews, pc, taskId, task, raw, pending>>
    BY <1>4 DEF Cancel, Edit, Decide, files, params, vars
  <2>2. \A t \in Tasks : SameTask(disk'[t], disk[t])
    BY <1>0, <1>4, <1>same, EditFacts DEF Cancel, Decide, files, vars
  <2>3. \A t \in Tasks :
           approvals[t] \in Decisions => approvals'[t] = approvals[t]
    <3>1. ASSUME NEW t \in Tasks, Decide(t), NEW u \in Tasks,
                 approvals[u] \in Decisions
          PROVE  approvals'[u] = approvals[u]
      BY <1>0, <3>1 DEF Decide, TypeOK
    <3>2. (\E t \in Tasks : Decide(t)) \/ approvals' = approvals
      BY <1>4 DEF Cancel, Edit, files, vars
    <3>3. QED
      BY <3>1, <3>2
  <2>4. Judged'
    BY <1>0, <2>1, <2>2, JudgedStays DEF OneRunInv
  <2>5. ASSUME NEW x \in Engines PROVE Knows(x)'
    <3>1. taskId[x] \in Tasks /\ Knows(x)
      BY <1>0 DEF TypeOK, OneRunInv
    <3>2. QED
      BY <2>1, <2>2, <2>3, <3>1, KnowsFrame
  <2>6. QED
    BY <1>0, <2>4, <2>5 DEF OneRunInv
<1>5. QED
  BY <1>1, <1>2, <1>3, <1>4 DEF Next

LEMMA OneRunInvariant == Spec /\ []OneRunPerTask => []OneRunInv
BY OneRunInit, OneRunNext, PTL DEF Spec

\* While no Task is run twice at the same time an Attempt gets one Review,
\* although createReview looks, allocates and links in three calls, whatever
\* crashes come after any of them and whatever runs on other Tasks do.
THEOREM OneReviewEach == Spec /\ []OneRunPerTask => []OneReviewPerAttempt
<1>1. OneRunInv => OneReviewPerAttempt
  BY DEF OneRunInv, Judged
<1>2. QED
  BY <1>1, OneRunInvariant, PTL

-----------------------------------------------------------------------------
(* The approval gate *)

LEMMA DerivedApproval ==
    ASSUME OneRunInv, NEW e \in Engines, Rename(e)
    PROVE  LET t == taskId[e] IN
           \/ pending[e].approval = disk[t].approval
           \/ /\ disk[t].state = "approval"
              /\ pending[e].approval = approvals[t]
              /\ pending[e].state = IF approvals[t] = "approved" THEN "done"
                                                               ELSE "blocked"
<1>1. /\ task[e] \in TaskDoc /\ Derived(e)
      /\ task[e].approval = disk[taskId[e]].approval
      /\ task[e].state = disk[taskId[e]].state
  BY RenameFacts DEF SameTask
<1>2. ASSUME NEW evidence \in Evidence,
             pending[e] = RecordAttempt(task[e], evidence)
      PROVE  pending[e].approval = task[e].approval
  BY <1>1, <1>2, RecordAttemptFields
<1>3. ASSUME NEW review, pending[e] = transitionFromReview(task[e], review)
      PROVE  pending[e].approval = task[e].approval
  BY <1>1, <1>3, TransitionFields
<1>4. ASSUME NEW decision, pending[e] = ApplyDecision(task[e], decision)
      PROVE  /\ pending[e].approval = decision
             /\ pending[e].state = IF decision = "approved" THEN "done"
                                                           ELSE "blocked"
  BY <1>1, <1>4, DecisionFields
<1>5. QED
  BY <1>1, <1>2, <1>3, <1>4 DEF Derived

\* While no Task is run twice at the same time, the only way out of "required"
\* is the answer in the approval file, given to a Task whose Review passed.
THEOREM GateKept == Spec /\ []OneRunPerTask => ApprovalGate
<1> DEFINE Gate ==
      \A t \in Tasks :
         disk'[t].approval # disk[t].approval =>
            /\ disk[t].state = "approval"
            /\ disk'[t].approval = approvals[t]
            /\ disk'[t].state = IF approvals[t] = "approved" THEN "done"
                                                           ELSE "blocked"
<1>1. OneRunInv /\ [Next]_vars => [Gate]_vars
  <2> SUFFICES ASSUME OneRunInv, [Next]_vars PROVE Gate
    OBVIOUS
  <2>0. TypeOK
    BY DEF OneRunInv, IInv
  <2>1. ASSUME NEW e \in Engines, Rename(e) PROVE Gate
    <3>1. /\ taskId[e] \in Tasks
          /\ disk' = [disk EXCEPT ![taskId[e]] = pending[e]]
      BY <2>1, RenameFacts
    <3>2. /\ disk'[taskId[e]] = pending[e]
          /\ \A u \in Tasks \ {taskId[e]} : disk'[u] = disk[u]
      BY <2>0, <3>1 DEF TypeOK
    <3>3. QED
      BY <2>1, <3>2, DerivedApproval
  <2>2. ASSUME NEW t \in Tasks, Edit(t) PROVE Gate
    BY <2>0, <2>2, EditFacts DEF SameTask
  <2>3. CASE disk' = disk
    BY <2>3
  <2>4. \/ disk' = disk
        \/ \E e \in Engines : Rename(e)
        \/ \E t \in Tasks : Edit(t)
    <3>1. ASSUME NEW e \in Engines, RunStep(e) PROVE disk' = disk \/ Rename(e)
      BY <3>1, RunStepFiles DEF LinkReview, files
    <3>2. ASSUME \/ \E e \in Engines : Cancel(e) \/ Crash(e)
                 \/ \E e \in Engines, t \in Tasks : Start(e, t)
                 \/ \E t \in Tasks : Decide(t)
                 \/ UNCHANGED vars
          PROVE  disk' = disk
      BY <3>2 DEF Cancel, Crash, Start, Decide, files, vars
    <3>3. QED
      BY <3>1, <3>2 DEF Next
  <2>5. QED
    BY <2>1, <2>2, <2>3, <2>4
<1>2. QED
  BY <1>1, OneRunInvariant, PTL DEF Spec, ApprovalGate

-----------------------------------------------------------------------------
(* Runs that never end with invalid_document *)

\* One run at a time: its Review id is free, too.
OneRunAtATime == \A d, e \in Engines : pc[d] # "idle" /\ pc[e] # "idle" => d = e

\* People keep the Task files parsable.
FilesParsable == \A t \in Tasks : disk[t].text \notin Unparsable

Unspoiled ==
    /\ NeverInvalid
    /\ \A e \in Engines :
          pc[e] = "link" => \A review \in reviews : review.id # newId[e]

\* What an engine derives from a document it may write, it may write.
LEMMA DerivedWritable ==
    ASSUME OneRunInv, NEW e \in Engines, pc[e] \in Writing
    PROVE  Writable(pending[e])
<1>1. /\ Derived(e) /\ Writable(task[e]) /\ task[e] \in TaskDoc
      /\ reviews \subseteq Review
  BY DEF OneRunInv, IInv, TypeOK, Knows, Local, Writing
<1> DEFINE doc == task[e]
           new == pending[e]
<1>2. CASE /\ doc.state = "implement"
           /\ \E evidence \in Evidence : new = RecordAttempt(doc, evidence)
  <2>1. PICK evidence \in Evidence : new = RecordAttempt(doc, evidence)
    BY <1>2
  <2>2. /\ new.state = "review" /\ new.count = doc.count
        /\ new.limit = doc.limit /\ new.approval = doc.approval
        /\ Len(new.attempts) = Len(doc.attempts) + 1
    BY <1>1, <2>1, RecordAttemptFields
  <2>3. new.last_review = doc.last_review
    BY <1>1, <2>1 DEF RecordAttempt, TaskDoc
  <2> HIDE DEF new, doc
  <2>4. MetadataValid(new)
    BY <1>1, <1>2, <2>2, <2>3 DEF Writable, MetadataValid, doc
  <2>5. AttemptsProjected(new)
    BY <1>1, <1>2, <2>2 DEF Writable, AttemptsProjected, currentAttempt, doc
  <2>6. QED
    BY <2>4, <2>5 DEF Writable, new
<1>3. CASE /\ doc.state = "review"
           /\ \E review \in ReviewsOf(doc, reviews) :
                 new = transitionFromReview(doc, review)
  <2>1. PICK review \in ReviewsOf(doc, reviews) :
               new = transitionFromReview(doc, review)
    BY <1>3
  <2>2. review \in Review
    BY <1>1, <2>1 DEF ReviewsOf
  <2>3. /\ review.id # 0 /\ doc.count \in Nat /\ doc.limit \in Nat
        /\ doc.approval \in ApprovalStates
    BY <1>1, <2>2 DEF Review, TaskDoc
  <2>4. new.last_review = review.id
    BY <1>1, <2>1 DEF transitionFromReview, TaskDoc
  <2>5. /\ new.limit = doc.limit
        /\ new.approval = doc.approval /\ new.attempts = doc.attempts
        /\ review.verdict = "pass" =>
              /\ new.count = doc.count
              /\ new.state = IF doc.approval = "required"
                             THEN "approval" ELSE "done"
        /\ review.verdict # "pass" /\ doc.count < doc.limit =>
              new.count = doc.count + 1 /\ new.state = "implement"
        /\ review.verdict # "pass" /\ ~(doc.count < doc.limit) =>
              new.count = doc.count /\ new.state = "blocked"
    BY <1>1, <2>1, TransitionFields
  <2>6. /\ doc.count <= doc.limit /\ Len(doc.attempts) = doc.count + 1
        /\ doc.approval \in {"not_required", "required"}
    BY <1>1, <1>3, <2>3 DEF Writable, MetadataValid, AttemptsProjected,
       currentAttempt, ApprovalStates
  <2> HIDE DEF new, doc
  <2>7. CASE review.verdict = "pass"
    BY <2>3, <2>4, <2>5, <2>6, <2>7 DEF Writable, MetadataValid,
       AttemptsProjected, currentAttempt, new
  <2>8. CASE review.verdict # "pass" /\ doc.count < doc.limit
    BY <2>3, <2>4, <2>5, <2>6, <2>8 DEF Writable, MetadataValid,
       AttemptsProjected, currentAttempt, new
  <2>9. CASE review.verdict # "pass" /\ ~(doc.count < doc.limit)
    BY <2>3, <2>4, <2>5, <2>6, <2>9 DEF Writable, MetadataValid,
       AttemptsProjected, currentAttempt, new
  <2>10. QED
    BY <2>7, <2>8, <2>9
<1>4. CASE /\ doc.state = "approval"
           /\ approvals[taskId[e]] \in Decisions
           /\ new = ApplyDecision(doc, approvals[taskId[e]])
  <2> DEFINE decision == approvals[taskId[e]]
  <2>1. /\ new.count = doc.count /\ new.limit = doc.limit
        /\ new.attempts = doc.attempts /\ new.approval = decision
        /\ new.state = IF decision = "approved" THEN "done" ELSE "blocked"
    BY <1>1, <1>4, DecisionFields
  <2>2. decision \in {"approved", "rejected"}
    BY <1>4 DEF Decisions
  <2> HIDE DEF new, doc, decision
  <2>3. QED
    BY <1>1, <1>4, <2>1, <2>2 DEF Writable, MetadataValid, AttemptsProjected,
       currentAttempt, new, doc
<1>5. QED
  BY <1>1, <1>2, <1>3, <1>4 DEF Derived

LEMMA AtMostOneFound ==
    ASSUME OneReviewPerAttempt, NEW doc
    PROVE  ~(Cardinality(ReviewsOf(doc, reviews)) > 1)
<1> DEFINE found == ReviewsOf(doc, reviews)
<1>1. CASE found = {}
  <2>1. Cardinality(found) = 0
    BY <1>1, FS_EmptySet
  <2> HIDE DEF found
  <2>2. ~(Cardinality(found) > 1)
    BY <2>1
  <2>3. QED
    BY <2>2 DEF found
<1>2. CASE found # {}
  <2>1. PICK r : found = {r}
    BY <1>2 DEF ReviewsOf, OneReviewPerAttempt
  <2>2. Cardinality(found) = 1
    BY <2>1, FS_Singleton
  <2> HIDE DEF found
  <2>3. ~(Cardinality(found) > 1)
    BY <2>2
  <2>4. QED
    BY <2>3 DEF found
<1>3. QED
  BY <1>1, <1>2

\* No step of a run finds anything invalid.
LEMMA NothingInvalid ==
    ASSUME OneRunInv, Unspoiled, FilesParsable, NEW e \in Engines
    PROVE  /\ ~LoadInvalid(e) /\ ~MultipleReviews(e) /\ ~ReviewExists(e)
           /\ ~LinkRefused(e)
           /\ WriteChecked(e) => Move(e, "rename")
<1>1. ~LoadInvalid(e)
  BY DEF LoadInvalid, Loadable, FilesParsable, OneRunInv, IInv, DiskSound,
         TypeOK
<1>2. ~MultipleReviews(e)
  BY AtMostOneFound DEF MultipleReviews, OneRunInv, Judged
<1>3. ~ReviewExists(e)
  BY DEF ReviewExists, OneRunInv, IInv, Local, Knows, Asking, Working, Writing,
         PCs
<1>4. ~LinkRefused(e)
  BY DEF LinkRefused, Unspoiled
<1>5. WriteChecked(e) => Move(e, "rename")
  BY DerivedWritable DEF WriteChecked, Writing
<1>6. QED
  BY <1>1, <1>2, <1>3, <1>4, <1>5

LEMMA RunStepUnspoiled ==
    ASSUME OneRunInv, OneRunAtATime, Unspoiled, FilesParsable,
           NEW e \in Engines, RunStep(e)
    PROVE  Unspoiled'
<1>0. TypeOK
  BY DEF OneRunInv, IInv
<1>idle. /\ pc[e] # "idle"
         /\ \A x \in Engines \ {e} : pc[x] = "idle" /\ pc'[x] = "idle"
  <2>1. pc[e] # "idle"
    BY DEF RunStep, LoadInvalid, LoadFinished, MultipleReviews, ResolveFails,
       ExecConflict, ExecError, CapacityStale, CapacityReported, Executed,
       CapacityExceeded, CapacityDeferred, SleepConflict, SleepCancelled,
       ResultRefused, ReviewExists, LinkRefused, WriteConflict, LoadActive,
       AttachOrphan, NoReviewYet, Dispatch, WorkerSettles, CapacityPause,
       Wake, Resume, AcceptImplementation, AcceptReview, AcceptDecision,
       FindNoReview, AllocateReviewId, LinkReview, WriteChecked, Rename
  <2>2. QED
    BY <1>0, <2>1, RunStepFrame DEF OneRunAtATime
<1>1. ASSUME NEW kind, Halt(e, kind), kind # "invalid_document"
      PROVE  Unspoiled'
  <2>1. pc'[e] = "idle" /\ NeverInvalid'
    BY <1>0, <1>1 DEF Halt, Return, Goto, TypeOK, Unspoiled, NeverInvalid
  <2>2. QED
    BY <1>idle, <2>1 DEF Unspoiled
<1>2. CASE \/ LoadFinished(e) \/ ResolveFails(e) \/ ExecConflict(e)
           \/ ExecError(e) \/ CapacityStale(e) \/ CapacityReported(e)
           \/ CapacityExceeded(e) \/ SleepConflict(e) \/ SleepCancelled(e)
           \/ ResultRefused(e) \/ WriteConflict(e)
  BY <1>1, <1>2 DEF LoadFinished, ResolveFails, ExecConflict, ExecError,
     CapacityStale, CapacityReported, CapacityExceeded, SleepConflict,
     SleepCancelled, ResultRefused, WriteConflict
<1>3. CASE \/ LoadActive(e) \/ AttachOrphan(e) \/ NoReviewYet(e)
           \/ Dispatch(e) \/ WorkerSettles(e) \/ CapacityPause(e) \/ Wake(e)
           \/ Resume(e) \/ AcceptImplementation(e) \/ AcceptReview(e)
           \/ AcceptDecision(e) \/ FindNoReview(e) \/ LinkReview(e)
           \/ Move(e, "rename") \/ Rename(e)
  <2>1. outcome' = outcome /\ pc'[e] # "link"
    BY <1>0, <1>3 DEF LoadActive, AttachOrphan, NoReviewYet, Dispatch,
       WorkerSettles, CapacityPause, Wake, Resume, AcceptImplementation,
       AcceptReview, AcceptDecision, FindNoReview, LinkReview, Rename, Move,
       Propose, Settle, SpawnWorker, Goto, TypeOK
  <2>2. QED
    BY <1>idle, <2>1 DEF Unspoiled, NeverInvalid
<1>4. CASE AllocateReviewId(e)
  <2>1. PICK id \in 1..MaxReviewId :
            /\ IsNextReviewId(id, reviews)
            /\ newId' = [newId EXCEPT ![e] = id]
    BY <1>4 DEF AllocateReviewId
  <2>2. /\ reviews' = reviews /\ outcome' = outcome /\ newId'[e] = id
        /\ \A review \in reviews : review.id \in Nat
    BY <1>0, <1>4, <2>1 DEF AllocateReviewId, TypeOK, files, Review
  <2>3. \A review \in reviews' : review.id # newId'[e]
    BY <2>1, <2>2 DEF IsNextReviewId
  <2>4. QED
    BY <1>idle, <2>2, <2>3 DEF Unspoiled, NeverInvalid
<1>5. QED
  BY <1>2, <1>3, <1>4, NothingInvalid DEF RunStep

\* As long as one run is under way at a time and people keep the files
\* parsable, no run ends with invalid_document: what a crash or a conflict
\* left behind is a state the next run continues from.
THEOREM AlwaysContinues ==
    Spec /\ []OneRunAtATime /\ []FilesParsable => []NeverInvalid
<1>1. Init => Unspoiled
  BY DEF Init, Unspoiled, NeverInvalid
<1>2. /\ OneRunInv /\ OneRunAtATime /\ FilesParsable
      /\ Unspoiled /\ [Next]_vars
      => Unspoiled'
  <2> SUFFICES ASSUME OneRunInv, OneRunAtATime, FilesParsable, Unspoiled,
                      [Next]_vars
               PROVE  Unspoiled'
    OBVIOUS
  <2>0. TypeOK
    BY DEF OneRunInv, IInv
  <2>1. ASSUME NEW e \in Engines, RunStep(e) PROVE Unspoiled'
    BY <2>1, RunStepUnspoiled
  <2>2. ASSUME NEW e \in Engines, NEW t \in Tasks, Start(e, t)
        PROVE  Unspoiled'
    BY <2>0, <2>2 DEF Start, Goto, files, TypeOK, Unspoiled, NeverInvalid
  <2>3. ASSUME NEW e \in Engines, Crash(e) PROVE Unspoiled'
    BY <2>0, <2>3 DEF Crash, Return, Goto, files, TypeOK, Unspoiled,
       NeverInvalid
  <2>4. ASSUME \/ \E e \in Engines : Cancel(e)
               \/ \E t \in Tasks : Edit(t) \/ Decide(t)
               \/ UNCHANGED vars
        PROVE  Unspoiled'
    BY <2>4 DEF Cancel, Edit, Decide, files, vars, Unspoiled, NeverInvalid
  <2>5. QED
    BY <2>1, <2>2, <2>3, <2>4 DEF Next
<1>3. OneRunAtATime => OneRunPerTask
  BY DEF OneRunAtATime, OneRunPerTask
<1>4. Unspoiled => NeverInvalid
  BY DEF Unspoiled
<1>5. QED
  BY <1>1, <1>2, <1>3, <1>4, OneRunInvariant, PTL DEF Spec

-----------------------------------------------------------------------------
(* The lifecycle *)

\* Where a document stands, and the verdict still to be acted on.
Position(doc) == [state |-> doc.state, count |-> doc.count,
                  limit |-> doc.limit, approval |-> doc.approval,
                  attempts |-> Len(doc.attempts)]
Unacted(doc, rs) ==
    IF doc.state = "review" /\ ReviewsOf(doc, rs) # {}
    THEN (CHOOSE r \in ReviewsOf(doc, rs) : TRUE).verdict
    ELSE "none"

life == [t \in Tasks |-> Position(disk[t])]
verdict == [t \in Tasks |-> Unacted(disk[t], reviews)]

LEMMA UnactedOne ==
    ASSUME NEW doc, NEW rs, NEW review, doc.state = "review",
           ReviewsOf(doc, rs) = {review}
    PROVE  Unacted(doc, rs) = review.verdict
BY DEF Unacted

LEMMA UnactedSame ==
    ASSUME NEW doc, NEW rs, NEW more, ReviewsOf(doc, more) = ReviewsOf(doc, rs)
    PROVE  Unacted(doc, more) = Unacted(doc, rs)
BY DEF Unacted

\* Of two changes to one Task's position the last counts.
LEMMA LastUpdate ==
    ASSUME NEW t \in Tasks, NEW f, f = [u \in Tasks |-> f[u]], NEW m, NEW n
    PROVE  [[f EXCEPT ![t] = m] EXCEPT ![t] = n] = [f EXCEPT ![t] = n]
OBVIOUS

LEMMA LifeFunction == life = [t \in Tasks |-> life[t]]
BY DEF life

\* A Task file in prose only, or no file at all, is no step of the lifecycle.
LEMMA LifecycleStutters ==
    ASSUME reviews' = reviews, \A t \in Tasks : SameTask(disk'[t], disk[t])
    PROVE  UNCHANGED <<life, verdict>>
<1>1. ASSUME NEW t \in Tasks
      PROVE  /\ Position(disk'[t]) = Position(disk[t])
             /\ Unacted(disk'[t], reviews') = Unacted(disk[t], reviews)
  <2>1. ReviewsOf(disk'[t], reviews) = ReviewsOf(disk[t], reviews)
    BY SameTaskReviews
  <2>2. QED
    BY <2>1 DEF SameTask, Position, Unacted
<1>2. QED
  BY <1>1 DEF life, verdict

LEMMA LinkJudges ==
    ASSUME OneRunInv, NEW e \in Engines, LinkReview(e),
           NEW t \in Tasks, t = taskId[e]
    PROVE  Lifecycle!Judge(t)
<1>1. /\ t \in Tasks /\ disk[t].state = "review" /\ disk' = disk
      /\ NewReview(e) \in Review
      /\ ReviewsOf(disk[t], reviews) = {}
      /\ ReviewsOf(disk[t], reviews') = {NewReview(e)}
      /\ \A u \in Tasks \ {t} :
            ReviewsOf(disk[u], reviews') = ReviewsOf(disk[u], reviews)
  BY LinkFacts
<1>2. /\ life[t].state = "review" /\ verdict[t] = "none" /\ life' = life
  BY <1>1 DEF life, verdict, Position, Unacted
<1>3. Unacted(disk[t], reviews') = NewReview(e).verdict
  BY <1>1, UnactedOne
<1>4. \A u \in Tasks \ {t} :
         Unacted(disk[u], reviews') = Unacted(disk[u], reviews)
  BY <1>1, UnactedSame
<1>5. verdict' = [verdict EXCEPT ![t] = NewReview(e).verdict]
  BY <1>1, <1>3, <1>4 DEF verdict
<1>6. NewReview(e).verdict \in {"pass", "changes_requested"}
  BY <1>1 DEF Review, Verdicts
<1>7. QED
  BY <1>1, <1>2, <1>5, <1>6 DEF Lifecycle!Judge, life, verdict, Position,
     Unacted

\* Renaming moves one Task, by what is in the document renamed into place.
LEMMA RenameMoves ==
    ASSUME OneRunInv, NEW e \in Engines, Rename(e)
    PROVE  LET t == taskId[e] IN
           /\ life' = [life EXCEPT ![t] = Position(pending[e])]
           /\ verdict' = [verdict EXCEPT ![t] = Unacted(pending[e], reviews)]
<1>1. /\ taskId[e] \in Tasks /\ reviews' = reviews
      /\ disk' = [disk EXCEPT ![taskId[e]] = pending[e]]
  BY RenameFacts
<1>2. /\ disk'[taskId[e]] = pending[e]
      /\ \A u \in Tasks \ {taskId[e]} : disk'[u] = disk[u]
  BY <1>1 DEF OneRunInv, IInv, TypeOK
<1> DEFINE t == taskId[e]
           new == pending[e]
<1> HIDE DEF t, new
<1>3. ASSUME NEW u \in Tasks
      PROVE  /\ life'[u] = IF u = t THEN Position(new) ELSE life[u]
             /\ verdict'[u] = IF u = t THEN Unacted(new, reviews)
                                       ELSE verdict[u]
  BY <1>1, <1>2 DEF life, verdict, t, new
<1>4. /\ life = [u \in Tasks |-> life[u]] /\ life' = [u \in Tasks |-> life'[u]]
      /\ verdict = [u \in Tasks |-> verdict[u]]
      /\ verdict' = [u \in Tasks |-> verdict'[u]]
  BY DEF life, verdict
<1>5. /\ life' = [life EXCEPT ![t] = Position(new)]
      /\ verdict' = [verdict EXCEPT ![t] = Unacted(new, reviews)]
  BY <1>3, <1>4
<1>6. QED
  BY <1>5 DEF t, new

\* An Implementer's document: no Review of its Attempt is there yet.
LEMMA RenameImplements ==
    ASSUME OneRunInv, NEW e \in Engines, Rename(e),
           NEW t \in Tasks, t = taskId[e],
           task[e].state = "implement",
           NEW evidence \in Evidence,
           pending[e] = RecordAttempt(task[e], evidence)
    PROVE  Lifecycle!Implement(t)
<1> DEFINE new == pending[e]
<1>1. /\ t \in Tasks /\ task[e] \in TaskDoc /\ SameTask(task[e], disk[t])
      /\ ReviewsOf(disk[t], reviews) = ReviewsOf(task[e], reviews)
      /\ life' = [life EXCEPT ![t] = Position(new)]
      /\ verdict' = [verdict EXCEPT ![t] = Unacted(new, reviews)]
  BY RenameFacts, RenameMoves
<1>2. /\ new.id = task[e].id /\ new.state = "review"
      /\ new.count = task[e].count /\ new.limit = task[e].limit
      /\ new.approval = task[e].approval
      /\ Len(new.attempts) = Len(task[e].attempts) + 1
  BY <1>1, RecordAttemptFields
<1>3. ReviewsOf(new, reviews) = {}
  <2>1. ReviewsOf(disk[t], reviews) = {}
    BY <1>1 DEF OneRunInv, Judged, SameTask
  <2>2. ReviewsOf(new, reviews) = ReviewsOf(task[e], reviews)
    BY <1>2 DEF ReviewsOf, currentAttempt
  <2>3. QED
    BY <1>1, <2>1, <2>2
<1> HIDE DEF new
<1>4. verdict[t] = "none" /\ Unacted(new, reviews) = "none"
  BY <1>1, <1>3 DEF verdict, Unacted, SameTask
<1>5. verdict' = verdict
  BY <1>1, <1>4 DEF verdict
<1>6. life[t] = [state |-> "implement", count |-> new.count,
                 limit |-> new.limit, approval |-> new.approval,
                 attempts |-> Len(task[e].attempts)]
  BY <1>1, <1>2 DEF life, Position, SameTask
<1>7. life' = [life EXCEPT ![t].state = "review", ![t].attempts = @ + 1]
  <2> DEFINE m == [life[t] EXCEPT !.state = "review"]
             mid == [life EXCEPT ![t].state = "review"]
  <2>1. m = [state |-> "review", count |-> new.count, limit |-> new.limit,
             approval |-> new.approval, attempts |-> Len(task[e].attempts)]
    BY <1>6
  <2>2. mid = [life EXCEPT ![t] = m] /\ mid[t] = m
    BY <1>1, LifeFunction
  <2> HIDE DEF m, mid
  <2>3. [m EXCEPT !.attempts = life[t].attempts + 1] = Position(new)
    BY <1>2, <1>6, <2>1 DEF Position
  <2>4. [mid EXCEPT ![t].attempts = life[t].attempts + 1]
          = [mid EXCEPT ![t] = Position(new)]
    BY <2>2, <2>3, Zenon
  <2>5. [mid EXCEPT ![t] = Position(new)] = life'
    BY <1>1, <2>2, LifeFunction, LastUpdate
  <2>6. QED
    BY <2>4, <2>5, Zenon DEF mid
<1>8. life[t].state = "implement"
  BY <1>6
<1>9. QED
  BY <1>5, <1>7, <1>8 DEF Lifecycle!Implement, life, verdict, Position,
     Unacted

\* A verdict acted on: pass, another Attempt, or the limit.
LEMMA RenameActs ==
    ASSUME OneRunInv, NEW e \in Engines, Rename(e),
           NEW t \in Tasks, t = taskId[e],
           task[e].state = "review",
           NEW review \in ReviewsOf(task[e], reviews),
           pending[e] = transitionFromReview(task[e], review)
    PROVE  \/ Lifecycle!Pass(t) \/ Lifecycle!Retry(t)
           \/ Lifecycle!Exhaust(t)
<1> DEFINE new == pending[e]
           doc == task[e]
<1>1. /\ t \in Tasks /\ doc \in TaskDoc /\ SameTask(doc, disk[t])
      /\ Writable(doc)
      /\ ReviewsOf(disk[t], reviews) = ReviewsOf(doc, reviews)
      /\ life' = [life EXCEPT ![t] = Position(new)]
      /\ verdict' = [verdict EXCEPT ![t] = Unacted(new, reviews)]
  BY RenameFacts, RenameMoves
<1>2. /\ new.limit = doc.limit
      /\ new.approval = doc.approval /\ new.attempts = doc.attempts
      /\ review.verdict = "pass" =>
            /\ new.count = doc.count
            /\ new.state = IF doc.approval = "required"
                           THEN "approval" ELSE "done"
      /\ review.verdict # "pass" /\ doc.count < doc.limit =>
            new.count = doc.count + 1 /\ new.state = "implement"
      /\ review.verdict # "pass" /\ ~(doc.count < doc.limit) =>
            new.count = doc.count /\ new.state = "blocked"
  BY <1>1, TransitionFields
<1>3. ReviewsOf(disk[t], reviews) = {review} /\ review.verdict \in Verdicts
  <2>1. review \in reviews /\ review \in Review
    BY DEF ReviewsOf, OneRunInv, IInv, TypeOK
  <2>2. ReviewsOf(doc, reviews) = {review}
    BY DEF ReviewsOf, OneRunInv, Judged, OneReviewPerAttempt
  <2>3. QED
    BY <1>1, <2>1, <2>2 DEF Review
<1>4. doc.count \in Nat /\ doc.limit \in Nat /\ doc.count <= doc.limit
  BY <1>1 DEF TaskDoc, Writable, MetadataValid
<1> HIDE DEF new, doc
<1>5. new.state # "review"
  BY <1>2
<1>6. /\ verdict[t] = review.verdict
      /\ verdict' = [verdict EXCEPT ![t] = "none"]
  <2>1. Unacted(disk[t], reviews) = review.verdict
    <3>1. disk[t].state = "review"
      BY <1>1 DEF SameTask, doc
    <3>2. QED
      BY <1>3, <3>1, UnactedOne
  <2>2. Unacted(new, reviews) = "none"
    BY <1>5 DEF Unacted
  <2>3. QED
    BY <1>1, <2>1, <2>2 DEF verdict
<1>7. life[t] = [state |-> "review", count |-> doc.count, limit |-> doc.limit,
                 approval |-> doc.approval, attempts |-> Len(doc.attempts)]
  BY <1>1 DEF life, Position, SameTask, doc
<1>8. CASE review.verdict = "pass"
  <2>1. Position(new) = [life[t] EXCEPT !.state =
                            IF life[t].approval = "required"
                            THEN "approval" ELSE "done"]
    BY <1>2, <1>7, <1>8 DEF Position
  <2>2. life' = [life EXCEPT ![t].state = IF life[t].approval = "required"
                                          THEN "approval" ELSE "done"]
    BY <1>1, <2>1
  <2>3. QED
    BY <1>6, <1>8, <2>2 DEF Lifecycle!Pass, life, verdict, Position, Unacted
<1>9. CASE review.verdict # "pass" /\ doc.count < doc.limit
  <2>2. life' = [life EXCEPT ![t].state = "implement", ![t].count = @ + 1]
    <3> DEFINE m == [life[t] EXCEPT !.state = "implement"]
               mid == [life EXCEPT ![t].state = "implement"]
    <3>1. m = [state |-> "implement", count |-> doc.count,
               limit |-> doc.limit, approval |-> doc.approval,
               attempts |-> Len(doc.attempts)]
      BY <1>7
    <3>2. mid = [life EXCEPT ![t] = m] /\ mid[t] = m
      BY <1>1, LifeFunction
    <3> HIDE DEF m, mid
    <3>3. [m EXCEPT !.count = life[t].count + 1] = Position(new)
      BY <1>2, <1>7, <1>9, <3>1 DEF Position
    <3>4. [mid EXCEPT ![t].count = life[t].count + 1]
            = [mid EXCEPT ![t] = Position(new)]
      BY <3>2, <3>3, Zenon
    <3>5. [mid EXCEPT ![t] = Position(new)] = life'
      BY <1>1, <3>2, LifeFunction, LastUpdate
    <3>6. QED
      BY <3>4, <3>5, Zenon DEF mid
  <2>3. review.verdict = "changes_requested" /\ life[t].count < life[t].limit
    BY <1>3, <1>7, <1>9 DEF Verdicts
  <2>4. QED
    BY <1>6, <2>2, <2>3 DEF Lifecycle!Retry, life, verdict, Position, Unacted
<1>10. CASE review.verdict # "pass" /\ ~(doc.count < doc.limit)
  <2>1. Position(new) = [life[t] EXCEPT !.state = "blocked"]
    BY <1>2, <1>7, <1>10 DEF Position
  <2>2. life' = [life EXCEPT ![t].state = "blocked"]
    BY <1>1, <2>1
  <2>3. review.verdict = "changes_requested" /\ life[t].count = life[t].limit
    BY <1>3, <1>4, <1>7, <1>10 DEF Verdicts
  <2>4. QED
    BY <1>6, <2>2, <2>3 DEF Lifecycle!Exhaust, life, verdict, Position, Unacted
<1>11. QED
  BY <1>8, <1>9, <1>10

\* A decision on a Task whose Review was acted on.
LEMMA RenameAnswers ==
    ASSUME OneRunInv, NEW e \in Engines, Rename(e),
           NEW t \in Tasks, t = taskId[e],
           task[e].state = "approval",
           NEW decision \in Decisions,
           pending[e] = ApplyDecision(task[e], decision)
    PROVE  Lifecycle!Answer(t)
<1> DEFINE new == pending[e]
           doc == task[e]
<1>1. /\ t \in Tasks /\ doc \in TaskDoc /\ SameTask(doc, disk[t])
      /\ life' = [life EXCEPT ![t] = Position(new)]
      /\ verdict' = [verdict EXCEPT ![t] = Unacted(new, reviews)]
  BY RenameFacts, RenameMoves
<1>2. /\ new.limit = doc.limit /\ new.count = doc.count
      /\ new.attempts = doc.attempts /\ new.approval = decision
      /\ new.state = IF decision = "approved" THEN "done" ELSE "blocked"
  BY <1>1, DecisionFields
<1>3. doc.state = "approval"
  OBVIOUS
<1> HIDE DEF new, doc
<1>4. verdict' = verdict
  <2>1. verdict[t] = "none" /\ Unacted(new, reviews) = "none"
    BY <1>1, <1>2, <1>3 DEF verdict, Unacted, SameTask
  <2>2. QED
    BY <1>1, <2>1 DEF verdict
<1>5. life[t] = [state |-> "approval", count |-> doc.count, limit |-> doc.limit,
                 approval |-> doc.approval, attempts |-> Len(doc.attempts)]
  BY <1>1, <1>3 DEF life, Position, SameTask
<1>6. life' = [life EXCEPT ![t].state = new.state, ![t].approval = decision]
  <2> DEFINE m == [life[t] EXCEPT !.state = new.state]
             mid == [life EXCEPT ![t].state = new.state]
  <2>1. m = [state |-> new.state, count |-> doc.count, limit |-> doc.limit,
             approval |-> doc.approval, attempts |-> Len(doc.attempts)]
    BY <1>5
  <2>2. mid = [life EXCEPT ![t] = m] /\ mid[t] = m
    BY <1>1, LifeFunction
  <2> HIDE DEF m, mid
  <2>3. [m EXCEPT !.approval = decision] = Position(new)
    BY <1>2, <2>1 DEF Position
  <2>4. [mid EXCEPT ![t].approval = decision]
          = [mid EXCEPT ![t] = Position(new)]
    BY <2>2, <2>3, Zenon
  <2>5. [mid EXCEPT ![t] = Position(new)] = life'
    BY <1>1, <2>2, LifeFunction, LastUpdate
  <2>6. QED
    BY <2>4, <2>5, Zenon DEF mid
<1>7. \/ life' = [life EXCEPT ![t].state = "done", ![t].approval = "approved"]
      \/ life' = [life EXCEPT ![t].state = "blocked",
                             ![t].approval = "rejected"]
  <2>1. CASE decision = "approved"
    <3>1. new.state = "done"
      BY <1>2, <2>1
    <3>2. QED
      BY <1>6, <2>1, <3>1, Zenon
  <2>2. CASE decision = "rejected"
    <3>1. new.state = "blocked"
      BY <1>2, <2>2
    <3>2. QED
      BY <1>6, <2>2, <3>1, Zenon
  <2>3. QED
    BY <2>1, <2>2 DEF Decisions
<1>8. life[t].state = "approval"
  BY <1>5
<1>9. QED
  BY <1>4, <1>7, <1>8 DEF Lifecycle!Answer, life, verdict, Position, Unacted

LEMMA LifecycleInit == Init => Lifecycle!Init
<1> SUFFICES ASSUME Init PROVE Lifecycle!Init
  OBVIOUS
<1>1. ASSUME NEW t \in Tasks
      PROVE  /\ disk[t].state = "implement" /\ disk[t].count = 0
             /\ disk[t].approval \in {"not_required", "required"}
             /\ Len(disk[t].attempts) = 0
  <2>1. PICK limit \in Limits, approval \in {"not_required", "required"},
             text \in Texts \ Unparsable, id \in Tasks :
          disk[t] = [id |-> id, state |-> "implement", count |-> 0,
                     limit |-> limit, approval |-> approval,
                     last_review |-> 0, attempts |-> <<>>, text |-> text]
    BY DEF Init
  <2>2. Len(<<>>) = 0
    OBVIOUS
  <2>3. QED
    BY <2>1, <2>2
<1>2. \A t \in Tasks : Unacted(disk[t], reviews) = "none"
  BY <1>1 DEF Unacted
<1>3. verdict = [t \in Tasks |-> "none"]
  BY <1>2 DEF verdict
<1>4. \A t \in Tasks : /\ life[t].state = "implement" /\ life[t].count = 0
                       /\ life[t].attempts = 0
                       /\ life[t].approval \in {"not_required", "required"}
  BY <1>1 DEF life, Position
<1>5. QED
  BY <1>3, <1>4 DEF Lifecycle!Init, life, verdict, Position, Unacted

\* Every step of the loop is one of the lifecycle's or does not show in it.
LEMMA LifecycleStep ==
    OneRunInv /\ [Next]_vars => Lifecycle!Next \/ UNCHANGED <<life, verdict>>
<1> SUFFICES ASSUME OneRunInv, [Next]_vars
             PROVE  Lifecycle!Next \/ UNCHANGED <<life, verdict>>
  OBVIOUS
<1>same. \A t \in Tasks : SameTask(disk[t], disk[t])
  BY DEF SameTask
<1>1. ASSUME NEW e \in Engines, Rename(e) PROVE Lifecycle!Next
  <2>1. Derived(e) /\ \E t \in Tasks : t = taskId[e]
    BY <1>1, RenameFacts
  <2>2. PICK t \in Tasks : t = taskId[e]
    BY <2>1
  <2>3. \/ Lifecycle!Implement(t) \/ Lifecycle!Pass(t) \/ Lifecycle!Retry(t)
        \/ Lifecycle!Exhaust(t) \/ Lifecycle!Answer(t)
    BY <1>1, <2>1, <2>2, RenameImplements, RenameActs, RenameAnswers DEF Derived
  <2>4. QED
    BY <2>3 DEF Lifecycle!Next
<1>2. ASSUME NEW e \in Engines, LinkReview(e) PROVE Lifecycle!Next
  <2>1. PICK t \in Tasks : t = taskId[e]
    BY <1>2, LinkFacts
  <2>2. Lifecycle!Judge(t)
    BY <1>2, <2>1, LinkJudges
  <2>3. QED
    BY <2>2 DEF Lifecycle!Next
<1>3. ASSUME NEW t \in Tasks, Edit(t) PROVE UNCHANGED <<life, verdict>>
  BY <1>3, EditFacts, LifecycleStutters DEF OneRunInv, IInv
<1>4. CASE UNCHANGED <<disk, reviews>>
  BY <1>4, <1>same, LifecycleStutters
<1>5. \/ UNCHANGED <<disk, reviews>>
      \/ \E e \in Engines : LinkReview(e) \/ Rename(e)
      \/ \E t \in Tasks : Edit(t)
  <2>1. ASSUME NEW e \in Engines, RunStep(e)
        PROVE  LinkReview(e) \/ Rename(e) \/ UNCHANGED <<disk, reviews>>
    BY <2>1, RunStepFiles DEF files
  <2>2. ASSUME \/ \E e \in Engines : Cancel(e) \/ Crash(e)
               \/ \E e \in Engines, t \in Tasks : Start(e, t)
               \/ \E t \in Tasks : Decide(t)
               \/ UNCHANGED vars
        PROVE  UNCHANGED <<disk, reviews>>
    BY <2>2 DEF Cancel, Crash, Start, Decide, files, vars
  <2>3. QED
    BY <2>1, <2>2 DEF Next
<1>6. QED
  BY <1>1, <1>2, <1>3, <1>4, <1>5

\* While no Task is run twice at the same time, the engines, their crashes and
\* conflicts and the people who edit prose implement TaskLifecycle: every
\* Attempt gets one verdict and the verdict takes effect once.
THEOREM LifecycleKept == Spec /\ []OneRunPerTask => ImplementsLifecycle
<1>1. OneRunInv /\ [Next]_vars => [Lifecycle!Next]_(Lifecycle!vars)
  <2>1. Lifecycle!vars = <<life, verdict>>
    BY DEF Lifecycle!vars, life, verdict, Position, Unacted
  <2>2. UNCHANGED <<life, verdict>> => UNCHANGED Lifecycle!vars
    BY DEF Lifecycle!vars, life, verdict, Position, Unacted
  <2>3. QED
    BY <2>2, LifecycleStep
<1>2. QED
  BY <1>1, LifecycleInit, OneRunInvariant, PTL
     DEF Spec, ImplementsLifecycle, Lifecycle!Spec
=============================================================================

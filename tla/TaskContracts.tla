---------------------------- MODULE TaskContracts ----------------------------
(***************************************************************************)
(* The documents of the Loop Engine and the pure rules over them.          *)
(*                                                                         *)
(* A Task file is the record its front matter parses to, its numbered      *)
(* Attempts, and "text": the rest of its bytes.  Two Task records are      *)
(* equal exactly when the files are byte for byte equal, which is what     *)
(* TaskStore.taskIsUnchanged compares.  A Review file is written once and  *)
(* never changed.                                                          *)
(*                                                                         *)
(* Left out: titles, schema names and the project field (one project per   *)
(* repository), and legacy Attempts without a frame.                       *)
(***************************************************************************)
EXTENDS Integers, Sequences, FiniteSets

CONSTANTS
    Tasks,        \* ids of the Task files under .aios/tasks
    Evidence,     \* what an Implementer can report (summary, verification)
    Texts,        \* the part of a Task file the engine copies but never reads
    Unparsable    \* the texts that make the file fail to parse (half saved)

ASSUME UnparsableAssumption == Unparsable \subseteq Texts

TaskStates == {"implement", "review", "approval", "done", "blocked"}
ApprovalStates == {"not_required", "required", "approved", "rejected"}
Verdicts == {"pass", "changes_requested"}
Decisions == {"approved", "rejected"}

\* last_review is 0 when the front matter says null.
TaskDoc == [id: Tasks, state: TaskStates, count: Nat, limit: Nat,
            approval: ApprovalStates, last_review: Nat,
            attempts: Seq(Evidence), text: Texts]

Review == [id: Nat \ {0}, task: Tasks, attempt: Nat \ {0}, verdict: Verdicts]

ActiveStates == {"implement", "review", "approval"}

roleForState(state) ==
    CASE state = "implement" -> "implementer"
      [] state = "review"    -> "reviewer"
      [] state = "approval"  -> "approver"

currentAttempt(doc) == doc.count + 1

\* contracts.js validateTaskMetadata: the cross-field rules.
MetadataValid(doc) ==
    /\ doc.count <= doc.limit
    /\ doc.state \in {"implement", "review"} =>
           (doc.count = 0 <=> doc.last_review = 0)
    /\ doc.state = "approval" => doc.approval = "required"
    /\ doc.approval = "approved" => doc.state = "done"
    /\ doc.approval = "rejected" => doc.state = "blocked"
    /\ doc.state = "done" => doc.approval \in {"not_required", "approved"}

\* documents.js validateAttemptProjection: Attempts 1 through n, and n is
\* what the state says (numbers are positions here).
AttemptsProjected(doc) ==
    Len(doc.attempts) = IF doc.state = "implement" THEN doc.count
                                                   ELSE currentAttempt(doc)

\* What writeTask demands of the document it is about to write.
Writable(doc) == MetadataValid(doc) /\ AttemptsProjected(doc)

\* What loadTask accepts.
Loadable(doc) == doc.text \notin Unparsable /\ Writable(doc)

\* contracts.js validateTaskReview: the Review a Task names must be the one
\* its state says.
ReviewFits(doc, review) ==
    /\ review.task = doc.id
    /\ \/ /\ doc.state \in {"implement", "review"}
          /\ doc.count # 0
          /\ review.verdict = "changes_requested"
          /\ review.attempt = doc.count
       \/ /\ \/ doc.state \in {"approval", "done"}
             \/ doc.state = "blocked" /\ doc.approval = "rejected"
          /\ review.verdict = "pass"
          /\ review.attempt = currentAttempt(doc)
       \/ /\ doc.state = "blocked"
          /\ doc.approval # "rejected"
          /\ review.verdict = "changes_requested"
          /\ review.attempt = currentAttempt(doc)
          /\ doc.count = doc.limit

\* documents.js validateTaskEvidence over the Review files rs.
EvidenceValid(doc, rs) ==
    IF doc.last_review = 0
    THEN doc.state \notin {"approval", "done", "blocked"}
    ELSE \E review \in rs :
            review.id = doc.last_review /\ ReviewFits(doc, review)

\* A slip: the Attempt of the previous transition.
ReviewsOf_ByCount(doc, rs) ==
    {review \in rs : review.task = doc.id /\ review.attempt = doc.count}

\* documents.js findReviews for the Task's current Attempt.
ReviewsOf(doc, rs) ==
    {review \in rs : review.task = doc.id
                       /\ review.attempt = currentAttempt(doc)}

\* documents.js nextReviewId: one more than the largest id in use.
IsNextReviewId(id, rs) ==
    /\ \A review \in rs : review.id < id
    /\ id = 1 \/ \E review \in rs : review.id = id - 1

\* documents.js repeatsAttemptEvidence against the previous Attempt.
RepeatsEvidence(doc, evidence) ==
    doc.count > 0 /\ doc.attempts[doc.count] = evidence

-----------------------------------------------------------------------------
(* The three documents the engine derives from the one it loaded. *)

\* engine.js, the Implementer projection: append the Attempt, go to review.
RecordAttempt(doc, evidence) ==
    [doc EXCEPT !.state = "review",
                !.attempts = Append(doc.attempts, evidence)]

\* A slip: only a Review that requests changes is recorded in last_review.
transitionFromReview_Unlinked(doc, review) ==
    LET retries == doc.count < doc.limit
    IN  IF review.verdict = "pass"
        THEN [doc EXCEPT !.state = IF doc.approval = "required"
                                   THEN "approval" ELSE "done"]
        ELSE [doc EXCEPT !.last_review = review.id,
                         !.count = IF retries THEN doc.count + 1 ELSE doc.count,
                         !.state = IF retries THEN "implement" ELSE "blocked"]

\* engine.js transitionFromReview.
transitionFromReview(doc, review) ==
    LET retries == doc.count < doc.limit
    IN  IF review.verdict = "pass"
        THEN [doc EXCEPT !.last_review = review.id,
                         !.state = IF doc.approval = "required"
                                   THEN "approval" ELSE "done"]
        ELSE [doc EXCEPT !.last_review = review.id,
                         !.count = IF retries THEN doc.count + 1 ELSE doc.count,
                         !.state = IF retries THEN "implement" ELSE "blocked"]

\* A slip: every answer approves.
ApplyDecision_Yes(doc, decision) ==
    [doc EXCEPT !.approval = "approved", !.state = "done"]

\* engine.js, the approval decision.
ApplyDecision(doc, decision) ==
    [doc EXCEPT !.approval = decision,
                !.state = IF decision = "approved" THEN "done" ELSE "blocked"]
=============================================================================

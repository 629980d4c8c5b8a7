-------------------------- MODULE ProgressionProofs --------------------------
(***************************************************************************)
(* For any plan, with any other engines, decisions, signals, damage and    *)
(* repairs: a call runs no Task before those ordered before it are done,   *)
(* and loses its report only to damage done while it runs; a call that is  *)
(* repeated with nothing changed since repeats its report; and a report    *)
(* agrees with what the dashboard's own loop derives.                      *)
(*                                                                         *)
(* The strengthening is Walked: the position and the list of completed     *)
(* Tasks agree from the first look at the order on, and nothing anybody    *)
(* does to a Task of the lifecycle undoes "done" (Judged says why).  For   *)
(* the reports it is Quiet and Again: while nobody else has touched the    *)
(* repository, the engine's steps explain where the call is and why it     *)
(* ends, and a call that starts over comes to the same end at the same     *)
(* place (ComesTo).  Counted is a function over the positions of the plan: *)
(* what it holds is shown by induction on them (Induction).                *)
(***************************************************************************)
EXTENDS Progression, SequenceTheorems, WellFoundedInduction, TLAPS

USE DEF history

Life == [state : {"implement", "review", "approval", "done", "blocked"},
         count : Nat, attempts : Nat, limit : Nat,
         approval : {"not_required", "required", "approved", "rejected"}]

\* Only a Task under review has a verdict that waits to be acted on.
Judged == /\ life \in [Tasks -> Life]
          /\ verdict \in [Tasks -> {"none", "pass", "changes_requested"}]
          /\ \A t \in Tasks : verdict[t] # "none" => State(t) = "review"

Walking == {"select", "boundary", "load", "role", "skip"}

Walked == /\ index \in 1 .. Len(Order) + 1
          /\ pc \in Walking \cup {"idle", "stopped", "rejected"}
          /\ pc \in {"load", "role"} => index <= Len(Order)
          /\ pc \in Walking =>
                /\ completed = SubSeq(Order, 1, index - 1)
                /\ \A k \in 1 .. index - 1 : State(Order[k]) = "done"

\* What a walking command finds damaged was damaged under its feet.
Noticed == /\ pc \in Walking => broken \subseteq damaged
           /\ pc \in Walking /\ broken # {} => disturbed = "during"
           /\ pc = "rejected" => disturbed = "during"

IInv == Judged /\ Walked /\ Noticed

\* What is done stays done.
Kept == \A t \in Tasks : State(t) = "done" => State(t)' = "done"

LEMMA OrderedTasks == Order \in Seq(Tasks) /\ \A k \in 1 .. Len(Order) : Order[k] \in Tasks
BY ProgressionAssumption

LEMMA OneMore ==
    ASSUME NEW k \in 1 .. Len(Order)
    PROVE  Append(SubSeq(Order, 1, k - 1), Order[k]) = SubSeq(Order, 1, k)
BY OrderedTasks

LEMMA InitInv == Init => IInv
<1> SUFFICES ASSUME Init PROVE IInv
    OBVIOUS
<1>1. Judged
    BY ProgressionAssumption DEF Init, Judged, Life, State
<1>2. Walked /\ Noticed
    BY OrderedTasks DEF Init, Walked, Noticed, Walking
<1> QED BY <1>1, <1>2 DEF IInv

\* The steps of the lifecycle.
LEMMA LifecycleStep ==
    ASSUME Judged, NEW t \in Tasks,
           \/ L!Implement(t) \/ L!Judge(t) \/ L!Pass(t) \/ L!Retry(t)
           \/ L!Exhaust(t) \/ L!Answer(t)
    PROVE  Judged' /\ Kept
<1> USE DEF Judged, Kept, State, Life
<1>1. CASE L!Implement(t)
    BY <1>1 DEF L!Implement
<1>2. CASE L!Judge(t)
    BY <1>2 DEF L!Judge
<1>3. CASE L!Pass(t)
    BY <1>3 DEF L!Pass
<1>4. CASE L!Retry(t)
    BY <1>4 DEF L!Retry
<1>5. CASE L!Exhaust(t)
    BY <1>5 DEF L!Exhaust
<1>6. CASE L!Answer(t)
    BY <1>6 DEF L!Answer
<1> QED BY <1>1, <1>2, <1>3, <1>4, <1>5, <1>6

LEMMA DocumentsStay ==
    ASSUME Judged, UNCHANGED <<life, verdict>> PROVE Judged' /\ Kept
BY DEF Judged, Kept, State

\* The command counts one more Task, or stays where it is.
LEMMA Advances ==
    ASSUME Walked, index <= Len(Order), pc \in Walking, State(Current) = "done",
           UNCHANGED life, completed' = Append(completed, Current),
           index' = index + 1, pc' \in {"select", "skip"}
    PROVE  Walked'
<1>1. index \in 1 .. Len(Order) /\ Len(Order) \in Nat
    BY OrderedTasks DEF Walked
<1>2. completed' = SubSeq(Order, 1, index' - 1)
    BY <1>1, OneMore DEF Walked, Current
<1>3. \A k \in 1 .. index' - 1 : State(Order[k])' = "done"
    BY <1>1 DEF Walked, Current, State
<1> QED BY <1>1, <1>2, <1>3 DEF Walked, Walking

LEMMA Stays ==
    ASSUME Walked, Kept, UNCHANGED <<index, completed>>, pc \in Walking,
           pc' \in Walking \cup {"idle", "stopped", "rejected"},
           pc' \in {"load", "role"} => index <= Len(Order)
    PROVE  Walked'
<1>1. \A k \in 1 .. index - 1 : Order[k] \in Tasks
    BY OrderedTasks DEF Walked
<1> QED BY <1>1 DEF Walked, Kept, State

LEMMA StepInv == ASSUME IInv, Step \/ Start PROVE IInv'
<1> USE DEF IInv, Goto, Stop, Finished
<1>a. Len(Order) \in Nat /\ (~Finished /\ index \in 1 .. Len(Order) + 1 => Current \in Tasks)
    BY OrderedTasks DEF Current
<1>1. CASE Start
  <2>1. Judged'
    BY <1>1, DocumentsStay DEF Start, documents
  <2>2. SubSeq(Order, 1, 0) = << >>
    BY OrderedTasks
  <2> QED BY <1>1, <1>a, <2>1, <2>2 DEF Start, documents, Walked, Noticed, Walking
<1>2. CASE Select
  <2>1. Judged' /\ Kept
    BY <1>2, DocumentsStay DEF Select, documents
  <2>2. Noticed'
    BY <1>2 DEF Select, documents, Noticed, Walking
  <2>3. CASE Current \in broken
    BY <1>2, <1>a, <2>1, <2>2, <2>3 DEF Select, documents, Walked, Walking
  <2>4. CASE Current \notin broken /\ State(Current) = "done"
    BY <1>2, <1>a, <2>1, <2>2, <2>4, Advances DEF Select, documents, Walking, Walked
  <2>5. CASE Current \notin broken /\ State(Current) # "done"
    BY <1>2, <2>1, <2>2, <2>5, Stays DEF Select, documents, Walking
  <2> QED BY <2>3, <2>4, <2>5
<1>3. CASE Boundary
  <2>1. Judged' /\ Kept
    BY <1>3, DocumentsStay DEF Boundary, documents
  <2>2. Walked'
    BY <1>3, <1>a, <2>1, Stays DEF Boundary, Walked, Walking, command
  <2> QED BY <1>3, <2>1, <2>2 DEF Boundary, documents, Noticed, Walking
<1>4. CASE PlanComplete
  <2>1. Judged' /\ Kept
    BY <1>4, DocumentsStay DEF PlanComplete, documents
  <2>2. Walked'
    BY <1>4, <2>1, Stays DEF PlanComplete, Walking, command
  <2> QED BY <1>4, <2>1, <2>2 DEF PlanComplete, Noticed, Walking
<1>5. CASE Skip
  <2>1. Judged' /\ Kept
    BY <1>5, DocumentsStay DEF Skip, documents
  <2>2. Noticed'
    BY <1>5 DEF Skip, documents, Noticed, Walking
  <2>3. CASE Current \in broken
    BY <1>5, <2>1, <2>2, <2>3, Stays DEF Skip, Walking
  <2>4. CASE Current \notin broken /\ State(Current) = "done"
    BY <1>5, <1>a, <2>1, <2>2, <2>4, Advances DEF Skip, documents, Walking, Walked
  <2>5. CASE Current \notin broken /\ State(Current) # "done"
    BY <1>5, <2>1, <2>2, <2>5, Stays DEF Skip, documents, Walking
  <2> QED BY <2>3, <2>4, <2>5
<1>6. CASE Load
  <2>1. Judged' /\ Kept
    BY <1>6, DocumentsStay DEF Load, documents
  <2>2. index <= Len(Order) /\ pc = "load"
    BY <1>6 DEF Load, Walked
  <2>3. Noticed'
    BY <1>6 DEF Load, documents, Noticed, Walking
  <2>4. CASE pc' = "skip"
    BY <1>6, <1>a, <2>1, <2>2, <2>3, <2>4, Advances DEF Load, documents, Walking
  <2>5. CASE pc' # "skip"
    BY <1>6, <2>1, <2>2, <2>3, <2>5, Stays DEF Load, command, Walking
  <2> QED BY <2>4, <2>5
<1>7. CASE Halt
  <2>1. Judged' /\ Kept
    BY <1>7, DocumentsStay DEF Halt, documents
  <2>2. Walked'
    BY <1>7, <2>1, Stays DEF Halt, Walking, command
  <2> QED BY <1>7, <2>1, <2>2 DEF Halt, Noticed, Walking
<1>8. CASE WriteResult
  <2>1. Judged' /\ Kept
    BY <1>8, <1>a, LifecycleStep DEF WriteResult, Walked
  <2>2. Walked'
    BY <1>8, <2>1, Stays DEF WriteResult, Walked, Walking, command
  <2> QED BY <1>8, <2>1, <2>2 DEF WriteResult, Noticed, Walking
<1>9. CASE PersistReview
  <2>1. Judged' /\ Kept
    BY <1>9, <1>a, LifecycleStep, DocumentsStay DEF PersistReview, Walked
  <2>2. Walked'
    BY <1>9, <2>1, Stays DEF PersistReview, Walked, Walking, command
  <2> QED BY <1>9, <2>1, <2>2 DEF PersistReview, Noticed, Walking
<1>10. CASE ApplyReview
  <2>1. Judged' /\ Kept
    BY <1>10, <1>a, LifecycleStep, DocumentsStay DEF ApplyReview, Walked
  <2>2. Walked'
    BY <1>10, <2>1, Stays DEF ApplyReview, Walked, Walking, command
  <2> QED BY <1>10, <2>1, <2>2 DEF ApplyReview, Noticed, Walking
<1>11. CASE Exit
  <2>1. Judged'
    BY <1>11, DocumentsStay DEF Exit, documents
  <2> QED BY <1>11, <1>a, <2>1 DEF Exit, Walked, Noticed, Walking
<1> QED BY <1>1, <1>2, <1>3, <1>4, <1>5, <1>6, <1>7, <1>8, <1>9, <1>10, <1>11 DEF Step

\* What others do leaves the command where it is.
LEMMA OthersInv ==
    ASSUME IInv, OtherEngine \/ Decide \/ Damage \/ Repair \/ Signal PROVE IInv'
<1>1. Judged' /\ Kept
  <2>1. CASE OtherEngine
    BY <2>1, LifecycleStep DEF OtherEngine, IInv
  <2> QED BY <2>1, DocumentsStay DEF Decide, Damage, Repair, Signal, documents, IInv
<1>2. UNCHANGED <<pc, index, completed>>
    BY DEF OtherEngine, Decide, Damage, Repair, Signal, Disturb, command
<1>3. Walked'
  <2>1. CASE pc \in Walking
    BY <1>1, <1>2, <2>1, Stays DEF IInv, Walked
  <2>2. CASE pc \notin Walking
    BY <1>2, <2>2 DEF IInv, Walked
  <2> QED BY <2>1, <2>2
<1>4. Noticed'
    BY <1>2 DEF OtherEngine, Decide, Damage, Repair, Signal, Disturb, documents, IInv,
                Noticed, Walking
<1> QED BY <1>1, <1>3, <1>4 DEF IInv

LEMMA Inductive == IInv /\ [Next]_vars => IInv'
<1> SUFFICES ASSUME IInv, [Next]_vars PROVE IInv'
    OBVIOUS
<1>1. CASE UNCHANGED vars
    BY <1>1 DEF vars, IInv, Judged, Walked, Noticed, State
<1>2. CASE Next
    BY <1>2, StepInv, OthersInv DEF Next
<1> QED BY <1>1, <1>2

LEMMA Invariant == Spec => []IInv
BY InitInv, Inductive, PTL DEF Spec

\* No Task is run before those that the plan orders before it are done
\* (selectNextTask and skipDoneSuffix, whatever other engines do).
THEOREM OrderKept == Spec => []DependenciesDone
<1>1. IInv => DependenciesDone
    BY DEF IInv, Walked, Walking, DependenciesDone
<1> QED BY <1>1, Invariant, PTL

\* A report is thrown away only when the file of the Task that the command comes to
\* next was damaged during this call (skipDoneSuffix, whose loadTask nothing catches).
THEOREM ReportsKept == Spec => ReportLostByDamageOnly
<1>1. IInv /\ [Next]_vars =>
         [pc # "rejected" /\ pc' = "rejected" => Current \in damaged]_vars
  <2> SUFFICES ASSUME IInv, Next, pc # "rejected", pc' = "rejected"
               PROVE  Current \in damaged
    OBVIOUS
  <2>1. Skip
    BY DEF Next, Step, Start, Select, Boundary, PlanComplete, Load, Halt, WriteResult,
           PersistReview, ApplyReview, Exit, OtherEngine, Decide, Damage, Repair, Signal,
           Disturb, Goto, Stop
  <2>2. pc \in Walking /\ Current \in broken
    BY <2>1 DEF Skip, Goto, Walking
  <2> QED BY <2>2 DEF IInv, Noticed
<1> QED BY <1>1, Invariant, PTL DEF Spec, ReportLostByDamageOnly

-------------------------------------------------------------------------------
(* What a call reports when nobody else touches the repository meanwhile *)

\* The reasons that the state of a Task gives, the approver having no decision.
Held(t) == \/ /\ State(t) = "approval" /\ decision[t] = "none"
              /\ report.reason = "awaiting_approval"
           \/ State(t) = "blocked" /\ report.reason = BlockedReason(t)

\* The report says where the command is.  Of the reasons that are not in the
\* documents, a Worker's needs a Task that a Worker runs, and a conflict somebody
\* else's write.
Explained ==
    \/ /\ broken # {} /\ report.reason = "invalid_document"
       /\ report.task = NoTask /\ report.completed = << >>
    \/ /\ broken = {}
       /\ report.completed = SubSeq(Order, 1, index - 1)
       /\ \A k \in 1 .. index - 1 : State(Order[k]) = "done"
       /\ \/ /\ index = Len(Order) + 1
             /\ report.reason = "plan_complete" /\ report.task = NoTask
          \/ /\ index <= Len(Order) /\ report.task = Current
             /\ \/ Current \in unsound /\ report.reason = "invalid_document"
                \/ Current \notin unsound /\ Held(Current)
                \/ /\ State(Current) \notin {"done", "blocked"}
                   /\ report.reason \in {"worker_failure", "capacity_wait"}
                \/ /\ State(Current) # "done"
                   /\ report.reason = "cancelled" /\ signalled

Quiet ==
    disturbed # "during" =>
        /\ pc = "boundary" /\ ~Finished => State(Current) # "done"
        /\ pc = "role" => /\ seen = [doc |-> life[Current], verdict |-> verdict[Current]]
                          /\ State(Current) \notin {"done", "blocked"}
                          /\ Current \notin unsound
        /\ pc = "stopped" => Explained

\* The documents still say what the previous call printed, having come to k.
Stands(k) ==
    /\ broken = {}
    /\ last.completed = SubSeq(Order, 1, k - 1)
    /\ \A j \in 1 .. k - 1 : State(Order[j]) = "done"
    /\ \/ /\ k = Len(Order) + 1
          /\ last.reason = "plan_complete" /\ last.task = NoTask
       \/ /\ k <= Len(Order) /\ last.task = Order[k] /\ Order[k] \notin unsound
          /\ \/ /\ State(Order[k]) = "approval" /\ decision[Order[k]] = "none"
                /\ last.reason = "awaiting_approval"
             \/ State(Order[k]) = "blocked" /\ last.reason = BlockedReason(Order[k])

\* A call that follows does not come further, and does not stop before.
ComesTo(k) ==
    /\ pc \in Walking => index <= k
    /\ pc \in {"boundary", "load", "role", "stopped"} => index = k

Again == disturbed = "no" /\ last.reason \in Durable =>
             \E k \in 1 .. Len(Order) + 1 : Stands(k) /\ ComesTo(k)

RInv == IInv /\ Quiet /\ Again

LEMMA Position ==
    ASSUME IInv
    PROVE  /\ Len(Order) \in Nat /\ index \in 1 .. Len(Order) + 1
           /\ index <= Len(Order) => Current \in Tasks
           /\ \A k \in 1 .. Len(Order) : Order[k] \in Tasks
BY OrderedTasks DEF IInv, Walked, Current

\* When nobody else touched the repository, a walking command sees it whole.
LEMMA Undamaged == ASSUME IInv, disturbed # "during", pc \in Walking PROVE broken = {}
BY DEF IInv, Noticed

\* A stop with the documents as they are, the Task being the current one.
LEMMA StopsHere ==
    ASSUME IInv, disturbed # "during", pc \in Walking, ~Finished,
           NEW reason, Stop(reason, Current), UNCHANGED <<documents, command, signalled>>,
           \/ Current \in unsound /\ reason = "invalid_document"
           \/ /\ Current \notin unsound
              /\ \/ /\ State(Current) = "approval" /\ decision[Current] = "none"
                    /\ reason = "awaiting_approval"
                 \/ State(Current) = "blocked" /\ reason = BlockedReason(Current)
           \/ /\ State(Current) \notin {"done", "blocked"}
              /\ reason \in {"worker_failure", "capacity_wait"}
           \/ State(Current) # "done" /\ reason = "cancelled" /\ signalled
    PROVE  Explained'
<1>1. /\ broken' = {} /\ index' = index /\ index <= Len(Order)
      /\ completed' = SubSeq(Order, 1, index - 1)
      /\ \A k \in 1 .. index - 1 : State(Order[k]) = "done"
  BY Undamaged, Position DEF IInv, Walked, documents, command, Finished
<1>2. /\ report'.reason = reason /\ report'.task = Current
      /\ report'.completed = completed'
  BY DEF Stop
<1>3. UNCHANGED <<life, decision, unsound, signalled>> /\ Current' = Current
  BY <1>1 DEF documents, Current
<1> QED BY <1>1, <1>2, <1>3 DEF Explained, Held, State, BlockedReason

LEMMA QuietStep == ASSUME IInv, IInv', Quiet, Start \/ Step PROVE Quiet'
<1> SUFFICES ASSUME disturbed' # "during"
             PROVE  /\ pc' = "boundary" /\ ~Finished' => State(Current)' # "done"
                    /\ pc' = "role" =>
                          /\ seen' = [doc |-> life[Current], verdict |-> verdict[Current]]'
                          /\ State(Current)' \notin {"done", "blocked"}
                          /\ Current' \notin unsound'
                    /\ pc' = "stopped" => Explained'
  BY DEF Quiet
<1>1. CASE Start
  BY <1>1 DEF Start, Stop, Goto, Explained, documents
<1>2. CASE Select
  <2>1. disturbed # "during" /\ pc \in Walking /\ Current \notin broken
    BY <1>2, Undamaged DEF Select, Walking
  <2>2. life' = life /\ pc' \in {"select", "boundary"}
    BY <1>2, <2>1 DEF Select, Goto, documents
  <2> QED BY <1>2, <2>1, <2>2 DEF Select, Goto, State, Current
<1>3. CASE Boundary
  <2>1. /\ disturbed # "during" /\ pc \in Walking /\ pc = "boundary" /\ ~Finished
        /\ UNCHANGED <<documents, command, signalled>>
    BY <1>3 DEF Boundary, Walking
  <2>2. State(Current) # "done"
    BY <2>1 DEF Quiet
  <2>3. CASE signalled
    <3>1. Stop("cancelled", Current)
      BY <1>3, <2>3 DEF Boundary
    <3>2. Explained'
      BY <2>1, <2>2, <2>3, <3>1, StopsHere
    <3> QED BY <3>1, <3>2 DEF Stop
  <2>4. CASE ~signalled
    BY <1>3, <2>4 DEF Boundary, Goto
  <2> QED BY <2>3, <2>4
<1>4. CASE PlanComplete
  <2>1. /\ disturbed # "during" /\ pc \in Walking /\ index' = Len(Order) + 1
        /\ pc' = "stopped" /\ index' = index
    BY <1>4, Position DEF PlanComplete, Walking, Stop, Finished, command
  <2>2. /\ completed' = SubSeq(Order, 1, index - 1) /\ broken' = {}
        /\ \A k \in 1 .. index - 1 : State(Order[k])' = "done"
    BY <1>4, <2>1, Undamaged DEF PlanComplete, IInv, Walked, command, documents, State
  <2>3. /\ report'.reason = "plan_complete" /\ report'.task = NoTask
        /\ report'.completed = completed'
    BY <1>4 DEF PlanComplete, Stop
  <2> QED BY <2>1, <2>2, <2>3 DEF Explained
<1>5. CASE Skip
  <2>1. disturbed # "during" /\ pc \in Walking /\ Current \notin broken
    BY <1>5, Undamaged DEF Skip, Walking
  <2>2. life' = life /\ pc' \in {"skip", "boundary"}
    BY <1>5, <2>1 DEF Skip, Goto, documents
  <2> QED BY <1>5, <2>1, <2>2 DEF Skip, Goto, State, Current
<1>6. CASE Load
  <2>1. /\ disturbed # "during" /\ pc \in Walking /\ broken = {} /\ ~Finished
        /\ UNCHANGED <<documents, signalled>>
    BY <1>6, Undamaged, Position DEF Load, Walking, Finished, IInv, Walked
  <2>2. CASE Current \in unsound
    <3>1. Stop("invalid_document", Current) /\ UNCHANGED command
      BY <1>6, <2>2 DEF Load
    <3>2. Explained'
      BY <2>1, <2>2, <3>1, StopsHere
    <3> QED BY <3>1, <3>2 DEF Stop
  <2>3. CASE Current \notin unsound /\ State(Current) = "done"
    BY <1>6, <2>1, <2>3 DEF Load, Goto
  <2>4. CASE Current \notin unsound /\ State(Current) = "blocked"
    <3>1. Stop(BlockedReason(Current), Current) /\ UNCHANGED command
      BY <1>6, <2>1, <2>4 DEF Load
    <3>2. Explained'
      BY <2>1, <2>4, <3>1, StopsHere
    <3> QED BY <3>1, <3>2 DEF Stop
  <2>5. CASE Current \notin unsound /\ State(Current) \notin {"done", "blocked"}
    <3>1. /\ seen' = [doc |-> life[Current], verdict |-> verdict[Current]]
          /\ pc' = "role" /\ UNCHANGED <<life, verdict, unsound, index>>
      BY <1>6, <2>1, <2>5 DEF Load, Goto, documents
    <3>2. Current' = Current
      BY <3>1 DEF Current
    <3> QED BY <2>5, <3>1, <3>2 DEF State
  <2> QED BY <2>2, <2>3, <2>4, <2>5
<1> DEFINE AtRole == /\ disturbed # "during" /\ pc \in Walking /\ ~Finished
                     /\ pc = "role" /\ Unchanged(Current) /\ Current \in Tasks
                     /\ seen = [doc |-> life[Current], verdict |-> verdict[Current]]
                     /\ State(Current) \notin {"done", "blocked"}
                     /\ Current \notin unsound
<1>7. disturbed # "during" /\ pc = "role" => AtRole
  BY Undamaged, Position DEF Quiet, IInv, Walked, Walking, Finished, Unchanged
<1>8. CASE Halt
  <2>1. AtRole /\ UNCHANGED <<documents, command, signalled>>
    BY <1>7, <1>8 DEF Halt
  <2>2. PICK reason \in Reasons :
            /\ Stop(reason, Current)
            /\ \/ reason \in {"worker_failure", "capacity_wait"}
               \/ reason = "cancelled" /\ signalled
               \/ /\ State(Current) = "approval" /\ decision[Current] = "none"
                  /\ reason = "awaiting_approval"
    BY <1>8, <2>1 DEF Halt, Reasons
  <2>3. Explained'
    BY <2>1, <2>2, StopsHere
  <2> QED BY <2>2, <2>3 DEF Stop
<1>9. CASE WriteResult
  BY <1>9 DEF WriteResult, Goto
<1>10. CASE PersistReview
  <2>1. AtRole
    BY <1>7, <1>10 DEF PersistReview
  <2>2. /\ L!Judge(Current) /\ seen' = [seen EXCEPT !.verdict = verdict'[Current]]
        /\ pc' = "role" /\ UNCHANGED <<index, unsound>>
    BY <1>10, <2>1 DEF PersistReview, Goto
  <2>3. life' = life /\ Current' = Current
    BY <2>2 DEF L!Judge, Current
  <2>4. seen' = [doc |-> life'[Current], verdict |-> verdict'[Current]]
    BY <2>1, <2>2, <2>3
  <2> QED BY <2>1, <2>2, <2>3, <2>4 DEF State
<1>11. CASE ApplyReview
  <2>1. AtRole
    BY <1>7, <1>11 DEF ApplyReview
  <2> QED BY <1>11, <2>1 DEF ApplyReview, Goto
<1>12. CASE Exit
  BY <1>12 DEF Exit
<1> QED BY <1>1, <1>2, <1>3, <1>4, <1>5, <1>6, <1>8, <1>9, <1>10, <1>11, <1>12 DEF Step

\* Nobody else's step changes what is quiet, for it is not quiet after it.
LEMMA QuietOthers ==
    ASSUME IInv, Quiet, OtherEngine \/ Decide \/ Damage \/ Repair \/ Signal
    PROVE  Quiet'
<1>1. CASE Signal
  <2>1. /\ UNCHANGED <<documents, pc, command, report, disturbed>> /\ pc # "stopped"
    BY <1>1 DEF Signal
  <2> QED BY <2>1 DEF Quiet, documents, command, Current, State, Finished
<1>2. CASE ~Signal
  <2>1. Disturb /\ pc' = pc
    BY <1>2 DEF OtherEngine, Decide, Damage, Repair, Disturb
  <2> QED BY <2>1 DEF Disturb, Quiet, IInv
<1> QED BY <1>1, <1>2

LEMMA AgainExit == ASSUME IInv, Quiet, Exit PROVE Again'
<1> SUFFICES ASSUME disturbed' = "no", last'.reason \in Durable
             PROVE  \E k \in 1 .. Len(Order) + 1 : Stands(k)' /\ ComesTo(k)'
  BY DEF Again
<1>1. /\ report.reason \in Durable /\ last' = report
      /\ pc' = "idle" /\ disturbed # "during"
      /\ UNCHANGED documents
  BY DEF Exit, Nothing, Durable
<1>2. Explained
  BY <1>1 DEF Exit, Quiet, IInv, Noticed
<1>3. PICK k \in 1 .. Len(Order) + 1 : k = index
  BY Position
<1>4. Stands(k)'
  <2>1. UNCHANGED <<life, decision, broken, unsound>>
    BY <1>1 DEF documents
  <2>2. report.reason \notin {"invalid_document", "worker_failure", "capacity_wait",
                              "cancelled"}
    BY <1>1 DEF Durable
  <2>3. /\ broken = {} /\ report.completed = SubSeq(Order, 1, k - 1)
        /\ \A j \in 1 .. k - 1 : State(Order[j]) = "done"
        /\ \/ /\ k = Len(Order) + 1
              /\ report.reason = "plan_complete" /\ report.task = NoTask
           \/ /\ k <= Len(Order) /\ report.task = Order[k]
              /\ Order[k] \notin unsound /\ Held(Order[k])
    BY <1>2, <1>3, <2>2 DEF Explained, Current
  <2> QED BY <1>1, <2>1, <2>3 DEF Stands, Held, State, BlockedReason
<1>5. ComesTo(k)'
  BY <1>1 DEF ComesTo, Walking
<1> QED BY <1>4, <1>5

\* Where the documents still say what was printed, a call only reads them: it skips
\* what is done, and no step of the lifecycle can be taken at the Task it comes to.
LEMMA OnlyReads ==
    ASSUME IInv, Quiet, disturbed = "no",
           NEW k \in 1 .. Len(Order) + 1, Stands(k), ComesTo(k),
           Start \/ Select \/ Boundary \/ PlanComplete \/ Skip \/ Load \/ Halt
             \/ WriteResult \/ PersistReview \/ ApplyReview
    PROVE  UNCHANGED <<documents, last>> /\ ComesTo(k)'
<1>a. /\ Len(Order) \in Nat /\ index \in 1 .. Len(Order) + 1 /\ k \in Nat /\ index \in Nat
      /\ broken = {}
      /\ \A j \in 1 .. k - 1 : State(Order[j]) = "done"
      /\ k <= Len(Order) => /\ Order[k] \notin unsound
                            /\ \/ /\ State(Order[k]) = "approval"
                                  /\ decision[Order[k]] = "none"
                               \/ State(Order[k]) = "blocked"
  BY Position DEF Stands
<1>b. /\ index < k => State(Current) = "done"
      /\ index = k /\ ~Finished => State(Current) # "done"
  BY <1>a DEF Current, Finished
<1>c. pc \in Walking /\ Finished => index = k
  BY <1>a DEF ComesTo, Finished
<1>1. CASE Start
  BY <1>1, <1>a DEF Start, Goto, ComesTo
<1>2. CASE Select
  <2>1. pc = "select" /\ pc \in Walking /\ index <= k
    BY <1>2 DEF Select, ComesTo, Walking
  <2>2. UNCHANGED <<documents, last>>
    BY <1>2 DEF Select
  <2>3. CASE index < k
    <3>1. pc' = "select" /\ index' = index + 1
      BY <1>2, <1>a, <1>b, <2>3 DEF Select, Goto
    <3> QED BY <1>a, <2>2, <2>3, <3>1 DEF ComesTo
  <2>4. CASE index = k
    <3>1. pc' = "boundary" /\ index' = index
      BY <1>2, <1>a, <1>b, <2>4 DEF Select, Goto
    <3> QED BY <1>a, <2>2, <2>4, <3>1 DEF ComesTo
  <2> QED BY <1>a, <2>1, <2>3, <2>4
<1>3. CASE Boundary
  BY <1>3, <1>a DEF Boundary, Goto, Stop, ComesTo, command
<1>4. CASE PlanComplete
  BY <1>4, <1>a, <1>c DEF PlanComplete, Stop, ComesTo, command, Walking
<1>5. CASE Skip
  <2>1. pc = "skip" /\ pc \in Walking /\ index <= k
    BY <1>5 DEF Skip, ComesTo, Walking
  <2>2. UNCHANGED <<documents, last>>
    BY <1>5 DEF Skip
  <2>3. CASE index < k
    <3>1. pc' = "skip" /\ index' = index + 1
      BY <1>5, <1>a, <1>b, <2>3 DEF Skip, Goto
    <3> QED BY <1>a, <2>2, <2>3, <3>1 DEF ComesTo
  <2>4. CASE index = k
    <3>1. pc' = "boundary" /\ index' = index
      BY <1>5, <1>a, <1>b, <2>4 DEF Skip, Goto
    <3> QED BY <1>a, <2>2, <2>4, <3>1 DEF ComesTo
  <2> QED BY <1>a, <2>1, <2>3, <2>4
<1>6. CASE Load
  <2>1. index = k /\ index <= Len(Order) /\ pc = "load" /\ Current = Order[k]
    BY <1>6, <1>a DEF Load, ComesTo, IInv, Walked, Current
  <2>2. Current \notin broken \cup unsound /\ State(Current) # "done"
    BY <1>a, <2>1
  <2>3. UNCHANGED <<documents, last, index>> /\ pc' \in {"stopped", "role"}
    BY <1>6, <2>2 DEF Load, Stop, Goto, command
  <2> QED BY <1>a, <2>1, <2>3 DEF ComesTo
<1>7. CASE Halt
  BY <1>7, <1>a DEF Halt, Stop, ComesTo, command
<1>8. pc = "role" =>
         /\ index = k /\ index <= Len(Order) /\ Current \in Tasks
         /\ State(Current) = "approval" /\ decision[Current] = "none"
         /\ verdict[Current] = "none" /\ seen.verdict = "none"
  <2> SUFFICES ASSUME pc = "role"
               PROVE  /\ index = k /\ index <= Len(Order) /\ Current \in Tasks
                      /\ State(Current) = "approval" /\ decision[Current] = "none"
                      /\ verdict[Current] = "none" /\ seen.verdict = "none"
    OBVIOUS
  <2>1. index = k /\ index <= Len(Order) /\ Current \in Tasks /\ Current = Order[k]
    BY Position DEF ComesTo, IInv, Walked, Current
  <2>2. State(Current) = "approval" /\ decision[Current] = "none"
    BY <1>a, <2>1 DEF Quiet
  <2>3. verdict[Current] = "none"
    BY <2>1, <2>2 DEF IInv, Judged
  <2>4. seen.verdict = "none"
    BY <2>3 DEF Quiet
  <2> QED BY <2>1, <2>2, <2>3, <2>4
<1>9. CASE WriteResult
  <2>1. pc = "role"
    BY <1>9 DEF WriteResult
  <2>2. ~L!Implement(Current)
    BY <1>8, <2>1 DEF L!Implement, State
  <2>3. L!Answer(Current) => life'[Current].approval # decision[Current]
    BY <1>8, <2>1 DEF L!Answer, IInv, Judged, Life
  <2> QED BY <1>9, <2>2, <2>3 DEF WriteResult
<1>10. CASE PersistReview
  BY <1>8, <1>10 DEF PersistReview
<1>11. CASE ApplyReview
  BY <1>8, <1>11 DEF ApplyReview
<1> QED BY <1>1, <1>2, <1>3, <1>4, <1>5, <1>6, <1>7, <1>9, <1>10, <1>11

LEMMA AgainOthers ==
    ASSUME Again, OtherEngine \/ Decide \/ Damage \/ Repair \/ Signal PROVE Again'
<1>1. CASE Signal
  BY <1>1 DEF Signal, Again, Stands, ComesTo, State, BlockedReason, documents, command
<1>2. CASE ~Signal
  <2>1. Disturb
    BY <1>2 DEF OtherEngine, Decide, Damage, Repair
  <2> QED BY <2>1 DEF Disturb, Again
<1> QED BY <1>1, <1>2

LEMMA Rerunning == RInv /\ [Next]_vars => RInv'
<1> SUFFICES ASSUME RInv, [Next]_vars PROVE RInv'
  OBVIOUS
<1> USE DEF RInv
<1>1. IInv'
  BY Inductive
<1>2. CASE UNCHANGED vars
  BY <1>1, <1>2 DEF vars, Quiet, Again, Stands, ComesTo, Explained, Held, State,
                    BlockedReason, Current, Finished
<1>3. CASE OtherEngine \/ Decide \/ Damage \/ Repair \/ Signal
  BY <1>1, <1>3, QuietOthers, AgainOthers
<1>4. CASE Start \/ Step
  <2>1. Quiet'
    BY <1>1, <1>4, QuietStep
  <2>2. CASE Exit
    BY <1>1, <2>1, <2>2, AgainExit
  <2>3. CASE ~Exit
    <3> SUFFICES ASSUME disturbed' = "no", last'.reason \in Durable
                 PROVE  \E k \in 1 .. Len(Order) + 1 : Stands(k)' /\ ComesTo(k)'
      BY <1>1, <2>1 DEF Again
    <3>1. disturbed = "no" /\ last' = last
      BY <1>4, <2>3 DEF Start, Step, Select, Boundary, PlanComplete, Skip, Load, Halt,
                        WriteResult, PersistReview, ApplyReview
    <3>2. PICK k \in 1 .. Len(Order) + 1 : Stands(k) /\ ComesTo(k)
      BY <3>1 DEF Again
    <3>3. UNCHANGED <<documents, last>> /\ ComesTo(k)'
      BY <1>4, <2>3, <3>1, <3>2, OnlyReads DEF Step
    <3>4. Stands(k)'
      BY <3>2, <3>3 DEF Stands, State, BlockedReason, documents
    <3> QED BY <3>3, <3>4
  <2> QED BY <2>2, <2>3
<1> QED BY <1>2, <1>3, <1>4 DEF Next

LEMMA RerunInit == Init => RInv
<1> SUFFICES ASSUME Init PROVE RInv
  OBVIOUS
<1> QED BY InitInv DEF Init, RInv, Quiet, Again, Nothing, Durable

\* A call repeated with nothing changed since repeats the report: the same Tasks,
\* the same place, and the same reason, unless a signal or the approver's Worker
\* ends it there (runProgression, stopFor).
THEOREM RerunsAgree == Spec => []RerunSame
<1>1. Init => RInv
  BY RerunInit
<1>2. RInv => RerunSame
  <2> SUFFICES ASSUME RInv, pc = "stopped", disturbed = "no", last.reason \in Durable
               PROVE  /\ report.task = last.task
                      /\ report.completed = last.completed
                      /\ \/ report.reason = last.reason
                         \/ report.reason = "cancelled" /\ signalled
                         \/ /\ last.reason = "awaiting_approval"
                            /\ report.reason \in {"worker_failure", "capacity_wait"}
    BY DEF RerunSame
  <2>1. PICK k \in 1 .. Len(Order) + 1 : Stands(k) /\ ComesTo(k)
    BY DEF RInv, Again
  <2>2. index = k /\ Len(Order) \in Nat
    BY <2>1, Position DEF ComesTo, RInv
  <2>3. Explained /\ broken = {}
    BY <2>1 DEF RInv, Quiet, Stands
  <2>4. report.task = last.task /\ report.completed = last.completed
    BY <2>1, <2>2, <2>3 DEF Explained, Stands, Current
  <2>5. CASE k = Len(Order) + 1
    BY <2>1, <2>2, <2>3, <2>4, <2>5 DEF Explained, Stands, Current
  <2>6. CASE k <= Len(Order)
    BY <2>1, <2>2, <2>3, <2>4, <2>6 DEF Explained, Stands, Current, Held
  <2> QED BY <2>2, <2>4, <2>5, <2>6
<1> QED BY <1>1, <1>2, Rerunning, PTL DEF Spec

-------------------------------------------------------------------------------
(* What the dashboard counts *)

\* Induction: a set of numbers with 0 and with the next of each of its numbers
\* has them all, since the least number it lacks would have to be one of those.
LEMMA Induction ==
    ASSUME NEW T, 0 \in T, \A n \in Nat : n \in T => n + 1 \in T
    PROVE  Nat \subseteq T
<1> SUFFICES ASSUME Nat \ T # {} PROVE FALSE
  OBVIOUS
<1> DEFINE Lacking == Nat \ T
           R == OpToRel(<, Nat)
<1>1. PICK x \in Lacking : \A y \in Lacking : ~ (<<y, x>> \in R)
  <2>1. IsWellFoundedOn(R, Nat)
    BY NatLessThanWellFounded, Zenon
  <2> HIDE DEF R
  <2> QED BY <2>1, WFMin
<1>2. x \in Nat /\ x # 0 /\ x - 1 \in Nat /\ (x - 1) + 1 = x
  OBVIOUS
<1>3. x - 1 \in Lacking
  BY <1>2
<1>4. <<x - 1, x>> \in R
  BY <1>2 DEF R, OpToRel
<1> QED BY <1>1, <1>3, <1>4

\* One turn of the loop, for the list g of what was counted before.
Turn(g, n) == IF n = 0 THEN << >>
              ELSE IF State(Order[n]) = "done" THEN Append(g[n - 1], Order[n])
              ELSE g[n - 1]

LEMMA CountedExists == Counted = [n \in 0 .. Len(Order) |-> Turn(Counted, n)]
<1> DEFINE Goes(g, m) == g = [n \in 0 .. m |-> Turn(g, n)]
           T == {m \in Nat : \E g : Goes(g, m)}
<1>1. 0 \in T
  <2> DEFINE g == [n \in 0 .. 0 |-> << >>]
  <2>1. Goes(g, 0)
    BY DEF Turn
  <2> QED BY <2>1
<1>2. ASSUME NEW m \in Nat, m \in T
      PROVE  m + 1 \in T
  <2>1. PICK g : Goes(g, m)
    BY <1>2
  <2> DEFINE h == [n \in 0 .. m + 1 |-> IF n = m + 1 THEN Turn(g, n) ELSE g[n]]
  <2>2. \A n \in 0 .. m : h[n] = Turn(g, n)
    BY <2>1
  <2>3. \A n \in 0 .. m + 1 : h[n] = Turn(g, n)
    <3> TAKE n \in 0 .. m + 1
    <3>1. CASE n = m + 1
      BY <3>1
    <3>2. CASE n # m + 1
      <4>1. n \in 0 .. m
        BY <3>2
      <4> QED BY <2>2, <4>1
    <3> QED BY <3>1, <3>2
  <2>4. \A n \in 0 .. m + 1 : Turn(g, n) = Turn(h, n)
    <3> TAKE n \in 0 .. m + 1
    <3>1. CASE n = 0
      BY <3>1 DEF Turn
    <3>2. CASE n # 0
      <4>1. n - 1 \in 0 .. m
        BY <3>2
      <4>2. h[n - 1] = g[n - 1]
        BY <4>1
      <4> QED BY <3>2, <4>2 DEF Turn
    <3> QED BY <3>1, <3>2
  <2>5. Goes(h, m + 1)
    <3>1. \A n \in 0 .. m + 1 : h[n] = Turn(h, n)
      BY <2>3, <2>4
    <3>2. h = [n \in 0 .. m + 1 |-> h[n]]
      OBVIOUS
    <3> HIDE DEF h
    <3> QED BY <3>1, <3>2
  <2> HIDE DEF h, Goes
  <2> QED BY <2>5
<1>3. Len(Order) \in T
  <2> HIDE DEF T
  <2> QED BY <1>1, <1>2, Induction, OrderedTasks
<1>4. Counted = CHOOSE g : Goes(g, Len(Order))
  BY DEF Counted, Turn
<1>5. Goes(Counted, Len(Order))
  <2>1. \E g : Goes(g, Len(Order))
    BY <1>3
  <2> HIDE DEF Goes
  <2> QED BY <1>4, <2>1
<1> QED BY <1>5

LEMMA CountedIs ==
    /\ Counted[0] = << >>
    /\ \A n \in Nat : n + 1 <= Len(Order) =>
          Counted[n + 1] = IF State(Order[n + 1]) = "done"
                           THEN Append(Counted[n], Order[n + 1]) ELSE Counted[n]
<1>1. Len(Order) \in Nat
  BY OrderedTasks
<1>2. \A n \in 0 .. Len(Order) : Counted[n] = Turn(Counted, n)
  BY CountedExists
<1>3. Counted[0] = << >>
  BY <1>1, <1>2 DEF Turn
<1>4. ASSUME NEW n \in Nat, n + 1 <= Len(Order)
      PROVE  Counted[n + 1] = IF State(Order[n + 1]) = "done"
                              THEN Append(Counted[n], Order[n + 1]) ELSE Counted[n]
  <2>1. n + 1 \in 0 .. Len(Order) /\ n + 1 # 0 /\ (n + 1) - 1 = n
    BY <1>1, <1>4
  <2> QED BY <1>2, <2>1 DEF Turn
<1> QED BY <1>3, <1>4

\* Of the Tasks before m, all done, everything is counted.
LEMMA AllCounted ==
    ASSUME NEW m \in 0 .. Len(Order), \A k \in 1 .. m : State(Order[k]) = "done"
    PROVE  Counted[m] = SubSeq(Order, 1, m)
<1> DEFINE T == {n \in Nat : n <= m => Counted[n] = SubSeq(Order, 1, n)}
<1>1. 0 \in T
  <2>1. Counted[0] = << >>
    BY CountedIs
  <2>2. SubSeq(Order, 1, 0) = << >>
    BY OrderedTasks
  <2> QED BY <2>1, <2>2
<1>2. ASSUME NEW n \in Nat, n \in T
      PROVE  n + 1 \in T
  <2> SUFFICES ASSUME n + 1 <= m
               PROVE  Counted[n + 1] = SubSeq(Order, 1, n + 1)
    OBVIOUS
  <2>1. n + 1 \in 1 .. Len(Order) /\ n + 1 # 0 /\ (n + 1) - 1 = n /\ n + 1 \in 1 .. m
    BY OrderedTasks
  <2>2. Counted[n + 1] = Append(Counted[n], Order[n + 1])
    <3>1. State(Order[n + 1]) = "done" /\ n + 1 <= Len(Order)
      BY <2>1
    <3> QED BY <3>1, CountedIs
  <2>3. Counted[n] = SubSeq(Order, 1, n)
    BY <1>2
  <2> QED BY <2>1, <2>2, <2>3, OneMore
<1>3. m \in T
  <2>1. m \in Nat
    BY OrderedTasks
  <2> HIDE DEF T
  <2> QED BY <1>1, <1>2, <2>1, Induction
<1> QED BY <1>3, OrderedTasks

\* And it stays in front of whatever is counted after it.
LEMMA CountedFirst ==
    ASSUME NEW m \in 0 .. Len(Order), \A k \in 1 .. m : State(Order[k]) = "done"
    PROVE  IsPrefix(SubSeq(Order, 1, m), Counted[Len(Order)])
<1> DEFINE p == SubSeq(Order, 1, m)
           T == {n \in Nat : m + n <= Len(Order) =>
                   Counted[m + n] \in Seq(Tasks) /\ IsPrefix(p, Counted[m + n])}
<1>1. p \in Seq(Tasks) /\ Len(p) = m /\ m \in Nat /\ Len(Order) \in Nat
  BY OrderedTasks, SubSeqProperties
<1>2. 0 \in T
  <2>1. Counted[m + 0] = p
    BY <1>1, AllCounted
  <2> QED BY <1>1, <2>1 DEF IsPrefix
<1>3. ASSUME NEW n \in Nat, n \in T
      PROVE  n + 1 \in T
  <2> SUFFICES ASSUME m + (n + 1) <= Len(Order)
               PROVE  /\ Counted[m + (n + 1)] \in Seq(Tasks)
                      /\ IsPrefix(p, Counted[m + (n + 1)])
    OBVIOUS
  <2> DEFINE c == Counted[m + n]
             t == Order[m + (n + 1)]
  <2>1. /\ m + (n + 1) \in 1 .. Len(Order) /\ m + (n + 1) # 0
        /\ (m + (n + 1)) - 1 = m + n
    BY <1>1
  <2>2. Counted[m + (n + 1)] \in {c, Append(c, t)}
    <3>1. m + n \in Nat /\ (m + n) + 1 = m + (n + 1) /\ (m + n) + 1 <= Len(Order)
      BY <1>1
    <3>2. Counted[(m + n) + 1] \in {Counted[m + n], Append(Counted[m + n], Order[(m + n) + 1])}
      BY <3>1, CountedIs
    <3> QED BY <3>1, <3>2
  <2>3. c \in Seq(Tasks) /\ IsPrefix(p, c) /\ t \in Tasks
    BY <1>1, <1>3, <2>1, OrderedTasks
  <2> HIDE DEF c, t, p
  <2>4. Append(c, t) \in Seq(Tasks) /\ IsPrefix(p, Append(c, t))
    BY <1>1, <2>3, AppendProperties DEF IsPrefix
  <2> QED BY <2>2, <2>3, <2>4
<1>4. Len(Order) - m \in T
  <2>1. Len(Order) - m \in Nat
    BY <1>1
  <2> HIDE DEF T
  <2> QED BY <1>2, <1>3, <2>1, Induction
<1>5. m + (Len(Order) - m) = Len(Order)
  BY <1>1
<1> QED BY <1>1, <1>4, <1>5

\* The report and the dashboard, reading what nobody else changed during the call,
\* name the same Task, the same reason where it is in the documents, and the
\* dashboard counts what the command did (derivePlanProgressState, runProgression).
THEOREM ReadingsAgree == Spec => []ReportAgrees
<1>1. Init => RInv
  BY RerunInit
<1>2. RInv => ReportAgrees
  <2> DEFINE d == derivePlanProgressState
             unsoundAt == {k \in 1 .. Len(Order) : Order[k] \in unsound}
             openAt == {k \in 1 .. Len(Order) : State(Order[k]) # "done"}
             First(ks) == CHOOSE k \in ks : \A j \in ks : k <= j
  <2> SUFFICES ASSUME RInv, pc = "stopped", disturbed # "during",
                      unsound \subseteq {report.task}
               PROVE  /\ d.task = report.task
                      /\ report.reason \in Durable \cup {"invalid_document"} =>
                            d.reason = report.reason
                      /\ IsPrefix(report.completed, d.completed)
    BY DEF ReportAgrees
  <2>a. /\ Len(Order) \in Nat /\ index \in 1 .. Len(Order) + 1
        /\ \A k \in 1 .. Len(Order) : Order[k] \in Tasks
    BY Position DEF RInv
  <2>b. Explained
    BY DEF RInv, Quiet
  <2>1. CASE broken # {}
    <3>1. d = [reason |-> "invalid_document", task |-> NoTask, completed |-> << >>]
      BY <2>1 DEF derivePlanProgressState
    <3>2. report.reason = "invalid_document" /\ report.task = NoTask /\ report.completed = << >>
      BY <2>1, <2>b DEF Explained
    <3> QED BY <3>1, <3>2 DEF IsPrefix
  <2>2. CASE broken = {}
    <3>1. /\ index - 1 \in 0 .. Len(Order)
          /\ report.completed = SubSeq(Order, 1, index - 1)
          /\ \A k \in 1 .. index - 1 : State(Order[k]) = "done"
      BY <2>2, <2>a, <2>b DEF Explained
    <3>2. IsPrefix(report.completed, Counted[Len(Order)])
      BY <3>1, CountedFirst
    <3>3. CASE index = Len(Order) + 1
      <4>1. report.reason = "plan_complete" /\ report.task = NoTask
        BY <2>2, <2>a, <2>b, <3>3 DEF Explained
      <4>2. unsoundAt = {}
        BY <2>a, <4>1, ProgressionAssumption
      <4>3. openAt = {}
        BY <2>a, <3>1, <3>3
      <4>4. d = [reason |-> "plan_complete", task |-> NoTask,
                 completed |-> Counted[Len(Order)]]
        BY <2>2, <4>2, <4>3 DEF derivePlanProgressState
      <4> QED BY <3>2, <4>1, <4>4
    <3>4. CASE index # Len(Order) + 1
      <4>1. index \in 1 .. Len(Order) /\ report.task = Current /\ Current \in Tasks
        BY <2>2, <2>a, <2>b, <3>4 DEF Explained, Current
      <4>2. unsoundAt \subseteq {index}
        <5>1. \A j, k \in 1 .. Len(Order) : Order[j] = Order[k] => j = k
          BY ProgressionAssumption DEF IsInjective
        <5> QED BY <4>1, <5>1 DEF Current
      <4>3. CASE Current \in unsound
        <5>1. unsoundAt = {index}
          BY <4>1, <4>2, <4>3 DEF Current
        <5>2. First(unsoundAt) = index
          <6> HIDE DEF unsoundAt
          <6> QED BY <2>a, <5>1
        <5>3. d = [reason |-> "invalid_document", task |-> Order[First(unsoundAt)],
                   completed |-> Counted[First(unsoundAt) - 1]]
          BY <2>2, <5>1 DEF derivePlanProgressState
        <5>4. d = [reason |-> "invalid_document", task |-> Current,
                   completed |-> SubSeq(Order, 1, index - 1)]
          BY <3>1, <5>2, <5>3, AllCounted DEF Current
        <5>5. report.reason \in Durable \cup {"invalid_document"} =>
                 report.reason = "invalid_document"
          BY <2>2, <2>a, <2>b, <3>4, <4>3 DEF Explained, Durable
        <5>6. IsPrefix(SubSeq(Order, 1, index - 1), SubSeq(Order, 1, index - 1))
          BY <3>1, OrderedTasks, SubSeqProperties DEF IsPrefix
        <5> QED BY <3>1, <4>1, <5>4, <5>5, <5>6
      <4>4. CASE Current \notin unsound
        <5>1. unsoundAt = {}
          BY <4>2, <4>4 DEF Current
        <5>2. State(Current) # "done" /\ (report.reason \in Durable \cup {"invalid_document"} => Held(Current))
          BY <2>2, <2>a, <2>b, <3>4, <4>4 DEF Explained, Durable, Held
        <5>3. index \in openAt /\ \A j \in openAt : index <= j
          BY <2>a, <3>1, <4>1, <5>2 DEF Current
        <5>4. First(openAt) = index
          <6>1. \A i \in openAt : (\A j \in openAt : i <= j) => i = index
            <7> TAKE i \in openAt
            <7> HAVE \A j \in openAt : i <= j
            <7>1. i <= index /\ index <= i
              BY <5>3
            <7>2. i \in Int /\ index \in Int
              BY <2>a
            <7> HIDE DEF openAt
            <7> QED BY <7>1, <7>2
          <6> HIDE DEF openAt
          <6> QED BY <5>3, <6>1
        <5>5. openAt # {}
          BY <5>3
        <5>6. d = [task |-> Order[First(openAt)], completed |-> Counted[Len(Order)],
                   reason |-> CASE State(Order[First(openAt)]) = "approval" -> "awaiting_approval"
                                [] State(Order[First(openAt)]) = "blocked" ->
                                      BlockedReason(Order[First(openAt)])
                                [] OTHER -> "none"]
          BY <2>2, <5>1, <5>5 DEF derivePlanProgressState
        <5>7. /\ d.task = Current /\ d.completed = Counted[Len(Order)]
              /\ State(Current) = "approval" => d.reason = "awaiting_approval"
              /\ State(Current) = "blocked" => d.reason = BlockedReason(Current)
          BY <5>4, <5>6 DEF Current
        <5> QED BY <3>2, <4>1, <5>2, <5>7 DEF Held
      <4> QED BY <4>3, <4>4
    <3> QED BY <3>3, <3>4
  <2> QED BY <2>1, <2>2
<1> QED BY <1>1, <1>2, Rerunning, PTL DEF Spec
=============================================================================

--------------------------- MODULE StateFileProofs ---------------------------
(***************************************************************************)
(* For any number of clients and updates, with crashes and I/O errors:     *)
(* no update is lost, and StateFile implements AtomicUpdates.              *)
(*                                                                         *)
(* The strengthening is Guarded: whoever is between opening the lock file  *)
(* and removing it is alone there, and the lock file exists meanwhile; a   *)
(* client that passed the comparison still holds the current contents.     *)
(***************************************************************************)
EXTENDS StateFile, TLAPS

Alone(c) == \A d \in Clients : pc[d] \in Held => d = c

Guarded ==
    \A c \in Clients :
        /\ pc[c] \in Held => lock /\ Alone(c)
        /\ pc[c] = "same" => file = snapshot[c]

\* The update a client is busy with is not in the file before the client
\* replaces it, and no later one of the client is.
Fresh ==
    \A c \in Clients :
        /\ \A u \in file : u.client = c => u.number <= number[c]
        /\ pc[c] \in {"loaded", "locked", "same", "changed", "failed"}
              => Update(c) \notin file
        /\ pc[c] = "replaced" => Update(c) \in file
        /\ pc[c] # "idle" => number[c] \in 1 .. MaxUpdates /\ outcome[c] = "none"
        /\ outcome[c] # "none" => number[c] \in 1 .. MaxUpdates

IInv == TypeOK /\ Guarded /\ Fresh /\ OutcomesTrue

LEMMA InitInv == Init => IInv
<1> SUFFICES ASSUME Init PROVE IInv
    OBVIOUS
<1>1. TypeOK
  <2>1. 0 \in 0 .. MaxUpdates
    BY StateFileAssumption
  <2>2. /\ pc \in [Clients -> {"idle", "loaded"} \cup Held]
        /\ number \in [Clients -> 0 .. MaxUpdates]
        /\ outcome \in [Clients -> Outcomes]
    BY <2>1 DEF Init, Outcomes
  <2>3. /\ snapshot \in [Clients -> SUBSET AllUpdates]
        /\ file \subseteq AllUpdates
        /\ lock \in BOOLEAN
    BY DEF Init
  <2> QED BY <2>2, <2>3 DEF TypeOK
<1>2. Guarded
    BY DEF Init, Guarded, Held
<1>3. Fresh
    BY StateFileAssumption DEF Init, Fresh, Update
<1>4. OutcomesTrue
    BY DEF Init, OutcomesTrue
<1> QED BY <1>1, <1>2, <1>3, <1>4 DEF IInv

LEMMA LoadInv == ASSUME NEW c \in Clients, IInv, Load(c) PROVE IInv'
<1> USE StateFileAssumption DEF IInv, Load
<1>1. TypeOK'
    BY DEF TypeOK, Held, Outcomes, AllUpdates, Update
<1>2. Guarded'
    BY DEF TypeOK, Guarded, Alone, Held
<1>3. Fresh'
    BY DEF TypeOK, Guarded, Fresh, Update, AllUpdates, Held
<1>4. OutcomesTrue'
    BY DEF TypeOK, Guarded, Fresh, OutcomesTrue, Update, AllUpdates, Held
<1> QED BY <1>1, <1>2, <1>3, <1>4

LEMMA OpenLockInv == ASSUME NEW c \in Clients, IInv, OpenLock(c) PROVE IInv'
<1> USE StateFileAssumption DEF IInv, OpenLock
<1>1. TypeOK'
    BY DEF TypeOK, Held, Outcomes, AllUpdates, Update
<1>2. Guarded'
    BY DEF TypeOK, Guarded, Alone, Held
<1>3. Fresh'
    BY DEF TypeOK, Guarded, Fresh, Update, AllUpdates, Held
<1>4. OutcomesTrue'
    BY DEF TypeOK, Guarded, Fresh, OutcomesTrue, Update, AllUpdates, Held
<1> QED BY <1>1, <1>2, <1>3, <1>4

LEMMA LockExistsInv == ASSUME NEW c \in Clients, IInv, LockExists(c) PROVE IInv'
<1> USE StateFileAssumption DEF IInv, LockExists, Settle
<1>1. TypeOK'
    BY DEF TypeOK, Held, Outcomes, AllUpdates, Update
<1>2. Guarded'
    BY DEF TypeOK, Guarded, Alone, Held
<1>3. Fresh'
    BY DEF TypeOK, Guarded, Fresh, Update, AllUpdates, Held
<1>4. OutcomesTrue'
    BY DEF TypeOK, Guarded, Fresh, OutcomesTrue, Update, AllUpdates, Held
<1> QED BY <1>1, <1>2, <1>3, <1>4

LEMMA CompareInv == ASSUME NEW c \in Clients, IInv, Compare(c) PROVE IInv'
<1> USE StateFileAssumption DEF IInv, Compare
<1>1. TypeOK'
  <2>1. CASE file = snapshot[c]
    BY <2>1 DEF TypeOK, Held
  <2>2. CASE file # snapshot[c]
    BY <2>2 DEF TypeOK, Held
  <2> QED BY <2>1, <2>2
<1>2. Guarded'
    BY DEF TypeOK, Guarded, Alone, Held
<1>3. Fresh'
    BY DEF TypeOK, Guarded, Fresh, Update, AllUpdates, Held
<1>4. OutcomesTrue'
    BY DEF TypeOK, Guarded, Fresh, OutcomesTrue, Update, AllUpdates, Held
<1> QED BY <1>1, <1>2, <1>3, <1>4

LEMMA ReplaceInv == ASSUME NEW c \in Clients, IInv, Replace(c) PROVE IInv'
<1> USE StateFileAssumption DEF IInv, Replace
<1>1. TypeOK'
  <2>1. file' \subseteq AllUpdates
    BY DEF TypeOK, Fresh, AllUpdates, Update
  <2> QED BY <2>1 DEF TypeOK, Held
<1>2. Guarded'
    BY DEF TypeOK, Guarded, Alone, Held
<1>3. Fresh'
    BY DEF TypeOK, Guarded, Fresh, Update, AllUpdates, Held
<1>4. OutcomesTrue'
    BY DEF TypeOK, Guarded, Fresh, OutcomesTrue, Update, AllUpdates, Held
<1> QED BY <1>1, <1>2, <1>3, <1>4

LEMMA ReplaceFailsInv == ASSUME NEW c \in Clients, IInv, ReplaceFails(c) PROVE IInv'
<1> USE StateFileAssumption DEF IInv, ReplaceFails
<1>1. TypeOK'
    BY DEF TypeOK, Held, Outcomes, AllUpdates, Update
<1>2. Guarded'
    BY DEF TypeOK, Guarded, Alone, Held
<1>3. Fresh'
    BY DEF TypeOK, Guarded, Fresh, Update, AllUpdates, Held
<1>4. OutcomesTrue'
    BY DEF TypeOK, Guarded, Fresh, OutcomesTrue, Update, AllUpdates, Held
<1> QED BY <1>1, <1>2, <1>3, <1>4

LEMMA UnlockInv == ASSUME NEW c \in Clients, IInv, Unlock(c) PROVE IInv'
<1> USE StateFileAssumption DEF IInv, Unlock, Settle, outcomeAt
<1>1. TypeOK'
    BY DEF TypeOK, Held, Outcomes, AllUpdates, Update
<1>2. Guarded'
    BY DEF TypeOK, Guarded, Alone, Held
<1>3. Fresh'
    BY DEF TypeOK, Guarded, Fresh, Update, AllUpdates, Held
<1>4. OutcomesTrue'
    BY DEF TypeOK, Guarded, Fresh, OutcomesTrue, Update, AllUpdates, Held
<1> QED BY <1>1, <1>2, <1>3, <1>4

LEMMA UnlockFailsInv == ASSUME NEW c \in Clients, IInv, UnlockFails(c) PROVE IInv'
<1> USE StateFileAssumption DEF IInv, UnlockFails, Settle
<1>1. TypeOK'
    BY DEF TypeOK, Held, Outcomes, AllUpdates, Update
<1>2. Guarded'
    BY DEF TypeOK, Guarded, Alone, Held
<1>3. Fresh'
    BY DEF TypeOK, Guarded, Fresh, Update, AllUpdates, Held
<1>4. OutcomesTrue'
    BY DEF TypeOK, Guarded, Fresh, OutcomesTrue, Update, AllUpdates, Held
<1> QED BY <1>1, <1>2, <1>3, <1>4

LEMMA CrashInv == ASSUME NEW c \in Clients, IInv, Crash(c) PROVE IInv'
<1> USE StateFileAssumption DEF IInv, Crash, Settle
<1>1. TypeOK'
    BY DEF TypeOK, Held, Outcomes, AllUpdates, Update
<1>2. Guarded'
    BY DEF TypeOK, Guarded, Alone, Held
<1>3. Fresh'
    BY DEF TypeOK, Guarded, Fresh, Update, AllUpdates, Held
<1>4. OutcomesTrue'
    BY DEF TypeOK, Guarded, Fresh, OutcomesTrue, Update, AllUpdates, Held
<1> QED BY <1>1, <1>2, <1>3, <1>4

LEMMA StepInv == IInv /\ [Next]_vars => IInv'
<1> SUFFICES ASSUME IInv, [Next]_vars PROVE IInv'
    OBVIOUS
<1>1. ASSUME NEW c \in Clients, Load(c) PROVE IInv'
    BY <1>1, LoadInv
<1>2. ASSUME NEW c \in Clients, Step(c) PROVE IInv'
    BY <1>2, OpenLockInv, LockExistsInv, CompareInv, ReplaceInv, UnlockInv DEF Step
<1>3. ASSUME NEW c \in Clients, Fault(c) PROVE IInv'
    BY <1>3, ReplaceFailsInv, UnlockFailsInv, CrashInv DEF Fault
<1>4. CASE UNCHANGED vars
    BY <1>4 DEF vars, IInv, TypeOK, Guarded, Alone, Fresh, OutcomesTrue, Update
<1> QED BY <1>1, <1>2, <1>3, <1>4 DEF Next

LEMMA Invariance == Spec => []IInv
<1> QED BY InitInv, StepInv, PTL DEF Spec

\* Every variable of the commit protocol keeps its type.
THEOREM TypeCorrect == Spec => []TypeOK
<1>1. IInv => TypeOK
    BY DEF IInv
<1> QED BY <1>1, Invariance, PTL

\* The lock file does what the README claims: of overlapping writers only one
\* is past the comparison, and nothing changed under it.
THEOREM OnePasses == Spec => []NoDoublePass
<1>1. IInv => NoDoublePass
    BY DEF IInv, NoDoublePass, Guarded, Alone, Held
<1> QED BY <1>1, Invariance, PTL

\* What commit reports is so: a committed update is in the file for good, a
\* conflict left no trace.
THEOREM OutcomesAlwaysTrue == Spec => []OutcomesTrue
<1>1. IInv => OutcomesTrue
    BY DEF IInv
<1> QED BY <1>1, Invariance, PTL

LEMMA StepKeeps == IInv /\ [Next]_vars => file \subseteq file'
<1> SUFFICES ASSUME IInv, [Next]_vars PROVE file \subseteq file'
    OBVIOUS
<1>1. ASSUME NEW c \in Clients, Replace(c) PROVE file \subseteq file'
    BY <1>1 DEF IInv, Guarded, Replace
<1>2. UNCHANGED file \/ \E c \in Clients : Replace(c)
    BY DEF Next, Step, Fault, Load, OpenLock, LockExists, Compare, Unlock,
           ReplaceFails, UnlockFails, Crash, vars
<1> QED BY <1>1, <1>2

\* No replacement takes another client's update out of the file, whatever
\* crashes and however old the snapshots are.
THEOREM NothingEverLost == Spec => NothingLost
<1>1. IInv /\ [Next]_vars => [file \subseteq file']_vars
    BY StepKeeps
<1> QED BY <1>1, Invariance, PTL DEF Spec, NothingLost

LEMMA RefinementInit == Init => Updates!Init
<1> SUFFICES ASSUME Init PROVE Updates!Init
    OBVIOUS
<1>1. stage = [c \in Clients |-> "none"]
    BY DEF Init, stage
<1> QED BY <1>1 DEF Init, Updates!Init

\* Only loading, replacing and settling show; opening the lock file and
\* comparing are part of one attempt.
LEMMA RefinementStep == IInv /\ [Next]_vars => [Updates!Next]_Updates!vars
<1> SUFFICES ASSUME IInv, [Next]_vars PROVE [Updates!Next]_Updates!vars
    OBVIOUS
<1> USE DEF IInv
<1>1. ASSUME NEW c \in Clients, Load(c) PROVE Updates!Begin(c)
  <2>1. stage[c] \in {"none", "committed", "conflict", "error"}
    BY <1>1 DEF Load, stage, TypeOK, Outcomes
  <2>2. stage' = [stage EXCEPT ![c] = "trying"]
    BY <1>1 DEF Load, stage, TypeOK
  <2> QED BY <1>1, <2>1, <2>2 DEF Load, Updates!Begin
<1>2. ASSUME NEW c \in Clients, OpenLock(c) \/ Compare(c) \/ ReplaceFails(c)
      PROVE  UNCHANGED Updates!vars
  <2>1. stage' = stage
    <3>1. CASE OpenLock(c)
      BY <3>1 DEF OpenLock, stage, TypeOK
    <3>2. CASE Compare(c) /\ file = snapshot[c]
      BY <3>2 DEF Compare, stage, TypeOK
    <3>3. CASE Compare(c) /\ file # snapshot[c]
      BY <3>3 DEF Compare, stage, TypeOK
    <3>4. CASE ReplaceFails(c)
      BY <3>4 DEF ReplaceFails, stage, TypeOK
    <3> QED BY <1>2, <3>1, <3>2, <3>3, <3>4
  <2> QED BY <1>2, <2>1 DEF OpenLock, Compare, ReplaceFails, Updates!vars
<1>3. ASSUME NEW c \in Clients, LockExists(c) PROVE Updates!Refuse(c)
  <2>1. stage[c] = "trying" /\ stage' = [stage EXCEPT ![c] = "conflict"]
    BY <1>3 DEF LockExists, Settle, stage, TypeOK
  <2> QED BY <1>3, <2>1 DEF LockExists, Updates!Refuse
<1>4. ASSUME NEW c \in Clients, Replace(c) PROVE Updates!Apply(c)
  <2>1. stage[c] = "trying" /\ stage' = [stage EXCEPT ![c] = "applied"]
    BY <1>4 DEF Replace, stage, TypeOK
  <2>2. file' = file \cup {Update(c)}
    BY <1>4 DEF Replace, Guarded
  <2> QED BY <1>4, <2>1, <2>2 DEF Replace, Updates!Apply, Updates!Update, Update
<1>5. ASSUME NEW c \in Clients, Unlock(c)
      PROVE  Updates!Report(c) \/ Updates!Refuse(c) \/ Updates!Fail(c)
  <2>1. CASE pc[c] = "replaced"
    <3>1. stage[c] = "applied" /\ stage' = [stage EXCEPT ![c] = "committed"]
      BY <1>5, <2>1 DEF Unlock, Settle, outcomeAt, stage, TypeOK
    <3> QED BY <1>5, <3>1 DEF Unlock, Updates!Report
  <2>2. CASE pc[c] = "changed"
    <3>1. stage[c] = "trying" /\ stage' = [stage EXCEPT ![c] = "conflict"]
      BY <1>5, <2>2 DEF Unlock, Settle, outcomeAt, stage, TypeOK
    <3> QED BY <1>5, <3>1 DEF Unlock, Updates!Refuse
  <2>3. CASE pc[c] = "failed"
    <3>1. stage[c] = "trying" /\ stage' = [stage EXCEPT ![c] = "error"]
      BY <1>5, <2>3 DEF Unlock, Settle, outcomeAt, stage, TypeOK
    <3> QED BY <1>5, <3>1 DEF Unlock, Updates!Fail
  <2> QED BY <1>5, <2>1, <2>2, <2>3 DEF Unlock
<1>6. ASSUME NEW c \in Clients, UnlockFails(c) \/ Crash(c) PROVE Updates!Fail(c)
  <2>1. /\ stage[c] \in {"trying", "applied"}
        /\ stage' = [stage EXCEPT ![c] = "error"]
    BY <1>6 DEF UnlockFails, Crash, Settle, stage, TypeOK, Held
  <2> QED BY <1>6, <2>1 DEF UnlockFails, Crash, Updates!Fail
<1>7. CASE UNCHANGED vars
    BY <1>7 DEF vars, Updates!vars, stage
<1> QED
    BY <1>1, <1>2, <1>3, <1>4, <1>5, <1>6, <1>7
       DEF Next, Step, Fault, Updates!Next

\* A load, computation, lock, comparison and replacement by any number of
\* processes is as good as updating the file in one step.
THEOREM Refinement == Spec => ImplementsUpdates
<1> QED
    BY RefinementInit, RefinementStep, Invariance, PTL
       DEF Spec, ImplementsUpdates, Updates!Spec

=============================================================================

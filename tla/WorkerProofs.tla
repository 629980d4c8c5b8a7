------------------------------ MODULE WorkerProofs ------------------------------
(***************************************************************************)
(* The transport, and what decides the execution that a provider's adapter *)
(* prints; the three are independent.                                      *)
(*                                                                         *)
(* For any number of engines, calls and sessions, with helpers inside and  *)
(* outside the group: what a settled call promises, that CommandWorker     *)
(* implements WorkerCall, and, for one engine, that every recorded         *)
(* invocation is counted.  The strengthening is Sound(e): once a call was  *)
(* killed, no process of its group is alive and free to go on, and while   *)
(* it records nobody has begun to kill it and nobody holds its pipes.      *)
(*                                                                         *)
(* One Claude Code session with any set of events, of any length, cut into *)
(* chunks in any way: the lines up to the first rejection.  Nothing is     *)
(* assumed of the constants.  The property speaks of the closed output     *)
(* only.  What makes it inductive is what the data handler keeps while     *)
(* lines still arrive: nothing while it has seen no rejection; from then   *)
(* on the lines up to the first one, with the session dead, so that        *)
(* nothing that matters is written any more (KeptFirst).  Then what is     *)
(* parsed on close has at most one rejection, its last line, and the       *)
(* latest rate limit of those lines is that one (LatestLimit).             *)
(*                                                                         *)
(* One Codex thread with any stream, any answers of the app-server in any  *)
(* order and any calendar: the evidence of the probe, which corroborates   *)
(* the reset from the moment it is settled with, or else the message.      *)
(* What a reset clause announces is the first instant it can mean: for a   *)
(* clock time by the division by the day's length, for a date because the  *)
(* months follow each other (ClockNearest, DateNearest).                   *)
(***************************************************************************)
EXTENDS CommandWorker, ClaudeWorker, CodexWorker, SequenceTheorems,
        WellFoundedInduction, TLAPS

-------------------------------------------------------------------------------
(* The transport *)

Row == [owner : Owners \cup {"none"}, invocations : Nat]

Typed ==
    /\ phase \in [Engines -> {"idle", "running", "recording", "settled"}]
    /\ owner \in [Engines -> Owners]
    /\ signal \in [Engines -> BOOLEAN] /\ late \in [Engines -> BOOLEAN]
    /\ flags \in [Engines -> SUBSET Flags]
    /\ terminated \in [Engines -> BOOLEAN]
    /\ child \in [Engines -> {"none", "failed", "alive", "doomed", "exited"}]
    /\ code \in [Engines -> {"none", "zero", "nonzero", "null"}]
    /\ helper \in [Engines -> {"none", "alive", "doomed", "gone"}]
    /\ ties \in [Engines -> [group : BOOLEAN, pipe : BOOLEAN]]
    /\ outcome \in [Engines -> {"none", "resolved", "deferred", "cancelled",
                                "timeout", "provider_failure"}]

Sound(e) ==
    /\ phase[e] = "idle" => /\ child[e] = "none" /\ helper[e] = "none"
                            /\ ~terminated[e]
    /\ terminated[e] = (flags[e] # {})
    /\ late[e] => terminated[e]
    /\ child[e] = "doomed" => terminated[e]
    /\ terminated[e] => /\ child[e] # "alive"
                        /\ helper[e] = "alive" => ~ties[e].group
    /\ phase[e] = "recording" => ~terminated[e] /\ code[e] = "zero" /\ PipesClosed(e)
    /\ outcome[e] = "none" <=> phase[e] # "settled"

Clean(e) ==
    /\ outcome[e] \in {"resolved", "deferred"} =>
          ~terminated[e] /\ code[e] = "zero" /\ PipesClosed(e)
    /\ phase[e] = "settled" /\ terminated[e] =>
          /\ child[e] \in {"failed", "exited"}
          /\ helper[e] = "alive" => ~ties[e].group

IInv == Typed /\ \A e \in Engines : Sound(e) /\ Clean(e)

\* The step of one engine leaves the others alone.
Untouched(e) ==
    /\ phase'[e] = phase[e] /\ flags'[e] = flags[e] /\ late'[e] = late[e]
    /\ terminated'[e] = terminated[e] /\ child'[e] = child[e]
    /\ code'[e] = code[e] /\ helper'[e] = helper[e] /\ ties'[e] = ties[e]
    /\ outcome'[e] = outcome[e]

Action(e) ==
    \/ Launch(e) \/ Abort(e) \/ TimerFires(e) \/ CallStep(e) \/ Consume(e)
    \/ Fork(e) \/ Write(e) \/ Flood(e)
    \/ ChildExits(e) \/ HelperExits(e) \/ ChildDies(e) \/ HelperDies(e)

LEMMA InitInv == Init => IInv
<1> SUFFICES ASSUME Init PROVE IInv
    OBVIOUS
<1>1. Typed
    BY DEF Init, Typed, Flags
<1>2. ASSUME NEW e \in Engines PROVE Sound(e) /\ Clean(e)
    BY DEF Init, Sound, Clean, PipesClosed
<1> QED BY <1>1, <1>2 DEF IInv

\* A close that is reported as something to deliver is of a child that ended by
\* itself and well.
LEMMA VerdictClean ==
    ASSUME NEW e \in Engines, Typed, Sound(e),
           closeVerdict(e) \in {"record", "resolved", "deferred"}
    PROVE  ~terminated[e] /\ code[e] = "zero"
<1>1. flags[e] \subseteq Flags
    BY DEF Typed
<1>2. "aborted" \notin flags[e] /\ "timedOut" \notin flags[e]
      /\ "exceededLimit" \notin flags[e] /\ code[e] = "zero"
    BY DEF closeVerdict
<1>3. flags[e] = {}
    BY <1>1, <1>2 DEF Flags
<1> QED BY <1>2, <1>3 DEF Sound, Typed

LEMMA VerdictTyped ==
    ASSUME NEW e \in Engines, closeVerdict(e) # "record"
    PROVE  closeVerdict(e) \in {"resolved", "cancelled", "timeout", "provider_failure"}
BY DEF closeVerdict, deliver

LEMMA LaunchInv ==
    ASSUME NEW e \in Engines, IInv, Launch(e)
    PROVE  Typed' /\ Sound(e)' /\ Clean(e)' /\ \A d \in Engines \ {e} : Untouched(d)
<1> USE DEF Launch
<1>1. Typed'
    BY DEF IInv, Typed, Flags
<1>2. Sound(e)' /\ Clean(e)'
    BY DEF IInv, Typed, Sound, Clean, PipesClosed
<1>3. \A d \in Engines \ {e} : Untouched(d)
    BY DEF IInv, Typed, Untouched
<1> QED BY <1>1, <1>2, <1>3

\* What the timer, the signal and the output limit have in common.
LEMMA TerminateInv ==
    ASSUME NEW e \in Engines, IInv, phase[e] = "running", NEW flag \in Flags,
           Terminate(e, flag),
           UNCHANGED <<phase, owner, late, code, ties, outcome>>,
           signal' \in [Engines -> BOOLEAN]
    PROVE  Typed' /\ Sound(e)' /\ Clean(e)' /\ \A d \in Engines \ {e} : Untouched(d)
<1> USE DEF Terminate, terminateProcessTree
<1>1. flags'[e] # {} /\ \A d \in Engines \ {e} : flags'[d] = flags[d]
    BY DEF IInv, Typed
<1>2. Typed'
  <2>1. flags' \in [Engines -> SUBSET Flags]
    BY DEF IInv, Typed
  <2>2. terminated' \in [Engines -> BOOLEAN]
    BY DEF IInv, Typed
  <2>3. child' \in [Engines -> {"none", "failed", "alive", "doomed", "exited"}]
    BY DEF IInv, Typed
  <2>4. helper' \in [Engines -> {"none", "alive", "doomed", "gone"}]
    BY DEF IInv, Typed
  <2> QED BY <2>1, <2>2, <2>3, <2>4 DEF IInv, Typed
<1>3. Sound(e)' /\ Clean(e)'
  <2>1. terminated'[e] = TRUE
    BY DEF IInv, Typed
  <2>2. child'[e] # "alive" /\ (child[e] = "failed" => child'[e] = "failed")
    BY DEF IInv, Typed, Sound
  <2>3. helper'[e] = "alive" => ~ties[e].group
    BY DEF IInv, Typed, Sound
  <2>4. phase'[e] = "running" /\ outcome'[e] = "none"
    BY DEF IInv, Sound
  <2> QED BY <1>1, <2>1, <2>2, <2>3, <2>4 DEF Sound, Clean
<1>4. \A d \in Engines \ {e} : Untouched(d)
    BY DEF IInv, Typed, Untouched
<1> QED BY <1>2, <1>3, <1>4

LEMMA CallInv ==
    ASSUME NEW e \in Engines, IInv, CallStep(e)
    PROVE  Typed' /\ Sound(e)' /\ Clean(e)' /\ \A d \in Engines \ {e} : Untouched(d)
<1> USE DEF Settle
<1>1. CASE SpawnError(e)
    BY <1>1 DEF SpawnError, IInv, Typed, Sound, Clean, PipesClosed, Untouched
<1>2. CASE CloseSettles(e)
  <2>1. closeVerdict(e) \in {"resolved", "cancelled", "timeout", "provider_failure"}
    BY <1>2, VerdictTyped DEF CloseSettles
  <2>2. closeVerdict(e) = "resolved" => ~terminated[e] /\ code[e] = "zero"
    BY VerdictClean DEF IInv
  <2>3. Typed'
    BY <1>2, <2>1 DEF CloseSettles, IInv, Typed
  <2>4. Sound(e)' /\ Clean(e)'
    BY <1>2, <2>1, <2>2 DEF CloseSettles, IInv, Typed, Sound, Clean, PipesClosed, Running
  <2> QED BY <1>2, <2>3, <2>4 DEF CloseSettles, IInv, Typed, Untouched
<1>3. CASE CloseRecords(e)
  <2>1. ~terminated[e] /\ code[e] = "zero"
    BY <1>3, VerdictClean DEF CloseRecords, IInv
  <2> QED BY <1>3, <2>1 DEF CloseRecords, IInv, Typed, Sound, Clean, PipesClosed,
                            Running, Untouched
<1>4. CASE RecordRefused(e)
    BY <1>4 DEF RecordRefused, IInv, Typed, Sound, Clean, PipesClosed, Untouched
<1>5. CASE RecordWritten(e)
    BY <1>5 DEF RecordWritten, IInv, Typed, Sound, Clean, PipesClosed, Untouched
<1> QED BY <1>1, <1>2, <1>3, <1>4, <1>5 DEF CallStep

LEMMA ActionInv ==
    ASSUME NEW e \in Engines, IInv, Action(e)
    PROVE  Typed' /\ Sound(e)' /\ Clean(e)' /\ \A d \in Engines \ {e} : Untouched(d)
<1>1. CASE Launch(e)
    BY <1>1, LaunchInv
<1>2. CASE Abort(e)
  <2>1. signal' \in [Engines -> BOOLEAN]
    BY <1>2 DEF Abort, IInv, Typed
  <2>2. CASE Running(e)
    BY <1>2, <2>1, <2>2, TerminateInv DEF Abort, Flags, Running
  <2>3. CASE ~Running(e)
    BY <1>2, <2>1, <2>3 DEF Abort, IInv, Typed, Sound, Clean, PipesClosed, Untouched
  <2> QED BY <2>2, <2>3
<1>3. CASE TimerFires(e)
    BY <1>3, TerminateInv DEF TimerFires, Running, Flags, IInv, Typed
<1>4. CASE CallStep(e)
    BY <1>4, CallInv
<1>5. CASE Consume(e)
  <2>1. Typed'
    <3>1. signal' \in [Engines -> BOOLEAN]
      <4>1. PICK aborted \in {signal[e], FALSE} :
                signal' = [signal EXCEPT ![e] = aborted]
        BY <1>5 DEF Consume
      <4>2. signal \in [Engines -> BOOLEAN]
        BY DEF IInv, Typed
      <4>3. aborted \in BOOLEAN
        BY <4>2, Zenon
      <4> QED BY <4>1, <4>2, <4>3
    <3>2. flags' \in [Engines -> SUBSET Flags] /\ late' \in [Engines -> BOOLEAN]
          /\ terminated' \in [Engines -> BOOLEAN]
      BY <1>5 DEF Consume, IInv, Typed
    <3>3. ties' \in [Engines -> [group : BOOLEAN, pipe : BOOLEAN]]
      BY <1>5 DEF Consume, IInv, Typed
    <3> QED BY <1>5, <3>1, <3>2, <3>3 DEF Consume, IInv, Typed, shared
  <2>2. Sound(e)' /\ Clean(e)'
    BY <1>5 DEF Consume, IInv, Typed, Sound, Clean
  <2> QED BY <1>5, <2>1, <2>2 DEF Consume, IInv, Typed, Untouched
<1>6. CASE Fork(e)
    BY <1>6 DEF Fork, IInv, Typed, Sound, Clean, PipesClosed, Untouched
<1>7. CASE Write(e)
    BY <1>7 DEF Write, IInv, Typed, Sound, Clean, PipesClosed, Untouched
<1>8. CASE Flood(e)
  <2>1. CASE terminated[e]
    BY <1>8, <2>1 DEF Flood, IInv, Typed, Sound, Clean, PipesClosed, Untouched
  <2>2. CASE ~terminated[e]
    BY <1>8, <2>2, TerminateInv DEF Flood, CanWrite, Flags, IInv, Typed
  <2> QED BY <2>1, <2>2 DEF IInv, Typed
<1>9. CASE ChildExits(e)
    BY <1>9 DEF ChildExits, IInv, Typed, Sound, Clean, PipesClosed, Untouched
<1>10. CASE HelperExits(e)
    BY <1>10 DEF HelperExits, IInv, Typed, Sound, Clean, PipesClosed, Untouched
<1>11. CASE ChildDies(e)
    BY <1>11 DEF ChildDies, IInv, Typed, Sound, Clean, PipesClosed, Untouched
<1>12. CASE HelperDies(e)
    BY <1>12 DEF HelperDies, IInv, Typed, Sound, Clean, PipesClosed, Untouched
<1> QED BY <1>1, <1>2, <1>3, <1>4, <1>5, <1>6, <1>7, <1>8, <1>9, <1>10, <1>11, <1>12
        DEF Action

LEMMA Inductive == IInv /\ [Next]_vars => IInv'
<1> SUFFICES ASSUME IInv, [Next]_vars PROVE IInv'
    OBVIOUS
<1>1. CASE UNCHANGED vars
    BY <1>1 DEF vars, shared, local, IInv, Typed, Sound, Clean, PipesClosed
<1>2. CASE Next
  <2>1. PICK e \in Engines : Action(e)
    BY <1>2 DEF Next, Action
  <2>2. Typed' /\ Sound(e)' /\ Clean(e)' /\ \A d \in Engines \ {e} : Untouched(d)
    BY <2>1, ActionInv
  <2>3. ASSUME NEW d \in Engines, d # e PROVE Sound(d)' /\ Clean(d)'
    BY <2>2, <2>3 DEF IInv, Untouched, Sound, Clean, PipesClosed
  <2> QED BY <2>2, <2>3 DEF IInv
<1> QED BY <1>1, <1>2

LEMMA Invariant == Spec => []IInv
BY InitInv, Inductive, PTL DEF Spec

\* A settled call leaves nothing behind: a Result comes only from a Worker that
\* nobody began to kill, and nothing of a killed group goes on (the close handler
\* of CommandWorker).
THEOREM SettledCalls == Spec => []SettledClean
<1>1. IInv => SettledClean
    BY DEF IInv, Clean, SettledClean
<1> QED BY <1>1, Invariant, PTL

-------------------------------------------------------------------------------
\* The refinement.

LEMMA SeenOfOne ==
    ASSUME NEW e \in Engines, \A d \in Engines \ {e} : Untouched(d)
    PROVE  callsSeen' = [callsSeen EXCEPT ![e] = callsSeen'[e]]
<1>1. ASSUME NEW d \in Engines \ {e} PROVE callOf(d)' = callOf(d)
    BY <1>1 DEF callOf, Untouched
<1>2. callsSeen' = [d \in Engines |-> callOf(d)']
    BY DEF callsSeen
<1>3. callsSeen = [d \in Engines |-> callOf(d)]
    BY DEF callsSeen
<1>4. callsSeen'[e] = callOf(e)'
    BY <1>2
<1> QED BY <1>1, <1>2, <1>3, <1>4

\* What a step of engine e may make of its call.
Moves(e) ==
    \/ callsSeen'[e] = callsSeen[e]
    \/ callsSeen[e] = "idle" /\ callsSeen'[e] \in {"active", "late"}
    \/ callsSeen[e] = "active" /\ callsSeen'[e] \in {"result", "deferred", "error"}
    \/ callsSeen[e] = "late" /\ callsSeen'[e] = "error"
    \/ callsSeen[e] \in {"result", "deferred", "error"} /\ callsSeen'[e] = "idle"

LEMMA ActionMoves == ASSUME NEW e \in Engines, IInv, IInv', Action(e) PROVE Moves(e)
<1> USE DEF Moves, callsSeen, callOf
<1>1. CASE Launch(e)
    BY <1>1 DEF Launch, IInv, Typed
<1>2. CASE Consume(e)
    BY <1>2 DEF Consume, IInv, Typed
<1>3. CASE CallStep(e)
  <2>1. late[e] => terminated[e]
    BY DEF IInv, Sound
  <2>2. CASE SpawnError(e)
    BY <1>3, <2>2 DEF SpawnError, Settle, IInv, Typed
  <2>3. CASE CloseSettles(e)
    <3>1. closeVerdict(e) \in {"resolved", "cancelled", "timeout", "provider_failure"}
      BY <2>3, VerdictTyped DEF CloseSettles
    <3>2. closeVerdict(e) = "resolved" => ~late[e]
      BY <2>1, VerdictClean DEF IInv
    <3> QED BY <2>3, <3>1, <3>2 DEF CloseSettles, Settle, Running, IInv, Typed
  <2>4. CASE CloseRecords(e)
    BY <2>4 DEF CloseRecords, Running, IInv, Typed
  <2>5. CASE RecordRefused(e)
    BY <2>5 DEF RecordRefused, Settle, IInv, Typed
  <2>6. CASE RecordWritten(e)
    BY <2>1, <2>6 DEF RecordWritten, Settle, IInv, Typed, Sound
  <2> QED BY <1>3, <2>2, <2>3, <2>4, <2>5, <2>6 DEF CallStep
<1>4. CASE /\ ~Launch(e) /\ ~Consume(e) /\ ~CallStep(e)
  <2>1. phase' = phase /\ outcome' = outcome /\ late' = late
    BY <1>4 DEF Action, Abort, TimerFires, Fork, Write, Flood, ChildExits,
                HelperExits, ChildDies, HelperDies, Terminate
  <2> QED BY <2>1
<1> QED BY <1>1, <1>2, <1>3, <1>4

LEMMA StepRefines == IInv /\ IInv' /\ [Next]_vars => [Call!Next]_(callsSeen)
<1> SUFFICES ASSUME IInv, IInv', [Next]_vars, callsSeen' # callsSeen PROVE Call!Next
    OBVIOUS
<1>1. Next
    BY DEF vars, local, callsSeen, callOf
<1>2. PICK e \in Engines : Action(e)
    BY <1>1 DEF Next, Action
<1>3. callsSeen' = [callsSeen EXCEPT ![e] = callsSeen'[e]]
    BY <1>2, ActionInv, SeenOfOne
<1>4. Moves(e)
    BY <1>2, ActionMoves
<1>5. callsSeen'[e] # callsSeen[e]
    BY <1>3 DEF callsSeen
<1>6. Call!Begin(e) \/ Call!Settle(e) \/ Call!SettleLate(e) \/ Call!Consume(e)
    BY <1>3, <1>4, <1>5 DEF Moves, Call!Begin, Call!Settle, Call!SettleLate,
                            Call!Consume, Call!Settlements, callsSeen
<1> QED BY <1>6 DEF Call!Next

\* The transport is the one the engine relies on: a call settles once, and with
\* an error if the signal was aborted before its child was spawned
\* (CommandWorker.execute against LoopEngine.run).
THEOREM Implementation == Spec => ImplementsCall
<1>1. Init => Call!Init
    BY DEF Init, Call!Init, callsSeen, callOf
<1>2. IInv /\ IInv' /\ [Next]_vars => [Call!Next]_(callsSeen)
    BY StepRefines
<1> QED BY <1>1, <1>2, Invariant, PTL DEF Spec, ImplementsCall, Call!Spec

-------------------------------------------------------------------------------
\* One engine.

\* While a record is under way its snapshot is the file, and a structured output
\* names a session.
Counted ==
    /\ sessions \in [Sessions -> Row] /\ recorded \in [Sessions -> Nat]
    /\ snapshot \in [Engines -> [Sessions -> Row]]
    /\ DOMAIN stdout = Engines
    /\ \A e \in Engines :
          /\ stdout[e].kind \in Structured => stdout[e].session \in Sessions
          /\ phase[e] = "recording" => /\ stdout[e].kind \in Structured
                                       /\ snapshot[e] = sessions
    /\ SessionsCounted

OneEngine == \A d, e \in Engines : d = e

LEMMA InitCounted == Init => Counted
<1> SUFFICES ASSUME Init PROVE Counted
    OBVIOUS
<1>1. NoRow \in Row
    BY DEF NoRow, Row
<1>2. sessions \in [Sessions -> Row] /\ recorded \in [Sessions -> Nat]
      /\ snapshot \in [Engines -> [Sessions -> Row]]
    BY <1>1 DEF Init
<1>3. SessionsCounted
    BY DEF Init, NoRow, SessionsCounted
<1> QED BY <1>2, <1>3 DEF Init, Counted, NoOutput, Structured

LEMMA RecordCounted ==
    ASSUME OneEngine, NEW e \in Engines, IInv, Counted, RecordWritten(e)
    PROVE  Counted'
<1> DEFINE s == stdout[e].session
<1>1. s \in Sessions /\ snapshot[e] = sessions /\ phase[e] = "recording"
    BY DEF Counted, RecordWritten
<1>2. sessions[s] \in Row /\ recorded[s] \in Nat
    BY <1>1 DEF Counted
<1>3. MergedRow(e) = [owner |-> owner[e], invocations |-> sessions[s].invocations + 1]
    BY <1>1 DEF MergedRow, RowOf
<1>4. MergedRow(e) \in Row
    BY <1>2, <1>3 DEF Row, IInv, Typed
<1>5. sessions' = [sessions EXCEPT ![s] = MergedRow(e)]
      /\ recorded' = [recorded EXCEPT ![s] = @ + 1]
    BY <1>1 DEF RecordWritten
<1>6. sessions' \in [Sessions -> Row] /\ recorded' \in [Sessions -> Nat]
    BY <1>1, <1>2, <1>4, <1>5 DEF Counted
<1>7. SessionsCounted'
  <2>1. ASSUME NEW t \in Sessions
        PROVE  sessions'[t].invocations = recorded'[t]
    <3>1. sessions[t].invocations = recorded[t]
      BY DEF Counted, SessionsCounted
    <3>2. CASE t = s
      BY <1>1, <1>3, <1>5, <3>1, <3>2 DEF Counted
    <3>3. CASE t # s
      BY <1>5, <3>1, <3>3 DEF Counted
    <3> QED BY <3>2, <3>3
  <2> QED BY <2>1 DEF SessionsCounted
<1>8. \A d \in Engines : phase'[d] # "recording"
    BY DEF RecordWritten, Settle, OneEngine, IInv, Typed
<1> QED BY <1>6, <1>7, <1>8 DEF Counted, RecordWritten

LEMMA ActionCounted ==
    ASSUME OneEngine, NEW e \in Engines, IInv, Counted, Action(e)
    PROVE  Counted'
<1>1. CASE RecordWritten(e)
    BY <1>1, RecordCounted
<1>2. CASE ~RecordWritten(e)
  <2>1. UNCHANGED <<sessions, recorded>>
    BY <1>2 DEF Action, CallStep, Launch, Abort, TimerFires, SpawnError, CloseSettles,
                CloseRecords, RecordRefused, Consume, Fork, Write, Flood, ChildExits,
                HelperExits, ChildDies, HelperDies, shared
  <2>2. CASE Write(e) \/ Flood(e)
    <3>1. UNCHANGED <<phase, snapshot>> /\ phase[e] = "running"
      BY <2>2 DEF Write, Flood, CanWrite
    <3>2. \E output : /\ stdout' = [stdout EXCEPT ![e] = output]
                      /\ output.kind \in Structured => output.session \in Sessions
      <4>1. CASE Write(e)
        <5>1. PICK output \in Output : stdout' = [stdout EXCEPT ![e] = output]
          BY <4>1 DEF Write
        <5>2. output.kind \in Structured => output.session \in Sessions
          BY DEF Output, NoOutput, Structured
        <5> QED BY <5>1, <5>2
      <4>2. CASE Flood(e)
        <5> DEFINE flood == [kind |-> "flood", session |-> "none"]
        <5>1. stdout' = [stdout EXCEPT ![e] = flood]
          BY <4>2 DEF Flood
        <5>2. flood.kind \notin Structured
          BY DEF Structured
        <5> HIDE DEF flood
        <5> QED BY <5>1, <5>2
      <4> QED BY <2>2, <4>1, <4>2
    <3> QED BY <2>1, <3>1, <3>2 DEF Counted, SessionsCounted, OneEngine
  <2>3. CASE Consume(e)
    BY <2>1, <2>3 DEF Consume, Counted, SessionsCounted, OneEngine, NoOutput,
                      Structured, IInv, Typed
  <2>4. CASE CloseRecords(e)
    <3>1. stdout[e].kind \in Structured
      BY <2>4 DEF CloseRecords, closeVerdict, deliver
    <3> QED BY <2>1, <2>4, <3>1 DEF CloseRecords, Counted, SessionsCounted, OneEngine
  <2>5. CASE ~Write(e) /\ ~Flood(e) /\ ~Consume(e) /\ ~CloseRecords(e)
    <3>1. UNCHANGED <<stdout, snapshot>>
      BY <1>2, <2>5 DEF Action, CallStep, Launch, Abort, TimerFires, SpawnError,
           CloseSettles, RecordRefused, Fork, ChildExits, HelperExits, ChildDies,
           HelperDies
    <3>2. \A d \in Engines : phase'[d] = "recording" => phase[d] = "recording"
      BY <1>2, <2>5 DEF Action, CallStep, Launch, Abort, TimerFires, SpawnError,
           CloseSettles, RecordRefused, Fork, ChildExits, HelperExits, ChildDies,
           HelperDies, Settle, IInv, Typed
    <3> QED BY <2>1, <3>1, <3>2 DEF Counted, SessionsCounted
  <2> QED BY <2>2, <2>3, <2>4, <2>5
<1> QED BY <1>1, <1>2

LEMMA StepCounted == OneEngine /\ IInv /\ Counted /\ [Next]_vars => Counted'
<1> SUFFICES ASSUME OneEngine, IInv, Counted, [Next]_vars PROVE Counted'
    OBVIOUS
<1>1. CASE UNCHANGED vars
    BY <1>1 DEF vars, shared, local, Counted, SessionsCounted
<1>2. CASE Next
    BY <1>2, ActionCounted DEF Next, Action
<1> QED BY <1>1, <1>2

\* One engine counts every invocation whose record it was told is written
\* (SessionLedger.record, which with two engines loses some).
THEOREM InvocationsCounted ==
    ASSUME OneEngine PROVE Spec => []SessionsCounted
<1>1. Init => Counted
    BY InitCounted
<1>2. IInv /\ Counted /\ [Next]_vars => Counted'
    BY StepCounted
<1>3. Counted => SessionsCounted
    BY DEF Counted
<1> QED BY <1>1, <1>2, <1>3, Invariant, PTL DEF Spec

-------------------------------------------------------------------------------
(* Least and greatest numbers *)

LEMMA MinExists ==
    ASSUME NEW T, T \subseteq Nat, T # {}
    PROVE  \E i \in T : \A j \in T : i <= j
<1> DEFINE R == OpToRel(<, Nat)
<1>1. PICK x \in T : \A y \in T : ~ (<<y, x>> \in R)
  <2>1. IsWellFoundedOn(R, Nat)
    BY NatLessThanWellFounded, Zenon
  <2> HIDE DEF R
  <2> QED BY <2>1, WFMin
<1>2. \A j \in T : x <= j
  <2> TAKE j \in T
  <2>1. x \in Nat /\ j \in Nat
    OBVIOUS
  <2>2. ~(j < x)
    BY <1>1, <2>1 DEF R, OpToRel
  <2> QED BY <2>1, <2>2
<1> QED BY <1>2

LEMMA MaxExists ==
    ASSUME NEW n \in Nat, NEW T, T \subseteq 1 .. n, T # {}
    PROVE  \E i \in T : \A j \in T : j <= i
<1> DEFINE U == {n - i : i \in T}
<1>1. U \subseteq Nat /\ U # {}
  OBVIOUS
<1>2. PICK u \in U : \A v \in U : u <= v
  <2> HIDE DEF U
  <2> QED BY <1>1, MinExists
<1>3. PICK i \in T : u = n - i
  OBVIOUS
<1>4. \A j \in T : j <= i
  <2> TAKE j \in T
  <2>1. n - i <= n - j
    BY <1>2, <1>3
  <2>2. i \in Nat /\ j \in Nat
    OBVIOUS
  <2> QED BY <2>1, <2>2
<1> QED BY <1>4

-------------------------------------------------------------------------------
(* The lines an execution is built from *)

Rejections(stream) == {i \in DOMAIN stream : can_defer(stream[i])}
Rejected(stream) == stream # << >> /\ can_defer(stream[Len(stream)])

\* No line but the last one is a rejection.
LastOnly(stream) == \A i \in Rejections(stream) : i = Len(stream)

LEMMA LinesAre ==
    ASSUME NEW ls
    PROVE  /\ LimitLines(ls) = {i \in DOMAIN ls : parseRateLimitEvent(ls[i])}
           /\ ResultLines(ls) = {i \in DOMAIN ls : ls[i].type = "result"}
           /\ Having(ls, LAMBDA e : can_defer(e)) = Rejections(ls)
BY DEF LimitLines, ResultLines, Having, Rejections

\* Of lines that end with their first rejection, or have none, the latest rate
\* limit can be deferred to when they end with one.
LEMMA LatestLimit ==
    ASSUME NEW S, NEW ls \in Seq(S), LastOnly(ls)
    PROVE  LET limits == LimitLines(ls)
               latest == CHOOSE i \in limits : \A j \in limits : j <= i IN
           /\ limits # {} /\ can_defer(ls[latest]) <=> Rejected(ls)
           /\ Rejected(ls) => latest = Len(ls)
<1> DEFINE limits == LimitLines(ls)
           latest == CHOOSE i \in limits : \A j \in limits : j <= i
<1>1. Len(ls) \in Nat /\ DOMAIN ls = 1 .. Len(ls)
  BY LenProperties
<1>2. limits = {i \in 1 .. Len(ls) : parseRateLimitEvent(ls[i])}
  BY <1>1, LinesAre
<1> HIDE DEF limits
<1>3. Rejected(ls) => Len(ls) \in limits /\ latest = Len(ls)
  <2> SUFFICES ASSUME Rejected(ls)
               PROVE  Len(ls) \in limits /\ latest = Len(ls)
    OBVIOUS
  <2>1. Len(ls) # 0
    BY EmptySeq DEF Rejected
  <2>2. Len(ls) \in limits
    BY <1>1, <1>2, <2>1 DEF Rejected, can_defer
  <2>3. \A j \in limits : j <= Len(ls)
    BY <1>1, <1>2
  <2>4. ASSUME NEW i \in limits, \A j \in limits : j <= i
        PROVE  i = Len(ls)
    <3>1. Len(ls) <= i /\ i <= Len(ls)
      BY <2>2, <2>3, <2>4
    <3>2. i \in 1 .. Len(ls)
      BY <1>2
    <3>3. i \in Int /\ Len(ls) \in Int
      BY <1>1, <3>2
    <3> HIDE DEF latest
    <3> QED BY <3>1, <3>3
  <2> QED BY <2>2, <2>3, <2>4
<1>4. limits # {} => latest \in limits
  <2> SUFFICES ASSUME limits # {}
               PROVE  latest \in limits
    OBVIOUS
  <2>1. \E i \in limits : \A j \in limits : j <= i
    BY <1>1, <1>2, MaxExists
  <2> QED BY <2>1
<1> HIDE DEF latest
<1>5. limits # {} /\ can_defer(ls[latest]) => Rejected(ls)
  <2> SUFFICES ASSUME limits # {}, can_defer(ls[latest])
               PROVE  Rejected(ls)
    OBVIOUS
  <2>1. latest \in Rejections(ls)
    BY <1>1, <1>2, <1>4 DEF Rejections
  <2>2. latest = Len(ls)
    BY <2>1 DEF LastOnly
  <2>3. ls # << >>
    BY <1>1, <1>2, <1>4, EmptySeq
  <2> QED BY <2>2, <2>3 DEF Rejected
<1>6. Rejected(ls) => limits # {} /\ can_defer(ls[latest])
  BY <1>3 DEF Rejected
<1> QED BY <1>3, <1>5, <1>6 DEF latest, limits

\* What is printed of such lines.
LEMMA ExecutionOf ==
    ASSUME NEW S, NEW ls \in Seq(S), LastOnly(ls), NEW ended
    PROVE  LET x == claudeExecution(ls, ended)
               id == reportedSessionId(ls) IN
           /\ x.session = id
           /\ x.retryAt # 0 <=> Rejected(ls) /\ expected \in {"none", id}
           /\ x.retryAt # 0 => x.retryAt = ls[Len(ls)].resetsAt
           /\ x.result = "success" =>
                 /\ ended = "zero"
                 /\ \E e \in Range(ls) :
                       e.type = "result" /\ ~e.is_error /\ resultOf(e.text) = "success"
<1> DEFINE id == reportedSessionId(ls)
           x == Execution(id, 0)
           limits == LimitLines(ls)
           latest == CHOOSE i \in limits : \A j \in limits : j <= i
           results == ResultLines(ls)
           result == ls[CHOOSE i \in results : TRUE]
           Printed == claudeExecution(ls, ended)
<1>1. /\ limits # {} /\ can_defer(ls[latest]) <=> Rejected(ls)
      /\ Rejected(ls) => latest = Len(ls)
  BY LatestLimit
<1>2. results # {} => result \in Range(ls) /\ result.type = "result"
  <2>1. results = {i \in DOMAIN ls : ls[i].type = "result"}
    BY LinesAre
  <2>2. results # {} => (CHOOSE i \in results : TRUE) \in results
    OBVIOUS
  <2> QED BY <2>1, <2>2 DEF Range
<1>3. /\ x.session = id /\ x.retryAt = 0 /\ x.result = "none"
      /\ \A status : /\ Reporting(x, status).session = id
                     /\ Reporting(x, status).retryAt = 0
                     /\ Reporting(x, status).result = status
      /\ \A instant : /\ Deferring(x, instant).session = id
                      /\ Deferring(x, instant).retryAt = instant
                      /\ Deferring(x, instant).result = "none"
  BY DEF Execution, Reporting, Deferring
<1>4. Printed =
        IF expected \notin {"none", x.session} THEN Reporting(x, "failure")
        ELSE IF limits # {} /\ can_defer(ls[latest])
        THEN Deferring(x, ls[latest].resetsAt)
        ELSE IF ended # "zero" \/ results = {} THEN Reporting(x, "failure")
        ELSE IF result.is_error THEN Reporting(x, "failure")
        ELSE Reporting(x, resultOf(result.text))
  BY DEF claudeExecution
<1> HIDE DEF id, x, limits, latest, results, result, Printed
<1>5. CASE expected \notin {"none", id}
  BY <1>3, <1>4, <1>5 DEF Printed, id
<1>6. CASE expected \in {"none", id} /\ Rejected(ls)
  <2>1. Printed = Deferring(x, ls[Len(ls)].resetsAt)
    BY <1>1, <1>3, <1>4, <1>6
  <2>2. ls[Len(ls)].resetsAt # 0
    BY <1>6 DEF Rejected, can_defer
  <2> QED BY <1>3, <1>6, <2>1, <2>2 DEF Printed, id
<1>7. CASE expected \in {"none", id} /\ ~Rejected(ls)
  <2>1. CASE ended = "zero" /\ results # {} /\ ~result.is_error
    <3>1. Printed = Reporting(x, resultOf(result.text))
      BY <1>1, <1>3, <1>4, <1>7, <2>1
    <3> QED BY <1>2, <1>3, <1>7, <2>1, <3>1 DEF Printed, id
  <2>2. CASE ~(ended = "zero" /\ results # {} /\ ~result.is_error)
    <3>1. Printed = Reporting(x, "failure")
      BY <1>1, <1>3, <1>4, <1>7, <2>2
    <3> QED BY <1>3, <1>7, <3>1 DEF Printed, id
  <2> QED BY <2>1, <2>2
<1> QED BY <1>5, <1>6, <1>7

-------------------------------------------------------------------------------
(* The invariant *)

ClaudeTyped ==
    /\ written \in Seq(Events) /\ tail \in {NoLine} \cup Events
    /\ arrived \in 0 .. Len(written) /\ kept \in 0 .. arrived

\* Nothing is known of a session that was not started.
Unstarted ==
    adapter = "starting" =>
        /\ claude = "none" /\ arrived = 0 /\ written = << >> /\ tail = NoLine

\* The handler keeps what ends with the first rejection that arrived, and has
\* killed the session then.
KeptFirst ==
    /\ kept = 0 => \A i \in 1 .. arrived : ~can_defer(written[i])
    /\ kept # 0 => /\ claude = "exited" /\ can_defer(written[kept])
                   /\ \A i \in 1 .. kept - 1 : ~can_defer(written[i])

\* The output is closed when the adapter has parsed it: it is the same from then on.
OutputClosed ==
    /\ adapter = "printed" => claude = "exited"
    /\ adapter = "refused" => claude \in {"none", "exited"}

ClaudeInv == ClaudeTyped /\ Unstarted /\ KeptFirst /\ OutputClosed /\ FirstRejectionDecides

-------------------------------------------------------------------------------
\* What the adapter parses when the output is closed is what the session wrote up
\* to its first rejection.
LEMMA KeptLines ==
    ASSUME ClaudeTyped, KeptFirst, arrived = Len(written)
    PROVE  LET stream == IF kept > 0 THEN SubSeq(written, 1, kept) ELSE Stdout IN
           /\ stream = UpToRejection(Stdout)
           /\ stream \in Seq(Events) /\ LastOnly(stream)
<1> DEFINE n == Len(written)
           stream == IF kept > 0 THEN SubSeq(written, 1, kept) ELSE Stdout
           rejections == Rejections(Stdout)
           first == CHOOSE i \in rejections : \A j \in rejections : i <= j
<1>1. /\ n \in Nat /\ written \in Seq(Events) /\ kept \in 0 .. n
      /\ tail # NoLine => tail \in Events
  BY LenProperties DEF ClaudeTyped
<1>2. /\ Stdout \in Seq(Events) /\ Len(Stdout) \in {n, n + 1}
      /\ \A i \in 1 .. n : Stdout[i] = written[i]
  BY <1>1, AppendProperties DEF Stdout
<1>3. DOMAIN Stdout = 1 .. Len(Stdout)
  BY <1>2, LenProperties
<1>4. UpToRejection(Stdout) = IF rejections = {} THEN Stdout ELSE SubSeq(Stdout, 1, first)
  BY DEF UpToRejection, Having, Rejections
<1>5. rejections = {i \in 1 .. Len(Stdout) : can_defer(Stdout[i])}
  BY <1>3 DEF Rejections
<1>6. CASE kept # 0
  <2>1. /\ kept \in 1 .. n /\ can_defer(written[kept])
        /\ \A i \in 1 .. kept - 1 : ~can_defer(written[i])
    BY <1>1, <1>6 DEF KeptFirst
  <2>2. kept \in rejections
    BY <1>1, <1>2, <1>5, <2>1
  <2>3. \A j \in rejections : kept <= j
    <3> SUFFICES ASSUME NEW j \in rejections, j < kept
                 PROVE  FALSE
      BY <1>1, <1>2, <1>5
    <3>1. j \in 1 .. kept - 1 /\ j \in 1 .. n
      BY <1>1, <1>2, <1>5, <2>1
    <3> QED BY <1>2, <1>5, <2>1, <3>1
  <2>4. first = kept
    <3>1. \A i \in rejections : (\A j \in rejections : i <= j) => i = kept
      <4> TAKE i \in rejections
      <4> HAVE \A j \in rejections : i <= j
      <4>1. i <= kept /\ kept <= i
        BY <2>2, <2>3
      <4>2. i \in Int /\ kept \in Int
        BY <1>1, <1>2, <1>5
      <4> HIDE DEF first, rejections
      <4> QED BY <4>1, <4>2
    <3> HIDE DEF rejections
    <3> QED BY <2>2, <2>3, <3>1
  <2>5. /\ SubSeq(Stdout, 1, kept) \in Seq(Events)
        /\ SubSeq(written, 1, kept) \in Seq(Events)
        /\ Len(SubSeq(Stdout, 1, kept)) = kept /\ Len(SubSeq(written, 1, kept)) = kept
        /\ \A i \in 1 .. kept : SubSeq(Stdout, 1, kept)[i] = Stdout[i]
        /\ \A i \in 1 .. kept : SubSeq(written, 1, kept)[i] = written[i]
    <3>1. \A i \in 1 .. kept : Stdout[i] \in Events /\ written[i] \in Events
      BY <1>1, <1>2, <2>1, ElementOfSeq
    <3>2. kept \in Int /\ kept - 1 + 1 = kept /\ 1 <= kept
      BY <2>1
    <3>3. \A i \in 1 .. kept : 1 + i - 1 = i
      BY <2>1
    <3> QED BY <3>1, <3>2, <3>3, SubSeqProperties
  <2>6. \A i \in 1 .. kept : Stdout[i] = written[i]
    BY <1>2, <2>1
  <2>7. SubSeq(Stdout, 1, kept) = SubSeq(written, 1, kept)
    BY <2>5, <2>6, SeqEqual
  <2>8. stream = SubSeq(written, 1, kept)
    BY <2>1
  <2>9. stream = UpToRejection(Stdout)
    BY <1>4, <2>2, <2>4, <2>7, <2>8
  <2>10. LastOnly(stream)
    <3> SUFFICES ASSUME NEW i \in Rejections(SubSeq(written, 1, kept))
                 PROVE  i = kept
      BY <2>5, <2>8 DEF LastOnly
    <3>1. i \in 1 .. kept /\ can_defer(written[i])
      BY <2>5, LenProperties DEF Rejections
    <3> QED BY <2>1, <3>1
  <2> QED BY <2>5, <2>8, <2>9, <2>10
<1>7. CASE kept = 0
  <2>1. stream = Stdout
    BY <1>7
  <2>2. \A i \in 1 .. n : ~can_defer(Stdout[i])
    BY <1>2, <1>7 DEF KeptFirst
  <2>3. \A i \in rejections : i = Len(Stdout)
    BY <1>1, <1>2, <1>5, <2>2
  <2>4. LastOnly(stream)
    BY <2>1, <2>3 DEF LastOnly
  <2>5. stream = UpToRejection(Stdout)
    <3>1. CASE rejections = {}
      BY <1>4, <2>1, <3>1
    <3>2. CASE rejections # {}
      <4>1. rejections = {Len(Stdout)} /\ Len(Stdout) \in Int
        BY <1>1, <1>2, <2>3, <3>2
      <4>2. first = Len(Stdout)
        <5> HIDE DEF rejections
        <5> QED BY <4>1
      <4> QED BY <1>2, <1>4, <2>1, <3>2, <4>2, SubSeqFull
    <3> QED BY <3>1, <3>2
  <2> QED BY <1>2, <2>1, <2>4, <2>5
<1> QED BY <1>6, <1>7

\* What is parsed and printed is what the first rejection ends.
LEMMA ClosePreserves == ASSUME ClaudeInv, Close PROVE ClaudeInv'
<1> DEFINE stream == IF kept > 0 THEN SubSeq(written, 1, kept) ELSE Stdout
<1>1. ClaudeTyped' /\ Unstarted' /\ KeptFirst' /\ OutputClosed'
  BY DEF ClaudeInv, Close, ClaudeTyped, Unstarted, KeptFirst, OutputClosed
<1>2. UNCHANGED <<written, tail, expected, exitCode, claude>>
  BY DEF Close
<1>3. stream = UpToRejection(Stdout) /\ stream \in Seq(Events) /\ LastOnly(stream)
  BY KeptLines DEF ClaudeInv, Close
<1>4. UpToRejection(Stdout)' = stream
  <2>1. Stdout' = Stdout
    BY <1>2 DEF Stdout
  <2>2. UpToRejection(Stdout)' = UpToRejection(Stdout)
    BY <2>1 DEF UpToRejection, Having
  <2> QED BY <1>3, <2>2
<1>5. \/ /\ Unparseable(stream) \/ reportedSessionId(stream) = "none"
         /\ adapter' = "refused"
      \/ /\ ~Unparseable(stream)
         /\ adapter' = "printed"
         /\ claudeSays' = claudeExecution(stream, exitCode)
  BY DEF Close
<1> HIDE DEF stream
<1>6. FirstRejectionDecides'
  <2>1. CASE adapter' = "refused"
    BY <1>4, <1>5, <2>1 DEF FirstRejectionDecides
  <2>2. CASE adapter' = "printed"
    BY <1>2, <1>3, <1>4, <1>5, <2>2, ExecutionOf DEF FirstRejectionDecides, Rejected
  <2> QED BY <1>5, <2>1, <2>2
<1> QED BY <1>1, <1>6 DEF ClaudeInv

LEMMA ClaudeInitHolds == ClaudeInit => ClaudeInv
<1> SUFFICES ASSUME ClaudeInit PROVE ClaudeInv
  OBVIOUS
<1>1. ClaudeTyped
  BY EmptySeq DEF ClaudeInit, ClaudeTyped
<1> QED BY <1>1 DEF ClaudeInit, ClaudeInv, Unstarted, KeptFirst, OutputClosed, FirstRejectionDecides

LEMMA StartClaudePreserves == ASSUME ClaudeInv, StartClaude PROVE ClaudeInv'
BY DEF ClaudeInv, StartClaude, ClaudeTyped, Unstarted, KeptFirst, OutputClosed, FirstRejectionDecides

\* A chunk that holds the first rejection ends what is kept, and the session.
LEMMA DataPreserves == ASSUME ClaudeInv, Data PROVE ClaudeInv'
<1>1. /\ adapter = "running" /\ adapter' = "running"
      /\ written' = written /\ tail' = tail
  BY DEF Data
<1>2. PICK n \in arrived + 1 .. Len(written) :
          /\ arrived' = n
          /\ LET rejections == {i \in arrived + 1 .. n : can_defer(written[i])} IN
             IF kept = 0 /\ rejections # {}
             THEN /\ kept' = CHOOSE i \in rejections : \A j \in rejections : i <= j
                  /\ claude' = "exited"
             ELSE kept' = kept /\ claude' = claude
  BY DEF Data, terminateSession
<1> DEFINE rejections == {i \in arrived + 1 .. n : can_defer(written[i])}
<1>3. /\ Len(written) \in Nat /\ arrived \in 0 .. Len(written) /\ kept \in 0 .. arrived
      /\ n \in 0 .. Len(written) /\ arrived < n
  BY <1>2, LenProperties DEF ClaudeInv, ClaudeTyped
<1>4. CASE kept = 0 /\ rejections # {}
  <2>1. kept' = CHOOSE i \in rejections : \A j \in rejections : i <= j
    BY <1>2, <1>4
  <2>2. \E i \in rejections : \A j \in rejections : i <= j
    <3>1. rejections \subseteq Nat /\ rejections # {}
      BY <1>3, <1>4
    <3> HIDE DEF rejections
    <3> QED BY <3>1, MinExists
  <2>3. PICK k \in rejections : kept' = k /\ \A j \in rejections : k <= j
    <3> HIDE DEF rejections
    <3> QED BY <2>1, <2>2
  <2>4. /\ k \in arrived + 1 .. n /\ can_defer(written[k])
        /\ k \in Nat /\ arrived \in Nat /\ n \in Nat /\ k # 0
    BY <1>3, <2>3
  <2>5. \A i \in 1 .. k - 1 : ~can_defer(written[i])
    <3> SUFFICES ASSUME NEW i \in 1 .. k - 1, can_defer(written[i])
                 PROVE  FALSE
      OBVIOUS
    <3>1. k \in Nat /\ i \in Nat /\ 1 <= i /\ i < k
      BY <2>4
    <3>2. CASE i <= arrived
      BY <1>4, <2>4, <3>1, <3>2 DEF ClaudeInv, KeptFirst
    <3>3. CASE i > arrived
      <4>1. i \in rejections
        BY <2>4, <3>1, <3>3
      <4>2. k <= i
        BY <2>3, <4>1
      <4> QED BY <3>1, <4>2
    <3> QED BY <2>4, <3>1, <3>2, <3>3
  <2>6. claude' = "exited"
    BY <1>2, <1>4 DEF rejections
  <2>7. ClaudeTyped'
    BY <1>1, <1>2, <1>3, <2>3, <2>4 DEF ClaudeInv, ClaudeTyped
  <2>8. KeptFirst'
    <3>1. kept' = k
      BY <2>3
    <3> HIDE DEF rejections
    <3> QED BY <1>1, <2>4, <2>5, <2>6, <3>1 DEF KeptFirst
  <2> QED BY <1>1, <2>6, <2>7, <2>8 DEF ClaudeInv, Unstarted, OutputClosed, FirstRejectionDecides
<1>5. CASE ~(kept = 0 /\ rejections # {})
  <2>1. kept' = kept /\ claude' = claude
    BY <1>2, <1>5
  <2>2. ClaudeTyped'
    BY <1>1, <1>2, <1>3, <2>1 DEF ClaudeInv, ClaudeTyped
  <2>3. KeptFirst'
    <3>1. CASE kept = 0
      <4>1. \A i \in 1 .. n : ~can_defer(written[i])
        BY <1>3, <1>5, <3>1 DEF ClaudeInv, KeptFirst
      <4> QED BY <1>1, <1>2, <2>1, <3>1, <4>1 DEF KeptFirst
    <3>2. CASE kept # 0
      BY <1>1, <2>1, <3>2 DEF ClaudeInv, KeptFirst
    <3> QED BY <3>1, <3>2
  <2> QED BY <1>1, <2>1, <2>2, <2>3 DEF ClaudeInv, Unstarted, OutputClosed, FirstRejectionDecides
<1> QED BY <1>4, <1>5

\* A session that is alive has had no rejection read, so its next line is not kept out.
LEMMA WriteLinePreserves == ASSUME ClaudeInv, WriteLine PROVE ClaudeInv'
<1>1. PICK e \in Events : written' = Append(written, e)
  BY DEF WriteLine
<1>2. /\ claude = "alive" /\ adapter = "running"
      /\ UNCHANGED <<adapter, claude, tail, arrived, kept>>
  BY DEF WriteLine
<1>3. /\ written \in Seq(Events) /\ Len(written) \in Nat
      /\ arrived \in 0 .. Len(written) /\ kept = 0
      /\ \A i \in 1 .. arrived : ~can_defer(written[i])
  BY <1>2, LenProperties DEF ClaudeInv, ClaudeTyped, KeptFirst
<1>4. /\ written' \in Seq(Events) /\ Len(written') = Len(written) + 1
      /\ \A i \in 1 .. Len(written) : written'[i] = written[i]
  BY <1>1, <1>3, AppendProperties
<1>5. ClaudeTyped'
  BY <1>2, <1>3, <1>4 DEF ClaudeInv, ClaudeTyped
<1>6. KeptFirst'
  BY <1>2, <1>3, <1>4 DEF KeptFirst
<1> QED BY <1>2, <1>5, <1>6 DEF ClaudeInv, Unstarted, OutputClosed, FirstRejectionDecides

LEMMA StartToolPreserves == ASSUME ClaudeInv, StartTool PROVE ClaudeInv'
BY DEF ClaudeInv, StartTool, ClaudeTyped, Unstarted, KeptFirst, OutputClosed, FirstRejectionDecides

LEMMA ClaudeExitsPreserves == ASSUME ClaudeInv, ClaudeExits PROVE ClaudeInv'
BY DEF ClaudeInv, ClaudeExits, ClaudeTyped, Unstarted, KeptFirst, OutputClosed, FirstRejectionDecides

\* The lines of an adapter that is killed are gone.
LEMMA EngineKillsPreserves == ASSUME ClaudeInv, EngineKills PROVE ClaudeInv'
<1>1. ClaudeTyped' /\ KeptFirst'
  BY EmptySeq DEF ClaudeInv, EngineKills, ClaudeTyped, KeptFirst
<1> QED BY <1>1 DEF ClaudeInv, EngineKills, Unstarted, OutputClosed, FirstRejectionDecides

\* The end of a tool, and a stutter, change nothing the invariant reads.
LEMMA Stays ==
    ASSUME ClaudeInv,
           UNCHANGED <<expected, adapter, claude, exitCode, written, tail, arrived,
                       kept, claudeSays>>
    PROVE  ClaudeInv'
<1>1. Stdout' = Stdout
  BY DEF Stdout
<1>2. UpToRejection(Stdout)' = UpToRejection(Stdout)
  BY <1>1 DEF UpToRejection, Having
<1>3. FirstRejectionDecides'
  BY <1>2 DEF ClaudeInv, FirstRejectionDecides
<1> QED BY <1>3 DEF ClaudeInv, ClaudeTyped, Unstarted, KeptFirst, OutputClosed

\* What the Claude adapter prints, and whether it does, depends on the lines its
\* session wrote up to the first rejected rate limit, whatever the chunks in which
\* the data handler was given them, whatever followed in the same chunk, and however
\* the session ended: a deferral is printed exactly if those lines end with a
\* rejection (and the session is the one that was resumed), with that reset time.
THEOREM FirstRejectionAlwaysDecides == ClaudeSpec => []FirstRejectionDecides
<1>1. ClaudeInv /\ [ClaudeNext]_claudeVars => ClaudeInv'
  <2> SUFFICES ASSUME ClaudeInv, [ClaudeNext]_claudeVars PROVE ClaudeInv'
    OBVIOUS
  <2>1. CASE StartClaude
    BY <2>1, StartClaudePreserves
  <2>2. CASE Data
    BY <2>2, DataPreserves
  <2>3. CASE Close
    BY <2>3, ClosePreserves
  <2>4. CASE EngineKills
    BY <2>4, EngineKillsPreserves
  <2>5. CASE WriteLine
    BY <2>5, WriteLinePreserves
  <2>6. CASE StartTool
    BY <2>6, StartToolPreserves
  <2>7. CASE ToolEnds
    BY <2>7, Stays DEF ToolEnds
  <2>8. CASE ClaudeExits
    BY <2>8, ClaudeExitsPreserves
  <2>9. CASE UNCHANGED claudeVars
    BY <2>9, Stays DEF claudeVars
  <2> QED BY <2>1, <2>2, <2>3, <2>4, <2>5, <2>6, <2>7, <2>8, <2>9 DEF ClaudeNext
<1>2. ClaudeInv => FirstRejectionDecides
  BY DEF ClaudeInv
<1> QED BY <1>1, <1>2, ClaudeInitHolds, PTL DEF ClaudeSpec
-------------------------------------------------------------------------------
(* Codex: when a reset is *)

LEMMA TimesMonotone ==
    ASSUME NEW d \in Nat \ {0}, NEW a \in Int, NEW b \in Int
    PROVE  /\ a <= b => d * a <= d * b
           /\ a < b => d * a + d <= d * b
<1>1. ASSUME NEW c \in Nat PROVE d * c \in Nat
  OBVIOUS
<1>2. ASSUME a <= b PROVE d * a <= d * b
  <2>1. b - a \in Nat
    BY <1>2
  <2>2. d * (b - a) \in Nat
    BY <1>1, <2>1
  <2>3. d * (b - a) = d * b - d * a
    OBVIOUS
  <2> QED BY <2>2, <2>3
<1>3. ASSUME a < b PROVE d * a + d <= d * b
  <2>1. b - a - 1 \in Nat
    BY <1>3
  <2>2. d * (b - a - 1) \in Nat
    BY <1>1, <2>1
  <2>3. d * (b - a - 1) = d * b - d * a - d
    OBVIOUS
  <2> QED BY <2>2, <2>3
<1> QED BY <1>2, <1>3

LEMMA Division ==
    ASSUME NEW d \in Nat \ {0}, NEW t \in Nat
    PROVE  /\ t \div d \in Nat /\ t % d \in 0 .. d - 1
           /\ t = d * (t \div d) + (t % d)
OBVIOUS

LEMMA Quotient ==
    ASSUME NEW d \in Nat \ {0}, NEW q \in Nat, NEW r \in 0 .. d - 1
    PROVE  (d * q + r) % d = r
<1> DEFINE t == d * q + r
<1>1. t \in Nat
  <2>1. d * q \in Nat
    OBVIOUS
  <2> QED BY <2>1
<1>2. /\ t \div d \in Nat /\ t % d \in 0 .. d - 1
      /\ t = d * (t \div d) + (t % d)
  BY <1>1, Division
<1>3. t \div d = q
  <2>1. ~(t \div d < q)
    <3>1. t \div d < q => d * (t \div d) + d <= d * q
      BY <1>2, TimesMonotone
    <3> QED BY <1>2, <3>1
  <2>2. ~(q < t \div d)
    <3>1. q < t \div d => d * q + d <= d * (t \div d)
      BY <1>2, TimesMonotone
    <3> QED BY <1>2, <3>1
  <2> QED BY <1>2, <2>1, <2>2
<1> QED BY <1>2, <1>3

\* The next time of day after the anchor is the first instant with that time of day.
LEMMA ClockNearest ==
    ASSUME NEW anchor \in Nat, NEW unit \in 0 .. DayLength - 1
    PROVE  LET t == nearestFutureClock(anchor, unit) IN
           /\ t \in Nat /\ t > anchor /\ t % DayLength = unit
           /\ \A u \in anchor + 1 .. t - 1 : u % DayLength # unit
<1> DEFINE q == anchor \div DayLength
           r == anchor % DayLength
           today == q * DayLength + unit
           t == nearestFutureClock(anchor, unit)
<1>1. DayLength \in Nat \ {0}
  BY CalendarAssumption
<1>2. q \in Nat /\ r \in 0 .. DayLength - 1 /\ anchor = DayLength * q + r
  BY <1>1, Division
<1>3. today = DayLength * q + unit
  BY <1>1, <1>2
<1>4. DayLength * (q + 1) + unit = today + DayLength
  BY <1>1, <1>2, <1>3
<1>5. \/ t = DayLength * q + unit /\ t > anchor
      \/ t = DayLength * (q + 1) + unit /\ today <= anchor
  BY <1>1, <1>2, <1>3, <1>4 DEF nearestFutureClock
<1> HIDE DEF q, r, t
<1>6. DayLength * q \in Nat
  BY <1>1, <1>2
<1>7. t > anchor /\ t \in Nat
  BY <1>1, <1>2, <1>3, <1>4, <1>5, <1>6
<1>8. t % DayLength = unit
  BY <1>1, <1>2, <1>5, Quotient
<1>9. ASSUME NEW u \in anchor + 1 .. t - 1, u % DayLength = unit PROVE FALSE
  <2>1. u \in Nat /\ anchor < u /\ u < t
    BY <1>7
  <2> DEFINE p == u \div DayLength
  <2>2. p \in Nat /\ u = DayLength * p + unit
    BY <1>1, <1>9, <2>1, Division
  <2> HIDE DEF p
  <2>3. ~(p < q)
    <3>1. p < q => DayLength * p + DayLength <= DayLength * q
      BY <1>1, <1>2, <2>2, TimesMonotone
    <3> QED BY <1>1, <1>2, <1>6, <2>1, <2>2, <3>1
  <2>4. ~(q + 1 <= p)
    <3>1. q + 1 <= p => DayLength * (q + 1) <= DayLength * p
      BY <1>1, <1>2, <2>2, TimesMonotone
    <3> QED BY <1>1, <1>2, <1>3, <1>4, <1>5, <1>6, <2>1, <2>2, <3>1
  <2>5. p = q
    BY <1>2, <2>2, <2>3, <2>4
  <2> QED BY <1>1, <1>2, <1>3, <1>5, <1>6, <2>1, <2>2, <2>5
<1> QED BY <1>7, <1>8, <1>9 DEF t

LEMMA CalendarIs ==
    /\ DayLength \in Nat \ {0}
    /\ Years = 1 .. Len(Calendar) /\ Len(Calendar) \in Nat
    /\ Months \subseteq Nat \ {0} /\ 1 \in Years /\ 1 \in Months
    /\ \A y \in Years, m \in Months : /\ Calendar[y][m].first \in Nat
                                     /\ Calendar[y][m].days \in Nat
<1> DEFINE S == [first : Nat, days : Nat]
<1>1. Calendar \in Seq(Seq(S)) /\ 1 \in Years /\ 1 \in Months /\ DayLength \in Nat \ {0}
  BY CalendarAssumption
<1> HIDE DEF S
<1>2. Years = 1 .. Len(Calendar) /\ Len(Calendar) \in Nat
  BY <1>1, LenProperties DEF Years
<1>3. \A y \in Years : Calendar[y] \in Seq(S)
  BY <1>1, <1>2, ElementOfSeq
<1>4. Months \subseteq Nat \ {0}
  <2>1. Calendar[1] \in Seq(S)
    BY <1>1, <1>3
  <2>2. Months = 1 .. Len(Calendar[1]) /\ Len(Calendar[1]) \in Nat
    BY <2>1, LenProperties DEF Months
  <2> QED BY <2>2
<1>5. ASSUME NEW y \in Years, NEW m \in Months PROVE Calendar[y][m] \in S
  <2>1. DOMAIN Calendar[y] = Months
    BY CalendarAssumption
  <2>2. Calendar[y] \in Seq(S)
    BY <1>3
  <2>3. DOMAIN Calendar[y] = 1 .. Len(Calendar[y])
    BY <2>2, LenProperties
  <2> QED BY <2>1, <2>2, <2>3, ElementOfSeq
<1> QED BY <1>1, <1>2, <1>4, <1>5 DEF S

\* A date of a year comes after every date of an earlier one, and in its own after
\* the year's beginning.
LEMMA DatesAre ==
    ASSUME NEW y \in Years, NEW m \in Months, NEW d \in Nat \ {0}
    PROVE  /\ At(y, m, d) \in Nat /\ At(y, 1, 1) <= At(y, m, d)
           /\ \A z \in Years : y < z /\ HasDate(y, m, d) => At(y, m, d) < At(z, 1, 1)
<1>1. \A z \in Years, n \in Months : /\ Calendar[z][n].first \in Nat
                                     /\ Calendar[z][n].days \in Nat
  BY CalendarIs
<1>2. DayLength \in Nat \ {0} /\ 1 \in Months /\ y \in Nat /\ m \in Nat \ {0}
  BY CalendarIs
<1>3. \A z \in Years, n \in Months : \A e \in Nat \ {0} :
         /\ Calendar[z][n].first + e - 1 \in Nat
         /\ At(z, n, e) \in Nat
  <2> SUFFICES ASSUME NEW z \in Years, NEW n \in Months, NEW e \in Nat \ {0}
               PROVE  /\ Calendar[z][n].first + e - 1 \in Nat
                      /\ At(z, n, e) \in Nat
    OBVIOUS
  <2>1. Calendar[z][n].first + e - 1 \in Nat
    BY <1>1
  <2>2. \A c \in Nat : DayLength * c \in Nat
    BY <1>2
  <2> QED BY <2>1, <2>2 DEF At
<1>4. Calendar[y][1].first <= Calendar[y][m].first + d - 1
  <2>1. CASE m = 1
    BY <1>1, <1>2, <2>1
  <2>2. CASE m # 1
    <3>1. Calendar[y][1].first + Calendar[y][1].days <= Calendar[y][m].first
      BY <1>2, <2>2, CalendarAssumption
    <3> QED BY <1>1, <1>2, <3>1
  <2> QED BY <2>1, <2>2
<1>5. At(y, 1, 1) <= At(y, m, d)
  <2>1. Calendar[y][1].first + 1 - 1 = Calendar[y][1].first
    BY <1>1, <1>2
  <2>2. DayLength * Calendar[y][1].first <= DayLength * (Calendar[y][m].first + d - 1)
    <3>1. /\ Calendar[y][1].first \in Int /\ Calendar[y][m].first + d - 1 \in Int
      BY <1>1, <1>2
    <3> QED BY <1>2, <1>4, <3>1, TimesMonotone
  <2> QED BY <2>1, <2>2 DEF At
<1>6. ASSUME NEW z \in Years, y < z, HasDate(y, m, d) PROVE At(y, m, d) < At(z, 1, 1)
  <2>1. Calendar[y][m].first + Calendar[y][m].days <= Calendar[z][1].first
    BY <1>2, <1>6, CalendarAssumption
  <2>2. d <= Calendar[y][m].days
    BY <1>6 DEF HasDate
  <2>3. Calendar[y][m].first + d - 1 < Calendar[z][1].first
    <3>1. /\ Calendar[y][m].first \in Nat /\ Calendar[z][1].first \in Nat
          /\ Calendar[y][m].days \in Nat
      BY <1>1, <1>2
    <3> QED BY <2>1, <2>2, <3>1
  <2>4. DayLength * (Calendar[y][m].first + d - 1) + DayLength
           <= DayLength * Calendar[z][1].first
    BY <1>1, <1>2, <1>3, <2>3, TimesMonotone
  <2>5. Calendar[z][1].first + 1 - 1 = Calendar[z][1].first
    BY <1>1, <1>2
  <2>6. At(y, m, d) \in Nat /\ At(z, 1, 1) \in Nat
    BY <1>2, <1>3
  <2> QED BY <1>2, <2>4, <2>5, <2>6 DEF At
<1> QED BY <1>2, <1>3, <1>5, <1>6

LEMMA YearFound ==
    ASSUME NEW t \in Nat, At(1, 1, 1) <= t
    PROVE  LET y == YearOf(t) IN
           /\ y \in Years /\ At(y, 1, 1) <= t
           /\ y + 1 \in Years => t < At(y + 1, 1, 1)
<1>1. Years = 1 .. Len(Calendar) /\ Len(Calendar) \in Nat /\ 1 \in Years
  BY CalendarIs
<1> DEFINE B == {y \in Years : At(y, 1, 1) <= t}
<1>2. PICK y \in B : \A z \in B : z <= y
  <2>1. B \subseteq 1 .. Len(Calendar) /\ B # {}
    BY <1>1
  <2> HIDE DEF B
  <2> QED BY <1>1, <2>1, MaxExists
<1>3. y + 1 \in Years => t < At(y + 1, 1, 1)
  <2> SUFFICES ASSUME y + 1 \in Years PROVE t < At(y + 1, 1, 1)
    OBVIOUS
  <2>1. y + 1 \notin B
    BY <1>1, <1>2
  <2>2. At(y + 1, 1, 1) \in Nat
    BY DatesAre, CalendarIs
  <2> QED BY <2>1, <2>2
<1>4. \E z \in Years : At(z, 1, 1) <= t /\ (z + 1 \in Years => t < At(z + 1, 1, 1))
  BY <1>2, <1>3
<1> QED BY <1>4 DEF YearOf

\* A month and day is awaited in the year of the anchor or in the next one, and
\* no instant in between is that date of any year.
LEMMA DateNearest ==
    ASSUME NEW anchor \in Nat, At(1, 1, 1) <= anchor, NEW m \in Months,
           NEW d \in Nat \ {0}, nearestFutureMonthDay(anchor, m, d) # 0
    PROVE  LET t == nearestFutureMonthDay(anchor, m, d) IN
           /\ t \in Nat /\ t > anchor
           /\ \E y \in Years : HasDate(y, m, d) /\ t = At(y, m, d)
           /\ \A u \in anchor + 1 .. t - 1 : \A y \in Years :
                 HasDate(y, m, d) => u # At(y, m, d)
<1> DEFINE y == YearOf(anchor)
           t == nearestFutureMonthDay(anchor, m, d)
<1>1. /\ y \in Years /\ At(y, 1, 1) <= anchor
      /\ y + 1 \in Years => anchor < At(y + 1, 1, 1)
  BY YearFound
<1>2. Years \subseteq Nat /\ 1 \in Months
  BY CalendarIs
<1>3. PICK x \in Years : /\ x \in {y, y + 1} /\ HasDate(x, m, d) /\ t = At(x, m, d)
                         /\ x = y => At(y, m, d) > anchor
                         /\ x = y + 1 => HasDate(y, m, d) /\ ~(At(y, m, d) > anchor)
  <2> HIDE DEF y
  <2>1. CASE HasDate(y, m, d) /\ At(y, m, d) > anchor
    <3>1. t = At(y, m, d)
      BY <2>1 DEF nearestFutureMonthDay, y
    <3>2. y # y + 1
      BY <1>1, <1>2
    <3> QED BY <1>1, <2>1, <3>1, <3>2
  <2>2. CASE ~(HasDate(y, m, d) /\ At(y, m, d) > anchor)
    <3>1. /\ HasDate(y, m, d) /\ HasDate(y + 1, m, d)
          /\ ~(At(y, m, d) > anchor) /\ t = At(y + 1, m, d)
      BY <2>2 DEF nearestFutureMonthDay, y
    <3>2. y + 1 \in Years
      BY <3>1 DEF HasDate
    <3>3. y # y + 1
      BY <1>1, <1>2
    <3> QED BY <3>1, <3>2, <3>3
  <2> QED BY <2>1, <2>2
<1> HIDE DEF y, t
<1>4. t \in Nat /\ t > anchor
  <2>1. At(x, m, d) \in Nat /\ At(x, 1, 1) <= At(x, m, d) /\ At(x, 1, 1) \in Nat
    BY <1>2, DatesAre
  <2>2. CASE x = y
    BY <1>3, <2>1, <2>2
  <2>3. CASE x = y + 1
    BY <1>1, <1>3, <2>1, <2>3
  <2> QED BY <1>3, <2>2, <2>3
<1>5. ASSUME NEW u \in anchor + 1 .. t - 1, NEW z \in Years, HasDate(z, m, d),
             u = At(z, m, d)
      PROVE  FALSE
  <2>1. u \in Nat /\ anchor < u /\ u < t
    BY <1>4
  <2>2. z \in Nat /\ x \in Nat /\ y \in Nat /\ At(x, m, d) \in Nat
    BY <1>1, <1>2, DatesAre
  <2>3. ~(x < z)
    <3>1. ASSUME x < z PROVE FALSE
      <4>1. At(x, m, d) < At(z, 1, 1) /\ At(z, 1, 1) <= At(z, m, d)
        BY <1>3, <3>1, DatesAre
      <4>2. At(z, 1, 1) \in Nat
        BY <1>2, DatesAre
      <4> QED BY <1>3, <1>5, <2>1, <2>2, <4>1, <4>2
    <3> QED BY <3>1
  <2>4. z # x
    BY <1>3, <1>5, <2>1
  <2>5. ~(z < y)
    <3>1. ASSUME z < y PROVE FALSE
      <4>1. At(z, m, d) < At(y, 1, 1)
        BY <1>1, <1>5, <3>1, DatesAre
      <4>2. At(y, 1, 1) \in Nat
        BY <1>1, <1>2, DatesAre
      <4> QED BY <1>1, <1>5, <2>1, <4>1, <4>2
    <3> QED BY <3>1
  <2>6. z = y /\ x = y + 1
    BY <1>3, <2>2, <2>3, <2>4, <2>5
  <2> QED BY <1>3, <1>5, <2>1, <2>6
<1> QED BY <1>3, <1>4, <1>5 DEF t

-------------------------------------------------------------------------------
(* Codex: what the adapter read *)

ParsedEvents == \E n \in Nat : lines \in [1 .. n -> ThreadEvents]

LEMMA EventFound ==
    ASSUME ParsedEvents, NEW type, EventsOf(type) # {}
    PROVE  Event(type) \in ThreadEvents /\ Event(type).type = type
<1>1. PICK n \in Nat : lines \in [1 .. n -> ThreadEvents]
  BY DEF ParsedEvents
<1> DEFINE E == EventsOf(type)
<1>2. E \subseteq 1 .. n /\ E # {}
  BY <1>1 DEF EventsOf, Of
<1>3. PICK i \in E : \A j \in E : j <= i
  <2> HIDE DEF E
  <2> QED BY <1>1, <1>2, MaxExists
<1>4. PICK k \in E : Event(type) = lines[k]
  BY <1>3 DEF Event
<1>5. \A e \in E : lines[e] \in ThreadEvents /\ lines[e].type = type
  BY <1>1, <1>2 DEF EventsOf, Of
<1> HIDE DEF E
<1> QED BY <1>4, <1>5

\* What the reported text is taken for.
LEMMA MessageAnnounces ==
    ASSUME ParsedEvents, NEW anchor \in Nat, At(1, 1, 1) <= anchor,
           capacityFromReportedText(reportedError, anchor) # 0
    PROVE  LET t == capacityFromReportedText(reportedError, anchor) IN
           /\ reportedError.kind \notin {"none", "other"}
           /\ t > anchor /\ Means(reportedError, t)
           /\ \A u \in anchor + 1 .. t - 1 : ~Means(reportedError, u)
<1> DEFINE message == reportedError
           t == capacityFromReportedText(message, anchor)
<1>1. message.kind \notin {"none", "other"}
  BY DEF capacityFromReportedText
<1>2. \/ message.kind = "clock" /\ message.unit \in 0 .. DayLength - 1
      \/ message.kind = "monthday" /\ message.month \in Months /\ message.day \in Nat \ {0}
  <2>1. \/ EventsOf("turn.failed") # {} /\ message = Event("turn.failed").message
        \/ EventsOf("error") # {} /\ message = Event("error").message
    BY <1>1 DEF reportedError, TurnFailed, NoMessage
  <2>2. PICK e \in ThreadEvents : e.type \in {"turn.failed", "error"} /\ message = e.message
    BY <2>1, EventFound
  <2> HIDE DEF message
  <2> QED BY <1>1, <2>2, MessagesAssumption
<1> HIDE DEF message
<1>3. CASE message.kind = "clock"
  <2>1. t = nearestFutureClock(anchor, message.unit)
    BY <1>3 DEF capacityFromReportedText
  <2>2. message.unit \in 0 .. DayLength - 1
    BY <1>2, <1>3
  <2>3. /\ t \in Nat /\ t > anchor /\ t % DayLength = message.unit
        /\ \A u \in anchor + 1 .. t - 1 : u % DayLength # message.unit
    BY <2>1, <2>2, ClockNearest
  <2> HIDE DEF t
  <2> QED BY <1>1, <1>3, <2>3 DEF Means, message, t
<1>4. CASE message.kind = "monthday"
  <2>1. t = nearestFutureMonthDay(anchor, message.month, message.day)
    BY <1>4 DEF capacityFromReportedText
  <2>2. message.month \in Months /\ message.day \in Nat \ {0}
    BY <1>2, <1>4
  <2>3. t # 0
    BY DEF message
  <2>4. /\ t \in Nat /\ t > anchor
        /\ \E y \in Years : /\ HasDate(y, message.month, message.day)
                            /\ t = At(y, message.month, message.day)
        /\ \A u \in anchor + 1 .. t - 1 : \A y \in Years :
              HasDate(y, message.month, message.day)
                 => u # At(y, message.month, message.day)
    BY <2>1, <2>2, <2>3, DateNearest
  <2> HIDE DEF t
  <2> QED BY <1>1, <1>4, <2>4 DEF Means, message, t
<1> QED BY <1>2, <1>3, <1>4

\* The evidence the probe settles with is the app-server's.
LEMMA ServerCorroborates ==
    ASSUME NEW turn \in Turns, NEW limits \in Snapshots, turn.status = "ok",
           limits.status = "ok", asked \in Nat, capacityFromAppServer(turn, limits) # 0
    PROVE  LET t == capacityFromAppServer(turn, limits) IN
           /\ turn.thread = ThreadId /\ turn.failed /\ turn.usageLimit
           /\ limits.limitId = "codex" /\ limits.reached
           /\ \E w \in Exhausted(limits) : w.resetsAt = t
           /\ \A w \in Exhausted(limits) : w.resetsAt \in asked + 1 .. t
<1> DEFINE W == Exhausted(limits)
           t == capacityFromAppServer(turn, limits)
<1>1. /\ ReportsLimit(turn, limits) /\ W # {} /\ \A w \in W : Future(w)
      /\ t = Max({w.resetsAt : w \in W})
  BY DEF capacityFromAppServer
<1>2. \A w \in W : w.resetsAt \in Int
  BY AnswersAssumption DEF Exhausted
<1>3. \E w \in W : \A v \in W : v.resetsAt <= w.resetsAt
  <2>1. W \subseteq {limits.primary, limits.secondary}
    BY DEF Exhausted
  <2> HIDE DEF W
  <2>2. PICK w \in W : TRUE
    BY <1>1
  <2>3. CASE \A v \in W : v.resetsAt <= w.resetsAt
    BY <2>2, <2>3
  <2>4. CASE \E v \in W : ~(v.resetsAt <= w.resetsAt)
    <3>1. PICK v \in W : ~(v.resetsAt <= w.resetsAt)
      BY <2>4
    <3>2. w.resetsAt <= v.resetsAt /\ v.resetsAt <= v.resetsAt
      BY <1>2, <3>1
    <3>3. \A x \in W : x = v \/ x = w
      BY <2>1, <3>1, <1>2
    <3> QED BY <3>2, <3>3
  <2> QED BY <2>3, <2>4
<1> HIDE DEF W
<1>4. /\ t \in {w.resetsAt : w \in W}
      /\ \A v \in {w.resetsAt : w \in W} : t >= v
  <2> DEFINE R == {w.resetsAt : w \in W}
  <2>1. \E x \in R : \A y \in R : x >= y
    BY <1>2, <1>3
  <2> HIDE DEF R
  <2>2. t = CHOOSE x \in R : \A y \in R : x >= y
    BY <1>1 DEF Max, R
  <2> QED BY <2>1, <2>2 DEF R
<1>5. \A w \in W : w.resetsAt \in asked + 1 .. t
  <2> TAKE w \in W
  <2>1. w.resetsAt > asked
    BY <1>1 DEF Future
  <2>2. w.resetsAt <= t /\ t \in Int
    BY <1>2, <1>4
  <2> QED BY <1>2, <2>1, <2>2
<1> QED BY <1>1, <1>4, <1>5 DEF ReportsLimit, W

-------------------------------------------------------------------------------
(* Codex: the invariant *)

CodexTyped ==
    /\ step \in {"starting", "session", "probing", "judging", "printed", "refused"}
    /\ ticks \in Nat /\ clock \in Nat /\ asked \in Nat
    /\ step # "starting" => At(1, 1, 1) <= clock
    /\ step \in {"probing", "judging", "printed"} => ParsedEvents
    /\ resume \in Turns \cup {NoReply} /\ rates \in Snapshots \cup {NoReply}

\* What the probe settled with stays corroborated.
EvidenceSound ==
    evidence # 0 => step \in {"judging", "printed", "refused"} /\ Corroborates(evidence)

CodexInv == CodexTyped /\ EvidenceSound /\ DefersOnEvidence

LEMMA CodexInitHolds == CodexInit => CodexInv
BY DEF CodexInit, CodexInv, CodexTyped, EvidenceSound, DefersOnEvidence

LEMMA TickPreserves == CodexInv /\ Tick => CodexInv'
<1> SUFFICES ASSUME CodexInv, Tick PROVE CodexInv'
  OBVIOUS
<1>1. /\ step' = step /\ step' # "printed" /\ lines' = lines /\ ticks' = ticks + 1
      /\ clock' = clock + 1 /\ asked' = asked /\ resume' = resume /\ rates' = rates
      /\ evidence' = evidence /\ step # "starting"
  BY DEF Tick, session, probe
<1>2. At(1, 1, 1) \in Nat
  BY DatesAre, CalendarIs
<1>3. CodexTyped'
  BY <1>1, <1>2 DEF CodexInv, CodexTyped, ParsedEvents
<1>4. EvidenceSound'
  BY <1>1 DEF CodexInv, EvidenceSound, Corroborates, ThreadId, Event, EventsOf, Of, Exhausted
<1> QED BY <1>1, <1>3, <1>4 DEF CodexInv, DefersOnEvidence

LEMMA StartCodexPreserves == CodexInv /\ StartCodex => CodexInv'
<1> SUFFICES ASSUME CodexInv, StartCodex PROVE CodexInv'
  OBVIOUS
<1>1. PICK t \in Anchors : clock' = t
  BY DEF StartCodex
<1>2. t \in Nat /\ At(1, 1, 1) <= t
  BY CalendarAssumption
<1>3. /\ step = "starting" /\ step' \in {"session", "refused"}
      /\ UNCHANGED <<ticks, lines, asked, resume, rates, evidence>>
  BY DEF StartCodex, session, probe
<1>4. evidence = 0
  BY <1>3 DEF CodexInv, EvidenceSound
<1> QED BY <1>1, <1>2, <1>3, <1>4
        DEF CodexInv, CodexTyped, EvidenceSound, DefersOnEvidence

LEMMA SessionEndsPreserves == CodexInv /\ SessionEnds => CodexInv'
<1> SUFFICES ASSUME CodexInv, SessionEnds PROVE CodexInv'
  OBVIOUS
<1>1. /\ step = "session" /\ step' \in {"refused", "judging", "probing"}
      /\ UNCHANGED <<clock, ticks, resume, rates, evidence>>
      /\ asked' \in {asked, clock}
  BY DEF SessionEnds, SendFails, session, probe
<1>2. step' \in {"judging", "probing"} => ParsedEvents'
  <2> SUFFICES ASSUME step' # "refused" PROVE ParsedEvents'
    BY <1>1
  <2>1. PICK n \in 0 .. MaxEvents : \E stream \in [1 .. n -> ThreadEvents] : lines' = stream
    BY DEF SessionEnds
  <2>2. n \in Nat
    OBVIOUS
  <2> QED BY <2>1, <2>2 DEF ParsedEvents
<1>3. evidence = 0
  BY <1>1 DEF CodexInv, EvidenceSound
<1> QED BY <1>1, <1>2, <1>3 DEF CodexInv, CodexTyped, EvidenceSound, DefersOnEvidence

\* A step of the probe: it settles without evidence, or goes on.
LEMMA SettlesWithout ==
    ASSUME CodexInv, step = "probing", UNCHANGED <<clock, ticks, lines, asked>>,
           resume' \in Turns \cup {NoReply}, rates' \in Snapshots \cup {NoReply},
           step' \in {"probing", "judging", "refused"}, evidence' = 0
    PROVE  CodexInv'
BY DEF CodexInv, CodexTyped, ParsedEvents, EvidenceSound, DefersOnEvidence

LEMMA MaybeFinishPreserves ==
    ASSUME CodexInv, step = "probing", UNCHANGED <<clock, ticks, session, asked>>,
           resume' \in Turns \cup {NoReply}, rates' \in Snapshots \cup {NoReply},
           maybeFinish(resume', rates')
    PROVE  CodexInv'
<1>1. evidence = 0 /\ UNCHANGED <<clock, ticks, lines, asked>> /\ asked \in Nat
  BY DEF CodexInv, EvidenceSound, CodexTyped, session
<1> DEFINE t == capacityFromAppServer(resume', rates')
<1>2. \/ step' \in {"probing", "judging", "refused"} /\ evidence' = 0
      \/ /\ step' = "judging" /\ evidence' = t /\ t # 0
         /\ {"none", "error"} \cap {resume'.status, rates'.status} = {}
  <2> HIDE DEF t
  <2>1. \/ UNCHANGED <<step, server, evidence>>
        \/ finish(0)
        \/ step' = "refused" /\ UNCHANGED <<server, evidence>>
        \/ /\ finish(t)
           /\ {"none", "error"} \cap {resume'.status, rates'.status} = {}
    BY DEF maybeFinish, t
  <2> QED BY <1>1, <2>1 DEF finish
<1>3. CASE evidence' = 0
  BY <1>1, <1>2, <1>3, SettlesWithout
<1>4. CASE evidence' # 0
  <2>1. /\ step' = "judging" /\ evidence' = t /\ t # 0
        /\ {"none", "error"} \cap {resume'.status, rates'.status} = {}
    BY <1>2, <1>4
  <2>2. resume' \in Turns /\ rates' \in Snapshots
    <3>1. resume'.status # "none" /\ rates'.status # "none"
      BY <2>1
    <3>2. NoReply.status = "none"
      BY DEF NoReply
    <3> QED BY <3>1, <3>2
  <2>3. resume'.status = "ok" /\ rates'.status = "ok"
    BY <2>1, <2>2, AnswersAssumption
  <2> DEFINE turn == resume'
             limits == rates'
  <2>4. /\ turn.thread = ThreadId /\ turn.failed /\ turn.usageLimit
        /\ limits.limitId = "codex" /\ limits.reached
        /\ \E w \in Exhausted(limits) : w.resetsAt = t
        /\ \A w \in Exhausted(limits) : w.resetsAt \in asked + 1 .. t
    <3>1. turn \in Turns /\ limits \in Snapshots /\ turn.status = "ok"
          /\ limits.status = "ok" /\ capacityFromAppServer(turn, limits) # 0
      BY <2>1, <2>2, <2>3
    <3> HIDE DEF turn, limits
    <3> QED BY <1>1, <3>1, ServerCorroborates DEF turn, limits
  <2>5. ThreadId' = ThreadId
    BY <1>1 DEF ThreadId, Event, EventsOf, Of
  <2>6. Exhausted(rates)' = Exhausted(limits)
    BY DEF Exhausted
  <2>7. Corroborates(evidence)'
    <3> HIDE DEF t
    <3> QED BY <1>1, <2>1, <2>3, <2>4, <2>5, <2>6 DEF Corroborates
  <2> QED BY <1>1, <2>1, <2>2, <2>7
          DEF CodexInv, CodexTyped, ParsedEvents, EvidenceSound, DefersOnEvidence
<1> QED BY <1>3, <1>4

LEMMA ProbePreserves ==
    CodexInv /\ (\/ Greet \/ ResumeReplies \/ RatesReply
                 \/ ServerExits \/ ServerFails \/ ProbeTimerFires)
       => CodexInv'
<1> SUFFICES ASSUME CodexInv,
                    \/ Greet \/ ResumeReplies \/ RatesReply
                    \/ ServerExits \/ ServerFails \/ ProbeTimerFires
             PROVE  CodexInv'
  OBVIOUS
<1>1. /\ step = "probing" /\ evidence = 0
      /\ resume \in Turns \cup {NoReply} /\ rates \in Snapshots \cup {NoReply}
  BY DEF Greet, ResumeReplies, RatesReply, ServerExits, ServerFails, ProbeTimerFires,
         Listening, CodexInv, EvidenceSound, CodexTyped
<1>2. CASE Greet \/ ServerExits \/ ServerFails \/ ProbeTimerFires
  <2>1. /\ step' \in {"probing", "judging", "refused"} /\ evidence' = 0
        /\ UNCHANGED <<clock, ticks, lines, asked, resume, rates>>
    BY <1>1, <1>2 DEF Greet, ServerExits, ServerFails, ProbeTimerFires, SendFails, finish,
                      session
  <2> QED BY <1>1, <2>1, SettlesWithout
<1>3. CASE ResumeReplies
  <2>1. PICK turn \in Turns : resume' = turn /\ maybeFinish(turn, rates)
    BY <1>3 DEF ResumeReplies
  <2>2. rates' = rates /\ UNCHANGED <<clock, ticks, session, asked>>
    BY <1>3 DEF ResumeReplies
  <2>3. maybeFinish(resume', rates')
    BY <2>1, <2>2
  <2> QED BY <1>1, <2>1, <2>2, <2>3, MaybeFinishPreserves
<1>4. CASE RatesReply
  <2>1. PICK limits \in Snapshots : rates' = limits /\ maybeFinish(resume, limits)
    BY <1>4 DEF RatesReply
  <2>2. resume' = resume /\ UNCHANGED <<clock, ticks, session, asked>>
    BY <1>4 DEF RatesReply
  <2>3. maybeFinish(resume', rates')
    BY <2>1, <2>2
  <2> QED BY <1>1, <2>1, <2>2, <2>3, MaybeFinishPreserves
<1> QED BY <1>2, <1>3, <1>4

LEMMA PrintExecutionPreserves == CodexInv /\ PrintExecution => CodexInv'
<1> SUFFICES ASSUME CodexInv, PrintExecution PROVE CodexInv'
  OBVIOUS
<1>1. /\ step = "judging" /\ step' = "printed" /\ codexSays' = codexExecution
      /\ UNCHANGED <<resuming, clock, ticks, lines, exit, reply, asked, resume, rates, evidence>>
  BY DEF PrintExecution, session, probe
<1>2. /\ CodexTyped /\ EvidenceSound /\ ParsedEvents /\ clock \in Nat
      /\ At(1, 1, 1) <= clock
  BY <1>1 DEF CodexInv, CodexTyped
<1>3. CodexTyped' /\ EvidenceSound'
  BY <1>1, <1>2 DEF CodexTyped, ParsedEvents, EvidenceSound, Corroborates, ThreadId, Event,
                    EventsOf, Of, Exhausted
<1>4. /\ ThreadId' = ThreadId /\ TurnFailed' = TurnFailed
      /\ reportedError' = reportedError
      /\ EventsOf("turn.completed")' = EventsOf("turn.completed")
  BY <1>1 DEF ThreadId, TurnFailed, reportedError, Event, EventsOf, Of
<1> DEFINE announced == capacityFromReportedText(reportedError, clock)
           mine == TurnFailed /\ resuming \in {"none", ThreadId}
<1>5. /\ codexSays'.session = ThreadId /\ codexSays'.observedAt = clock
      /\ codexSays'.retryAt # 0 =>
            /\ mine /\ codexSays'.result = "none"
            /\ codexSays'.retryAt = IF evidence # 0 THEN evidence ELSE announced
      /\ evidence # 0 /\ mine => codexSays'.retryAt = evidence
      /\ codexSays'.result = "success" =>
            exit = "zero" /\ EventsOf("turn.completed") # {} /\ reportedError.kind = "none"
  <2> DEFINE x == Execution(ThreadId, clock)
  <2>1. /\ x.session = ThreadId /\ x.observedAt = clock /\ x.retryAt = 0
        /\ x.result = "none"
        /\ \A v : /\ Reporting(x, v).session = ThreadId /\ Reporting(x, v).observedAt = clock
                  /\ Reporting(x, v).retryAt = 0 /\ Reporting(x, v).result = v
                  /\ Deferring(x, v).session = ThreadId /\ Deferring(x, v).observedAt = clock
                  /\ Deferring(x, v).retryAt = v /\ Deferring(x, v).result = "none"
    BY DEF Execution, Reporting, Deferring
  <2>2. codexSays' =
          LET reset == IF evidence # 0 THEN evidence ELSE announced IN
          IF resuming \notin {"none", ThreadId} THEN Reporting(x, "failure")
          ELSE IF TurnFailed /\ reset # 0 THEN Deferring(x, reset)
          ELSE IF \/ reportedError.kind # "none" \/ exit # "zero"
                  \/ EventsOf("turn.completed") = {}
               THEN Reporting(x, "failure")
          ELSE Reporting(x, resultOf(reply))
    BY <1>1, Zenon DEF codexExecution
  <2> HIDE DEF x, announced
  <2> QED BY <2>1, <2>2
<1>6. codexSays'.retryAt # 0 /\ evidence = 0 =>
         /\ reportedError.kind \notin {"none", "other"}
         /\ codexSays'.retryAt > clock /\ Means(reportedError, codexSays'.retryAt)
         /\ \A t \in clock + 1 .. codexSays'.retryAt - 1 : ~Means(reportedError, t)
  <2> SUFFICES ASSUME codexSays'.retryAt # 0, evidence = 0
               PROVE  /\ reportedError.kind \notin {"none", "other"}
                      /\ announced > clock /\ Means(reportedError, announced)
                      /\ \A t \in clock + 1 .. announced - 1 : ~Means(reportedError, t)
    BY <1>5
  <2>1. announced # 0
    BY <1>5
  <2> QED BY <1>2, <2>1, MessageAnnounces
<1>7. DefersOnEvidence'
  <2>1. evidence # 0 => Corroborates(evidence)'
    BY <1>1, <1>3 DEF EvidenceSound
  <2>2. \A m, t : Means(m, t)' = Means(m, t)
    BY DEF Means, HasDate, At
  <2>3. codexSays'.retryAt # 0 /\ evidence = 0 =>
           Announces(reportedError, codexSays.retryAt)'
    BY <1>4, <1>5, <1>6, <2>2 DEF Announces
  <2> HIDE DEF announced
  <2> QED BY <1>1, <1>4, <1>5, <2>1, <2>3 DEF DefersOnEvidence
<1> QED BY <1>3, <1>7 DEF CodexInv

\* Whatever the stream, the order and the content of the app-server's answers, its
\* end and the timer: a Codex session is deferred only when its turn failed and it
\* is the one resumed, until the last reset of the exhausted windows when the
\* app-server corroborated the exhaustion of this very thread, and otherwise until
\* the first instant that the reported text can mean; evidence is never passed over.
THEOREM CodexDefersOnEvidence == CodexSpec => []DefersOnEvidence
<1>1. CodexInv /\ [CodexNext]_codexVars => CodexInv'
  <2> SUFFICES ASSUME CodexInv, [CodexNext]_codexVars PROVE CodexInv'
    OBVIOUS
  <2>1. CASE Tick
    BY <2>1, TickPreserves
  <2>2. CASE StartCodex
    BY <2>2, StartCodexPreserves
  <2>3. CASE SessionEnds
    BY <2>3, SessionEndsPreserves
  <2>4. CASE Greet \/ ResumeReplies \/ RatesReply \/ ServerExits \/ ServerFails
             \/ ProbeTimerFires
    BY <2>4, ProbePreserves
  <2>5. CASE PrintExecution
    BY <2>5, PrintExecutionPreserves
  <2>6. CASE UNCHANGED codexVars
    <3>1. UNCHANGED <<resuming, step, clock, ticks, lines, exit, asked, resume, rates,
                      evidence, codexSays>>
      BY <2>6 DEF codexVars
    <3>2. CodexTyped' /\ EvidenceSound'
      BY <3>1 DEF CodexInv, CodexTyped, ParsedEvents, EvidenceSound, Corroborates, ThreadId,
                  Event, EventsOf, Of, Exhausted
    <3>3. DefersOnEvidence'
      <4>1. /\ ThreadId' = ThreadId /\ TurnFailed' = TurnFailed
            /\ reportedError' = reportedError
            /\ EventsOf("turn.completed")' = EventsOf("turn.completed")
        BY <3>1 DEF ThreadId, TurnFailed, reportedError, Event, EventsOf, Of
      <4>2. Corroborates(evidence)' = Corroborates(evidence)
        BY <3>1, <4>1 DEF Corroborates, Exhausted
      <4>3. \A m, t : Means(m, t)' = Means(m, t)
        BY DEF Means, HasDate, At
      <4>4. Announces(reportedError, codexSays.retryAt)'
               = Announces(reportedError, codexSays.retryAt)
        BY <3>1, <4>1, <4>3 DEF Announces
      <4> QED BY <3>1, <4>1, <4>2, <4>4 DEF CodexInv, DefersOnEvidence
    <3> QED BY <3>2, <3>3 DEF CodexInv
  <2> QED BY <2>1, <2>2, <2>3, <2>4, <2>5, <2>6 DEF CodexNext
<1>2. CodexInv => DefersOnEvidence
  BY DEF CodexInv
<1> QED BY <1>1, <1>2, CodexInitHolds, PTL DEF CodexSpec

===============================================================================

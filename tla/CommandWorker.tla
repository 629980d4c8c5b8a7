---------------------------- MODULE CommandWorker ----------------------------
(***************************************************************************)
(* CommandWorker.execute: one child process per call, in a process group   *)
(* of its own, whose stdout must be exactly one JSON value.  An abort, the *)
(* timer, the output limit and the end of the processes race; the child's  *)
(* "close" event, which waits until nobody holds its pipes, decides.       *)
(*                                                                         *)
(* A child may leave a helper behind: a process of its group or one that   *)
(* left the group, holding the pipes or not.  A structured execution is    *)
(* recorded in the sessions ledger before the call settles; engines of the *)
(* same repository share that file.  Each engine makes one call at a time. *)
(*                                                                         *)
(* Left out: the Windows branch (taskkill), the contents of stdout beyond  *)
(* what the close handler tells apart, and I/O errors on the ledger file.  *)
(***************************************************************************)
EXTENDS Integers

CONSTANTS
    Engines,   \* engine processes of one repository
    Owners,    \* the Task and Role a call is made for
    Sessions,  \* provider session ids
    Escapes,   \* may a helper leave the process group?
    MaxCalls   \* calls made in all (bound)

ASSUME WorkerAssumption == Escapes \in BOOLEAN /\ MaxCalls \in Nat

VARIABLES
    calls,       \* calls made so far
    phase,       \* where each engine's call is
    owner,       \* the Task and Role it is for
    signal,      \* signal.aborted
    late,        \* the signal was aborted before the child was spawned
    flags,       \* which of aborted, timedOut, exceededLimit are set
    terminated,  \* terminationStarted
    child,       \* the child process
    code,        \* its exit code
    helper,      \* a descendant of the child
    ties,        \* whether it is in the group and whether it holds the pipes
    stdout,      \* what the pipe delivered
    sessions,    \* .aios/runtime/sessions.json
    snapshot,    \* the ledger that record loaded
    recorded,    \* invocations whose record was reported written
    outcome      \* how the call settled

shared == <<calls, sessions, recorded>>
local == <<phase, owner, signal, late, flags, terminated, child, code, helper,
           ties, stdout, snapshot, outcome>>
vars == <<shared, local>>

Flags == {"aborted", "timedOut", "exceededLimit"}
NoRow == [owner |-> "none", invocations |-> 0]
NoOutput == [kind |-> "empty", session |-> "none"]
\* A bare Result, an execution that carries a Result or a deferral, one whose
\* validation fails; noise is anything that is not exactly one JSON value.
Structured == {"execution", "deferral"}
Output == {NoOutput}
            \cup [kind : {"bare", "invalid", "noise", "flood"},
                  session : {"none"}]
            \cup [kind : Structured, session : Sessions]

Init ==
    /\ calls = 0
    /\ phase = [e \in Engines |-> "idle"]
    /\ owner \in [Engines -> Owners]
    /\ signal = [e \in Engines |-> FALSE]
    /\ late = [e \in Engines |-> FALSE]
    /\ flags = [e \in Engines |-> {}]
    /\ terminated = [e \in Engines |-> FALSE]
    /\ child = [e \in Engines |-> "none"]
    /\ code = [e \in Engines |-> "none"]
    /\ helper = [e \in Engines |-> "none"]
    /\ ties = [e \in Engines |-> [group |-> TRUE, pipe |-> FALSE]]
    /\ stdout = [e \in Engines |-> NoOutput]
    /\ sessions = [s \in Sessions |-> NoRow]
    /\ snapshot = [e \in Engines |-> sessions]
    /\ recorded = [s \in Sessions |-> 0]
    /\ outcome = [e \in Engines |-> "none"]

-----------------------------------------------------------------------------
(* Termination *)

\* A slip: the child alone is killed.
terminateProcessTree_Child(e) ==
    /\ terminated' = [terminated EXCEPT ![e] = TRUE]
    /\ child' = [child EXCEPT ![e] = IF @ = "alive" THEN "doomed" ELSE @]
    /\ UNCHANGED helper

\* SIGKILL to the group; a helper that left it does not get the signal.
terminateProcessTree(e) ==
    /\ terminated' = [terminated EXCEPT ![e] = TRUE]
    /\ child' = [child EXCEPT ![e] = IF @ = "alive" THEN "doomed" ELSE @]
    /\ helper' = [helper EXCEPT
                     ![e] = IF @ = "alive" /\ ties[e].group THEN "doomed"
                                                            ELSE @]

\* Set a flag and, unless that was done before, kill the group.
Terminate(e, flag) ==
    /\ flags' = [flags EXCEPT ![e] = @ \cup {flag}]
    /\ IF terminated[e] THEN UNCHANGED <<terminated, child, helper>>
                        ELSE terminateProcessTree(e)

Settle(e, how) ==
    /\ phase' = [phase EXCEPT ![e] = "settled"]
    /\ outcome' = [outcome EXCEPT ![e] = how]

-----------------------------------------------------------------------------
(* The call *)

\* A slip: an abort that came before the listener is not looked for.
Launch_Unlooked(e) ==
    /\ phase[e] = "idle"
    /\ calls < MaxCalls
    /\ calls' = calls + 1
    /\ phase' = [phase EXCEPT ![e] = "running"]
    /\ \E o \in Owners : owner' = [owner EXCEPT ![e] = o]
    /\ late' = [late EXCEPT ![e] = signal[e]]
    /\ \E start \in {"alive", "failed"} : child' = [child EXCEPT ![e] = start]
    /\ UNCHANGED <<flags, terminated>>
    /\ UNCHANGED <<sessions, recorded, signal, code, helper, ties, stdout,
                   snapshot, outcome>>

\* The child is spawned whatever the signal says, and killed when the signal
\* turns out to be aborted; a child that did not start has no pid to kill.
Launch(e) ==
    /\ phase[e] = "idle"
    /\ calls < MaxCalls
    /\ calls' = calls + 1
    /\ phase' = [phase EXCEPT ![e] = "running"]
    /\ \E o \in Owners : owner' = [owner EXCEPT ![e] = o]
    /\ late' = [late EXCEPT ![e] = signal[e]]
    /\ flags' = [flags EXCEPT ![e] = IF signal[e] THEN {"aborted"} ELSE {}]
    /\ terminated' = [terminated EXCEPT ![e] = signal[e]]
    /\ \E start \in {"alive", "failed"} :
          child' = [child EXCEPT
                       ![e] = IF start = "alive" /\ signal[e] THEN "doomed"
                                                              ELSE start]
    /\ UNCHANGED <<sessions, recorded, signal, code, helper, ties, stdout,
                   snapshot, outcome>>

\* The "error" event.
SpawnError(e) ==
    /\ phase[e] = "running"
    /\ child[e] = "failed"
    /\ Settle(e, "provider_failure")
    /\ UNCHANGED <<shared, owner, signal, late, flags, terminated, child, code,
                   helper, ties, stdout, snapshot>>

Running(e) == phase[e] = "running" /\ child[e] # "failed"

TimerFires(e) ==
    /\ Running(e)
    /\ "timedOut" \notin flags[e]
    /\ Terminate(e, "timedOut")
    /\ UNCHANGED <<shared, phase, owner, signal, late, code, ties, stdout,
                   snapshot, outcome>>

\* SIGINT or SIGTERM.  The listener is there from the spawn to the close.
Abort(e) ==
    /\ ~signal[e]
    /\ signal' = [signal EXCEPT ![e] = TRUE]
    /\ IF Running(e)
       THEN Terminate(e, "aborted")
       ELSE UNCHANGED <<flags, terminated, child, helper>>
    /\ UNCHANGED <<shared, phase, owner, late, code, ties, stdout, snapshot,
                   outcome>>

\* Nobody can write to the pipes any more.
PipesClosed(e) ==
    /\ child[e] = "exited"
    /\ helper[e] \in {"alive", "doomed"} => ~ties[e].pipe

\* What a child that ended by itself and well has to say.
deliver(e) ==
    CASE stdout[e].kind \in Structured -> "record"
      [] stdout[e].kind = "bare" -> "resolved"
      [] OTHER -> "provider_failure"

\* A slip: the timer is asked only when the exit code is bad.
closeVerdict_ByCode(e) ==
    IF "aborted" \in flags[e] THEN "cancelled"
    ELSE IF "exceededLimit" \in flags[e] THEN "provider_failure"
    ELSE IF code[e] = "zero" THEN deliver(e)
    ELSE IF "timedOut" \in flags[e] THEN "timeout"
    ELSE "provider_failure"

\* The order in which the close handler looks.
closeVerdict(e) ==
    IF "aborted" \in flags[e] THEN "cancelled"
    ELSE IF "timedOut" \in flags[e] THEN "timeout"
    ELSE IF "exceededLimit" \in flags[e] \/ code[e] # "zero"
         THEN "provider_failure"
    ELSE deliver(e)

CloseSettles(e) ==
    /\ Running(e)
    /\ PipesClosed(e)
    /\ closeVerdict(e) # "record"
    /\ Settle(e, closeVerdict(e))
    /\ UNCHANGED <<shared, owner, signal, late, flags, terminated, child, code,
                   helper, ties, stdout, snapshot>>

\* SessionLedger.record loads the file.
CloseRecords(e) ==
    /\ Running(e)
    /\ PipesClosed(e)
    /\ closeVerdict(e) = "record"
    /\ phase' = [phase EXCEPT ![e] = "recording"]
    /\ snapshot' = [snapshot EXCEPT ![e] = sessions]
    /\ UNCHANGED <<shared, owner, signal, late, flags, terminated, child, code,
                   helper, ties, stdout, outcome>>

RowOf(e) == snapshot[e][stdout[e].session]

\* A session cannot change Task or Role.
RecordRefused(e) ==
    /\ phase[e] = "recording"
    /\ RowOf(e).owner \notin {"none", owner[e]}
    /\ Settle(e, "provider_failure")
    /\ UNCHANGED <<shared, owner, signal, late, flags, terminated, child, code,
                   helper, ties, stdout, snapshot>>

\* A slip: a session seen before is entered as a new one.
MergedRow_New(e) == [owner |-> owner[e], invocations |-> 1]

MergedRow(e) == [owner |-> owner[e], invocations |-> RowOf(e).invocations + 1]

\* atomicReplace writes what was loaded, merged: there is no comparison.
RecordWritten(e) ==
    /\ phase[e] = "recording"
    /\ RowOf(e).owner \in {"none", owner[e]}
    /\ sessions' = [snapshot[e] EXCEPT ![stdout[e].session] = MergedRow(e)]
    /\ recorded' = [recorded EXCEPT ![stdout[e].session] = @ + 1]
    /\ Settle(e, IF stdout[e].kind = "deferral" THEN "deferred"
                                                ELSE "resolved")
    /\ UNCHANGED <<calls, owner, signal, late, flags, terminated, child, code,
                   helper, ties, stdout, snapshot>>

\* The engine goes on with the same signal, or a new run brings a new one.
Consume(e) ==
    /\ phase[e] = "settled"
    /\ \E aborted \in {signal[e], FALSE} :
          signal' = [signal EXCEPT ![e] = aborted]
    /\ phase' = [phase EXCEPT ![e] = "idle"]
    /\ late' = [late EXCEPT ![e] = FALSE]
    /\ flags' = [flags EXCEPT ![e] = {}]
    /\ terminated' = [terminated EXCEPT ![e] = FALSE]
    /\ child' = [child EXCEPT ![e] = "none"]
    /\ code' = [code EXCEPT ![e] = "none"]
    /\ helper' = [helper EXCEPT ![e] = "none"]
    /\ ties' = [ties EXCEPT ![e] = [group |-> TRUE, pipe |-> FALSE]]
    /\ stdout' = [stdout EXCEPT ![e] = NoOutput]
    /\ snapshot' = [snapshot EXCEPT ![e] = sessions]
    /\ outcome' = [outcome EXCEPT ![e] = "none"]
    /\ UNCHANGED <<shared, owner>>

-----------------------------------------------------------------------------
(* The processes *)

Fork(e) ==
    /\ phase[e] = "running"
    /\ child[e] = "alive"
    /\ helper[e] = "none"
    /\ helper' = [helper EXCEPT ![e] = "alive"]
    /\ \E group, pipe \in BOOLEAN :
          /\ group \/ Escapes
          /\ ties' = [ties EXCEPT ![e] = [group |-> group, pipe |-> pipe]]
    /\ UNCHANGED <<shared, phase, owner, signal, late, flags, terminated,
                   child, code, stdout, snapshot, outcome>>

CanWrite(e) ==
    /\ phase[e] = "running"
    /\ child[e] = "alive" \/ (helper[e] = "alive" /\ ties[e].pipe)

\* The first output, complete; any further output spoils it.
Write(e) ==
    /\ CanWrite(e)
    /\ \E output \in Output \ {NoOutput, stdout[e]} :
          /\ stdout[e] = NoOutput \/ output.kind = "noise"
          /\ stdout[e].kind # "flood" /\ output.kind # "flood"
          /\ stdout' = [stdout EXCEPT ![e] = output]
    /\ UNCHANGED <<shared, phase, owner, signal, late, flags, terminated,
                   child, code, helper, ties, snapshot, outcome>>

\* The output limit is passed: the "data" handlers kill the group, unless
\* something else has already.
Flood(e) ==
    /\ CanWrite(e)
    /\ stdout[e].kind # "flood"
    /\ stdout' = [stdout EXCEPT
                     ![e] = [kind |-> "flood", session |-> "none"]]
    /\ IF terminated[e]
       THEN UNCHANGED <<flags, terminated, child, helper>>
       ELSE Terminate(e, "exceededLimit")
    /\ UNCHANGED <<shared, phase, owner, signal, late, code, ties, snapshot,
                   outcome>>

ChildExits(e) ==
    /\ child[e] = "alive"
    /\ child' = [child EXCEPT ![e] = "exited"]
    /\ \E status \in {"zero", "nonzero"} : code' = [code EXCEPT ![e] = status]
    /\ UNCHANGED <<shared, phase, owner, signal, late, flags, terminated,
                   helper, ties, stdout, snapshot, outcome>>

HelperExits(e) ==
    /\ helper[e] = "alive"
    /\ helper' = [helper EXCEPT ![e] = "gone"]
    /\ UNCHANGED <<shared, phase, owner, signal, late, flags, terminated,
                   child, code, ties, stdout, snapshot, outcome>>

\* A process that got SIGKILL ends; its exit code is null.
ChildDies(e) ==
    /\ child[e] = "doomed"
    /\ child' = [child EXCEPT ![e] = "exited"]
    /\ code' = [code EXCEPT ![e] = "null"]
    /\ UNCHANGED <<shared, phase, owner, signal, late, flags, terminated,
                   helper, ties, stdout, snapshot, outcome>>

HelperDies(e) ==
    /\ helper[e] = "doomed"
    /\ helper' = [helper EXCEPT ![e] = "gone"]
    /\ UNCHANGED <<shared, phase, owner, signal, late, flags, terminated,
                   child, code, ties, stdout, snapshot, outcome>>

-----------------------------------------------------------------------------
CallStep(e) ==
    \/ SpawnError(e) \/ CloseSettles(e) \/ CloseRecords(e)
    \/ RecordRefused(e) \/ RecordWritten(e)

Next ==
    \E e \in Engines :
        \/ Launch(e) \/ Abort(e) \/ TimerFires(e) \/ CallStep(e) \/ Consume(e)
        \/ Fork(e) \/ Write(e) \/ Flood(e)
        \/ ChildExits(e) \/ HelperExits(e) \/ ChildDies(e) \/ HelperDies(e)

Spec == Init /\ [][Next]_vars

\* The event loop runs handlers that are due, the timer fires, and the kernel
\* ends what it killed.  Nothing makes a process end by itself.
Fairness ==
    \A e \in Engines : /\ WF_vars(CallStep(e))
                       /\ WF_vars(TimerFires(e))
                       /\ WF_vars(ChildDies(e))
                       /\ WF_vars(HelperDies(e))
FairSpec == Spec /\ Fairness

-----------------------------------------------------------------------------
(* Properties *)

\* Every variable has its type.
TypeOK ==
    /\ calls \in 0..MaxCalls
    /\ phase \in [Engines -> {"idle", "running", "recording", "settled"}]
    /\ owner \in [Engines -> Owners]
    /\ signal \in [Engines -> BOOLEAN] /\ late \in [Engines -> BOOLEAN]
    /\ flags \in [Engines -> SUBSET Flags]
    /\ terminated \in [Engines -> BOOLEAN]
    /\ child \in [Engines -> {"none", "failed", "alive", "doomed", "exited"}]
    /\ code \in [Engines -> {"none", "zero", "nonzero", "null"}]
    /\ helper \in [Engines -> {"none", "alive", "doomed", "gone"}]
    /\ ties \in [Engines -> [group : BOOLEAN, pipe : BOOLEAN]]
    /\ stdout \in [Engines -> Output]
    /\ sessions \in [Sessions -> [owner : Owners \cup {"none"},
                                  invocations : 0..MaxCalls]]
    /\ recorded \in [Sessions -> 0..MaxCalls]
    /\ outcome \in [Engines -> {"none", "resolved", "deferred", "cancelled",
                                "timeout", "provider_failure"}]

\* A settled call leaves nothing behind.  A Result or a deferral is delivered
\* only from a Worker that nobody began to kill, that exited with 0, and whose
\* stdout nobody can still write to: an answer that was complete when the timer
\* or the signal killed a helper of the exited child is not an answer.  And when
\* a call that was killed settles, every process of its group has ended or has
\* SIGKILL pending: no helper goes on changing the working copy under the next
\* Worker of the Task (CommandWorker close handler).
SettledClean ==
    \A e \in Engines :
        /\ outcome[e] \in {"resolved", "deferred"} =>
              ~terminated[e] /\ code[e] = "zero" /\ PipesClosed(e)
        /\ phase[e] = "settled" /\ terminated[e] =>
              /\ child[e] \in {"failed", "exited"}
              /\ helper[e] = "alive" => ~ties[e].group

\* README.md: sessions.json "keeps one row per provider session", and "usage
\* and cost are accumulated across resumed invocations": every invocation
\* whose record was reported written is counted in the file.
SessionsCounted ==
    \A s \in Sessions : sessions[s].invocations = recorded[s]

\* A call settles, whatever the child and the helpers in its group do: only a
\* helper that left the group and kept the pipes can hold it up.
TimeoutSettles ==
    \A e \in Engines :
        phase[e] = "running" ~>
            \/ phase[e] = "settled"
            \/ helper[e] = "alive" /\ ~ties[e].group /\ ties[e].pipe

\* A call as the engine sees it.
callOf(e) ==
    IF phase[e] = "idle" THEN "idle"
    ELSE IF phase[e] # "settled" THEN IF late[e] THEN "late" ELSE "active"
    ELSE IF outcome[e] = "resolved" THEN "result"
    ELSE IF outcome[e] = "deferred" THEN "deferred" ELSE "error"
callsSeen == [e \in Engines |-> callOf(e)]

\* The transport is the one TaskLoop assumes.
Call == INSTANCE WorkerCall WITH call <- callsSeen

\* Every step of a call is a step of WorkerCall or none.
ImplementsCall == Call!Spec
=============================================================================

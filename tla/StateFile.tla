------------------------------ MODULE StateFile ------------------------------
(***************************************************************************)
(* How a routing state file is written: routing-decisions.json by          *)
(* RoutingDecisionLedger and candidate-cooldowns.json by                   *)
(* CandidateCooldownStore, whose private commit methods are the same code. *)
(* A client loads the file, computes its new contents, takes the lock file *)
(* (created exclusively), compares the bytes with those it loaded,         *)
(* replaces the file, and removes the lock file.                           *)
(*                                                                         *)
(* The contents are the set of updates made to them: an update computed    *)
(* from a snapshot yields the snapshot and itself.  Each client is one     *)
(* process; it may be killed at every await, and the lock file stays.      *)
(*                                                                         *)
(* Left out: what an update says (DecisionLedger), the temporary file of   *)
(* atomicReplace (rename is one step), and an operator who deletes a lock  *)
(* file by hand, for which the program has no command.                     *)
(***************************************************************************)
EXTENDS Naturals

CONSTANTS
    Clients,     \* processes that write the file: engines and route commands
    MaxUpdates,  \* updates each of them begins (bound)
    Faults       \* what else happens, a subset of FaultKinds

FaultKinds == {"crash", "io"}

ASSUME StateFileAssumption == MaxUpdates \in Nat /\ Faults \subseteq FaultKinds

VARIABLES
    file,      \* the updates the file contains
    lock,      \* whether the lock file exists
    pc,        \* where each client is
    number,    \* the number of its current update
    snapshot,  \* what it loaded
    outcome    \* how its last update ended

vars == <<file, lock, pc, number, snapshot, outcome>>

AllUpdates == [client : Clients, number : 1 .. MaxUpdates]
Update(c) == [client |-> c, number |-> number[c]]

\* Between opening the lock file and removing it.
Held == {"locked", "same", "changed", "replaced", "failed"}
Outcomes == {"none", "committed", "conflict", "error"}

Init ==
    /\ file = {}
    /\ lock = FALSE
    /\ pc = [c \in Clients |-> "idle"]
    /\ number = [c \in Clients |-> 0]
    /\ snapshot = [c \in Clients |-> {}]
    /\ outcome = [c \in Clients |-> "none"]

Settle(c, how) ==
    /\ pc' = [pc EXCEPT ![c] = "idle"]
    /\ outcome' = [outcome EXCEPT ![c] = how]

Load(c) ==
    /\ pc[c] = "idle"
    /\ number[c] < MaxUpdates
    /\ snapshot' = [snapshot EXCEPT ![c] = file]
    /\ number' = [number EXCEPT ![c] = @ + 1]
    /\ pc' = [pc EXCEPT ![c] = "loaded"]
    /\ outcome' = [outcome EXCEPT ![c] = "none"]
    /\ UNCHANGED <<file, lock>>

\* A slip: the lock file is not opened exclusively.
OpenLock_Shared(c) ==
    /\ pc[c] = "loaded"
    /\ lock' = TRUE
    /\ pc' = [pc EXCEPT ![c] = "locked"]
    /\ UNCHANGED <<file, number, snapshot, outcome>>

OpenLock(c) ==
    /\ pc[c] = "loaded"
    /\ ~lock
    /\ lock' = TRUE
    /\ pc' = [pc EXCEPT ![c] = "locked"]
    /\ UNCHANGED <<file, number, snapshot, outcome>>

\* EEXIST.
LockExists(c) ==
    /\ pc[c] = "loaded"
    /\ lock
    /\ Settle(c, "conflict")
    /\ UNCHANGED <<file, lock, number, snapshot>>

\* A slip: whatever the file holds now will be replaced.
Compare_Skipped(c) ==
    /\ pc[c] = "locked"
    /\ pc' = [pc EXCEPT ![c] = "same"]
    /\ UNCHANGED <<file, lock, number, snapshot, outcome>>

\* A slip: a file that does not exist is not what an empty ledger came from.
Compare_Absent(c) ==
    /\ pc[c] = "locked"
    /\ pc' = [pc EXCEPT ![c] = IF file = snapshot[c] /\ file # {} THEN "same"
                                                                ELSE "changed"]
    /\ UNCHANGED <<file, lock, number, snapshot, outcome>>

Compare(c) ==
    /\ pc[c] = "locked"
    /\ pc' = [pc EXCEPT ![c] = IF file = snapshot[c] THEN "same" ELSE "changed"]
    /\ UNCHANGED <<file, lock, number, snapshot, outcome>>

Replace(c) ==
    /\ pc[c] = "same"
    /\ file' = snapshot[c] \cup {Update(c)}
    /\ pc' = [pc EXCEPT ![c] = "replaced"]
    /\ UNCHANGED <<lock, number, snapshot, outcome>>

\* The temporary file cannot be written or renamed.
ReplaceFails(c) ==
    /\ "io" \in Faults
    /\ pc[c] = "same"
    /\ pc' = [pc EXCEPT ![c] = "failed"]
    /\ UNCHANGED <<file, lock, number, snapshot, outcome>>

outcomeAt(c) == CASE pc[c] = "replaced" -> "committed"
                  [] pc[c] = "changed"  -> "conflict"
                  [] pc[c] = "failed"   -> "error"

\* The finally block.
Unlock(c) ==
    /\ pc[c] \in {"replaced", "changed", "failed"}
    /\ lock' = FALSE
    /\ Settle(c, outcomeAt(c))
    /\ UNCHANGED <<file, number, snapshot>>

\* An error of the finally block hides how the body ended.
UnlockFails(c) ==
    /\ "io" \in Faults
    /\ pc[c] \in {"replaced", "changed", "failed"}
    /\ Settle(c, "error")
    /\ UNCHANGED <<file, lock, number, snapshot>>

Crash(c) ==
    /\ "crash" \in Faults
    /\ pc[c] # "idle"
    /\ Settle(c, "error")
    /\ UNCHANGED <<file, lock, number, snapshot>>

Step(c) == \/ OpenLock(c) \/ LockExists(c) \/ Compare(c)
           \/ Replace(c) \/ Unlock(c)

Fault(c) == ReplaceFails(c) \/ UnlockFails(c) \/ Crash(c)

Next == \E c \in Clients : Load(c) \/ Step(c) \/ Fault(c)

Spec == Init /\ [][Next]_vars

\* An update that was begun goes on until it settles.
Fairness == \A c \in Clients : WF_vars(Step(c))

FairSpec == Spec /\ Fairness

-----------------------------------------------------------------------------
(* Properties *)

TypeOK ==
    /\ file \subseteq AllUpdates
    /\ lock \in BOOLEAN
    /\ pc \in [Clients -> {"idle", "loaded"} \cup Held]
    /\ number \in [Clients -> 0 .. MaxUpdates]
    /\ snapshot \in [Clients -> SUBSET AllUpdates]
    /\ outcome \in [Clients -> Outcomes]

\* Two writers are never between the comparison and the replacement at the
\* same time, and what is about to be replaced is still what was loaded
\* (README: "overlapping writers cannot both pass the comparison").
NoDoublePass ==
    \A c \in Clients : pc[c] = "same" =>
        /\ file = snapshot[c]
        /\ \A d \in Clients : pc[d] \in Held => d = c

\* An update reported as committed is in the file whoever writes after it,
\* and one refused as a conflict left no trace.
OutcomesTrue ==
    \A c \in Clients :
        /\ outcome[c] = "committed" => Update(c) \in file
        /\ outcome[c] = "conflict" => Update(c) \notin file

\* No write takes an update of another client out of the file.
NothingLost == [][file \subseteq file']_vars

\* Refinement: AtomicUpdates.
stage == [c \in Clients |->
            CASE pc[c] = "replaced" -> "applied"
              [] pc[c] \in {"loaded", "locked", "same", "changed", "failed"} -> "trying"
              [] OTHER -> outcome[c]]
Updates == INSTANCE AtomicUpdates WITH contents <- file
ImplementsUpdates == Updates!Spec

\* However the clients overlap, when everybody has begun an update one is
\* made, unless a fault left the lock file behind or is reported.  (It is not
\* one for each round: the holder of an old snapshot may refuse the rest.)
SomeoneCommits ==
    \A k \in 1 .. MaxUpdates :
        (\A c \in Clients : number[c] = k)
            ~> \/ file # {}
               \/ lock /\ \A c \in Clients : pc[c] \notin Held
               \/ \E c \in Clients : outcome[c] = "error"
=============================================================================

---------------------------- MODULE AtomicUpdates ----------------------------
(***************************************************************************)
(* What the modules that use a routing state file rely on: an update is    *)
(* applied to the current contents in one step and nothing is ever taken   *)
(* out of them; an update that was refused was not applied; of one whose   *)
(* caller got another error, or died, nobody knows.                        *)
(***************************************************************************)
EXTENDS Naturals

CONSTANTS Clients

VARIABLES
    contents,   \* the updates the file contains
    number,     \* which of its updates each client is busy with
    stage       \* how far that update is

vars == <<contents, number, stage>>

Update(c) == [client |-> c, number |-> number[c]]

Init ==
    /\ contents = {}
    /\ number = [c \in Clients |-> 0]
    /\ stage = [c \in Clients |-> "none"]

Begin(c) ==
    /\ stage[c] \in {"none", "committed", "conflict", "error"}
    /\ stage' = [stage EXCEPT ![c] = "trying"]
    /\ number' = [number EXCEPT ![c] = @ + 1]
    /\ UNCHANGED contents

Apply(c) ==
    /\ stage[c] = "trying"
    /\ contents' = contents \cup {Update(c)}
    /\ stage' = [stage EXCEPT ![c] = "applied"]
    /\ UNCHANGED number

Refuse(c) ==
    /\ stage[c] = "trying"
    /\ stage' = [stage EXCEPT ![c] = "conflict"]
    /\ UNCHANGED <<contents, number>>

Report(c) ==
    /\ stage[c] = "applied"
    /\ stage' = [stage EXCEPT ![c] = "committed"]
    /\ UNCHANGED <<contents, number>>

Fail(c) ==
    /\ stage[c] \in {"trying", "applied"}
    /\ stage' = [stage EXCEPT ![c] = "error"]
    /\ UNCHANGED <<contents, number>>

Next == \E c \in Clients :
            Begin(c) \/ Apply(c) \/ Refuse(c) \/ Report(c) \/ Fail(c)

Spec == Init /\ [][Next]_vars
=============================================================================

---------------------------- MODULE ActionRoutes ----------------------------
(***************************************************************************)
(* What routing relies on: each action has one route, the steps of its     *)
(* current decision sequence.  A route grows step by step under the policy *)
(* revision it began with, the status of a step only moves forward, and a  *)
(* reset, which no finished step allows, ends all of it at once; only then *)
(* can another route begin.                                                *)
(***************************************************************************)
EXTENDS Naturals, Sequences

CONSTANTS Actions, Revisions, Choices

VARIABLES route   \* Actions -> the steps of the current sequence

Ended(steps) == \A k \in DOMAIN steps : steps[k].status = "superseded"

Fresh(revision, choice) ==
    [revision |-> revision, choice |-> choice, status |-> "selected"]

Init == route = [a \in Actions |-> <<>>]

Begin(a) ==
    /\ Ended(route[a])
    /\ \E revision \in Revisions, choice \in Choices :
          route' = [route EXCEPT ![a] = <<Fresh(revision, choice)>>]

Extend(a) ==
    /\ ~Ended(route[a])
    /\ \E choice \in Choices :
          route' = [route EXCEPT ![a] = Append(@, Fresh(@[1].revision, choice))]

Moves == {<<"selected", "dispatched">>, <<"dispatched", "failed">>,
          <<"dispatched", "completed">>}

Advance(a) ==
    \E k \in DOMAIN route[a], status \in {"dispatched", "failed", "completed"} :
        /\ <<route[a][k].status, status>> \in Moves
        /\ route' = [route EXCEPT ![a][k].status = status]

Reset(a) ==
    /\ route[a] # <<>>
    /\ \A k \in DOMAIN route[a] :
          route[a][k].status \in {"selected", "dispatched", "failed"}
    /\ route' = [route EXCEPT
                    ![a] = [k \in DOMAIN @ |-> [@[k] EXCEPT !.status = "superseded"]]]

Next == \E a \in Actions : Begin(a) \/ Extend(a) \/ Advance(a) \/ Reset(a)

Spec == Init /\ [][Next]_route
=============================================================================

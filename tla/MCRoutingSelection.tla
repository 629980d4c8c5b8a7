-------------------------- MODULE MCRoutingSelection --------------------------
(* Instances of RoutingSelection: two providers, three tiers. *)
EXTENDS RoutingSelection, TLC

Worker(provider, tier, roles, cost) ==
    [provider |-> provider, tier |-> tier, roles |-> roles, enabled |-> TRUE,
     context |-> 3, capabilities |-> {"code"}, cost |-> cost, latency |-> 1]

Catalog == 1 :> Worker(1, 1, {"implementer"}, 1)
        @@ 2 :> Worker(2, 1, {"implementer"}, 1)
        @@ 3 :> Worker(1, 2, Roles, 1)
        @@ 4 :> Worker(2, 2, Roles, 1)
        @@ 5 :> Worker(1, 3, Roles, 2)

Base == [revision |-> "r1", tiers |-> {1, 2, 3}, high |-> 2,
         candidates |-> Catalog, weights |-> 1 :> 1 @@ 2 :> 2, window |-> 4,
         fallbacks |-> 2, escalations |-> 1, cost |-> 2, latency |-> 1]

\* One provider's high candidate is switched off, shares and window change.
Tuned == [Base EXCEPT !.revision = "r2", !.candidates[3].enabled = FALSE,
                      !.weights = 1 :> 1 @@ 2 :> 1, !.window = 2]

\* A candidate is retired.
Retired == [Base EXCEPT !.revision = "r3",
                        !.candidates = [c \in DOMAIN @ \ {1} |-> @[c]]]

Edits == {Base, Tuned}
Retirement == {Base, Retired}

Bounded == [kind |-> "implementation", complexity |-> "low", risk |-> "low",
            verification |-> "objective", capabilities |-> {"code"},
            cost |-> 2, latency |-> 1]
Cheap == [Bounded EXCEPT !.cost = 1]

MCHints == {Bounded, Cheap}

Plain == [taskHint |-> Bounded, planHint |-> None, matches |-> 0,
          planErrors |-> FALSE, strict |-> FALSE, structure |-> "low", size |-> 1,
          approval |-> "not_required", retries |-> 0, changesRequested |-> 0,
          sessionsFailed |-> 0, historyErrors |-> FALSE]

Planned == [Plain EXCEPT !.taskHint = None, !.planHint = Cheap, !.matches = 1]

SomeFacts == <<{Planned}, {[Plain EXCEPT !.strict = TRUE]}>>

Pins == {[candidate |-> 1, role |-> "implementer", fallback |-> TRUE],
         [candidate |-> 5, role |-> "reviewer", fallback |-> FALSE]}
=============================================================================

---------------------------- MODULE RoutingPolicy ----------------------------
(***************************************************************************)
(* selectCandidate: which candidate takes the next step of an action, a    *)
(* pure function of the configuration, the workload and the recorded       *)
(* history.  An input is a record                                          *)
(*   config       the validated catalog and policy (Configs)               *)
(*   workload     of RoutingWorkload, with the facts it came from          *)
(*   key          task, role, attempt and policy revision                  *)
(*   history      the recorded steps, oldest first                         *)
(*   implementer  the recorded Implementer step of this attempt, or None   *)
(*   recovery     reason and previous candidate, or None                   *)
(*   override     the pinned candidate, or None                            *)
(*   cooled       candidates whose cooldown is not over                    *)
(*                                                                          *)
(* Candidates and providers are numbers: their order is the text order of  *)
(* their ids that breaks ties.  A tier is its rank, a cost or latency      *)
(* class its index.  Weights are natural numbers: a list of decimal        *)
(* weights has the same shares as its multiple by a power of ten, and the  *)
(* exact fractions of the code compare as the products below do.           *)
(***************************************************************************)
EXTENDS RoutingWorkload, FiniteSetsExt, Sequences

Roles == {"implementer", "reviewer"}

FallbackReasons == {"capacity", "timeout", "provider_failure"}
EscalationReasons == {"verification_failed", "context_insufficient",
                      "repeated_evidence"}

\* The preferences an override may displace; every other gate is for safety.
Displaceable == {"cost_budget_exceeded", "latency_budget_exceeded"}

-----------------------------------------------------------------------------
(* validateRoutingConfig, as far as selection relies on it *)

validateTiers(c) ==
    c.tiers # {} /\ IsFiniteSet(c.tiers) /\ c.tiers \subseteq Nat \ {0}

validateCandidates(c) ==
    /\ DOMAIN c.candidates # {} /\ IsFiniteSet(DOMAIN c.candidates)
    /\ \A id \in DOMAIN c.candidates :
          /\ c.candidates[id].tier \in c.tiers
          /\ {id, c.candidates[id].provider, c.candidates[id].context,
              c.candidates[id].cost, c.candidates[id].latency} \subseteq Nat
          /\ IsFiniteSet(c.candidates[id].capabilities)
          /\ c.candidates[id].roles # {} /\ c.candidates[id].roles \subseteq Roles
    /\ \A role \in Roles : \E id \in DOMAIN c.candidates :
          c.candidates[id].enabled /\ role \in c.candidates[id].roles

validatePolicy(c) ==
    /\ c.high \in c.tiers
    /\ DOMAIN c.weights = {c.candidates[id].provider : id \in DOMAIN c.candidates}
    /\ \A p \in DOMAIN c.weights : c.weights[p] \in Nat \ {0}
    /\ \A limit \in {c.window, c.fallbacks, c.escalations} : limit \in Nat \ {0}

validateRoutingConfig(c) ==
    validateTiers(c) /\ validateCandidates(c) /\ validatePolicy(c)

-----------------------------------------------------------------------------
(* What is refused before any candidate is considered *)

SameAction(k, l) == k.task = l.task /\ k.role = l.role /\ k.attempt = l.attempt

\* Every step of the history is one the catalog knows and follows the rules
\* of a route; steps of the key's action share its policy revision.
validateHistory(history, config, key) ==
    \A i \in DOMAIN history :
        LET h == history[i]
            earlier == {j \in 1 .. i - 1 : SameAction(history[j].key, h.key)}
        IN  /\ h.candidate \in DOMAIN config.candidates
            /\ config.candidates[h.candidate].provider = h.provider
            /\ h.key.role \in config.candidates[h.candidate].roles
            /\ (h.step = 0) = (h.reason = "none")
            /\ h.step = Cardinality(earlier)
            /\ \A j \in earlier :
                  /\ history[j].key.revision = h.key.revision
                  /\ history[j].candidate # h.candidate
            /\ SameAction(h.key, key) => h.key.revision = key.revision

validateCooldowns(cooled, config) == cooled \subseteq DOMAIN config.candidates

\* The recorded Implementer step agrees with the catalog of today.
validateImplementerDecision(d, config) ==
    d # None =>
        /\ d.candidate \in DOMAIN config.candidates
        /\ config.candidates[d.candidate].provider = d.provider
        /\ config.candidates[d.candidate].tier = d.tier
        /\ "implementer" \in config.candidates[d.candidate].roles

validateOverrideInput(o, key, config) ==
    o # None =>
        /\ o.role = key.role
        /\ o.candidate \in DOMAIN config.candidates
        /\ key.role \in config.candidates[o.candidate].roles

PriorSteps(in) == {i \in DOMAIN in.history : in.history[i].key = in.key}

Step(in) == Cardinality(PriorSteps(in))

priorCandidates(in) == {in.history[i].candidate : i \in PriorSteps(in)}

escalationsUsed(in) ==
    Cardinality({i \in DOMAIN in.history :
                    /\ in.history[i].key.task = in.key.task
                    /\ in.history[i].reason \in EscalationReasons})

Recovering(in, reasons) == in.recovery # None /\ in.recovery.reason \in reasons

WithinLimits(in) ==
    /\ Step(in) <= in.config.fallbacks
    /\ escalationsUsed(in) <= in.config.escalations
    /\ Recovering(in, EscalationReasons) =>
          escalationsUsed(in) < in.config.escalations

\* The input passes every check that needs no candidate gate.
Accepted(in) ==
    /\ validateWorkload(in.workload, in.key.role, in.facts, in.config)
    /\ validateHistory(in.history, in.config, in.key)
    /\ validateCooldowns(in.cooled, in.config)
    /\ validateImplementerDecision(in.implementer, in.config)
    /\ validateOverrideInput(in.override, in.key, in.config)
    /\ WithinLimits(in)
    /\ in.override # None => Step(in) = 0
    /\ in.recovery # None =>
          \E i \in PriorSteps(in) : /\ in.history[i].step = Step(in) - 1
                                    /\ in.history[i].candidate = in.recovery.previous

-----------------------------------------------------------------------------
(* Tier floors *)

Tier(in, c) == in.config.candidates[c].tier
Provider(in, c) == in.config.candidates[c].provider

\* Only an Implementer whose lower-tier gates all passed may go below the high
\* tier.
baseMinRank(in) ==
    IF /\ in.key.role = "implementer" /\ in.workload.kind = "implementation"
       /\ in.workload.rejections = {}
    THEN in.workload.minimum
    ELSE Max({in.workload.minimum, in.config.high})

\* A slip: the Reviewer's floor is the high tier, whoever implemented.
reviewerFloorRank_High(in) ==
    IF in.key.role # "reviewer" THEN 0 ELSE in.config.high

reviewerFloorRank(in) ==
    IF in.key.role # "reviewer" THEN 0
    ELSE IF in.implementer = None THEN in.config.high ELSE in.implementer.tier

\* An escalation goes to the next tier up, above all of them if there is none.
recoveryFloorRank(in) ==
    LET above == {t \in in.config.tiers : t > Tier(in, in.recovery.previous)}
    IN  IF ~Recovering(in, EscalationReasons) THEN 0
        ELSE IF above = {} THEN Max(in.config.tiers) + 1 ELSE Min(above)

-----------------------------------------------------------------------------
(* Gates *)

Gates == {"candidate_disabled", "candidate_cooldown_active", "role_ineligible",
          "prior_step_candidate", "capability_missing",
          "context_capacity_insufficient", "cost_budget_exceeded",
          "latency_budget_exceeded", "tier_below_minimum",
          "tier_below_reviewer_floor", "tier_below_recovery_floor"}

Floors(in) == [tier_below_minimum |-> baseMinRank(in),
               tier_below_reviewer_floor |-> reviewerFloorRank(in),
               tier_below_recovery_floor |-> recoveryFloorRank(in)]

GateFails(in, floors, c, gate) ==
    LET candidate == in.config.candidates[c]
    IN  CASE gate = "candidate_disabled" -> ~candidate.enabled
          [] gate = "candidate_cooldown_active" -> c \in in.cooled
          [] gate = "role_ineligible" -> in.key.role \notin candidate.roles
          [] gate = "prior_step_candidate" -> c \in priorCandidates(in)
          [] gate = "capability_missing" ->
                 ~(in.workload.capabilities \subseteq candidate.capabilities)
          [] gate = "context_capacity_insufficient" ->
                 candidate.context < in.workload.size
          [] gate = "cost_budget_exceeded" -> candidate.cost > in.workload.cost
          [] gate = "latency_budget_exceeded" ->
                 candidate.latency > in.workload.latency
          [] OTHER -> candidate.tier < floors[gate]

considered(in) ==
    LET floors == Floors(in)
    IN  [c \in DOMAIN in.config.candidates |->
            {g \in Gates : GateFails(in, floors, c, g)}]

\* Of the candidates that passed, those a fallback may take: the same tier at
\* another provider while there is one, a higher tier otherwise.
FallbackTargets(in, passed) ==
    LET previous == in.recovery.previous
        across == {c \in passed : /\ Tier(in, c) = Tier(in, previous)
                                  /\ Provider(in, c) # Provider(in, previous)}
    IN  IF across # {} THEN across
        ELSE {c \in passed : Tier(in, c) > Tier(in, previous)}

\* A slip: a fallback takes whoever passed the gates.
routedConsidered_Any(in) == considered(in)

routedConsidered(in) ==
    LET gates == considered(in)
        passed == {c \in DOMAIN gates : gates[c] = {}}
    IN  IF ~Recovering(in, FallbackReasons) THEN gates
        ELSE [c \in DOMAIN gates |->
                IF c \in passed \ FallbackTargets(in, passed)
                THEN {"recovery_order"} ELSE gates[c]]

Eligible(gates) == {c \in DOMAIN gates : gates[c] = {}}

-----------------------------------------------------------------------------
(* Fitness and distribution *)

\* The highest floor; after a fallback at least the lowest tier left.
requiredFloorRank(in, eligible) ==
    Max({baseMinRank(in), reviewerFloorRank(in), recoveryFloorRank(in)}
        \cup (IF Recovering(in, FallbackReasons)
              THEN {Min({Tier(in, c) : c \in eligible})} ELSE {}))

\* Larger is better, compared position by position.
fitnessVector(in, c, floor) ==
    LET candidate == in.config.candidates[c]
    IN  <<IF in.implementer # None /\ candidate.provider # in.implementer.provider
          THEN 1 ELSE 0,
          floor - candidate.tier,
          Cardinality(in.workload.capabilities) - Cardinality(candidate.capabilities),
          0 - candidate.latency,
          0 - candidate.cost>>

Better(u, v) == \E i \in DOMAIN u : u[i] > v[i] /\ \A j \in 1 .. i - 1 : u[j] = v[j]

\* The eligible candidates with the best vector.
equivalent(in, eligible) ==
    LET floor == requiredFloorRank(in, eligible)
        vector == [c \in eligible |-> fitnessVector(in, c, floor)]
    IN  {c \in eligible : \A d \in eligible : ~Better(vector[d], vector[c])}

\* A slip: the window of one Task.
windowRows_Task(in) ==
    {i \in DOMAIN in.history : /\ i > Len(in.history) - in.config.window
                               /\ in.history[i].key.task = in.key.task}

\* The last steps recorded, as many as the window holds.
windowRows(in) ==
    {i \in DOMAIN in.history : i > Len(in.history) - in.config.window}

countByProvider(in) ==
    [p \in DOMAIN in.config.weights |->
        Cardinality({i \in windowRows(in) : in.history[i].provider = p})]

\* The sum of a function's values, each as many tickets.
Total(f) == Cardinality(UNION {{p} \X (1 .. f[p]) : p \in DOMAIN f})

totalWeight(config) == Total(config.weights)

\* How far a provider is behind its share of the window, times the total weight.
deficit(in, p) ==
    Cardinality(windowRows(in)) * in.config.weights[p]
        - countByProvider(in)[p] * totalWeight(in.config)

\* Among equivalent candidates the provider furthest behind, then the first id.
chosenEntry(in, best) ==
    LET providers == {Provider(in, c) : c \in best}
        owed == {p \in providers :
                    \A q \in providers : deficit(in, q) <= deficit(in, p)}
    IN  Min({c \in best : Provider(in, c) = Min(owed)})

-----------------------------------------------------------------------------
(* selectCandidate *)

\* An override takes its candidate if no gate but its budgets failed.
Refused(in) ==
    \/ ~Accepted(in)
    \/ LET gates == routedConsidered(in)
       IN  \/ Eligible(gates) = {}
           \/ in.override # None
                 /\ ~(gates[in.override.candidate] \subseteq Displaceable)

selectCandidate(in) ==
    LET gates == routedConsidered(in)
        best == equivalent(in, Eligible(gates))
        winner == chosenEntry(in, best)
        chosen == IF in.override = None THEN winner ELSE in.override.candidate
        floor == requiredFloorRank(in, Eligible(gates))
    IN  [key |-> in.key, step |-> Step(in), candidate |-> chosen,
         provider |-> Provider(in, chosen), tier |-> Tier(in, chosen),
         considered |-> [c \in DOMAIN gates |->
                           [provider |-> Provider(in, c), tier |-> Tier(in, c),
                            reasons |-> gates[c]]],
         override |-> in.override, implementer |-> in.implementer,
         workload |-> in.workload, policyWinner |-> winner,
         floor |-> floor, equivalent |-> best,
         fitness |-> fitnessVector(in, winner, floor),
         weights |-> in.config.weights, counts |-> countByProvider(in),
         observed |-> Cardinality(windowRows(in))]
=============================================================================

--------------------------- MODULE RoutingSelection ---------------------------
(***************************************************************************)
(* Selection over time: the actions of several Tasks are resolved, fall    *)
(* back, complete, are reviewed and reset while the operator edits the     *)
(* configuration and cooldowns begin and end.  Every selection is made by  *)
(* RoutingPolicy from the rows recorded so far and is recorded only if the *)
(* ledger's own checks of its evidence agree.                              *)
(*                                                                          *)
(* One command runs at a time (RoutedDispatch has the interleavings), so   *)
(* resolving, advancing and the row they record are one step each.         *)
(***************************************************************************)
EXTENDS RoutingPolicy

CONSTANTS
    Tasks,
    Configs,      \* the configurations an operator writes
    TaskFacts,    \* Tasks -> what it may say about itself (history counters are 0)
    Overrides,    \* route overrides a command may be given
    Reasons,      \* how a routed Worker fails
    MaxAttempts,  \* attempts of a Task (bound)
    MaxCooled,    \* cooldowns at a time (bound)
    MaxRows       \* rows recorded (bound)

ASSUME ConfigsAssumption == \A c \in Configs : validateRoutingConfig(c)
ASSUME FactsAssumption == \A t \in Tasks : TaskFacts[t] \subseteq Facts
ASSUME BoundsAssumption ==
    MaxAttempts \in Nat /\ MaxCooled \in Nat /\ MaxRows \in Nat

\* A revision is the digest of its configuration.
ASSUME RevisionsAssumption == \A c, d \in Configs : c.revision = d.revision => c = d

\* The capabilities a hint names are a list in a file.
ASSUME HintsAssumption == \A h \in Hints : IsFiniteSet(h.capabilities)
ASSUME ReasonsAssumption == Reasons \subseteq FallbackReasons \cup EscalationReasons
ASSUME NoneAssumption ==
    /\ None \notin Overrides
    /\ None \notin [reason : Reasons, previous : Nat]
    /\ None \notin [candidate : Nat, provider : Nat, tier : Nat]

VARIABLES
    config,  \* the routing configuration
    cooled,  \* candidates with a cooldown
    task,    \* Tasks -> attempt, the Role it asks for, facts, failed sessions
    rows     \* the decision ledger, oldest first

vars == <<config, cooled, task, rows>>

Init ==
    /\ config \in Configs
    /\ cooled = {}
    /\ \E facts \in [Tasks -> UNION {TaskFacts[t] : t \in Tasks}] :
          /\ \A t \in Tasks : facts[t] \in TaskFacts[t]
          /\ task = [t \in Tasks |-> [attempt |-> 1, role |-> "implementer",
                                     facts |-> facts[t], failed |-> FALSE]]
    /\ rows = <<>>

-----------------------------------------------------------------------------
(* What selection reads *)

Key(t) == [task |-> t, role |-> task[t].role, attempt |-> task[t].attempt,
           revision |-> config.revision]

\* The rows of the action that no reset superseded.
Live(t) == {i \in DOMAIN rows : /\ SameAction(rows[i].key, Key(t))
                                /\ rows[i].status # "superseded"}

\* A slip: closed generations are never pruned from the history.
historyProjection_All == rows

\* Rows of closed generations leave the history.
Projected[n \in 0 .. Len(rows)] ==
    IF n = 0 THEN << >>
    ELSE IF rows[n].status = "superseded" THEN Projected[n - 1]
    ELSE Append(Projected[n - 1], rows[n])

historyProjection == Projected[Len(rows)]

\* The last Implementer row of the attempt, whatever became of it.
implementerDecisionFor(key) ==
    LET found == {i \in DOMAIN rows : /\ rows[i].key.task = key.task
                                      /\ rows[i].key.role = "implementer"
                                      /\ rows[i].key.attempt = key.attempt}
    IN  IF key.role = "reviewer" /\ found # {}
        THEN [candidate |-> rows[Max(found)].candidate,
              provider |-> rows[Max(found)].provider, tier |-> rows[Max(found)].tier]
        ELSE None

\* An attempt after the first follows a Review that requested changes.
FactsNow(t) ==
    [task[t].facts EXCEPT !.retries = task[t].attempt - 1,
                          !.changesRequested = task[t].attempt - 1,
                          !.sessionsFailed = IF task[t].failed THEN 1 ELSE 0]

Workload(t) == buildWorkloadContext(FactsNow(t), task[t].role, config)

Input(t, workload, recovery, override) ==
    [config |-> config, workload |-> workload, facts |-> FactsNow(t),
     key |-> Key(t), history |-> historyProjection,
     implementer |-> implementerDecisionFor(Key(t)), recovery |-> recovery,
     override |-> override, cooled |-> cooled]

-----------------------------------------------------------------------------
(* validateDecisionRecord: what the ledger recomputes from a row's evidence *)

ProvidersOf(s, candidates) == {s.considered[c].provider : c \in candidates}

Owed(s, p) == s.observed * s.weights[p]
                - s.counts[p] * Total(s.weights)

validateDistribution(s) ==
    /\ DOMAIN s.counts = ProvidersOf(s, DOMAIN s.considered)
    /\ Total(s.counts) = s.observed

\* The winner: of the provider with the greatest deficit, the first candidate.
expectedWinner(s) ==
    LET providers == ProvidersOf(s, s.equivalent)
        greatest == Min({p \in providers :
                            \A q \in providers : Owed(s, q) <= Owed(s, p)})
    IN  Min({c \in s.equivalent : s.considered[c].provider = greatest})

validateDecisionRecord(s) ==
    /\ validateWorkloadSummary(s.workload)
    /\ IF s.override = None THEN s.considered[s.candidate].reasons = {}
       ELSE s.considered[s.candidate].reasons \subseteq Displaceable
    /\ \A c \in s.equivalent : s.considered[c].reasons = {}
    /\ \A i \in 2 .. 5 : s.fitness[i] <= 0
    /\ validateDistribution(s)
    /\ s.policyWinner = expectedWinner(s)

-----------------------------------------------------------------------------
(* Steps *)

Row(s, reason) ==
    [key |-> s.key, step |-> s.step, candidate |-> s.candidate,
     provider |-> s.provider, tier |-> s.tier, reason |-> reason,
     override |-> s.override, workload |-> s.workload, equivalent |-> s.equivalent,
     reasons |-> [c \in DOMAIN s.considered |-> s.considered[c].reasons],
     status |-> "selected"]

\* resolve: the first step of an action without live rows.
Resolve(t) ==
    /\ task[t].role \in Roles
    /\ Live(t) = {}
    /\ Len(rows) < MaxRows
    /\ \E o \in {None} \cup {o \in Overrides : o.role = task[t].role} :
          LET in == Input(t, Workload(t), None, o)
          IN  /\ ~Refused(in)
              /\ LET s == selectCandidate(in)
                 IN  /\ validateDecisionRecord(s)
                     /\ rows' = Append(rows, Row(s, "none"))
    /\ UNCHANGED <<config, cooled, task>>

\* The row a Worker is launched for; a command that finds it selected resumes
\* it with a workload derived anew.
Active(t) == IF Live(t) = {} THEN 0
             ELSE IF rows[Max(Live(t))].status = "selected" THEN Max(Live(t)) ELSE 0

Workloads(t) == {rows[Active(t)].workload, Workload(t)}

FailedRow(i) == [rows EXCEPT ![i].status = "failed"]

\* The session of a failed Worker may be on record, as failed or not.
NoteFailure(t, reason) ==
    \E failed \in {task[t].failed, TRUE} :
        /\ reason = "capacity" => failed = task[t].failed
        /\ task' = [task EXCEPT ![t].failed = failed]

\* A cooldown of the candidate, next to those not over.
recordCooldown(cooling) == cooled \cup cooling

\* #advance: a failure may end the action, pause it, or select the next step.
Advance(t) ==
    /\ task[t].role \in Roles
    /\ Active(t) # 0
    /\ rows[Active(t)].key.revision = config.revision
    /\ \E reason \in Reasons, w \in Workloads(t),
          cooling \in {{}, {rows[Active(t)].candidate}} :
          LET i == Active(t)
              recovery == [reason |-> reason, previous |-> rows[i].candidate]
              in == [Input(t, w, recovery, None) EXCEPT
                        !.cooled = @ \cup cooling]
              denied == rows[i].override # None /\ ~rows[i].override.fallback
              ends == denied \/ Refused(in)
          IN  /\ cooling # {} =>
                    reason = "capacity" /\ Cardinality(cooled) < MaxCooled
              /\ cooled' = recordCooldown(cooling)
              /\ NoteFailure(t, reason)
              /\ \/ ends /\ reason = "capacity" /\ UNCHANGED rows
                 \/ ends /\ reason # "capacity" /\ rows' = FailedRow(i)
                 \/ /\ ~ends
                    /\ Len(rows) < MaxRows
                    /\ LET s == selectCandidate(in)
                       IN  rows' = IF validateDecisionRecord(s)
                                   THEN Append(FailedRow(i), Row(s, reason))
                                   ELSE FailedRow(i)
    /\ UNCHANGED config

\* The Worker answers: an implementation is reviewed; a Review passes the
\* Task or, while attempts are left, sends it back.
Complete(t) ==
    /\ task[t].role \in Roles
    /\ Active(t) # 0
    /\ rows' = [rows EXCEPT ![Active(t)].status = "completed"]
    /\ \/ /\ task[t].role = "implementer"
          /\ task' = [task EXCEPT ![t].role = "reviewer"]
       \/ /\ task[t].role = "reviewer"
          /\ task' = [task EXCEPT ![t].role = "done"]
       \/ /\ task[t].role = "reviewer" /\ task[t].attempt < MaxAttempts
          /\ task' = [task EXCEPT ![t].role = "implementer", ![t].attempt = @ + 1]
    /\ UNCHANGED <<config, cooled>>

ResetAction(t) ==
    /\ Live(t) # {}
    /\ \A i \in Live(t) : rows[i].status \in {"selected", "failed"}
    /\ rows' = [i \in DOMAIN rows |->
                   IF i \in Live(t) THEN [rows[i] EXCEPT !.status = "superseded"]
                   ELSE rows[i]]
    /\ UNCHANGED <<config, cooled, task>>

EditConfig ==
    /\ config' \in Configs \ {config}
    /\ UNCHANGED <<cooled, task, rows>>

\* A cooldown expires or is cleared.
CooldownEnds ==
    /\ \E c \in cooled : cooled' = cooled \ {c}
    /\ UNCHANGED <<config, task, rows>>

Next == \/ \E t \in Tasks : Resolve(t) \/ Advance(t) \/ Complete(t) \/ ResetAction(t)
        \/ EditConfig \/ CooldownEnds

Spec == Init /\ [][Next]_vars

-----------------------------------------------------------------------------
(* Properties *)

\* The next command or failure of a Task asks for a selection.
Asking(t) ==
    /\ task[t].role \in Roles
    /\ \/ Live(t) = {}
       \/ Active(t) # 0 /\ rows[Active(t)].key.revision = config.revision

Asks(t) ==
    IF Live(t) = {}
    THEN {Input(t, Workload(t), None, o) :
            o \in {None} \cup {o \in Overrides : o.role = task[t].role}}
    ELSE {Input(t, w, [reason |-> reason, previous |-> rows[Active(t)].candidate], None) :
            w \in Workloads(t), reason \in Reasons}

\* What a Task says, and what it says after one edit of the Task, of a plan or
\* of the hints, or with one malformed entry in its history.
Variations(f) ==
    {f, [f EXCEPT !.strict = ~@], [f EXCEPT !.planErrors = ~@],
     [f EXCEPT !.matches = 2 - @], [f EXCEPT !.taskHint = None],
     [f EXCEPT !.approval = "required"], [f EXCEPT !.historyErrors = TRUE],
     [f EXCEPT !.size = 3]}

\* The three modules that compute the same things agree.  The workload derived for
\* an action is one the selection's recheck and the ledger's accept, whatever is
\* missing, broken or in conflict; no action is refused for the steps recorded
\* before it, whatever fallbacks, resets, attempts and edits that keep every
\* candidate came in between; and the ledger, which computes gates, shares and
\* winner from the row's evidence, refuses no selection.
SelectionsAccepted ==
    /\ \A t \in Tasks : Asking(t) =>
          LET in == Input(t, Workload(t), None, None)
          IN  /\ validateHistory(in.history, config, in.key)
              /\ validateImplementerDecision(in.implementer, config)
              /\ escalationsUsed(in) <= config.escalations
    /\ Len(rows) < MaxRows => \A t \in Tasks :
          /\ task[t].role \in Roles =>
                \A f \in Variations(FactsNow(t)) :
                    LET w == buildWorkloadContext(f, task[t].role, config)
                    IN  /\ validateWorkload(w, task[t].role, f, config)
                        /\ validateWorkloadSummary(w)
          /\ Asking(t) => \A in \in Asks(t) : ~Refused(in) =>
                LET s == selectCandidate(in)
                IN  validateDecisionRecord(s) /\ s.floor \in config.tiers

\* The step a row of the ledger followed.
Followed(i) == CHOOSE j \in 1 .. i - 1 :
                  /\ rows'[j].key = rows'[i].key /\ rows'[j].step = rows'[i].step - 1
                  /\ rows'[j].status # "superseded"

Appended == IF Len(rows') > Len(rows) THEN {Len(rows')} ELSE {}

\* Recovery goes up, never down: an escalation to a stronger candidate, a
\* fallback to the same tier at another provider, and to a stronger one only
\* when no candidate that passes the gates was left at the tier.
RecoveryOrder ==
    [][\A i \in Appended : rows'[i].step > 0 =>
          LET row == rows'[i]
              previous == rows'[Followed(i)]
              left == {c \in DOMAIN config.candidates :
                          /\ config.candidates[c].tier = previous.tier
                          /\ config.candidates[c].provider # previous.provider
                          /\ row.reasons[c] \subseteq {"recovery_order"}}
          IN  \/ /\ row.tier > previous.tier
                 /\ row.reason \in FallbackReasons => left = {}
              \/ /\ row.tier = previous.tier
                 /\ row.provider # previous.provider
                 /\ row.reason \in FallbackReasons]_vars

\* A Reviewer is never weaker than the Implementer whose work it reviews, and
\* neither a Reviewer nor an Implementer after a rejected Review or of work not
\* known to be safe is below the high tier, with any override.
TierFloors ==
    [][\A i \in Appended :
          LET row == rows'[i]
          IN  /\ \/ row.key.role = "reviewer" \/ row.key.attempt > 1
                 \/ row.workload.kind # "implementation"
                    => row.tier >= config.high
              /\ row.key.role = "reviewer" =>
                    \A j \in DOMAIN rows :
                       /\ rows[j].key.task = row.key.task
                       /\ rows[j].key.attempt = row.key.attempt
                       /\ rows[j].key.role = "implementer"
                       /\ rows[j].status = "completed"
                       => row.tier >= rows[j].tier]_vars

\* While every choice so far was free between all providers, no provider is
\* more than one decision ahead of its share.
SharesKept ==
    LET n == Len(rows)
        Count(p) == Cardinality({i \in 1 .. n : rows[i].provider = p})
    IN  (/\ n <= config.window
         /\ \A i \in 1 .. n :
               /\ rows[i].key.revision = config.revision
               /\ rows[i].status # "superseded" /\ rows[i].override = None
               /\ {config.candidates[c].provider : c \in rows[i].equivalent}
                     = DOMAIN config.weights)
        => \A p \in DOMAIN config.weights :
              (Count(p) - 1) * totalWeight(config) <= n * config.weights[p]

\* README.md:755-788: resetting an action is the remedy for any edit of the
\* routing configuration that strands it: with its rows superseded, and no other
\* action left to reset, it starts again under the current policy.
ResetUnstrands ==
    \A t \in Tasks :
        (/\ task[t].role \in Roles
         /\ \E i \in DOMAIN rows : SameAction(rows[i].key, Key(t))
         /\ \A i \in DOMAIN rows : rows[i].status \in {"completed", "superseded"})
        => LET in == Input(t, Workload(t), None, None)
           IN  /\ validateHistory(in.history, config, in.key)
               /\ validateImplementerDecision(in.implementer, config)
=============================================================================

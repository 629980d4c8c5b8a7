--------------------------- MODULE RoutingWorkload ---------------------------
(***************************************************************************)
(* The workload of an action: what the Task, its plan, its history and the *)
(* operator's hints say about the work, and from that the lowest tier that *)
(* may do it.  One function derives it before every selection; two others  *)
(* examine what it derived, the selection before it uses it and the ledger *)
(* before it stores it, and refuse the action if it breaks a rule of       *)
(* theirs.                                                                 *)
(*                                                                          *)
(* Facts are what the derivation reads.  Parsing is left out: whether the  *)
(* Task text is a strict planning contract, how complex its structure is,  *)
(* how many adopted plans name it and whether a plan or a history entry is *)
(* malformed are inputs.  Sizes and limits are on one scale: 1 is the      *)
(* small band, 2 the medium one, 3 and above the large one.  An approved   *)
(* Task is done and a rejected one blocked, so neither is routed.          *)
(***************************************************************************)
EXTENDS Integers, FiniteSets

CONSTANTS
    None,    \* no hint, no override, no decision
    Hints    \* the operator's hints, each for one Task or one plan

Bands == {"low", "medium", "high", "unknown"}

Facts == [taskHint : Hints \cup {None}, planHint : Hints \cup {None},
          matches : 0 .. 2, planErrors : BOOLEAN, strict : BOOLEAN, structure : Bands,
          size : 1 .. 3, approval : {"not_required", "required"},
          retries : Nat, changesRequested : Nat, sessionsFailed : Nat,
          historyErrors : BOOLEAN]

-----------------------------------------------------------------------------
(* buildWorkloadContext *)

\* A hint for the Task goes before a hint for the one plan that names it.
hintSource(f) ==
    IF f.taskHint # None THEN "task_hint"
    ELSE IF f.matches = 1 /\ f.planHint # None THEN "plan_hint" ELSE "default"

chooseHint(f) ==
    CASE hintSource(f) = "task_hint" -> f.taskHint
      [] hintSource(f) = "plan_hint" -> f.planHint
      [] OTHER -> None

Hinted(f) == chooseHint(f) # None

unresolvedFailure(f) ==
    f.retries > 0 \/ f.changesRequested > 0 \/ f.sessionsFailed > 0
        \/ f.historyErrors

Conflict(f) == f.strict /\ Hinted(f) /\ chooseHint(f).kind # "planning"

workKind(f) ==
    CASE Conflict(f) -> "unknown"
      [] ~Conflict(f) /\ Hinted(f) -> chooseHint(f).kind
      [] OTHER -> IF f.strict THEN "planning" ELSE "unknown"

complexityOf(f) == IF Hinted(f) THEN chooseHint(f).complexity ELSE f.structure

riskOf(f) ==
    IF f.approval = "required" \/ unresolvedFailure(f) THEN "high"
    ELSE IF Hinted(f) THEN chooseHint(f).risk ELSE "unknown"

riskSource(f) ==
    IF f.approval = "required" \/ unresolvedFailure(f)
    THEN "evidence" ELSE hintSource(f)

verificationOf(f) ==
    IF Hinted(f) THEN chooseHint(f).verification ELSE "unknown"

uncertainties(f) ==
      (IF f.planErrors THEN {"parent_plan_invalid"} ELSE {})
      \cup (IF f.matches = 0 THEN {"parent_plan_missing"} ELSE {})
      \cup (IF f.matches > 1 THEN {"parent_plan_ambiguous"} ELSE {})
      \cup (IF Conflict(f) THEN {"work_kind_conflict"} ELSE {})
      \cup (IF f.historyErrors THEN {"history_invalid"} ELSE {})
      \cup (IF Hinted(f) THEN {} ELSE {"required_capabilities_unknown"})
      \cup {flag \in {"work_kind_unknown", "complexity_unknown", "risk_unknown",
                      "verification_unknown"} :
              \/ flag = "work_kind_unknown" /\ workKind(f) = "unknown"
              \/ flag = "complexity_unknown" /\ complexityOf(f) = "unknown"
              \/ flag = "risk_unknown" /\ riskOf(f) = "unknown"
              \/ flag = "verification_unknown" /\ verificationOf(f) = "unknown"}

\* The gates of lower-tier work, each named by what a failure is reported as.
rejectionReasons(f, role) ==
    {reason \in {"role_not_implementer", "work_not_bounded_implementation",
                 "complexity_not_low", "risk_not_low", "context_not_bounded",
                 "capabilities_not_explicit", "verification_not_objective",
                 "unresolved_failure_history", "safety_evidence_uncertain"} :
        CASE reason = "role_not_implementer" -> role # "implementer"
          [] reason = "work_not_bounded_implementation" ->
                 workKind(f) # "implementation"
          [] reason = "complexity_not_low" -> complexityOf(f) # "low"
          [] reason = "risk_not_low" -> riskOf(f) # "low"
          [] reason = "context_not_bounded" -> f.size >= 3
          [] reason = "capabilities_not_explicit" -> ~Hinted(f)
          [] reason = "verification_not_objective" ->
                 verificationOf(f) # "objective"
          [] reason = "unresolved_failure_history" -> unresolvedFailure(f)
          [] OTHER -> uncertainties(f) \ {"parent_plan_missing"} # {}}

\* What the derivation hands to the selection.
buildWorkloadContext(f, role, config) ==
    LET rejections == rejectionReasons(f, role)
    IN  [role |-> role, kind |-> workKind(f), complexity |-> complexityOf(f),
         risk |-> riskOf(f), size |-> f.size,
         capabilities |-> IF Hinted(f) THEN chooseHint(f).capabilities ELSE {},
         verification |-> verificationOf(f),
         cost |-> IF Hinted(f) THEN chooseHint(f).cost ELSE config.cost,
         latency |-> IF Hinted(f) THEN chooseHint(f).latency ELSE config.latency,
         approval |-> f.approval,
         failures |-> f.retries + f.changesRequested + f.sessionsFailed,
         uncertain |-> uncertainties(f), rejections |-> rejections,
         minimum |-> IF rejections = {} THEN CHOOSE t \in config.tiers :
                                               \A u \in config.tiers : t <= u
                     ELSE config.high,
         kindSource |-> CASE Conflict(f) -> "conflict"
                          [] ~Conflict(f) /\ Hinted(f) -> hintSource(f)
                          [] OTHER -> IF f.strict THEN "contract" ELSE "default",
         riskSource |-> riskSource(f), hintSource |-> hintSource(f),
         parentKnown |-> f.matches = 1, strict |-> f.strict,
         planErrors |-> f.planErrors, historyErrors |-> f.historyErrors]

-----------------------------------------------------------------------------
(* What the selection and the ledger recheck *)

HintSources == {"task_hint", "plan_hint"}

\* A hint named as a source exists, is about this Task or its parent plan, and
\* says what the workload says.
matchingHint(w, f) ==
    LET named == IF w.hintSource = "task_hint" THEN f.taskHint ELSE f.planHint
    IN  w.hintSource \in HintSources =>
            /\ w.hintSource = "plan_hint" => w.parentKnown
            /\ named # None
            /\ w.complexity = named.complexity
            /\ w.capabilities = named.capabilities
            /\ w.verification = named.verification
            /\ w.cost = named.cost /\ w.latency = named.latency
            /\ w.kindSource \in HintSources => w.kind = named.kind
            /\ w.riskSource \in HintSources => w.risk = named.risk

\* The gates that fail, from the workload alone.
expectedRejections(w) ==
    (IF w.role # "implementer" THEN {"role_not_implementer"} ELSE {})
    \cup (IF w.kind # "implementation" THEN {"work_not_bounded_implementation"} ELSE {})
    \cup (IF w.complexity # "low" THEN {"complexity_not_low"} ELSE {})
    \cup (IF w.risk # "low" THEN {"risk_not_low"} ELSE {})
    \cup (IF w.size >= 3 THEN {"context_not_bounded"} ELSE {})
    \cup (IF w.hintSource \notin HintSources THEN {"capabilities_not_explicit"} ELSE {})
    \cup (IF w.verification # "objective" THEN {"verification_not_objective"} ELSE {})
    \cup (IF w.failures > 0 \/ w.historyErrors THEN {"unresolved_failure_history"} ELSE {})
    \cup (IF w.uncertain \subseteq {"parent_plan_missing"} THEN {}
          ELSE {"safety_evidence_uncertain"})

\* The selection's own statement of lower-tier work, with three conditions no
\* rejection reason names: approval, plan errors and the planning contract.
lowerTierConsistent(w) ==
    /\ w.role = "implementer" /\ w.kind = "implementation"
    /\ w.complexity = "low" /\ w.risk = "low" /\ w.size < 3
    /\ w.hintSource \in HintSources /\ w.kindSource \in HintSources
    /\ w.verification = "objective" /\ w.approval = "not_required"
    /\ w.failures = 0 /\ ~w.planErrors /\ ~w.historyErrors /\ ~w.strict
    /\ w.uncertain \subseteq {"parent_plan_missing"}

validateWorkload(w, role, f, config) ==
    /\ w.role = role
    /\ matchingHint(w, f)
    /\ w.rejections = expectedRejections(w)
    /\ (w.rejections = {}) = lowerTierConsistent(w)
    /\ w.minimum = IF w.rejections = {}
                   THEN CHOOSE t \in config.tiers : \A u \in config.tiers : t <= u
                   ELSE config.high

validateWorkloadSummary(w) ==
    /\ w.hintSource = "plan_hint" => w.parentKnown
    /\ w.rejections = expectedRejections(w)
=============================================================================

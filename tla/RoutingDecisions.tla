--------------------------- MODULE RoutingDecisions ---------------------------
(***************************************************************************)
(* The routing decision ledger as a value: a sequence of decision rows, the *)
(* rules a ledger file must satisfy to be loaded or written, and what the   *)
(* three writers append or change.                                          *)
(*                                                                          *)
(* The rows of one action (Task, Role, Attempt) form generations: a row     *)
(* with step 0 starts one, and a route reset supersedes all of one.  Every  *)
(* row records how often each provider was chosen in the window of rows     *)
(* before it, and a load recounts that window for every row (replay), so    *)
(* changing a row that later rows counted makes the file invalid.           *)
(*                                                                          *)
(* Left out: a row's workload, candidates, fitness, reasons, override and   *)
(* list of events (the last event's time is observed_at), and the writers   *)
(* updateOutcome and attachOverride, which nothing in src/ calls.           *)
(***************************************************************************)
EXTENDS RouteEvents, Integers, Sequences, FiniteSets

CONSTANTS
    Actions,     \* Task, Role and Attempt of a decision key
    Revisions,   \* policy revisions
    Providers,
    Window       \* distribution_window of the policy

ASSUME WindowAssumption == Window \in Nat \ {0}

Row == [action : Actions, revision : Revisions, step : Nat,
        provider : Providers, counts : [Providers -> Nat],
        status : Statuses, recorded_at : Int, observed_at : Int]

Superseded(rows, i) == rows[i].status = "superseded"

-----------------------------------------------------------------------------
(* Generations *)

\* Rows that start a generation, among the first n.
Starts(rows, n) == {s \in 1 .. n : rows[s].step = 0}

\* The rows among the first n of the generation that row s starts.
Generation(rows, s, n) ==
    {i \in s .. n : /\ rows[i].action = rows[s].action
                    /\ \A t \in Starts(rows, n) :
                          rows[t].action = rows[s].action => t <= s \/ i < t}

currentGenerationRows(rows, a) ==
    UNION {Generation(rows, s, Len(rows)) :
             s \in {s \in Starts(rows, Len(rows)) :
                      /\ rows[s].action = a
                      /\ \A t \in Starts(rows, Len(rows)) :
                            rows[t].action = a => t <= s}}

openSequence(rows, a) ==
    \E i \in currentGenerationRows(rows, a) : ~Superseded(rows, i)

-----------------------------------------------------------------------------
(* Distribution history *)

\* Is the closure of generation s known to the row at position "before"?  At
\* the present position, and to a later generation of the action, always; to
\* another action's row if it was recorded at or after the last change.
closureIsVisible(rows, s, n, before) ==
    \/ before = Len(rows) + 1
    \/ \E t \in Starts(rows, n) : t > s /\ rows[t].action = rows[s].action
    \/ \A i \in Generation(rows, s, n) :
          rows[before].recorded_at >= rows[i].observed_at

\* A slip: a failed row counts as superseded.
Closed_Failed(rows, s, n) ==
    \A i \in Generation(rows, s, n) : rows[i].status \in {"failed", "superseded"}

Closed(rows, s, n) == \A i \in Generation(rows, s, n) : Superseded(rows, i)

\* The rows before a position that its distribution counts.
distributionHistoryDecisions(rows, before) ==
    LET n == IF before <= Len(rows) THEN before ELSE Len(rows)
        closed == {s \in Starts(rows, n) : /\ Closed(rows, s, n)
                                           /\ closureIsVisible(rows, s, n, before)}
    IN  (1 .. before - 1) \ UNION {Generation(rows, s, n) : s \in closed}

windowRows(history) ==
    {i \in history : Cardinality({j \in history : j > i}) < Window}

Counted(rows, history) ==
    [p \in Providers |->
        Cardinality({i \in windowRows(history) : rows[i].provider = p})]

-----------------------------------------------------------------------------
(* validateLedger *)

Chronological(rows, i) ==
    /\ rows[i].observed_at >= rows[i].recorded_at
    /\ i > 1 => rows[i].recorded_at >= rows[i - 1].recorded_at

Replayed(rows, i) ==
    rows[i].counts = Counted(rows, distributionHistoryDecisions(rows, i))

\* A row with step 0 follows only superseded rows of its action; another row
\* follows the row with the previous step, of the same policy revision.
Sequenced(rows, i) ==
    LET earlier == {j \in 1 .. i - 1 : rows[j].action = rows[i].action}
    IN  IF rows[i].step = 0
        THEN \A j \in earlier : Superseded(rows, j)
        ELSE \E j \in earlier : /\ \A k \in earlier : k <= j
                                /\ rows[i].step = rows[j].step + 1
                                /\ rows[i].revision = rows[j].revision

validateLedger(rows) ==
    \A i \in DOMAIN rows :
        Chronological(rows, i) /\ Replayed(rows, i) /\ Sequenced(rows, i)

-----------------------------------------------------------------------------
(* record *)

\* The row a selection made from these rows proposes.
Selected(rows, a, revision, step, provider, t) ==
    [action |-> a, revision |-> revision, step |-> step, provider |-> provider,
     counts |-> Counted(rows, distributionHistoryDecisions(rows, Len(rows) + 1)),
     status |-> "selected", recorded_at |-> t, observed_at |-> t]

\* The guards of record, for a row that is not recorded yet.
RecordAllowed(rows, row) ==
    /\ LET current == currentGenerationRows(rows, row.action)
       IN  IF openSequence(rows, row.action)
           THEN /\ \A i \in current : rows[i].revision = row.revision
                /\ row.step = Cardinality(current)
           ELSE row.step = 0
    /\ \A i \in DOMAIN rows : row.recorded_at >= rows[i].observed_at

Recorded(rows, row) == Append(rows, row)

-----------------------------------------------------------------------------
(* appendEvent *)

EventAllowed(rows, i, kind, t) ==
    eventFits(kind, rows[i].status) /\ t >= rows[i].observed_at

EventAppended(rows, i, kind, t) ==
    [rows EXCEPT ![i].status = statusAfter(kind, @), ![i].observed_at = t]

-----------------------------------------------------------------------------
(* resetAction *)

ResetAllowed(rows, a, t) ==
    LET current == currentGenerationRows(rows, a)
    IN  /\ current # {}
        /\ \A i \in current :
              /\ rows[i].status \in {"selected", "dispatched", "failed"}
              /\ t >= rows[i].observed_at

\* A slip: only the last row is superseded.
ActionReset_Last(rows, a, t) ==
    LET current == currentGenerationRows(rows, a)
    IN  [i \in DOMAIN rows |->
            IF i \in current /\ \A j \in current : j <= i
            THEN [rows[i] EXCEPT !.status = "superseded", !.observed_at = t]
            ELSE rows[i]]

ActionReset(rows, a, t) ==
    [i \in DOMAIN rows |->
        IF i \in currentGenerationRows(rows, a)
        THEN [rows[i] EXCEPT !.status = "superseded", !.observed_at = t]
        ELSE rows[i]]
=============================================================================

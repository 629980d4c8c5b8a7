---------------------------- MODULE DecisionLedger ----------------------------
(***************************************************************************)
(* RoutingDecisionLedger: record, appendEvent and resetAction on one file,  *)
(* by any number of processes.  StateFile shows that loading, computing and *)
(* writing is one atomic update, so each writer is one action here; its     *)
(* timestamp was read in between, and the clocks it comes from may tie and  *)
(* be set back.  A write that the writer's own guards allow is still        *)
(* validated as a whole, and refused if the file would not load again.      *)
(***************************************************************************)
EXTENDS RoutingDecisions

CONSTANTS
    MaxRows,    \* rows recorded (bound)
    MaxTime,    \* clock values (bound)
    ClockMoves  \* how the clock may move between two writes

ASSUME LedgerAssumption ==
    MaxRows \in Nat /\ MaxTime \in Nat /\ ClockMoves \subseteq Int

VARIABLES
    rows,   \* .aios/runtime/routing-decisions.json
    now     \* what the next writer's clock reads

vars == <<rows, now>>

Times == 0 .. MaxTime

Init == rows = <<>> /\ now = 0

Commit(written) ==
    /\ validateLedger(written)
    /\ rows' = written
    /\ now' \in {now + move : move \in ClockMoves} \cap Times

Record(a) ==
    /\ Len(rows) < MaxRows
    /\ \E revision \in Revisions, provider \in Providers, step \in 0 .. MaxRows :
          LET row == Selected(rows, a, revision, step, provider, now)
          IN  RecordAllowed(rows, row) /\ Commit(Recorded(rows, row))

AppendEvent(a) ==
    \E i \in currentGenerationRows(rows, a), kind \in Kinds :
        /\ EventAllowed(rows, i, kind, now)
        /\ Commit(EventAppended(rows, i, kind, now))

ResetAction(a) ==
    /\ ResetAllowed(rows, a, now)
    /\ Commit(ActionReset(rows, a, now))

Next == \E a \in Actions : Record(a) \/ AppendEvent(a) \/ ResetAction(a)

Spec == Init /\ [][Next]_vars

-----------------------------------------------------------------------------
(* Properties *)

\* The file holds decision rows.
TypeOK == rows \in Seq(Row) /\ now \in Times

\* What a writer's guards admit, the replay of the file that every later load
\* makes admits too (what selection counted at the present position is what the
\* replay counts at the row's): a decision that record accepts; an event, whatever
\* rows counted its row since, unless a reset superseded it in between; and a reset
\* that comes later than every recorded row, although it takes back rows that
\* later rows of other actions have counted.
WritesCommit ==
    \A a \in Actions :
        /\ \A revision \in Revisions, provider \in Providers, step \in 0 .. MaxRows :
              LET row == Selected(rows, a, revision, step, provider, now)
              IN  RecordAllowed(rows, row) => validateLedger(Recorded(rows, row))
        /\ \A i \in DOMAIN rows, kind \in Kinds :
              EventAllowed(rows, i, kind, now) /\ ~Superseded(rows, i)
                  => validateLedger(EventAppended(rows, i, kind, now))
        /\ /\ ResetAllowed(rows, a, now)
           /\ \A i \in DOMAIN rows : now > rows[i].recorded_at
           => validateLedger(ActionReset(rows, a, now))

\* Refinement: the steps of each action's current generation.
Steps(a) ==
    LET current == currentGenerationRows(rows, a)
    IN  [k \in 1 .. Cardinality(current) |->
            LET row == rows[CHOOSE i \in current : rows[i].step = k - 1]
            IN  [revision |-> row.revision, choice |-> row.provider,
                 status |-> row.status]]

Routes == INSTANCE ActionRoutes WITH
    Choices <- Providers, route <- [a \in Actions |-> Steps(a)]

\* Every write is a step of one action's route, or leaves all of them alone.
ImplementsRoutes == Routes!Spec
=============================================================================

SPECIFICATION FairSpec
CONSTANTS
    Candidates = {c1, c2, c3}
    None = None
    Revisions = {r1, r2}
    MaxPauses = 1
    MaxRuns = 3
    MaxChanges = 2
    MaxCrashes = 1
INVARIANTS
    RecordedBeforeLaunch ContinuationSafe AnswerHasRecord OnePath
PROPERTIES
    RunsEnd ImplementsRoutes
CHECK_DEADLOCK FALSE

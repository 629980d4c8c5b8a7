SPECIFICATION FairSpec
CONSTANTS
    Candidates = {c1, c2}
    None = None
    Revisions = {r1, r2}
    MaxPauses = 1
    MaxRuns = 2
    MaxChanges = 1
    MaxCrashes = 0
INVARIANTS
    WaitingCanBeRerun
CHECK_DEADLOCK FALSE

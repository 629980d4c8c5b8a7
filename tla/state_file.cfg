SPECIFICATION FairSpec
CONSTANTS
    Clients <- Processes
    MaxUpdates = 2
    Faults = {"crash", "io"}
INVARIANTS
    OutcomesTrue
PROPERTIES
    ImplementsUpdates SomeoneCommits
CHECK_DEADLOCK FALSE

SPECIFICATION Spec
CONSTANTS
    c1 = c1
    c2 = c2
    c3 = c3
    Commands <- ThreeCommands
    Plans <- TwoPlans
    Jobs <- TheJobs
    Drafted <- SitePlan
    Proposals = 2
    MaxTaskId = 4
    MaxEdits = 1
    MaxAdvanced = 1
    Faults = {"crash", "io", "edit", "engine"}
SYMMETRY AnyOrder
INVARIANTS
    NamesItsTasks AdoptionsTrue
PROPERTIES
    OnlyItsMaker
CHECK_DEADLOCK FALSE

SPECIFICATION FairSpec
CONSTANTS
    Tasks <- ThreeTasks
    Order <- ThreeInOrder
    Required <- SecondRequired
    Limit <- FirstRetries
    MaxDamaged = 1
INVARIANTS
    DependenciesDone ReportAgrees RerunSame
PROPERTIES
    ReportLostByDamageOnly CommandEnds
CHECK_DEADLOCK FALSE

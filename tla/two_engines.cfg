SPECIFICATION Spec
CONSTANTS
    Tasks = {t1}
    Evidence = {v1, v2}
    Texts = {plain, broken}
    Unparsable = {broken}
    Engines = {e1, e2}
    Interruptible = {}
    WaitChoices = {TRUE}
    Limits = {1}
    MaxPauses = 1
    MaxWait = 1
    MaxDelay = 1
    MaxReviewId = 3
    MaxCrashes = 0
SYMMETRY Symmetry
INVARIANTS
    DiskSound ReviewIdsUnique
CHECK_DEADLOCK FALSE

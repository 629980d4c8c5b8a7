SPECIFICATION RerunSpec
CONSTANTS
    Tasks = {t1}
    Evidence = {v1, v2}
    Texts = {plain}
    Unparsable = {}
    Engines = {e1}
    Interruptible = {e1}
    WaitChoices = {TRUE, FALSE}
    Limits = {0, 2}
    MaxPauses = 2
    MaxWait = 2
    MaxDelay = 1
    MaxReviewId = 4
    MaxCrashes = 2
INVARIANTS
    OneReviewPerAttempt NeverInvalid AtMostOneLateWorker
PROPERTIES
    ApprovalGate Termination OrphanAttached ImplementsLifecycle
CHECK_DEADLOCK FALSE

SPECIFICATION Spec
CONSTANTS
    None = None
    Hints <- MCHints
    Tasks = {1, 2}
    Configs <- Retirement
    TaskFacts <- SomeFacts
    Overrides = {}
    Reasons = {"verification_failed"}
    MaxAttempts = 1
    MaxCooled = 1
    MaxRows = 2
INVARIANT ResetUnstrands
CHECK_DEADLOCK FALSE

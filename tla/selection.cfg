SPECIFICATION Spec
CONSTANTS
    None = None
    Hints <- MCHints
    Tasks = {1, 2}
    Configs <- Edits
    TaskFacts <- SomeFacts
    Overrides <- Pins
    Reasons = {"capacity", "verification_failed"}
    MaxAttempts = 2
    MaxCooled = 1
    MaxRows = 3
INVARIANTS SelectionsAccepted SharesKept
PROPERTIES RecoveryOrder TierFloors
CHECK_DEADLOCK FALSE

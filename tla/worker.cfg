SPECIFICATION MCFairSpec
CONSTANTS
    Engines = {e1}
    Owners <- Roles
    Sessions = {s1, s2}
    Escapes = TRUE
    MaxCalls = 3
    Events <- ClaudeLines
    MaxLines = 3
    Continuations = {"none", "s1"}
    ThreadEvents <- CodexLines
    MaxEvents = 3
    Replies <- Texts
    Resumable = {"none", "t1"}
    Turns <- TurnReplies
    Snapshots <- LimitReplies
    DayLength = 2
    Calendar <- Leap
    LastDate = 50
    LastInteger = 60
    Anchors = {5, 7}
    MaxTicks = 1
INVARIANTS
    SettledClean SessionsCounted FirstRejectionDecides DefersOnEvidence
PROPERTIES
    TimeoutSettles ImplementsCall RejectionEnds FailureRecorded
CHECK_DEADLOCK FALSE

SPECIFICATION MCFairSpec
CONSTANTS
    Engines = {e1}
    Owners <- Roles
    Sessions = {s1, s2}
    Escapes = TRUE
    MaxCalls = 0
    Events <- ClaudeLines
    MaxLines = 1
    Continuations = {"none", "s1"}
    ThreadEvents <- CodexLines
    MaxEvents = 0
    Replies <- Texts
    Resumable = {"none", "t1"}
    Turns <- TurnReplies
    Snapshots <- LimitReplies
    DayLength = 2
    Calendar <- Leap
    LastDate = 50
    LastInteger = 60
    Anchors = {5, 7}
    MaxTicks = 1
PROPERTY
    CancellationStops
CHECK_DEADLOCK FALSE

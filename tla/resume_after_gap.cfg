CONSTANTS
    r1 = r1
    r2 = r2
    m1 = m1
    m2 = m2
    Runners <- OneRunner
    Messages <- TwoMessages
    Contents = {"said"}
    VerifyModes = {FALSE}
    MaxReconnects = 1
    MaxSessions = 1
    MaxFrames = 4
    MaxLost = 1
    MaxFailures = 0
    MaxCrashes = 0
SPECIFICATION Spec
INVARIANT CursorSkipsNothing
CHECK_DEADLOCK FALSE

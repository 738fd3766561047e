CONSTANTS
    r1 = r1
    r2 = r2
    m1 = m1
    m2 = m2
    Runners <- OneRunner
    Messages <- OneMessage
    Contents = {"said", "altered"}
    VerifyModes = {FALSE, TRUE}
    MaxReconnects = 1
    MaxSessions = 2
    MaxFrames = 2
    MaxLost = 1
    MaxFailures = 1
    MaxCrashes = 1
SPECIFICATION FairSpec
INVARIANTS CursorAccountsForAll IntakeOnce
PROPERTIES ImplementsAckOnce LapsedIsNotSent AckSettlesUnlessCutOff
CHECK_DEADLOCK FALSE

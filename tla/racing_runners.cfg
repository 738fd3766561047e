CONSTANTS
    r1 = r1
    r2 = r2
    m1 = m1
    m2 = m2
    Runners <- TwoRunners
    Messages <- OneMessage
    Contents = {"said"}
    VerifyModes = {FALSE}
    MaxReconnects = 0
    MaxSessions = 2
    MaxFrames = 3
    MaxLost = 1
    MaxFailures = 1
    MaxCrashes = 1
SPECIFICATION Spec
SYMMETRY RunnerSymmetry
INVARIANTS TypeOK IntakeOnce
PROPERTIES ImplementsAckOnce
CHECK_DEADLOCK FALSE

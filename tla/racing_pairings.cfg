CONSTANTS
    p1 = p1
    p2 = p2
    g1 = g1
    g2 = g2
    Processes <- TwoProcesses
    Groups <- TwoGroups
    MaxChallenges = 2
    MaxSessions = 2
    MaxLapses = 1
SPECIFICATION Spec
SYMMETRY Symmetric
PROPERTIES ImplementsGroupGrant ImplementsHandlerGrant
CHECK_DEADLOCK FALSE

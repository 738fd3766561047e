CONSTANTS
    r1 = r1
    r2 = r2
    Runners <- TwoRunners
    Commands = {"draft", "reject"}
    MaxMessages = 2
    MaxVersion = 3
    Lapses = {"binding", "issue", "request", "stage1", "window"}
    MaxPassed = 1
    Nudging = TRUE
    MayRevoke = TRUE
    MaxFailures = 1
    MaxCrashes = 1
    MaxMishaps = 1
SPECIFICATION Spec
SYMMETRY RunnerSymmetry
INVARIANTS NotifiedOnce CommandsTruthful AcceptedContentIsDeleted
PROPERTIES ImplementsFinalOnce
CHECK_DEADLOCK FALSE

CONSTANTS
    r1 = r1
    Runners <- OneRunner
    Commands = {"accept", "assist", "draft"}
    MaxMessages = 3
    MaxVersion = 5
    Lapses = {"issue", "request", "stage1"}
    MaxPassed = 1
    Nudging = FALSE
    MayRevoke = TRUE
    MaxFailures = 0
    MaxCrashes = 1
    MaxMishaps = 2
    Required = 2
    CallLimit = 3
    RetryLimit = 1
SPECIFICATION ModelSpec
INVARIANTS TurnsCalledOnce CallsAccounted CaseBudgetKept FinalIsGrounded PreviewsTruthful
CHECK_DEADLOCK FALSE

CONSTANTS
    w1 = w1
    w2 = w2
    o1 = o1
    Workers <- OneWorker
    Operators <- OneOperator
    Serialized = TRUE
    CommandTypes <- AllCommands
    MaxSweeps = 0
    MaxCommands = 2
    MaxSubmits = 2
    MaxCrashes = 1
    MaxTimeouts = 2
    SlaMayExpire = TRUE
SPECIFICATION FairSpec
INVARIANTS JournalStaysValid CancelledIsResolved
PROPERTIES UnknownOutcomeBlocks ContinuesWhereSaved SweepLeavesCaseInStep SettlesUnlessStuck

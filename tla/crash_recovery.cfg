CONSTANTS
    w1 = w1
    w2 = w2
    o1 = o1
    Workers <- OneWorker
    Operators <- NoOperator
    Serialized = TRUE
    CommandTypes = {}
    MaxSweeps = 0
    MaxCommands = 0
    MaxSubmits = 0
    MaxCrashes = 2
    MaxTimeouts = 2
    SlaMayExpire = TRUE
SPECIFICATION FairSpec
INVARIANTS TypeOK CompletionTruthful DeadlineFactStable SlaFactNamesExpiry
PROPERTIES SweepLeavesEventsInStep SettlesUnlessStuck

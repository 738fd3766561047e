CONSTANTS
    w1 = w1
    w2 = w2
    o1 = o1
    Workers <- TwoWorkers
    Operators <- NoOperator
    Serialized = FALSE
    CommandTypes = {}
    MaxSweeps = 2
    MaxCommands = 0
    MaxSubmits = 0
    MaxCrashes = 1
    MaxTimeouts = 1
    SlaMayExpire = TRUE
SPECIFICATION Spec
INVARIANTS TicketExactlyOnce CheckpointsTruthful
PROPERTIES ImplementsEffectOnce
CHECK_DEADLOCK FALSE

CONSTANTS
    w1 = w1
    w2 = w2
    a1 = a1
    a2 = a2
    Workers <- OneWorker
    Approvers <- OneApprover
    Serialized = TRUE
    MaxSweeps = 0
    MaxSubmits = 1
    MaxCrashes = 0
    MaxTimeouts = 1
    MayExpire = TRUE
    MayRevoke = FALSE
SPECIFICATION FairSpec
PROPERTY LapsedNeverDelivers

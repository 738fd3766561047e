CONSTANTS
    w1 = w1
    w2 = w2
    a1 = a1
    a2 = a2
    Workers <- OneWorker
    Approvers <- TwoApprovers
    Serialized = TRUE
    MaxSweeps = 0
    MaxSubmits = 2
    MaxCrashes = 1
    MaxTimeouts = 1
    MayExpire = TRUE
    MayRevoke = FALSE
SPECIFICATION FairSpec
INVARIANT PolicyJournalStaysValid
PROPERTIES LapsedStartsNoDelivery DecisionTakesEffectUnlessStuck

CONSTANTS
    w1 = w1
    w2 = w2
    a1 = a1
    a2 = a2
    Workers <- OneWorker
    Approvers <- OneApprover
    Serialized = FALSE
    MaxSweeps = 3
    MaxSubmits = 1
    MaxCrashes = 1
    MaxTimeouts = 1
    MayExpire = FALSE
    MayRevoke = TRUE
SPECIFICATION Spec
INVARIANTS DeliveredOnce DeliveredOnlyApproved
PROPERTY ImplementsDeliveryOnce
CHECK_DEADLOCK FALSE

CONSTANTS
    CallLimit = 6
    RetryLimit = 1
    TokenLimit = 7
    ActionLimit = 6
    ToolLimit = 3
    NoProgressLimit = 2
    Reservations <- OneOrTwo
    MaxOvercharge = 1
SPECIFICATION Spec
INVARIANT SpendingBounded
PROPERTY NoCallAfterDoubt
CHECK_DEADLOCK FALSE

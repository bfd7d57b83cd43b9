SPECIFICATION Spec
CONSTANTS
    Inputs <- SmallInputs
INVARIANTS
    NothingLostOrRevived
    OrdersKept
    PushReachesOrder
    FewestWrites
    Settled
CHECK_DEADLOCK FALSE

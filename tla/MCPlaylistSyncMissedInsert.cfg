SPECIFICATION Spec
CONSTANTS
    c1 = c1
    c2 = c2
    Clients = {c1, c2}
    Videos = {1, 2, 3}
    StartVideos <- TwoVideos
    Orders <- EditedOrders
    OwnerVideos = {3}
    Scenarios <- MissedInsert
INVARIANTS
    NoDoubleAdd
CHECK_DEADLOCK FALSE

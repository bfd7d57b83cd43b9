SPECIFICATION FairSpec
CONSTANTS
    c1 = c1
    c2 = c2
    Clients = {c1, c2}
    Videos = {1, 2, 3}
    StartVideos <- TwoVideos
    Orders <- EditedOrders
    OwnerVideos = {3}
    Scenarios <- EverythingOnce
INVARIANTS
    DeletesOnlyEdits
PROPERTIES
    MergeDropsOnlyGone
    Converges
CHECK_DEADLOCK FALSE

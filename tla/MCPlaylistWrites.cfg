SPECIFICATION PlaylistWritesFair
CONSTANTS
    Clients = {c1, c2}
    MaxWrites = 2
    MaxOwnerEdits = 1
    MaxFaults = 1
INVARIANTS
    DeletedForGood
    StoreHoldsWrites
PROPERTIES
    StoreFollowsYouTube

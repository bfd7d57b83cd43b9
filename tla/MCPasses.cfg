SPECIFICATION WokenSpec
CONSTANTS
    p1 = p1
    p2 = p2
    Playlists = {p1, p2}
    NoPlaylist = None
    Scenarios <- EditAndFault
INVARIANTS
    NoLostWake
    QueueInOrder
    SweptOnce
PROPERTIES
    EditsArePushed

SPECIFICATION Spec
CONSTANTS
    p1 = p1
    p2 = p2
    Playlists = {p1, p2}
    NoPlaylist = None
    Scenarios <- EditAndDelete
PROPERTIES
    MergeKeepsThePass

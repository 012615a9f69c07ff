SPECIFICATION TrackerSpec
CONSTANTS
    a = a
    b = b
    d = d
    c = c
    s1 = s1
    s2 = s2
    Node = {a, b, c, d}
    Stream = {s1, s2}
    None = None
    MaxNeighbors = 2
    MaxCounter = 2
    Interested <- MCInterested
SYMMETRY Symmetry
INVARIANTS
    TablesFollowMembers
PROPERTY
    OverlaysAreTopologies

SPECIFICATION Spec
CONSTANTS
    Node = {a, b, c, d, e, f}
    None = None
    MaxNeighbors = 4
SYMMETRY Symmetry
INVARIANTS
    OverlayIsSound

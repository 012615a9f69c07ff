SPECIFICATION NetworkSpec
CONSTANTS
    Node = {a, b}
    Stream = {s1}
    None = None
    MaxNeighbors = 2
    MaxFaults = 1
CHECK_DEADLOCK FALSE
INVARIANT
    AgreesAtRest
PROPERTY
    Converges

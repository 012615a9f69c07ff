SPECIFICATION MCSpec
CONSTANTS
    Offerer = "a"
    Answerer = "b"
    Routers = {"t1", "t2"}
    MaxPingPongAttempts = 1
    MaxCalls = 3
    MaxLost = 1
    Sockets = {s1, s2}
    MaxBreaks = 2
    None = None
INVARIANTS
    EndsAgree
PROPERTIES
    NobodyHangs
    NodeComesBack
CHECK_DEADLOCK FALSE

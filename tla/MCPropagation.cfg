SPECIFICATION Spec
CONSTANTS
    s1 = s1
    m1 = m1
    m2 = m2
    m3 = m3
    p1 = p1
    p2 = p2
    t1 = t1
    t2 = t2
    t3 = t3
    Stream = {s1}
    Message = {m1, m2, m3}
    StreamOf <- MCStreamOf
    Peer = {p1, p2}
    User = User
    Timer = {t1, t2, t3}
    MaxSize = 2
    MaxElements = 2
    FailureLimit = 2
SYMMETRY Symmetry
INVARIANTS
    PropagatedAtMostOnce
    WaitingIsKept

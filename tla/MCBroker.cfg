SPECIFICATION MCSpec
CONSTANTS
    Streams = {s1, s2}
    MaxChanges = 2
    MaxFailures = 1
    Topics = {s1, s2}
    WsClients = {w1}
    MqttClients = {q1}
    MaxRequests = 2
    MaxSent = 1
    MaxFull = 2
    Messages = {1, 2, 3, 4, 5}
    TooLong = {2}
    MaxSize = 4
    MaxTries = 2
    Burst = 2
    Threshold = 3
INVARIANTS
    MessagesAreKept
    NodeFollowsConfig
    ListenersAreKept
PROPERTIES
    EveryMessageSettles
    RequestsAreMet
CHECK_DEADLOCK FALSE

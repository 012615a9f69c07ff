SPECIFICATION OrderingSpec
CONSTANTS
    p1 = p1
    p2 = p2
    Publishers <- MCPublishers
    Sent <- MCSent
    Markable <- MCMarkable
    MaxGapRequests = 2
INVARIANT
    NothingLostAtTheEnd
PROPERTIES
    DeliversInOrder
    QueuesDrain
CHECK_DEADLOCK FALSE

SPECIFICATION MCSpec
CONSTANTS
    Timestamps = {1, 2}
    AlmostFull = 2
    MaxBuckets = 2
    EarlierRecords = {1}
    MaxFaults = 1
    None = None
    Messages = {"m1", "m2"}
    TimestampOf <- MCTimestampOf
    BatchMaxRecords = 1
    BatchMaxRetries = 2
    LastTime = 2
    MaxSequenceNumber = 1
    Publishers = {p1}
    Records = 2
    StorageTime = 0
    BucketLimit = 1
    MaxMessages = 3
    Limits = {1, 2}
    AskedRefs <- MCAskedRefs
INVARIANTS
    RecordsAreKept
    
PROPERTIES
    EveryMessageSettles
    OnlyExpiredIsDeleted
CHECK_DEADLOCK FALSE

SPECIFICATION MCSpec
CONSTANTS
    Initial <- MCInitial
    Requires = {TRUE, FALSE}
    MaxMessages = 3
    MaxKeys = 2
    MaxStops = 1
    MaxFaults = 1
    None = None
    Stored = 2
    Final = 3
    Bad = {1}
INVARIANTS
    KeysAreAnnounced
    KeysTakeEffect
    StoredThenLive
    ReadersAreServed
PROPERTIES
    EveryMessageIsDecrypted
CHECK_DEADLOCK FALSE

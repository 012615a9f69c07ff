SPECIFICATION MCSpec
CONSTANTS
    Numbers <- MCNumbers
    Infinity <- MCInfinity
    NoPrev = NoPrev
    MaxGaps = 2
    LinkSets <- MCLinkSets
    peer1 = peer1
    peer2 = peer2
    Peers <- MCPeers
    Instructions <- MCInstructions
    RetryLimit = 2
    Slots <- MCSlots
    None = None
INVARIANTS
    NewAtMostOnce
    
PROPERTIES
    HonestMessagesGetThrough
    
CHECK_DEADLOCK FALSE

SPECIFICATION MCSpec
CONSTANTS
    Partitions = {"c1", "c2"}
    Timestamps = {1, 2}
    MaxPublishes = 3
    MaxStops = 1
    MaxFaults = 1
    None = None
    Requests = {1, 2}
    MaxTokens = 3
    MaxLogouts = 2
    MaxRefusals = 2
    Calls = {1, 2}
    Members = {m}
    Recipients = {m, r}
    MaxEarned = 3
    MaxSigned = 1
INVARIANTS
    PredecessorsGoFirst
    HandleIsGivenBack
    TokensAreRenewed
    
    EveryCallSettles
PROPERTIES
    EveryPublishSettles
CHECK_DEADLOCK FALSE

SPECIFICATION FairSpec
CONSTANTS
    Subs = {"s1", "s2"}
    Key = "key"
    Holders = {"publisher"}
    MaxRetries = 2
    MaxFaults = 1
INVARIANTS
    NeverLeftDown
    SubscribedOnThisSocket
PROPERTIES
    SubscribersAreServed
CHECK_DEADLOCK FALSE

SPECIFICATION FairSpec
CONSTANTS
    s1 = s1
    s2 = s2
    i1 = i1
    i2 = i2
    c1 = c1
    c2 = c2
    l1 = l1
    l2 = l2
    None = None
    Streams <- MCStreams
    Ids = {i1}
    Callers <- MCCallers
    Lookups <- MCLookups
    TTL = 2
    MaxDelay = 1
    MaxClock = 3
    MaxGeneration = 1
\* The program may stop once its calls are over: nothing obliges a caller to
\* ask again.
CHECK_DEADLOCK FALSE
INVARIANTS
    Inv
PROPERTIES
    ImplementsReceipts
    EventuallyExpires
    WaitersAnswered

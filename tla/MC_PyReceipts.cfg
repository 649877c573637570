SPECIFICATION Spec
CONSTANTS
    s1 = s1
    s2 = s2
    i1 = i1
    i2 = i2
    c1 = c1
    c2 = c2
    l1 = l1
    l2 = l2
    None = None
    Streams <- MCStreams
    Ids = {i1}
    Callers = {c1}
    Lookups <- MCLookups
    TTL = 1
    MaxClock = 2
    MaxGeneration = 1
SYMMETRY Symmetry
INVARIANTS
    Inv
PROPERTIES
    ImplementsReceipts

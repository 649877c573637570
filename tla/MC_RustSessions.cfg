SPECIFICATION FairSpec
CONSTANTS
    m1 = m1
    m2 = m2
    c1 = c1
    c2 = c2
    c3 = c3
    p1 = p1
    p2 = p2
    p3 = p3
    p4 = p4
    None = None
    Models <- MCModels
    Callers <- MCCallers
    Checks <- MCChecks
    TTL = 1
    MaxClock = 2
INVARIANTS
    SingleFlight
    CachedMeansSettled
PROPERTIES
    ImplementsSessions
    WaitersReturn

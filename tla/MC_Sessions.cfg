SPECIFICATION Spec
CONSTANTS
    m1 = m1
    m2 = m2
    c1 = c1
    c2 = c2
    p1 = p1
    p2 = p2
    p3 = p3
    k1 = k1
    k2 = k2
    q1 = q1
    q2 = q2
    None = None
    Models <- MCModels
    Checks <- MCChecks
    Keys <- MCKeys
    GoModels <- MCGoModels
    GoChecks <- MCGoChecks
    GoKeys <- MCGoKeys
    Pools <- MCPools
    Callers <- MCCallers
    PoolLimit = 1
    TTL = 1
    MaxClock = 1
\* A closed client refuses every call, so the program may stop.
CHECK_DEADLOCK FALSE
INVARIANTS
    Inv
PROPERTIES
    ImplementsSessions
    CallsReturn

----------------------------- MODULE MC_Sessions -----------------------------
EXTENDS ClientSessions

CONSTANTS m1, m2, c1, c2, p1, p2, p3, k1, k2, q1, q2

MCModels == {m1, m2}
MCChecks == {p1, p2, p3}
MCKeys == {k1}
MCGoModels == {m1}
MCGoChecks == {p1, p2}
MCGoKeys == {k1, k2}
MCPools == {q1, q2}
MCCallers == {c1, c2}
=============================================================================

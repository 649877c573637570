--------------------------- MODULE MC_RustSessions ---------------------------
EXTENDS RustSessions, TLC

CONSTANTS m1, m2, c1, c2, c3, p1, p2, p3, p4

MCModels == {m1, m2}
MCCallers == {c1, c2}
MCChecks == {p1, p2, p3, p4}
=============================================================================

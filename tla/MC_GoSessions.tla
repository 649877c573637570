---------------------------- MODULE MC_GoSessions ----------------------------
EXTENDS GoSessions, TLC

CONSTANTS m1, m2, c1, c2, p1, p2, p3, k1, k2, q1, q2

MCModels == {m1, m2}
MCCallers == {c1, c2}
MCChecks == {p1, p2, p3}
MCKeys == {k1, k2}
MCPools == {q1, q2}

Symmetry == Permutations(MCModels) \cup Permutations(MCCallers)
                \cup Permutations(MCChecks) \cup Permutations(MCKeys)
                \cup Permutations(MCPools)
=============================================================================

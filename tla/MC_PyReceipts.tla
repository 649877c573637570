---------------------------- MODULE MC_PyReceipts ----------------------------
EXTENDS PyReceipts, TLC

CONSTANTS s1, s2, i1, i2, c1, c2, l1, l2

MCStreams == {s1, s2}
MCIds == {i1, i2}
MCCallers == {c1, c2}
MCLookups == {l1, l2}

(* NewLookup chooses from Lookups, which is therefore not symmetric. *)
Symmetry == Permutations(MCStreams)
=============================================================================

-------------------------- MODULE MC_AusgridProfile --------------------------
EXTENDS AusgridProfile, TLC

CONSTANTS r1, r2

MC_Rows == {r1, r2}

MC_Symmetry == Permutations(MC_Rows)
=============================================================================

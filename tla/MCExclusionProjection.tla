------------------------ MODULE MCExclusionProjection ------------------------
EXTENDS ExclusionProjection, TLC

CONSTANTS u1, u2, t1, t2

Alike == Permutations(Users) \cup Permutations(Loads)
=============================================================================

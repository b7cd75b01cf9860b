------------------------ MODULE MCReliableBroadcast ------------------------
EXTENDS ReliableBroadcast, TLC
Symmetry == Permutations(Served) \cup Permutations(Node \ Served)
=============================================================================

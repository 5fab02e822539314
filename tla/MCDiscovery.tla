----------------------------- MODULE MCDiscovery -----------------------------
EXTENDS Discovery, TLC

Symmetry == Permutations(Peers)
==============================================================================

----------------------------- MODULE MCLinkedRoot -----------------------------
EXTENDS LinkedRoot, TLC

Symmetry == Permutations(Paths)
=============================================================================

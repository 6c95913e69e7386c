--------------------------- MODULE MCSharedCache ---------------------------
EXTENDS SharedCache, TLC

Symmetric == Permutations(Servers) \cup Permutations(Paths) \cup Permutations(Texts)
=============================================================================

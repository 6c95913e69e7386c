--------------------------- MODULE MCIndexWriteLock ---------------------------
(* A model-checking instance of IndexWriteLock. *)
EXTENDS IndexWriteLock, TLC

Symmetry == Permutations(Threads) \cup Permutations(Readers) \cup Permutations(Tokens)
=============================================================================

--------------------------- MODULE MCDiskSnapshot ---------------------------
(* Model-checking instances of DiskSnapshot. *)
EXTENDS DiskSnapshot, TLC

Symmetry == Permutations(Paths) \cup Permutations(States)
=============================================================================

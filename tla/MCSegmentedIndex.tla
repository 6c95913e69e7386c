-------------------------- MODULE MCSegmentedIndex --------------------------
(* Model-checking instances of SegmentedIndex. *)
EXTENDS SegmentedIndex, TLC

Symmetry == Permutations(Paths) \cup Permutations(Contents)
=============================================================================

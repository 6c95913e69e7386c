---------------------------- MODULE MCLiveSession ----------------------------
EXTENDS LiveSession, TLC

Symmetry == Permutations(Pool) \cup Permutations(Paths)

\* Two edits, a write by another process and a fault; or two writes and one of the others.
NotAllAtOnce == writes = 2 => edits + faults <= 1
=============================================================================

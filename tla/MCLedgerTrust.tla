---------------------------- MODULE MCLedgerTrust ----------------------------
EXTENDS LedgerTrust, TLC

SameSize == Permutations(Contents)

OneSize == [c \in Contents |-> 1]

\* A file system that ticks every 2 units, 2 ahead of our clock or 1 behind it.
Ticking(offset) == [t \in Times |-> 2 * ((t + offset) \div 2)]
TickingClocks == {Ticking(2), Ticking(-1)}
=============================================================================

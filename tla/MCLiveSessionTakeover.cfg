CONSTANTS
  Paths = {p1, p2}
  Watcher = watcher
  Pool = {w1, w2}
  Queries = {q1}
  Rounds = 2
  MaxPending = 1
  MaxEdits = 1
  MaxWrites = 0
  MaxFaults = 0
SYMMETRY Symmetry
SPECIFICATION Spec
INVARIANT TakeoverCatchesUp

CONSTANTS
  Paths = {p1, p2}
  Watcher = watcher
  Pool = {w1, w2}
  Queries = {q1}
  Rounds = 2
  MaxPending = 1
  MaxEdits = 2
  MaxWrites = 2
  MaxFaults = 1
SYMMETRY Symmetry
CONSTRAINT NotAllAtOnce
SPECIFICATION Spec
INVARIANTS
  TypeOK
  EditsAreKept
  RoleIsGivenBack

SPECIFICATION Spec
CONSTANTS
  Servers = {s1}
  Watchers = {w1}
  Commands = {cli}
  Paths = {p1, p2}
  Texts = {a}
  None = None
  MaxEdits = 2
  MaxFaults = 1
SYMMETRY Symmetric
INVARIANTS
  TypeOK
  CurrentServesDisk
  LedgerMatchesIndex
  LiveIndexIsFresh
PROPERTIES
  NoLostUpdate

CONSTANTS
  Paths = {p1, p2}
  Pool = {1}
  MaxPending = 1
  MaxLinks = 2
  MaxLinkEdits = 2
  MaxEvents = 2
  MaxFaults = 2
SYMMETRY Symmetry
SPECIFICATION Spec
INVARIANTS
  TypeOK
  SettledIsWhole
  HandlesServe
  EditsAreKept
  SomebodyCanGoOn

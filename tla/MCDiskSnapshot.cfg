\* Crashes between any two disk steps, failed deletes, torn files.
CONSTANTS
  Paths = {p1, p2}
  States = {s1, s2}
  None = None
  Torn = Torn
  CompactThreshold = 2
  MaxBase = 1
  Faults = TRUE
SPECIFICATION Spec
SYMMETRY Symmetry
INVARIANTS
  TypeOK
  CountIsExact
  ReadersAgree
  LoadedIsSaved
PROPERTIES
  BasesAreImmutable

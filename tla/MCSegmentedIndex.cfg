\* Failed writes, files that do not open, crashes at every step, files that cannot be deleted, a lost manifest.
CONSTANTS
  Paths = {p1, p2}
  Contents = {c1, c2}
  None = None
  Torn = Torn
  MaxSegment = 2
  MaxPending = 1
  Faults = {"write", "open", "lost"}
SPECIFICATION Spec
SYMMETRY Symmetry
INVARIANTS
  TypeOK
  LiveIsExact
  CommittedIsLoaded
PROPERTIES
  SegmentsAreImmutable
  ImplementsDocumentMap

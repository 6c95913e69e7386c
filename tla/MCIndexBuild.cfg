SPECIFICATION FairSpec
CONSTANTS
  root = root
  lib = lib
  src = src
  f1 = f1
  f2 = f2
  f3 = f3
  Dirs = {root, lib, src}
  Root = root
  Sub <- Tree
  Files = {f1, f2, f3}
  In <- Listing
  Walkers = {v1, v2}
  Capacity = 1
  MaxWalkFaults = 2
  None = None
  Tasks = {t1, t2}
  Budget = 2
  Footprint <- Bytes
  Binary = {f3}
  Parsed = {f1, f2}
  Full <- Documents
  MaxFaults = 1
  Gone = Gone
INVARIANTS
  TypeOK
  WalkIsComplete
  BudgetIsKept
  FilesAreAccounted
  StoppedIsOldOrNew
PROPERTIES
  BuildEnds
CHECK_DEADLOCK FALSE

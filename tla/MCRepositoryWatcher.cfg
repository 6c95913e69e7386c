SPECIFICATION Spec
CONSTANTS
  Paths = {p}
  Kinds = {"file", "folder"}
  None = None
  Debounce = 1
  MaxWait = 1
  Fullness = {TRUE, FALSE}
  MaxCallbacks = 1
  MaxDeaths = 1
INVARIANTS
  TypeOK
  QuietIsCaughtUp
  DisposeIsABarrier
CHECK_DEADLOCK FALSE

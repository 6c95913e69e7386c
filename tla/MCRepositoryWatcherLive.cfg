SPECIFICATION FairSpec
CONSTANTS
  Paths = {p}
  Kinds = {"file"}
  None = None
  Debounce = 1
  MaxWait = 2
  Fullness = {FALSE}
  MaxCallbacks = 1
  MaxDeaths = 0
PROPERTIES
  EveryChangeIsDelivered
CHECK_DEADLOCK FALSE

SPECIFICATION TrustSpec
CONSTANTS
  Contents = {a, b}
  Size <- OneSize
  Start = 5
  End = 9
  Clocks <- TickingClocks
  Margin = 3
  Settle = 2
  Dates = {2}
  Nothing = Nothing
SYMMETRY SameSize
INVARIANTS
  TrustTypeOK
  TrustIsKept
  StampIsOver
CHECK_DEADLOCK FALSE

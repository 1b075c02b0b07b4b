SPECIFICATION Spec
CONSTANTS
  MaxPending = 3
  Low = 0
  PausedLimit = 2
  ConnectLimit = 2
  PlaintextLimit = 0
  PauseOnHigh = TRUE
  Bounds <- TlsBounds
INVARIANT ResponseIsExact
CHECK_DEADLOCK FALSE

SPECIFICATION FairSpec
CONSTANTS
  MaxPending = 3
  MaxSendIovecs = 2
  HighWatermark = 2
  LowWatermark = 0
  HighBytes = 0
  LowBytes = 0
  PausedRecvLimit = 1
  PauseRecvOnBackpressure = FALSE
  DisconnectOnHigh = TRUE
  DisconnectDelayed = FALSE
  InactivityTimeout = TRUE
  TracksAppWork = TRUE
  PrepMayFail = TRUE
  RecvErrors <- AllRecvErrors
  AppCalls <- Everything
  BufferSizes <- OneOrTwo
  MaxBytes = 3
  MaxChunks = 2
  MaxCalls = 4
  MaxTicks = 1
INVARIANTS
  ReleasedWhenQuiet
PROPERTIES
  ImplementsLifecycle
  ClosingCompletes
CHECK_DEADLOCK FALSE

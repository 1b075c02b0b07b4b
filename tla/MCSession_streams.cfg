SPECIFICATION Spec
CONSTANTS
  MaxPending = 3
  MaxSendIovecs = 2
  HighWatermark = 2
  LowWatermark = 0
  HighBytes = 3
  LowBytes = 1
  PausedRecvLimit = 1
  PauseRecvOnBackpressure = TRUE
  DisconnectOnHigh = FALSE
  DisconnectDelayed = FALSE
  InactivityTimeout = FALSE
  TracksAppWork = TRUE
  PrepMayFail = FALSE
  RecvErrors <- AllRecvErrors
  AppCalls <- Everything
  BufferSizes <- OneOrTwo
  MaxBytes = 4
  MaxChunks = 2
  MaxCalls = 5
  MaxTicks = 1
INVARIANTS
  SendStreamIntact
  RecvStreamIntact
  NothingStranded
CHECK_DEADLOCK FALSE

SPECIFICATION Spec
CONSTANTS
  MaxPending = 3
  MaxSendIovecs = 2
  HighWatermark = 2
  LowWatermark = 0
  HighBytes = 0
  LowBytes = 0
  PausedRecvLimit = 0
  PauseRecvOnBackpressure = TRUE
  DisconnectOnHigh = FALSE
  DisconnectDelayed = FALSE
  InactivityTimeout = FALSE
  TracksAppWork = TRUE
  PrepMayFail = FALSE
  RecvErrors <- OnlyEof
  AppCalls <- PauseOnly
  BufferSizes <- OneByte
  MaxBytes = 3
  MaxChunks = 2
  MaxCalls = 3
  MaxTicks = 0
INVARIANTS
  PausedBytesSurvive
CHECK_DEADLOCK FALSE

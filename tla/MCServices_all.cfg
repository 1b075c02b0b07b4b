SPECIFICATION AllSpec
CONSTANTS
  MaxPending = 2
  Low = 0
  PausedLimit = 2
  ConnectLimit = 2
  PlaintextLimit = 0
  PauseOnHigh = FALSE
  Bounds <- MCBounds
  Scripts <- MCScripts
  ChunksPerWrite = 1
  BodyChunks = 2
  MaxBatch = 5
  MaxAllocs = 2
  Patterns <- MCPatterns
  Methods = {"GET", "HEAD"}
  Paths <- MCPaths
  MaxRoutes = 3
  Scenarios <- MCScenarios
  Events = {e1, e2}
  MaxFaults = 2
  Count = 2
  MaxSessions = 2
  MaxStops = 2
INVARIANTS
  ForwardedInOrder PausedIffPeerIsHigh FlushedBeforeClose ConnectorAndPairAgree
  ResponsesInRequestOrder OnceEach NothingCutOff RoutesServe
  ListedIsWhole EndedIsClean AnsweredSurvives StopLeavesNothing
PROPERTIES ClosedPairReleased BegunIsEnded
CHECK_DEADLOCK FALSE

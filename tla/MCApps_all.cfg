SPECIFICATION AppSpec
CONSTANTS
  SessionIds = {1, 2}
  PlayerIds = {1, 2}
  IdCount = 4
  Scenarios <- MCScenarios
  MaxRooms = 3
  Humans = {1, 2}
  Bots = {11}
  PartyRooms = {1, 2}
  Members = {1, 2}
  MaxPackets = 6
  MaxHp = 2
  LowHp = 1
  RespawnDelay = 1
  Damage <- MCDamage
  Budgets <- MCBudgets
  GRID_WIDTH = 21
  GRID_HEIGHT = 12
  SMOOTH_ITERATIONS = 1
  WALL_THRESHOLD_SIZE = 6
  ROOM_THRESHOLD_SIZE = 3
  PASSAGE_RADIUS = 1
  NumPortals = 2
  MinOpen = 9
  SpawnDistance = 16
  Fills <- MCFills
  HubScenarios <- MCHubScenarios
  Scripts <- MCScripts
  MaxPending = 3
  ChunksPerWrite = 1
  FileChunks = 3
  Sizes <- MCSizes
  HeaderSize = 3
  MaxPacketSize = 6
  Capacity = 6
INVARIANTS
  OutboxInRoomOrder ClientsSeeTheRoom RoomAgrees MapInOnePiece EntriesAccounted StateShown
  AnswersWhole PacketsWhole MapsInverse
PROPERTY BegunIsEnded
CHECK_DEADLOCK FALSE

CONSTANTS
  Threads = {t1, t2}
  Queues = {q1}
  Jobs = {j1, j2, j3}
  NoJob = NoJob
  NoQueue = NoQueue
  Producers = {p1, p2}
  Items = {x1, x2, x3, x4}
  Stub = Stub
  Nil = Nil
  PoolThreads = {b1, b2}
  Chunks = {c1, c2, c3}
  NoThread = NoThread
  NoChunk = NoChunk
  ChunkSize = 2
  MaxChunks = 2
  MaxFreeChunks = 1
  Sizes = {1, 2, 3}
  MaxAllocs = 3
  Conns = {1, 2}
  BufCount = 2
  TailWidth = 4
  PausedLimit = 1
  MaxArrivals = 3
SPECIFICATION AllSpec
INVARIANTS Serialized PopsInPushOrder MemoryAccounted
PROPERTIES RunsInPushOrder EveryJobRuns
CHECK_DEADLOCK FALSE

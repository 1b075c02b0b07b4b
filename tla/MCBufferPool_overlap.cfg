CONSTANTS
  t1 = t1 t2 = t2 t3 = t3 c1 = c1 c2 = c2 c3 = c3
  NoThread = NoThread
  NoChunk = NoChunk
  Threads <- TwoThreads
  Chunks <- ThreeChunks
  ChunkSize = 2
  MaxChunks = 2
  MaxFreeChunks = 1
  Sizes <- FittingSizes
  MaxAllocs = 4
SPECIFICATION Spec
SYMMETRY PoolSymmetry
CHECK_DEADLOCK FALSE
INVARIANT LiveBuffersDisjoint

CONSTANTS
  r1 = r1 r2 = r2 e1 = e1 e2 = e2 k1 = k1 k2 = k2 k3 = k3
  NoRing = NoRing
  Rings <- OneRing
  Externals <- TwoExternals
  Tasks <- ThreeTasks
  QueueDepth = 2
  SubmitBatch = 2
  CqeBudget = 1
  MaxFailures = 1
  MaxIo = 2
SPECIFICATION Spec
SYMMETRY TaskSymmetry
INVARIANTS TasksInOrder WaitsAwake

CONSTANTS
  r1 = r1 r2 = r2 e1 = e1 e2 = e2 k1 = k1 k2 = k2 k3 = k3
  NoRing = NoRing
  Rings <- TwoRings
  Externals <- NoExternals
  Tasks <- TwoTasks
  QueueDepth = 2
  SubmitBatch = 1
  CqeBudget = 0
  MaxFailures = 1
  MaxIo = 0
SPECIFICATION FairSpec
PROPERTY TasksRun

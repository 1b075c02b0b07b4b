CONSTANTS
  c1 = c1 c2 = c2
  Clients <- TwoClients
  MaxSessions = 1
  SubmitBatch = 2
  CqeBudget = 1
  FinalRounds = 2
  MaxFailures = 1
SPECIFICATION FairSpec
CHECK_DEADLOCK FALSE
INVARIANT StopHandlesAll
PROPERTY StopReturns

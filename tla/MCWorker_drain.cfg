CONSTANTS
  c1 = c1 c2 = c2
  Clients <- TwoClients
  MaxSessions = 0
  SubmitBatch = 1
  CqeBudget = 0
  FinalRounds = 2
  MaxFailures = 0
SPECIFICATION Spec
CHECK_DEADLOCK FALSE
INVARIANT StopDrainsSessions

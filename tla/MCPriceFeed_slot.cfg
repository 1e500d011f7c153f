SPECIFICATION DisplaySpec
CONSTANTS
  None = None
  Cheap = 50
  Dear = 200
  Tariffs <- MCTariffs
  Payloads <- MCPayloads
  SolverInstalled = TRUE
  PerHour = 2
  PerDay = 2
  UpdateInterval = 1
  Interval = "hourly"
  Threshold = 20000
  MaxTime = 1
  MaxFailures = 0
  MaxSaves = 0
  MaxRecalls = 0
  MaxRestarts = 0
INVARIANTS
  ExactDecisionIsForNow

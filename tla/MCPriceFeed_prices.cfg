SPECIFICATION DisplaySpec
CONSTANTS
  None = None
  Cheap = 50
  Dear = 200
  Tariffs <- MCTariffs
  Payloads <- MCPayloads
  SolverInstalled = FALSE
  PerHour = 2
  PerDay = 2
  UpdateInterval = 1
  Interval = "hourly"
  Threshold = 20000
  MaxTime = 2
  MaxFailures = 1
  MaxSaves = 2
  MaxRecalls = 1
  MaxRestarts = 1
INVARIANTS
  TypeOK
  RunningHasPrices
  ChangesTakeEffect
  ShownIsView
  HourShownFromItsQuarters
  ShownRecent
  MilpIssueExact
PROPERTIES
  SettlesWithPrices

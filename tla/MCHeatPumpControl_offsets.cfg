SPECIFICATION Spec
CONSTANTS
  None = None
  Readings <- MCReadings
  Limits = {8}
  Prices = {4, 10, 16}
  Averages = {10}
  WriteThrottle = 2
  MinDwell = 3
  MaxLatency = 1
  MaxTime = 4
  MaxReloads = 1
  MaxFailures = 0
INVARIANTS
  TypeOK
  OffsetNearLimit
  OffsetFollowsPrice
PROPERTIES
  OffsetsSpaced
  RefinesPacedSetpoint

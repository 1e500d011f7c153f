SPECIFICATION Spec
CONSTANTS
  None = None
  Decisions <- MCDecisions
  Readings <- MCLimitReadings
  Watts = {1, 3}
  LowSoc = 10
  MidSoc = 50
  HighSoc = 95
  MinSoc = 10
  MaxSoc = 95
  MaxChargeW = 2
  MaxDischargeW = 2
  WriteThrottle = 2
  MinDwell = 3
  HysteresisW = 1
  MaxLatency = 1
  MaxTime = 4
  MaxReloads = 0
  MaxFailures = 0
INVARIANTS
  TypeOK
  LimitPassedOnlyWhileReversalHeld
PROPERTIES
  DirectionChangesSpaced
  SetpointsSpaced

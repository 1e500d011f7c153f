SPECIFICATION FairSpec
CONSTANTS
  None = None
  Decisions <- MCChargeDecisions
  Readings = {50}
  Watts = {3}
  LowSoc = 10
  MidSoc = 50
  HighSoc = 95
  MinSoc = 10
  MaxSoc = 95
  MaxChargeW = 2
  MaxDischargeW = 2
  WriteThrottle = 1
  MinDwell = 2
  HysteresisW = 1
  MaxLatency = 1
  MaxTime = 2
  MaxReloads = 1
  MaxFailures = 1
INVARIANTS
  DeviceFollowsVerdict
  ReportedWriteIsOnDevice
PROPERTIES
  RefinesPacedSetpoint
  ObserveOnlyNeverWrites
  StopIsObeyed
  QueuedDecisionEvaluated

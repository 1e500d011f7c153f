SPECIFICATION LoopSpec
CONSTANTS
  None = None
  Decisions <- MCDecisions
  Readings <- MCReadings
  Watts = {1000}
  LowSoc = 20
  HighSoc = 95
  MinSoc = 10
  MaxSoc = 95
  MaxChargeW = 1000
  MaxDischargeW = 1000
  WriteThrottle = 0
  MinDwell = 0
  HysteresisW = 100
  MaxLatency = 0
  MaxTime = 0
  MaxReloads = 0
  MaxFailures = 0
  Enabled = {"self_consumption"}
  PeakImportW = 2000
  PeakExportW = 2000
  ReserveSoc = 30
  Efficiency = 90
  CycleCost = 70
  Loads <- MCLoads
  Markets <- MCMarkets
INVARIANT SurplusKeptLocal

SPECIFICATION FairSpec
CONSTANTS
  None = None
  Readings <- MCReadings
  Enableds = {TRUE}
  Prices = {"none", "low"}
  MinAs = {1, 3}
  Cars <- MCFullOrNot
  MinDwell = 2
  WattsPerAmpere = 2
  MaxLatency = 1
  MaxTime = 2
  MaxReloads = 0
  MaxFailures = 1
INVARIANTS
  TypeOK
  ChargerWithinLimits
  NoChargePastTarget
PROPERTIES
  RefinesPacedSetpoint
  NoRedundantWrite
  ChargingStops

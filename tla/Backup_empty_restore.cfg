SPECIFICATION Spec
CONSTANTS
  MaxWrites = 2
  MaxUpgrades = 0
  Faults <- NoFaults
  KeepLatest = 2
  BackoffLimit = 0
  MaxKills = 0
  MaxRestores = 1
PROPERTIES ResumeMeansRestored
CHECK_DEADLOCK FALSE

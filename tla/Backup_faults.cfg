SPECIFICATION Spec
CONSTANTS
  MaxWrites = 2
  MaxUpgrades = 0
  Faults <- AllButFreeze
  KeepLatest = 1
  BackoffLimit = 1
  MaxKills = 1
  MaxRestores = 2
INVARIANTS TypeOK PointInTime FreezeOwned RestoreExclusive
PROPERTIES ResumeRestored
CHECK_DEADLOCK FALSE

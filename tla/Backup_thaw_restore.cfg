SPECIFICATION FairSpec
CONSTANTS
  MaxWrites = 1
  MaxUpgrades = 0
  Faults <- KillsOnly
  KeepLatest = 1
  BackoffLimit = 1
  MaxKills = 1
  MaxRestores = 1
PROPERTIES FreezeEnds
CHECK_DEADLOCK FALSE

SPECIFICATION FairSpec
CONSTANTS
  MaxWrites = 2
  MaxUpgrades = 1
  Faults <- KillsOnly
  KeepLatest = 1
  BackoffLimit = 1
  MaxKills = 2
  MaxRestores = 0
PROPERTIES FreezeEnds AtomicSnapshots

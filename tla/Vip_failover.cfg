SPECIFICATION FairSpec
CONSTANTS
  LbCount = 2
  VipCount = 2
  Weight <- ConfiguredWeight
  Fall <- ConfiguredFall
  MaxFaults = 2
INVARIANTS TypeOK
PROPERTIES OneOwner OwnerManageable SpreadAgain ManageableMasterKept

SPECIFICATION FairSpec
CONSTANTS
  i1 = i1
  i2 = i2
  i3 = i3
  NoName = NoName
  Instance <- MCInstance
  HasBGP <- MCBGP
  Path <- MCPath
  MaxUpdates = 4
INVARIANTS InstancesAccounted ConfigOrder
PROPERTY StartsInTheEnd

SPECIFICATION FairSpec
CONSTANTS
  t1 = t1
  t2 = t2
  t3 = t3
  k1 = k1
  Threads = {t1, t2, t3}
  Keys = {k1}
  MaxSize = 1
  Limits = {1}
  HasDisk = TRUE
  IOFaults = TRUE
  None = None
  Torn = Torn
INVARIANTS
  TypeOK
  SingleFlight
  NoTornTile
  ErrorHasLeader
  NoLostWakeup
  FollowerFindsTile
PROPERTIES
  ImplementsSingleFlight
  DiskTileStays
  EveryCallReturns

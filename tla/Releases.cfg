SPECIFICATION FairStoreSpec
CONSTANTS
  t1 = t1
  t2 = t2
  a = a
  Threads = {t1, t2}
  b = b
  Tiles = {a, b}
  MaxRelease = 3
  Day <- MCDay
  Count <- MCCount
  FetchFaults = TRUE
  SaveFaults = TRUE
  None = None
INVARIANTS
  ReleasePinned
  FetchedOnce
  
  LocksMove
PROPERTIES
  NewestResolved
  LocksComeBack

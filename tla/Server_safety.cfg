SPECIFICATION Spec
CONSTANTS
  c1 = c1
  c2 = c2
  c3 = c3
  q1 = q1
  xyz = xyz
  good = good
  Clients = {c1, c2, c3}
  Qs = {q1, None}
  Tiles = {xyz}
  Sqls = {good}
  Workers = 2
  None = None
SYMMETRY Symmetry
INVARIANTS
  PoolMoves
  FollowersOfRunningJobs
  NeverUnfiltered
PROPERTIES
  OnlyRejectedClausesDrop

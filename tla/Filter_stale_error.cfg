SPECIFICATION Spec
CONSTANTS
  t1 = t1
  t2 = t2
  k1 = k1
  good = good
  Threads = {t1, t2}
  Keys = {k1}
  MaxSize = 1
  Sqls = {good}
  Rejected = {}
  LlmFaults = TRUE
  NetworkFaults = FALSE
  None = None
PROPERTIES
  FollowersReadCache

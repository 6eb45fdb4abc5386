SPECIFICATION FairSpec
CONSTANTS
  t1 = t1
  t2 = t2
  k1 = k1
  good = good
  bad = bad
  Threads = {t1, t2}
  Keys = {k1}
  MaxSize = 1
  Sqls = {good, bad}
  Rejected = {bad}
  LlmFaults = TRUE
  NetworkFaults = TRUE
  None = None
PROPERTIES
  EveryCompileEnds

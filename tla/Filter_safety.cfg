SPECIFICATION Spec
CONSTANTS
  t1 = t1
  t2 = t2
  t3 = t3
  k1 = k1
  good = good
  Threads = {t1, t2, t3}
  Keys = {k1}
  MaxSize = 1
  Sqls = {good}
  Rejected = {}
  LlmFaults = TRUE
  NetworkFaults = FALSE
  None = None
SYMMETRY Symmetry
INVARIANTS
  NoLostWakeup
  TranslationKept
PROPERTIES
  ImplementsSingleFlight

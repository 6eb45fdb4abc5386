SPECIFICATION FairSpec
CONSTANTS
  t1 = t1
  t2 = t2
  c1 = c1
  c2 = c2
  c3 = c3
  Threads = {t1, t2}
  Slots = 1
  Cursors = {c1, c2, c3}
  BuildFaults = TRUE
  CursorFaults = TRUE
  TimerFaults = TRUE
  None = None
CHECK_DEADLOCK FALSE
INVARIANTS
  BoundedConcurrency
  InterruptsOnlyExpired
  InterruptIsTimeout
  EngineMoves
PROPERTIES
  ImplementsSlotPool
  NobodyHoldsForever

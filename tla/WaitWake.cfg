SPECIFICATION FairSpec
CONSTANTS
  Threads = {t1, t2, t3}
INVARIANTS
  WakeInv
PROPERTIES
  ImplementsSemaphore
  WokenReturns
CHECK_DEADLOCK FALSE

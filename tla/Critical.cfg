SPECIFICATION FairSpec
CONSTANTS
  Threads = {t1, t2, t3}
  None = None
INVARIANTS
  CriticalInv
PROPERTIES
  ImplementsMutex
  SomebodyEnters

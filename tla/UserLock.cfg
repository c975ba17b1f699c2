SPECIFICATION FairSpec
CONSTANTS
  Threads = {t1, t2, t3}
  None = None
  MaxNest = 2
  MaxLevels = 3
INVARIANTS
  LockInv
PROPERTIES
  ImplementsMutex
  FreeLockIsTaken

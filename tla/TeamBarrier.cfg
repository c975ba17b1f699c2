SPECIFICATION FairSpec
CONSTANTS
  Threads = {0, 1, 2}
  TeamSize = 3
  Rounds = 3
INVARIANTS
  NoEarlyExit
  BarrierInv
PROPERTIES
  ImplementsBarrier
  EveryBarrierEnds
CHECK_DEADLOCK FALSE

SPECIFICATION FairSpec
CONSTANTS
  Threads = {0, 1, 2, 3, 4}
  MaxThreads = 5
  InitialTeam = 2
  Programs <- MCPrograms
  MaxDepth = 2
INVARIANTS
  AssignSound
  WakesSound
  JoinedMeansDone
  PoolInv
PROPERTIES
  EveryRegionEnds
CHECK_DEADLOCK FALSE

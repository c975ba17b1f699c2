SPECIFICATION Spec
CONSTANTS
  Threads = {0, 1, 2}
  MaxThreads = 3
  InitialTeam = 3
  Programs <- LimitPrograms
  MaxDepth = 2
INVARIANTS
  TeamNotEmpty
CHECK_DEADLOCK FALSE

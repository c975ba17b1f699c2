SPECIFICATION FairSpec
CONSTANTS
  Threads = {0, 1, 2}
  Program <- Singles
  NULL = NULL
INVARIANTS
  EachSingleOnce
  OneTable
  CopiesDelivered
PROPERTIES
  InitializedOnce
  EveryMemberEnds
CHECK_DEADLOCK FALSE

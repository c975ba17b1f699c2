SPECIFICATION FairSpec
CONSTANTS
  Threads = {0, 1, 2}
  Program <- TeamProgram
  MAX_LOOPS = 2
  ID_RANGE = 4
  StaticFair = FALSE
  Divisor = 2
  ChunkMax = 300
  RuntimeSchedule = "EVEN"
  RuntimeChunk = 1
  NestAt = {1}
INVARIANTS
  EachIterationOnce
  StructureIsMine
  OrderedInSequence
PROPERTIES
  EveryLoopEnds
CHECK_DEADLOCK FALSE

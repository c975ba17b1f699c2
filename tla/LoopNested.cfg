SPECIFICATION Spec
CONSTANTS
  Threads = {0, 1}
  Program <- TeamProgram
  MAX_LOOPS = 2
  ID_RANGE = 4
  StaticFair = FALSE
  Divisor = 2
  ChunkMax = 300
  RuntimeSchedule = "EVEN"
  RuntimeChunk = 1
  NestAt = {2}
INVARIANTS
  NotFirst
CHECK_DEADLOCK FALSE

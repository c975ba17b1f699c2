\* A zeroing pool and one that does not zero.  The smallest blocks and large
\* blocks with a request that fits twice and one that fits once.
CONSTANTS
  Pools = {p1, p2}
  Zeroing = {p1}
  Memory = 24
  Starts = {1, 2}
  BLOCK_SIZE = 3
  MIN_LARGE_BLOCK_SIZE = 2
  Sizes = {1, 2, 3, 4}
  Objects = {1, 2, 3}
  Filled = {1, 2}
  MaxLevels = 3
  Programs <- MCPrograms
SPECIFICATION Spec
INVARIANTS
  Contents
  LargeIsTold
  NothingLost
PROPERTIES
  ImplementsStack
CHECK_DEADLOCK FALSE

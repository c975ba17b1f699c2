SPECIFICATION Spec
CONSTANTS
  Uppers <- MCUppers
  Incs <- MCIncs
  Chunks = {1, 2, 3}
  Teams = {2, 3, 4}
INVARIANTS
  EachIterationOnce
  LastIterationOnce
  FairSharesBalanced
CHECK_DEADLOCK FALSE

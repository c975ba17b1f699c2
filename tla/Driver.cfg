\* Command lines of one to three sources, of all kinds.
CONSTANT
  CommandLines <- MCCommandLines
SPECIFICATION Spec
INVARIANTS
  DriverInv
  ErrorsAreOwn
  ExitTells
  InputIsOwn
  NothingLeft
PROPERTIES
  DriverEnds

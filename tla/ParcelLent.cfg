SPECIFICATION Spec
CONSTANTS
  Binders = {b1}
  ObjectCells = 2
  TakesFds = FALSE
  MaxSize = 6
  MaxFd = 4
  LentFds = TRUE
INVARIANT
  AshmemIsCounted

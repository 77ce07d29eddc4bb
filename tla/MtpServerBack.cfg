SPECIFICATION Spec
CONSTANTS
  NumHandles = 1
  MaxSize = 2
  NumIds = 2
INVARIANT NothingIsSentBack
CHECK_DEADLOCK FALSE

SPECIFICATION Spec
CONSTANTS
  Threads = {t1, t2}
  MaxIncarnations = 2
  Patience = 1
  InTime = FALSE
  BINDER_ATTEMPT_LIMIT = 2
INVARIANT GivingUpFreesTheLock
CHECK_DEADLOCK FALSE

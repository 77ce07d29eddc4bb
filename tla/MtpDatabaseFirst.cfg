SPECIFICATION Spec
CONSTANTS
  HostPaths = {p1}
  LocalPaths = {p2}
  Nobody = Nobody
  MediaFlag = 0
  MaxHandle = 6
  MaxEvents = 3
INVARIANTS
  EveryFileIsListed
CHECK_DEADLOCK FALSE

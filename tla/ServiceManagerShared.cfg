SPECIFICATION Spec
CONSTANTS
  Names = {n1, n2}
  Services = {s1, s2, s3}
  Nothing = Nothing
  MaxHandle = 3
  MaxNames = 2
CHECK_DEADLOCK FALSE
INVARIANT
  EveryLiveServiceIsFound

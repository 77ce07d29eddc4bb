SPECIFICATION BinderSpec
CONSTANTS
  Threads = {t1, t2}
  Recipients = {r1, r2}
  Records = {d1, d2, d3}
  NoRecord = NoRecord
  MaxEntries = 2
  Names = {n1, n2}
  Services = {s1, s2}
  Nothing = Nothing
  MaxHandle = 2
  MaxNames = 2
  Pool = {a1, a2, a3, a4}
  Nobody = Nobody
  MaxCalls = 3
  StartedFirst = TRUE
  Queries = {q}
  Idle = Idle
  MaxIncarnations = 2
  Patience = 1
  InTime = TRUE
  BINDER_ATTEMPT_LIMIT = 2
INVARIANTS
  LinksAreSound
  NamesAreServed
  LiveServicesAreFound
  ThreadsAreCounted
  AnswersAreGiven
PROPERTIES
  DeadServicesAreForgotten
  EveryWatchIsSettled
  ProxyIsReclaimed
  EveryCallEnds
CHECK_DEADLOCK FALSE

SPECIFICATION ProcessSpec
CONSTANTS
  Threads = {t1, t2}
  Handles = {h}
  Proxies = {p1, p2, p3}
  NULL = NULL
  MaxOut = 3
  MaxRefs = 2
  Objects = {o1, o2}
  Callers = {t1, t2}
  Self = Self
  Nobody = Nobody
  MaxStack = 5
  MaxWork = 2
SYMMETRY Symmetric
INVARIANTS
  TheTableHasTheProxy
  HeldHandlesStayValid
  RepliesReachTheirCalls
  IdentityIsKept
  ReferencesAreBalanced
CHECK_DEADLOCK FALSE

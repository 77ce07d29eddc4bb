SPECIFICATION SidesSpec
CONSTANTS
  Align = 2
  PageSize = 4
  DealerSize = 11
  Allocations = {a1, a2, a3}
  Sizes = {0, 1, 3, 4, 8, 13}
  Nobody = Nobody
  Threads = {t1, t2, t3}
  Proxies = {p1, p2}
  Heaps = {h1, h2, h3}
  MayFail = TRUE
  Sharing = 2
  MaxCount = 5
SYMMETRY Symmetric
INVARIANTS
  TypeOK
  ListTilesHeap
  NoAdjacentFree
  BusyChunksAreHeld
  ContentsIntact
  MappedWhileUsed
PROPERTY
  GrantsAreExtents

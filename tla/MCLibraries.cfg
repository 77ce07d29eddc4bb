SPECIFICATION LibrariesSpec
CONSTANTS
  FrameCount = 5
  Width = 5
  MaxCount = 6
  NumFrames = 11
  Ints = {vol}
  Enums = {sel}
  Others = {iec}
  Paths = {p1, p2}
  NumValues = 2
  MaxValue = 1
  MaxTags = 5
  Binders = {b1}
  ObjectCells = 2
  TakesFds = FALSE
  MaxSize = 6
  MaxFd = 4
  LentFds = FALSE
  Counts = {1, 2}
  Delays = {0, 1, 3}
  MIN_DELAY_DELTA = 1
  MIN_DELTA_NUM = 1
  DELTA_COUNTS = 3
  Resampling = TRUE
  MaxWritten = 5
  MaxFrames = 4
  Bits = {0, 2, 4, 6}
  OddRates = {8}
  Channels = {1, 9}
  MAX_PROFILE_FORMATS = 6
  MAX_PROFILE_SAMPLE_RATES = 14
  RequestWords = 8
  ReplyWords = 4
  MaxOffs = 1
  ObjectWords = 2
  Wide = TRUE
  Lengths = {0, 1, 4}
  MaxItems = 3
  Clients = {c1, c2}
  NumFramebuffers = {1, 2, 3, 4}
  Buffers = {g1, g2}
  Addresses = {1, 2}
  BufferSizes = {0, 2}
SYMMETRY Symmetric
INVARIANTS
  FramesAreExclusive
  RoutesAreIndependent
  ObjectsAreKept
  FramesAreFresh
  ProxiesCanBeOpened
  BuffersAreExclusive
PROPERTIES
  IsAFrameQueue
  UpdatesShowWhatIsWanted
CHECK_DEADLOCK FALSE

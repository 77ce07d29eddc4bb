SPECIFICATION MediaSpec
CONSTANTS
  SmallTags = {1, 2}
  WideTags = {}
  Objects = {o1, o2}
  NULL = NULL
  MinCount = 1
  MaxBytes = 8
  MaxEntries = 3
  MaxCapacity = 4
  Careless = FALSE
  Descriptors = {x1, x2}
  TagIds = {9, 10, 11, 12}
  Boundary = 10
  Names = {1, 2}
  Sections = {1, 2, 3}
  Types = {1}
  NUM_TYPES = 2
  Letters = {10}
  Lengths = {0, 3}
  MaxKey = 1
  MaxKeys = 2
  MaxSizes = 2
  HostPaths = {p1}
  LocalPaths = {p2}
  Nobody = Nobody
  MediaFlag = 1
  MaxHandle = 5
  MaxEvents = 3
  FileNames = {"a", "b"}
  Depth = 2
  MaxInode = 3
  FolderHandles = 4
  FolderEvents = 2
  MaxRequests = 4
  MaxLength = 3
  MTP_STRING_MAX_CHARACTER_NUMBER = 4
  MaxChars = 2
  Characters = {65, 127, 128, 2047, 2048, 65535}
  GridWidth = 3
  GridHeight = 2
  Shifts = {0, 1}
  MaxRects = 2
  ByteBits = 3
  SampleCount = 2
  MaxChannels = 3
  MANTISSA_BITS = 3
  EXPONENT_BITS = 2
  Mono24 = FALSE
SYMMETRY Symmetric
INVARIANTS
  BuffersAreSound
  CopiesAreFaithful
  ObjectsFollowFiles
  FoldersFollowFiles
  OperationsAreInStep
  RegionsAreTheirPixels
  SamplesKeepTheirValues
PROPERTY
  IsAStore
CHECK_DEADLOCK FALSE

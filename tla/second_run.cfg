CONSTANTS
  BUFFER_SIZE = 4
  Window = 1
  CompressedSizes = {2}
  MAX_WRITE = 4
  MAX_BYTES = 20
  MAX_FLUSH = 9
  MAX_READ = 6
  MayFail = FALSE
  MAX_EVENTS = 1
  MAX_RUNS = 2
  HeaderShape <- SmallHeader
  EventShapes <- SmallEvents
SPECIFICATION PSpec
INVARIANT ClosedIsReplayed
CHECK_DEADLOCK FALSE

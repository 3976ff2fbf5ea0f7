CONSTANTS
  BUFFER_SIZE = 3
  Window = 3
  CompressedSizes = {1}
  MAX_WRITE = 4
  MAX_BYTES = 20
  MAX_FLUSH = 9
  MAX_READ = 9
  MayFail = TRUE
  MAX_EVENTS = 1
  MAX_RUNS = 2
  HeaderShape <- WideHeader
  EventShapes <- LargeEvents
SPECIFICATION PSpec
INVARIANT ReplayInOrder
CHECK_DEADLOCK FALSE

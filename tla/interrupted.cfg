CONSTANTS
  BUFFER_SIZE = 3
  Window = 3
  CompressedSizes = {1, 3}
  MAX_WRITE = 7
  MAX_BYTES = 8
  MAX_FLUSH = 2
  MayFail = TRUE
SPECIFICATION WSpec
INVARIANT FlushedDataFollows
CHECK_DEADLOCK FALSE

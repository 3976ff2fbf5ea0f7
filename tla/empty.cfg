CONSTANTS
  BUFFER_SIZE = 4
  Window = 4
  CompressedSizes = {2}
  MAX_WRITE = 4
  MAX_BYTES = 8
  MAX_FLUSH = 0
  MAX_READ = 3
  MayFail = FALSE
SPECIFICATION Spec
INVARIANT EmptyIsReadable
CHECK_DEADLOCK FALSE

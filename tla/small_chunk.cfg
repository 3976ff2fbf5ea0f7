CONSTANTS
  BUFFER_SIZE = 3
  Window = 4
  CompressedSizes = {1}
  MAX_WRITE = 3
  MAX_BYTES = 9
  MAX_FLUSH = 0
  MAX_READ = 3
  MayFail = FALSE
SPECIFICATION Spec
INVARIANT WrittenIsReadable
CHECK_DEADLOCK FALSE

CONSTANTS
  BUFFER_SIZE = 3
  Window = 3
  CompressedSizes = {1, 3}
  MAX_WRITE = 8
  MAX_BYTES = 10
  MAX_FLUSH = 2
  MAX_READ = 7
  MayFail = FALSE
SPECIFICATION Spec
INVARIANTS NeverRejected ShortOnlyAtEnd
CHECK_DEADLOCK FALSE

CONSTANTS
  BUFFER_SIZE = 4
  Window = 4
  CompressedSizes = {1, 2}
  MAX_WRITE = 4
  MAX_BYTES = 8
  MAX_FLUSH = 1
  MAX_READ = 4
  MayFail = TRUE
SPECIFICATION Spec
INVARIANTS ReaderTypes DeliveredInOrder EndDeliversStored
PROPERTY ImplementsByteFile
CHECK_DEADLOCK FALSE

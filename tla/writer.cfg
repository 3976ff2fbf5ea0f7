CONSTANTS
  BUFFER_SIZE = 3
  Window = 3
  CompressedSizes = {1}
  MAX_WRITE = 9
  MAX_BYTES = 10
  MAX_FLUSH = 10
  MayFail = TRUE
SPECIFICATION WSpec
INVARIANTS TypeOK FramesInOrder DictionaryIntact BufferHoldsTail CloseLosesNothing ReferencesPrecede
CHECK_DEADLOCK FALSE

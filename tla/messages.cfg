CONSTANTS
  BUFFER_SIZE = 4
  Window = 4
  CompressedSizes = {2}
  MAX_WRITE = 4
  MAX_BYTES = 20
  MAX_FLUSH = 9
  MAX_READ = 6
  MayFail = TRUE
  MAX_EVENTS = 3
  MAX_RUNS = 1
  HeaderShape <- SmallHeader
  EventShapes <- SmallEvents
SPECIFICATION FairPSpec
INVARIANTS PTypeOK TerminateMeansKept ReplaySucceeds LeakMeansTorn
PROPERTIES RunEnds ReadsToTheEnd
CHECK_DEADLOCK FALSE

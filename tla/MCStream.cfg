CONSTANTS
  SizeModulus = 16777216
  Streams <- MCStreams
  ChunkSizes = {1, 5, 29, 200}
SPECIFICATION Spec
INVARIANTS TypeOK InOrder VerdictIsFinal NothingInvented NothingLost
PROPERTIES LoopEnds EverythingDelivered
CHECK_DEADLOCK FALSE

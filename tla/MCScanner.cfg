CONSTANTS
  MaxSize = 60
  SizeModulus = 16777216
  Buffers <- MCBuffers
SPECIFICATION Spec
INVARIANTS TypeOK ReadsInBounds
PROPERTIES ImplementsStream Returns
CHECK_DEADLOCK FALSE

CONSTANTS
  v1 = v1  v2 = v2  b1 = b1
  Unset = Unset
  Views = {v1, v2}
  BufferOf <- MCBufferOf
  Capacity = 2
  Tags = {1, 2, 3}
  HalfModulus = 16
  Sources <- MCSources
SPECIFICATION Spec
INVARIANTS TypeOK  AbsenceIsReal

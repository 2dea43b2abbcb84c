CONSTANTS
  A = A
  B = B
  C = C
  C1 = C1
  C2 = C2
  C3 = C3
  F = F
  G = G
  M1 = M1
  M2 = M2
  N1 = N1
  N2 = N2
  None = None
  MaxComponentDepth = 3
  BitmapSize = 98
  Specs <- SharedNames
SPECIFICATION Spec
INVARIANT DelimiterBeginsEntry
CHECK_DEADLOCK FALSE

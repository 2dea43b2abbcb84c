\* A decimal with more zeros before its point than its type has digits.
CONSTANTS
  BufferSizes = {24}
  TagDigits = {1, 10}
  Lengths = {0}
  IntShapes <- MCIntShapes
  DecimalShapes <- MCWideExponents
  MaxCalls = 4
SPECIFICATION Spec
INVARIANTS NoOverrun
CHECK_DEADLOCK FALSE

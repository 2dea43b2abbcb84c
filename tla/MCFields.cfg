CONSTANTS
  SizeModulus = 16777216
  TagModulus = 65536
  BitmapSize = 98
  LengthTags = {95, 100}
  Messages <- MCMessages
  Capacities = {40, 62, 120}
  BeginStrings <- MCBeginStrings
  Strings <- MCStrings
  Ints <- MCInts
  Data <- MCData
  MaxCalls = 4
SPECIFICATION WRSpec
INVARIANTS TypeOK ValueInMessage SeesTheFields WrittenIsRead EndOut
PROPERTIES Ends ImplementsWriter
CHECK_DEADLOCK FALSE

\* Buffers too small for anything, for one or two fields, for any call, and for
\* a message whose body is just below, or above, the largest BodyLength; the
\* values of MCValues.
CONSTANTS
  BufferSizes = {0, 12, 39, 60, 1000080}
  TagDigits = {1, 10}
  Lengths = {0, 9, 999980}
  IntShapes <- MCIntShapes
  DecimalShapes <- MCDecimalShapes
  MaxCalls = 4
  Texts <- MCTexts
  Moduli = {256, 65536}
  Integers <- MCIntegers
  Mantissas <- MCMantissas
  Exponents <- MCExponents
  TimePoints <- MCTimePoints
  Times <- MCTimes
  Years = {0, 1969, 1970, 1972, 2000, 2001, 2100, 2200, 2201, 9999}
  PushedYears = {1970, 1972, 1999, 2000, 2001, 2099, 2100, 2199, 2200}
  OddBytes = {43, 120, 200}
  Before1970 = FALSE
  Untouched = Untouched
SPECIFICATION PrintingSpec
INVARIANTS TypeOK NoOverrun NothingMissing ExactBodyLength NumbersExact DatesExact ReadBack PrintedAsCounted
PROPERTIES ErrorIsSticky ImplementsFieldLog
CHECK_DEADLOCK FALSE

\* Points of time before 1970 are pushed, too.
SPECIFICATION ValueSpec
CONSTANTS
  Texts <- MCTexts
  Moduli = {256, 65536}
  Integers <- MCIntegers
  Mantissas <- MCMantissas
  Exponents <- MCExponents
  TimePoints <- MCTimePoints
  Times <- MCTimes
  Years = {0, 1969, 1970, 1972, 2000, 2001, 2100, 2200, 2201, 9999}
  PushedYears = {1970, 1972, 1999, 2000, 2001, 2099, 2100, 2199, 2200}
  OddBytes = {43, 120, 200}
  Before1970 = TRUE
  Untouched = Untouched
INVARIANTS SignedEpochs
CHECK_DEADLOCK FALSE

SPECIFICATION MCSpec
CONSTANTS
  Parts = {"BigInteger"}
  N = 2
  IntBits = 4
  MaxLength = 3
  MaxLengths = 3
  ShiftsZero = FALSE
  Reg <- XYZ
  B = 4
  Types = {2, 4}
  NotWrapped = {2, 4}
  Magnitudes = {0, 4}
  MaxMagnitude = 4
  Args <- SmallIntegers
  Written <- UpTo70
  Bases = {0, 1, 2, 3, 5, 10, 16, 36, 37}
  DigitArrays <- DigitArraysTo3
  Given <- ShortStrings
  Exponents = {0, 1, 2, 3, 4, 5}
PROPERTIES
  ComputesWithIntegers
CHECK_DEADLOCK FALSE

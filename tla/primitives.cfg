SPECIFICATION FairAllSpec
CONSTANTS
  Parts = {"BigUnsigned", "BigInteger", "BigAlgorithms", "BigUnsignedInABase"}
  N = 2
  IntBits = 4
  MaxLength = 3
  MaxLengths = 5
  ShiftsZero = FALSE
  Reg <- XYZ
  B = 4
  Types = {2, 4}
  NotWrapped = {}
  Magnitudes = {0, 4}
  MaxMagnitude = 4
  Args <- SmallIntegers
  Written <- UpTo70
  Bases = {0, 1, 2, 3, 5, 10, 16, 36, 37}
  DigitArrays <- DigitArraysTo3
  Given <- ShortStrings
  Exponents = {0, 1, 2, 3, 4, 5}
  K = 6
  rotor_list <- Wirings
  reflector <- Reflector
  carry_over <- Carries
  plug_board <- Plugs
  Orders <- SomeOrders
  Rings <- SomeRings
  Initials <- SomeInitials
  Texts <- SomeTexts
  Byte = 4
  INT_MAX = 511
  Block = 16
  Half = 5
  PartBytes = 4
  ctr <- SomeCounter
  MaxText = 80
  HashBytes = 2
  SaltLengths = {0, 2, 16, 17}
  MaxOkm = 10
  sizeof_block = 4
  BufBytes = 5
  MaxAdded = 9
  IvBytes = 1
  CtrBytes = 4
  IVs <- OneByteIVs
  Lengths = {0, 2, 5, 21}
  MaxSealed = 2
INVARIANTS
  RoundTrip
  Bezout
  AnswerIsRight
  HashesThePaddedMessage
  BytesOfTheText
  ReturnsOkm
  DigestsWhatWasAdded
  CounterBlocksDiffer
  OpensOnlyWhatWasSealed
  DecryptsBack
  MovesOnce
  LoopsInPairs
PROPERTIES
  ComputesWithNumbers
  ComputesWithIntegers
  CallsEnd
CHECK_DEADLOCK FALSE

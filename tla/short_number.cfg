SPECIFICATION BreakInSpec
CONSTANTS
  MaxSent = 2
  MaxInFlight = 1
  Short <- OneShortNumber
  MayLose = FALSE
  MaxRepeats = 0
INVARIANTS
  EveryCheckSucceeds
CHECK_DEADLOCK FALSE

SPECIFICATION BreakInSpec
CONSTANTS
  MaxSent = 3
  MaxInFlight = 3
  Short = {}
  MayLose = TRUE
  MaxRepeats = 2
INVARIANTS
  EveryCheckSucceeds
  ChainsMatch
  ForwardSecurity
  RecoversFromBreakIn
PROPERTIES
  NoKeyTwice
  ImplementsChannel
CHECK_DEADLOCK FALSE

SPECIFICATION FairTurnsSpec
CONSTANTS
  MaxCoroutines = 3
  SleepTimes = {0, 2}
  MaxTime = 2
  ClockSteps = {}
  Unsigned = 100
INVARIANTS
  TypeOK
  RunsTheRightStack
PROPERTIES
  DeletesOnlyFinished
  SleepsAtLeast
  NobodyOvertakesTwice
  ImplementsTasks
  EveryCoroutineResumed
  ReturnsWhenAllEnd

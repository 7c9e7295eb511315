SPECIFICATION FairTurnsSpec
CONSTANTS
  MaxCoroutines = 1
  SleepTimes = {0, 2}
  MaxTime = 2
  ClockSteps <- BackAndForth
  Unsigned = 100
PROPERTIES
  SleepsAtLeast

SPECIFICATION FairProgramSpec
CONSTANTS
  Programs = {"sleep_sort", "binary_search"}
  MaxCoroutines = 3
  Searches = 4
  Batch = 2
  TableSizes = {1, 2, 3, 5}
  Entries = {1, 2}
  Keys = {0, 1, 2}
  Numbers = {0, 1, 2}
  SleepTimes = {0, 3, 6}
  MaxTime = 7
  TicksPerMs = 3
  TicksPerRound = 1
  ClockSteps <- MsBackAndForth
  Unsigned = 100
INVARIANTS
  Sorted
  FindsLastNotLarger
PROPERTIES
  ProgramsEnd
CHECK_DEADLOCK FALSE

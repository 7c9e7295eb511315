SPECIFICATION ProgramSpec
CONSTANTS
  Programs = {"sleep_sort"}
  MaxCoroutines = 3
  Searches = 4
  Batch = 2
  TableSizes = {1, 2, 3, 5}
  Entries = {1, 2}
  Keys = {0, 1, 2}
  Numbers = {0, 1, 2}
  SleepTimes = {0, 3, 6}
  MaxTime = 7
  TicksPerMs = 3
  TicksPerRound = 3
  ClockSteps = {}
  Unsigned = 100
INVARIANTS
  Sorted
CHECK_DEADLOCK FALSE

------------------------------ MODULE SleepSort ------------------------------
(***************************************************************************)
(* sleep_sort.cpp on the coroutine pool: main reads the numbers and makes  *)
(* a coroutine for each, which sleeps as many milliseconds as its number   *)
(* says and prints it.  The number of ticks to the millisecond is a        *)
(* constant here, so that a round of the pool can be shorter than that.    *)
(* The numbers here are naturals: a negative one would become a uint64_t   *)
(* near 2^64, a sleep of which nobody sees the end.                        *)
(***************************************************************************)
EXTENDS CoroutinePool, Sequences, FiniteSets

CONSTANTS
  Numbers,        \* the numbers that may be sorted
  TicksPerMs,
  TicksPerRound   \* how many ticks one round of the pool may take

ASSUME SortAssumption ==
  /\ TicksPerMs \in Nat \ {0} /\ TicksPerRound \in Nat
  /\ Numbers \subseteq Nat
  /\ \A x \in Numbers : x * TicksPerMs \in SleepTimes

VARIABLES
  a,        \* the numbers read
  slept,    \* has the body of coroutine c returned from sleep?
  out,      \* the lines printed
  clockSet, \* has somebody set the clock?
  round     \* ticks since the pool began its round

sortVars == <<vars, a, slept, out, clockSet, round>>

SortInit ==
  /\ Init
  /\ a \in [Coroutines -> Numbers]
  /\ slept = [c \in Coroutines |-> FALSE]
  /\ out = <<>> /\ clockSet = FALSE
  /\ round = 0

\* main: the loop that creates the coroutines, then the pool.
Main ==
  /\ mode = "main" /\ out = <<>>
  /\ IF n < MaxCoroutines THEN new_coroutine ELSE serial_execute_all
  /\ UNCHANGED <<a, slept, out, clockSet, round>>

Schedule ==
  /\ SchedulerStep
  /\ round' = IF i >= n THEN 0 ELSE round
  /\ UNCHANGED <<a, slept, out, clockSet>>

\* The body: sleep(x), and when that returns printf(x) and the end.
Body ==
  /\ mode = "run"
  /\ IF slept[running]
     THEN coroutine_main /\ out' = Append(out, a[running]) /\ UNCHANGED slept
     ELSE /\ sleep(a[running] * TicksPerMs)
          /\ slept' = [slept EXCEPT ![running] = TRUE]
          /\ UNCHANGED out
  /\ UNCHANGED <<a, clockSet, round>>

Time ==
  /\ Tick
  /\ round < TicksPerRound /\ round' = round + 1
  /\ UNCHANGED <<a, slept, out, clockSet>>

\* Somebody sets the system clock, once.
Set ==
  /\ ~clockSet /\ clockSet' = TRUE
  /\ \E d \in ClockSteps : SetClock(d)
  /\ UNCHANGED <<a, slept, out, round>>

SortNext == Main \/ Schedule \/ Body \/ Time \/ Set

SortSpec == SortInit /\ [][SortNext]_sortVars
\* The one thread of the program runs, and time passes.
FairSortSpec ==
  /\ SortSpec
  /\ WF_sortVars(Main \/ Schedule \/ Body)
  /\ WF_sortVars(Time)

\* The pool is prompt enough for the numbers to be told apart: it visits a coroutine up to
\* two rounds after it was due, and went to put another to sleep up to a round earlier.
Prompt == 3 * TicksPerRound <= TicksPerMs

\* "The program prints the numbers in ascending order" (README.md:77): the lines
\* printed so far are sorted, as long as nobody has set the clock.
Sorted == ~clockSet => \A j, k \in 1..Len(out) : j < k => out[j] <= out[k]

\* The sort ends, and whatever the clock did each number has then been printed as many
\* times as it was read.
AllPrinted ==
  <>(/\ mode = "main"
     /\ \A number \in Numbers :
          Cardinality({k \in DOMAIN out : out[k] = number})
            = Cardinality({c \in Coroutines : a[c] = number}))
=============================================================================

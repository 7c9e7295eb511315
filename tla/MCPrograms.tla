----------------------------- MODULE MCPrograms -----------------------------
(* The programs on the pool: sleep_sort on a few numbers, with a prompt and with a slow *)
(* pool, and batches of binary searches in small tables.                                *)
EXTENDS SleepSort, BatchSearch

CONSTANT Programs   \* what may run: "sleep_sort", "binary_search"

VARIABLE program

lookupVars == <<table, keys, res, base, low, size, probing>>
allVars == <<program, sortVars, lookupVars>>

MsBackAndForth == {-TicksPerMs, TicksPerMs}

NoSort ==
  /\ a = [c \in Coroutines |-> 0] /\ slept = [c \in Coroutines |-> FALSE]
  /\ out = <<>> /\ clockSet = FALSE /\ round = 0
NoSearch ==
  /\ table = <<>> /\ keys = <<>> /\ res = <<>> /\ base = 0
  /\ low = <<>> /\ size = <<>> /\ probing = <<>>

ProgramInit ==
  /\ program \in Programs
  /\ \/ program = "sleep_sort" /\ SortInit /\ NoSearch
     \/ program = "binary_search" /\ SearchInit /\ NoSort

ProgramNext ==
  /\ UNCHANGED program
  /\ \/ program = "sleep_sort" /\ SortNext /\ UNCHANGED lookupVars
     \/ program = "binary_search" /\ SearchNext /\ UNCHANGED <<a, slept, out, clockSet, round>>

ProgramSpec == ProgramInit /\ [][ProgramNext]_allVars
\* The one thread of a program runs, and time passes.
FairProgramSpec ==
  /\ ProgramSpec
  /\ WF_allVars(program = "sleep_sort" /\ (Main \/ Schedule \/ Body) /\ UNCHANGED <<program, lookupVars>>)
  /\ WF_allVars(program = "sleep_sort" /\ Time /\ UNCHANGED <<program, lookupVars>>)
  /\ WF_allVars(program = "binary_search" /\ ProgramNext)

\* The programs end: the sort has printed each number that was read (see SleepSort), and
\* the searches of all batches have been made (see BatchSearch).
ProgramsEnd ==
  /\ program = "sleep_sort" => AllPrinted
  /\ program = "binary_search" => AllSearched
=============================================================================

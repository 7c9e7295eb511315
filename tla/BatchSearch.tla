----------------------------- MODULE BatchSearch -----------------------------
(***************************************************************************)
(* binary_search.cpp on the coroutine pool: m binary searches, made in     *)
(* batches.  Each search of a batch is a coroutine that gives up the       *)
(* processor between the prefetch of a table entry and its use, so that    *)
(* the other searches run while the memory answers.                        *)
(***************************************************************************)
EXTENDS CoroutinePool, FiniteSetsExt

CONSTANTS
  Searches,   \* m, a multiple of the batch size as main asserts
  Batch,      \* a batch fits in the pool
  TableSizes, \* the sizes of the table that is searched
  Entries,    \* what a table may hold
  Keys        \* what is searched for

ASSUME BatchAssumption ==
  /\ Batch \in Nat \ {0} /\ Batch <= MaxCoroutines
  /\ Searches \in Nat /\ Searches % Batch = 0
  /\ TableSizes \subseteq Nat \ {0}
  /\ Entries \subseteq Int /\ Keys \subseteq Int

VARIABLES
  table,       \* sorted, indexed from 0
  keys, res,   \* of each search: the value looked for, the index found
  base,        \* the first search of this batch
  low, size,   \* the locals of lookup_coroutine, per coroutine
  probing      \* has coroutine c left the processor between prefetch and use?

searchVars == <<vars, table, keys, res, base, low, size, probing>>

Length == Max(DOMAIN table) + 1
Half(s) == s \div 2

\* Mutant: an entry equal to the value looked for is passed over.
TowardsBelow(l, s, value) ==
  <<IF table[l + Half(s)] < value THEN l + Half(s) ELSE l, s - Half(s)>>

\* The body of the while loop after the probe: the interval <<low, size>> it leaves.
Narrow(l, s, value) ==
  <<IF table[l + Half(s)] <= value THEN l + Half(s) ELSE l, s - Half(s)>>

-----------------------------------------------------------------------------
SearchInit ==
  /\ Init
  /\ \E k \in TableSizes :
       /\ table \in [0..(k - 1) -> Entries]
       /\ \A j, l \in 0..(k - 1) : j <= l => table[j] <= table[l]
  /\ keys \in [0..(Searches - 1) -> Keys]
  /\ res = [q \in 0..(Searches - 1) |-> 0]
  /\ base = 0
  /\ low = [c \in Coroutines |-> 0]
  /\ size = [c \in Coroutines |-> 0]
  /\ probing = [c \in Coroutines |-> FALSE]

\* coroutine_batched: a coroutine for each search of the batch, then the pool.
coroutine_batched ==
  /\ mode = "main" /\ base < Searches
  /\ IF n < Batch
     THEN /\ new_coroutine
          /\ low' = [low EXCEPT ![n] = 0]
          /\ size' = [size EXCEPT ![n] = Length]
          /\ probing' = [probing EXCEPT ![n] = FALSE]
     ELSE serial_execute_all /\ UNCHANGED <<low, size, probing>>
  /\ UNCHANGED <<table, keys, res, base>>

SearchSchedule ==
  /\ SchedulerStep
  /\ base' = IF mode' = "main" THEN base + Batch ELSE base
  /\ UNCHANGED <<table, keys, res, low, size, probing>>

(* lookup_coroutine, from where it last gave up the processor: the entry it
   prefetched is used, and the next one is prefetched, or the search ends.  Its
   size_t size is the int n of coroutine_batched, which holds the length of any
   table below 2^31 entries. *)
lookup_coroutine ==
  /\ mode = "run"
  /\ LET c    == running
         next == IF probing[c] THEN Narrow(low[c], size[c], keys[base + c])
                               ELSE <<low[c], size[c]>>
     IN  /\ low' = [low EXCEPT ![c] = next[1]]
         /\ size' = [size EXCEPT ![c] = next[2]]
         /\ \/ /\ Half(next[2]) > 0
               /\ yield
               /\ probing' = [probing EXCEPT ![c] = TRUE]
               /\ UNCHANGED res
            \/ /\ Half(next[2]) = 0
               /\ coroutine_main
               /\ res' = [res EXCEPT ![base + c] = next[1]]
               /\ UNCHANGED probing
  /\ UNCHANGED <<table, keys, base>>

SearchNext == coroutine_batched \/ SearchSchedule \/ lookup_coroutine

\* The one thread of the program runs.
SearchSpec == SearchInit /\ [][SearchNext]_searchVars /\ WF_searchVars(SearchNext)

-----------------------------------------------------------------------------
\* A search finds the last entry that is not larger than the key, or the first
\* entry of all: whatever the interleaving, in the batches that have returned.
FindsLastNotLarger ==
  \A q \in 0..(Searches - 1) : q < base =>
    res[q] = Max({0} \cup {k \in DOMAIN table : table[k] <= keys[q]})

\* All searches are made.
AllSearched == <>(base = Searches)
=============================================================================

---------------------------- MODULE MdriverRanges ----------------------------
(***************************************************************************)
(* What mdriver.c demands of an allocator: the list of ranges that         *)
(* eval_mm_valid keeps, one for every payload the allocator has handed out, *)
(* and the conditions under which add_range accepts a new one.  It is the  *)
(* abstract specification of Malloc, and by itself it describes what any   *)
(* allocator could do without mdriver reporting an error.                  *)
(*                                                                         *)
(* The driver stops at the first error it reports, so the specification    *)
(* has no step for a payload that is not accepted.  A call that returns    *)
(* NULL leaves the ranges as they are, which is a stuttering step.         *)
(***************************************************************************)
EXTENDS Integers

CONSTANTS
  Offsets,   \* where a payload may start, from mem_heap_lo()
  Sizes,     \* payload sizes, in bytes
  HeapEnds   \* the values of mem_heapsize()

VARIABLES ranges, brk

vars == <<ranges, brk>>

ALIGNMENT == 16

Range(lo, size) == [lo |-> lo, hi |-> lo + size - 1]

\* The overlap test of add_range, as it is written there.
Overlaps(r, p) == (r.lo >= p.lo /\ r.lo <= p.hi) \/ (r.hi >= p.lo /\ r.hi <= p.hi)

\* add_range: aligned, inside the heap that ends before end, and no overlap.
Accepted(r, others, end) ==
  /\ r.lo % ALIGNMENT = 0
  /\ 0 <= r.lo /\ r.lo < end /\ 0 <= r.hi /\ r.hi < end
  /\ \A p \in others : ~Overlaps(r, p)

Init == ranges = {} /\ brk \in HeapEnds

\* The range r of a payload just handed out joins the others.
AddRange(r, others) ==
  /\ brk' \in HeapEnds /\ brk' >= brk
  /\ Accepted(r, others, brk')
  /\ ranges' = others \cup {r}

Alloc(lo, size) == AddRange(Range(lo, size), ranges)

Realloc(p, lo, size) == AddRange(Range(lo, size), ranges \ {p})

Free(p) == ranges' = ranges \ {p} /\ UNCHANGED brk

Next ==
  \/ \E lo \in Offsets, size \in Sizes : Alloc(lo, size)
  \/ \E p \in ranges : Free(p)
  \/ \E p \in ranges, lo \in Offsets, size \in Sizes : Realloc(p, lo, size)

Spec == Init /\ [][Next]_vars

\* "The payload must not overlap any other payloads" (mdriver.c:399): what the
\* driver accepts never shares a byte with another payload.
NoOverlap == \A p, q \in ranges : p # q => p.hi < q.lo \/ q.hi < p.lo
=============================================================================

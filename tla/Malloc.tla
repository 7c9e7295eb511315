------------------------------- MODULE Malloc -------------------------------
(***************************************************************************)
(* The allocator of malloclab: mm.c on top of the simulated heap of        *)
(* memlib.c.  The heap is modelled as the memory the code really uses: a   *)
(* function from the addresses of 4-byte words to their contents, with     *)
(* addresses counted from mem_start_brk.  Block headers and footers, the   *)
(* pred/succ pointers inside free blocks, the 17 list heads and the data   *)
(* of the client all live in that one memory, so a write that misses its   *)
(* target really damages what is there.                                    *)
(*                                                                         *)
(* The macros and functions of mm.c are operators that take the memory (or *)
(* the allocator's whole state) and return the next one.  The actions are  *)
(* the calls of a client: it never frees or reallocates a pointer it does  *)
(* not own, and it writes every byte it asked for, as mdriver.c does.      *)
(***************************************************************************)
EXTENDS Integers, FiniteSets, FiniteSetsExt, Functions

CONSTANTS
  CHUNKSIZE,   \* mm.c: 4096 bytes; smaller here
  MAX_HEAP,    \* config.h: 20 MB; smaller here
  Sizes,       \* the request sizes the client uses, in bytes
  MaxLive,     \* bound: how many blocks the client holds at once
  CopyOrders,  \* the orders in which memcpy may copy, see Memcpy
  Junk         \* the contents of a word whose value the program cannot rely on

VARIABLES
  mem,             \* word address -> contents
  mem_brk,         \* memlib.c: end of the heap
  freelist_tailp,  \* mm.c: address of the epilogue block
  live,            \* the client's blocks: payload address -> size requested
  kept,            \* did the last mm_realloc keep the data of its block?
  realloced        \* history: has a block ever been reallocated?

vars == <<mem, mem_brk, freelist_tailp, live, kept, realloced>>

WSIZE == 4
DSIZE == 8
ALIGNMENT == 16
NULL == 0          \* no block starts at address 0, the list heads are there

ASSUME HeapAssumption ==
  /\ CHUNKSIZE \in Nat /\ CHUNKSIZE % ALIGNMENT = 0 /\ CHUNKSIZE >= 2 * ALIGNMENT
  /\ MAX_HEAP \in Nat /\ MAX_HEAP >= 40 * WSIZE + CHUNKSIZE + 4 * ALIGNMENT
ASSUME ClientAssumption ==
  /\ Sizes \subseteq Nat \ {0} /\ MaxLive \in Nat
  /\ CopyOrders \subseteq {"forward", "backward"} /\ CopyOrders # {}
  /\ Junk \notin Int

Words == {WSIZE * k : k \in 0..((MAX_HEAP \div WSIZE) - 1)}
Addresses == {ALIGNMENT * k : k \in 0..(MAX_HEAP \div ALIGNMENT)}
MaxBlocks == MAX_HEAP \div (2 * ALIGNMENT)   \* more have no room

-----------------------------------------------------------------------------
(* The macros.  A word packs a size, a multiple of 8, and the allocated bit;
   a pointer fills two words, the upper one 0 for the addresses of the model. *)

ALIGN(n) == ((n + ALIGNMENT - 1) \div ALIGNMENT) * ALIGNMENT
PACK(size, alloc) == size + alloc
PUT(m, a, v) == [m EXCEPT ![a] = v]
GET_PTR(m, a) == m[a]
PUT_PTR(m, a, v) == [m EXCEPT ![a] = v, ![a + WSIZE] = 0]
GET_SIZE(m, a) == m[a] - (m[a] % 8)
GET_ALLOC(m, a) == m[a] % 2

HDRP(bp) == bp - WSIZE
PREP(bp) == bp
SUCP(bp) == bp + DSIZE
FTRP(m, bp) == bp + GET_SIZE(m, HDRP(bp)) - DSIZE
NEXT_BLKP(m, bp) == bp + GET_SIZE(m, HDRP(bp))
PREV_BLKP(m, bp) == bp - GET_SIZE(m, bp - DSIZE)

heap_listp == WSIZE
HEAD(num) == heap_listp + DSIZE * num

\* PUT(HDRP(bp), PACK(size, alloc)); PUT(FTRP(bp), PACK(size, alloc));
PutTags(m, bp, size, alloc) ==
  LET h == PUT(m, HDRP(bp), PACK(size, alloc))
  IN  PUT(h, FTRP(h, bp), PACK(size, alloc))

-----------------------------------------------------------------------------
(* The segregated free lists. *)

\* Size class of a size: class i holds the sizes up to 2^(i+5), class 16 the rest.
search(size) ==
  LET fits == {i \in 5..20 : size <= 2^i}
  IN  IF fits = {} THEN 16 ELSE Min(fits) - 5

insert(m, bp) ==
  LET num   == search(GET_SIZE(m, HDRP(bp)))
      first == GET_PTR(m, HEAD(num))
      m1    == PUT_PTR(m, SUCP(bp), first)
      m2    == IF first = NULL THEN m1 ELSE PUT_PTR(m1, PREP(first), bp)
  IN  PUT_PTR(PUT_PTR(m2, PREP(bp), NULL), HEAD(num), bp)

\* Mutant: the successor keeps its old pred pointer.
DeleteForgetsSucc(m, bp) ==
  IF GET_PTR(m, PREP(bp)) = NULL
  THEN PUT_PTR(m, HEAD(search(GET_SIZE(m, HDRP(bp)))), GET_PTR(m, SUCP(bp)))
  ELSE PUT_PTR(m, SUCP(GET_PTR(m, PREP(bp))), GET_PTR(m, SUCP(bp)))

\* The four cases of the code: with or without a predecessor, a successor.
delete(m, bp) ==
  LET pred == GET_PTR(m, PREP(bp))
      succ == GET_PTR(m, SUCP(bp))
      m1   == IF pred = NULL THEN PUT_PTR(m, HEAD(search(GET_SIZE(m, HDRP(bp)))), succ)
                             ELSE PUT_PTR(m, SUCP(pred), succ)
  IN  IF succ = NULL THEN m1 ELSE PUT_PTR(m1, PREP(succ), pred)

\* List num, in order of its succ pointers, and NULL after its end.
List(m, num) ==
  LET node[k \in 1..MaxBlocks] ==
        IF k = 1 THEN GET_PTR(m, HEAD(num))
        ELSE LET last == node[k - 1]
             IN  IF last = NULL THEN NULL ELSE GET_PTR(m, SUCP(last))
  IN  node

\* The first block of list num that is large enough, or NULL.
FirstFit(m, num, asize) ==
  LET list == List(m, num)
      fits == {k \in 1..MaxBlocks : list[k] # NULL /\ GET_SIZE(m, HDRP(list[k])) >= asize}
  IN  IF fits = {} THEN NULL ELSE list[Min(fits)]

\* Mutant: only the list of the size class itself is searched.
FindFitInClass(m, asize) == FirstFit(m, search(asize), asize)

find_fit(m, asize) ==
  LET nums == {num \in search(asize)..16 : FirstFit(m, num, asize) # NULL}
  IN  IF nums = {} THEN NULL ELSE FirstFit(m, Min(nums), asize)

-----------------------------------------------------------------------------
(* Blocks.  From here on the functions take the allocator's whole state s: the
   memory, the heap's end, freelist_tailp and bp, the block pointer that the
   previous function returned (NULL if it failed). *)

State == [mem |-> mem, brk |-> mem_brk, tail |-> freelist_tailp, bp |-> NULL]

With(s, m, bp) == [s EXCEPT !.mem = m, !.bp = bp]

\* Make the size bytes at bp one free block, at the head of its list.
FreeBlock(s, m, bp, size) == With(s, insert(PutTags(m, bp, size, 0), bp), bp)

\* Mutant: a free block is joined with the next one only.
CoalesceNext(s, bp) ==
  LET next == NEXT_BLKP(s.mem, bp)
  IN  IF GET_ALLOC(s.mem, HDRP(next)) = 0
      THEN FreeBlock(s, delete(s.mem, next), bp,
                     GET_SIZE(s.mem, HDRP(bp)) + GET_SIZE(s.mem, HDRP(next)))
      ELSE With(s, insert(s.mem, bp), bp)

coalesce(s, bp) ==
  LET m    == s.mem
      prev == PREV_BLKP(m, bp)
      next == NEXT_BLKP(m, bp)
      prevFree == GET_ALLOC(m, FTRP(m, prev)) = 0
      nextFree == GET_ALLOC(m, HDRP(next)) = 0
      Size(b)  == GET_SIZE(m, HDRP(b))
  IN  CASE ~prevFree /\ ~nextFree -> With(s, insert(m, bp), bp)
        [] ~prevFree /\ nextFree  ->
             FreeBlock(s, delete(m, next), bp, Size(bp) + Size(next))
        [] prevFree /\ ~nextFree  ->
             FreeBlock(s, delete(m, prev), prev, Size(bp) + GET_SIZE(m, FTRP(m, prev)))
        [] prevFree /\ nextFree   ->
             FreeBlock(s, delete(delete(m, next), prev), prev,
                       Size(bp) + Size(prev) + GET_SIZE(m, FTRP(m, next)))

\* Two neighbouring blocks at bp: the first of size bytes, the second of rest.
Cut(m, bp, size, alloc, rest) ==
  PutTags(PutTags(m, bp, size, alloc), bp + size, rest, 1 - alloc)

\* Allocate asize bytes of the free block s.bp: all of it if the rest would be too
\* small for a block, else from its end (100 bytes or more) or its start.
place(s, asize) ==
  LET bp   == s.bp
      rest == GET_SIZE(s.mem, HDRP(bp)) - asize
      m    == delete(s.mem, bp)
  IN  IF rest < 2 * ALIGNMENT THEN With(s, PutTags(m, bp, asize + rest, 1), bp)
      ELSE IF asize >= 100
      THEN [coalesce(With(s, Cut(m, bp, rest, 0, asize), bp), bp) EXCEPT !.bp = bp + rest]
      ELSE [coalesce(With(s, Cut(m, bp, asize, 1, rest), bp), bp + asize) EXCEPT !.bp = bp]

\* mem_sbrk: the heap only grows, up to MAX_HEAP.
SbrkFails(brk, incr) == incr < 0 \/ brk + incr > MAX_HEAP

\* The new block starts at the old epilogue, and the epilogue moves to its end.
extend_heap(s, words) ==
  LET size == (words + (words % 2)) * WSIZE
      p    == s.tail
      m    == PUT(PUT_PTR(PutTags(s.mem, p, size, 0), SUCP(p), NULL),
                  HDRP(p + size), PACK(0, 1))
  IN  IF SbrkFails(s.brk, size) THEN [s EXCEPT !.bp = NULL]
      ELSE coalesce([mem |-> m, brk |-> s.brk + size, tail |-> p + size, bp |-> p], p)

mm_init ==
  LET m0 == [a \in Words |-> IF a < HEAD(17) THEN 0 ELSE Junk]
      m1 == PUT(m0, heap_listp + 34 * WSIZE, PACK(ALIGNMENT, 1))
      m2 == PUT(m1, heap_listp + 37 * WSIZE, PACK(ALIGNMENT, 1))
      m3 == PUT(m2, heap_listp + 38 * WSIZE, PACK(0, 1))
      s  == [mem |-> m3, brk |-> 40 * WSIZE,
             tail |-> NEXT_BLKP(m3, heap_listp + 35 * WSIZE), bp |-> NULL]
  IN  extend_heap(s, (CHUNKSIZE + 4 * ALIGNMENT) \div WSIZE)

-----------------------------------------------------------------------------
(* The calls. *)

\* Block size for a request: header and footer added, aligned, at least 32.
Adjust(size) == IF size <= 3 * DSIZE THEN 2 * ALIGNMENT ELSE ALIGN(DSIZE + size)

\* find_fit, or a larger heap when nothing fits.
FitOrExtend(s, asize) ==
  LET bp == find_fit(s.mem, asize)
  IN  IF bp # NULL THEN [s EXCEPT !.bp = bp]
      ELSE extend_heap(s, Max({asize, CHUNKSIZE}) \div WSIZE)

PlaceIfAny(s, asize) == IF s.bp = NULL THEN s ELSE place(s, asize)

mm_malloc(s, size) ==
  IF size = 0 THEN [s EXCEPT !.bp = NULL]
  ELSE PlaceIfAny(FitOrExtend(s, Adjust(size)), Adjust(size))

mm_free(s, ptr) ==
  IF ptr = NULL THEN s
  ELSE coalesce(With(s, PutTags(s.mem, ptr, GET_SIZE(s.mem, HDRP(ptr)), 0), ptr), ptr)

\* Address a is one of the n bytes from bp on.
InPayload(a, bp, n) == bp <= a /\ a < bp + n

(* memcpy(dst, src, n).  When a block moves down into a smaller free block
   before it the regions overlap, which the C standard leaves undefined:
   "forward" copies from the first word up, as the common implementations do,
   "backward" from the last word down, reading words it has already written. *)
Memcpy(m, dst, src, n, order) ==
  LET dist == (src - dst) \div WSIZE
      last == (n \div WSIZE) - 1
      Source(k) ==   \* the word of src that ends up as word k of dst
        IF order = "backward" /\ dst < src THEN k + dist * ((last - k) \div dist) ELSE k
  IN  [a \in Words |-> IF InPayload(a, dst, n)
                       THEN m[src + WSIZE * Source((a - dst) \div WSIZE)] ELSE m[a]]

\* Mutant: a block that is not split gets no new footer.
ResizeHeaderOnly(s, m, bp, have, asize) ==
  IF have - asize >= 2 * ALIGNMENT
  THEN With(s, insert(Cut(m, bp, asize, 1, have - asize), bp + asize), bp)
  ELSE With(s, PUT(m, HDRP(bp), PACK(have, 1)), bp)

\* Give the have bytes at bp to the block, less a free block if enough is left
\* over; that block goes to its list as it is, without coalescing.
Resize(s, m, bp, have, asize) ==
  IF have - asize >= 2 * ALIGNMENT
  THEN With(s, insert(Cut(m, bp, asize, 1, have - asize), bp + asize), bp)
  ELSE With(s, PutTags(m, bp, have, 1), bp)

\* A block that is large enough stays as it is, or its rest becomes a free block.
Shrink(s, ptr, old, asize) ==
  IF old - asize < 2 * ALIGNMENT THEN With(s, s.mem, ptr)
  ELSE Resize(s, s.mem, ptr, old, asize)

\* Mutants: the old block is not freed; it is freed before the copy.
CopyAndKeep(s, ptr, old, order) ==
  IF s.bp = NULL THEN s ELSE [s EXCEPT !.mem = Memcpy(@, s.bp, ptr, old - DSIZE, order)]
FreeAndCopy(s, ptr, old, order) ==
  IF s.bp = NULL THEN s
  ELSE [mm_free(s, ptr) EXCEPT !.mem = Memcpy(@, s.bp, ptr, old - DSIZE, order),
                               !.bp = s.bp]

\* The last resort: a new block s.bp, a copy, and the old block ptr is freed.
CopyAndFree(s, ptr, old, order) ==
  IF s.bp = NULL THEN s
  ELSE [mm_free([s EXCEPT !.mem = Memcpy(@, s.bp, ptr, old - DSIZE, order)], ptr)
          EXCEPT !.bp = s.bp]

\* Mutant: the next block is taken over whether it is free or not.
NextIsLarge(m, ptr, asize) ==
  GET_SIZE(m, HDRP(NEXT_BLKP(m, ptr))) + GET_SIZE(m, HDRP(ptr)) >= asize

\* The block after ptr is free, and together they are large enough.
NextFits(m, ptr, asize) ==
  /\ GET_ALLOC(m, HDRP(NEXT_BLKP(m, ptr))) = 0
  /\ GET_SIZE(m, HDRP(NEXT_BLKP(m, ptr))) + GET_SIZE(m, HDRP(ptr)) >= asize

mm_realloc(s, ptr, size, order) ==
  LET m     == s.mem
      asize == Adjust(size)
      old   == GET_SIZE(m, HDRP(ptr))
      next  == NEXT_BLKP(m, ptr)
      prev  == PREV_BLKP(m, ptr)
      nextFree  == GET_ALLOC(m, HDRP(next)) = 0
      prevFree  == GET_ALLOC(m, HDRP(prev)) = 0
      nextsize  == GET_SIZE(m, HDRP(next)) + old
      presize   == GET_SIZE(m, HDRP(prev)) + old
      wholesize == GET_SIZE(m, HDRP(prev)) + nextsize
      Moved(mm) == Memcpy(mm, prev, ptr, old - DSIZE, order)
  IN  IF size = 0 THEN [mm_free(s, ptr) EXCEPT !.bp = NULL]
      ELSE IF ptr = NULL THEN mm_malloc(s, size)
      ELSE IF asize <= old THEN Shrink(s, ptr, old, asize)
      ELSE IF NextFits(m, ptr, asize)
           THEN Resize(s, delete(m, next), ptr, nextsize, asize)
      ELSE IF prevFree /\ presize >= asize
           THEN Resize(s, Moved(delete(m, prev)), prev, presize, asize)
      ELSE IF prevFree /\ nextFree /\ wholesize >= asize
           THEN Resize(s, Moved(delete(delete(m, prev), next)), prev, wholesize, asize)
      ELSE CopyAndFree(PlaceIfAny(FitOrExtend(s, asize), asize), ptr, old, order)

-----------------------------------------------------------------------------
(* What the memory says: the blocks from the first one after the prologue to
   the epilogue, and the free lists. *)

FirstBlock == 40 * WSIZE

\* A block at bp would end where the next may start, and not beyond the heap's end brk.
IsBlock(m, bp, brk) ==
  NEXT_BLKP(m, bp) \in Addresses /\ bp < NEXT_BLKP(m, bp) /\ NEXT_BLKP(m, bp) <= brk

\* The blocks of m, found by walking the headers.
Blocks(m, brk) ==
  LET from[bp \in Addresses] ==
        IF IsBlock(m, bp, brk) THEN {bp} \cup from[NEXT_BLKP(m, bp)] ELSE {}
  IN  from[FirstBlock]

IsFree(m, bp) == GET_ALLOC(m, HDRP(bp)) = 0
BlockSize(m, bp) == GET_SIZE(m, HDRP(bp))
PayloadWords(bp, n) == {a \in Words : InPayload(a, bp, n)}

(* Between two calls only some words matter: the heads and the prologue, the
   tags of the blocks, the pointers of free blocks and the client's data. The
   client has filled its blocks, each word with a value of its own (Data). The
   program never reads the other words before it writes them: they are Junk,
   and a step that did read one would stop the model checker. *)
Data(a) == -a

Settled(m, brk, blocks) ==
  LET blocksOf == Blocks(m, brk)
      tags == UNION {{HDRP(bp), FTRP(m, bp)} : bp \in blocksOf}
      ptrs == UNION {{PREP(bp), PREP(bp) + WSIZE, SUCP(bp), SUCP(bp) + WSIZE} :
                       bp \in {b \in blocksOf : IsFree(m, b)}}
      used == (0..(FirstBlock - WSIZE)) \cup tags \cup ptrs \cup {HDRP(brk)}
  IN  [a \in Words |->
         IF a \in used \/ \E bp \in DOMAIN blocks : InPayload(a, bp, blocks[bp])
         THEN m[a] ELSE Junk]

\* The client writes the whole of the block it was given.
Fill(m, bp, size) == [a \in Words |-> IF InPayload(a, bp, size) THEN Data(a) ELSE m[a]]

-----------------------------------------------------------------------------
Init ==
  \E r \in {mm_init} :
    /\ mem = Settled(r.mem, r.brk, <<>>)
    /\ mem_brk = r.brk
    /\ freelist_tailp = r.tail
    /\ live = <<>>
    /\ kept = TRUE
    /\ realloced = FALSE

\* A call returned state r; the client holds blocks and has written m.
Becomes(r, m, blocks) ==
  /\ mem' = Settled(m, r.brk, blocks)
  /\ mem_brk' = r.brk
  /\ freelist_tailp' = r.tail
  /\ live' = blocks

\* Block bp for a request of size bytes, and the others.
Also(bp, size, others) ==
  [b \in {bp} \cup DOMAIN others |-> IF b = bp THEN size ELSE others[b]]

\* The client gets a block and fills it; others are the blocks it has besides.
Takes(r, size, others) ==
  Becomes(r, Fill(r.mem, r.bp, size), Also(r.bp, size, others))

Without(ptr) == Restrict(live, DOMAIN live \ {ptr})

\* mdriver's ALLOC; mm_realloc of no block does the same.
Malloc(size) ==
  /\ Cardinality(DOMAIN live) < MaxLive
  /\ \E r \in {mm_malloc(State, size)} \cup
              {mm_realloc(State, NULL, size, order) : order \in CopyOrders} :
        IF r.bp = NULL THEN Becomes(r, r.mem, live) ELSE Takes(r, size, live)
  /\ UNCHANGED <<kept, realloced>>

\* mdriver's FREE.
Free(ptr) ==
  /\ \E r \in {mm_free(State, ptr)} : Becomes(r, r.mem, Without(ptr))
  /\ UNCHANGED <<kept, realloced>>

\* mdriver's REALLOC: check that the data came along, then fill the block.
Realloc(ptr, size, order) ==
  /\ \E r \in {mm_realloc(State, ptr, size, order)} :
       \/ /\ r.bp # NULL
          /\ Takes(r, size, Without(ptr))
          /\ kept' = \A a \in PayloadWords(r.bp, Min({live[ptr], size})) :
                       r.mem[a] = Data(ptr + (a - r.bp))
       \/ /\ r.bp = NULL
          /\ Becomes(r, r.mem, IF size = 0 THEN Without(ptr) ELSE live)
          /\ UNCHANGED kept
  /\ realloced' = TRUE

Next ==
  \/ \E size \in Sizes \cup {0} : Malloc(size)
  \/ \E ptr \in DOMAIN live \cup {NULL} : Free(ptr)
  \/ \E ptr \in DOMAIN live, size \in Sizes \cup {0}, order \in CopyOrders :
        Realloc(ptr, size, order)

Spec == Init /\ [][Next]_vars

-----------------------------------------------------------------------------
(* Properties. *)

\* Types: the heap's end and the epilogue inside the heap, the client's blocks
\* at addresses of the heap with the sizes it asked for.
TypeOK ==
  /\ DOMAIN mem = Words
  /\ mem_brk \in Addresses /\ freelist_tailp \in Addresses
  /\ DOMAIN live \subseteq Addresses
  /\ \A bp \in DOMAIN live : live[bp] \in Sizes
  /\ kept \in BOOLEAN /\ realloced \in BOOLEAN

\* Boundary tags (coalesce, place and mm_realloc trust them to step from a block
\* to its neighbours): from the prologue on, blocks of legal size follow each
\* other without a gap up to the epilogue at the end of the heap, and the footer
\* of each repeats its header.  The state has its types.
BoundaryTags ==
  LET blocks == Blocks(mem, mem_brk)
  IN  /\ TypeOK
      /\ freelist_tailp = mem_brk
      /\ mem[HDRP(mem_brk)] = PACK(0, 1)
      /\ \A bp \in blocks :
            /\ BlockSize(mem, bp) >= 2 * ALIGNMENT
            /\ mem[FTRP(mem, bp)] = mem[HDRP(bp)]
            /\ NEXT_BLKP(mem, bp) \in blocks \cup {mem_brk}
      /\ FirstBlock \in blocks

\* Free lists (insert and delete): list num holds exactly the free blocks of its
\* size class, and every pred pointer is the inverse of the succ pointer or head
\* that leads to its block, so that delete unlinks a block from the list it is in.
FreeLists ==
  \A num \in 0..16 :
    LET nodes == Range(List(mem, num)) \ {NULL}
        first == GET_PTR(mem, HEAD(num))
    IN  /\ nodes = {bp \in Blocks(mem, mem_brk) :
                       IsFree(mem, bp) /\ search(BlockSize(mem, bp)) = num}
        /\ first # NULL => GET_PTR(mem, PREP(first)) = NULL
        /\ \A bp \in nodes : LET succ == GET_PTR(mem, SUCP(bp))
                             IN  succ # NULL => GET_PTR(mem, PREP(succ)) = bp

\* No block is lost or handed out twice: the allocated blocks of the heap are
\* exactly the client's, each large enough for its request and at most 16 bytes
\* larger than the adjusted size (place and mm_realloc split off any more).
BlocksAreLive ==
  /\ DOMAIN live = {bp \in Blocks(mem, mem_brk) : ~IsFree(mem, bp)}
  /\ \A bp \in DOMAIN live :
        LET size == BlockSize(mem, bp)
        IN  /\ live[bp] <= size - DSIZE
            /\ size \in {Adjust(live[bp]), Adjust(live[bp]) + ALIGNMENT}

\* No call writes into a block of the client: whatever the allocator did, every
\* word of a live block still holds what the client wrote.
ClientDataIntact ==
  \A bp \in DOMAIN live : \A a \in PayloadWords(bp, live[bp]) : mem[a] = Data(a)

\* mm_realloc keeps the data of the block (mdriver.c checks it with a memset
\* pattern; here every word has a value of its own).
ReallocKeepsData == kept

\* Until mm_realloc has been called no two neighbouring blocks are both free:
\* mm_free, extend_heap and place coalesce on both sides. (mm_realloc puts the
\* rest of a split on a free list without looking at its neighbour.)
CoalescedUntilRealloc ==
  ~realloced =>
    \A bp \in Blocks(mem, mem_brk) :
      LET next == NEXT_BLKP(mem, bp)
      IN  IsFree(mem, bp) /\ next # mem_brk => ~IsFree(mem, next)

\* The heap grows only when it must: no free block before the call was large
\* enough for the block that the client got from it.
GrowsOnlyWithoutFit ==
  [][mem_brk' # mem_brk =>
       \E bp \in DOMAIN live' :
         /\ bp \notin DOMAIN live
         /\ \A b \in Blocks(mem, mem_brk) :
               IsFree(mem, b) => BlockSize(mem, b) < Adjust(live'[bp])]_vars

\* The allocator implements what mdriver.c demands: every payload it hands out is
\* aligned, inside the heap and apart from the others, so add_range never reports
\* an error on it.
Driver == INSTANCE MdriverRanges WITH
  ranges <- {[lo |-> bp, hi |-> bp + live[bp] - 1] : bp \in DOMAIN live},
  brk <- mem_brk, Offsets <- Addresses, HeapEnds <- Addresses
AcceptedByDriver == Driver!Spec
=============================================================================

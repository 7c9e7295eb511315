---------------------------- MODULE Malloc_proofs ----------------------------
(***************************************************************************)
(* Proofs about Malloc, for heaps, requests and clients of any size.       *)
(*                                                                         *)
(* A heap is described by a function sz from its blocks to their sizes     *)
(* (Geometry), to which the memory is compared: the tags (Tags) and the    *)
(* free lists (Lists, with a rank that grows along each list, so that no   *)
(* list has a cycle).  Each function of mm.c is a lemma about such heaps:  *)
(* what it returns is a heap again, of another sz, and the allocated       *)
(* blocks hold what they held (Holds).  In the middle of a call a free     *)
(* block may be in no list, so Heap names the allocated blocks A and the   *)
(* blocks U of the lists separately.  What the model computes by recursion *)
(* along the headers and the lists (Blocks, List) is shown to be sz and U. *)
(* The inductive invariant IInv says that between two calls the memory is  *)
(* a heap whose allocated blocks are the client's, and all others listed.  *)
(***************************************************************************)
EXTENDS Malloc, FiniteSetTheorems, WellFoundedInduction, TLAPS

USE DEF WSIZE, DSIZE, ALIGNMENT, NULL, HDRP, PREP, SUCP, heap_listp, HEAD, FirstBlock, PACK

-----------------------------------------------------------------------------
(* Numbers. *)

\* A nonempty set of numbers has a least one: inductions below go through least counterexamples.
LEMMA LeastNumber ==
  ASSUME NEW S, S \subseteq Nat, S # {}
  PROVE  \E x \in S : \A y \in S : x <= y
<1>1. \A x, y : x \in Nat /\ y \in Nat /\ y < x => <<y, x>> \in OpToRel(<, Nat)
  BY Zenon DEF OpToRel
<1>2. PICK x \in S : \A y \in S : ~ (<<y, x>> \in OpToRel(<, Nat))
  BY WFMin, NatLessThanWellFounded, Zenon
<1>3. \A y \in S : ~(y < x)
  BY <1>1, <1>2, Zenon
<1>. QED
  BY <1>3

\* Words and addresses are multiples of 4 and 16 within the heap.
LEMMA WordNumbers == \A a : a \in Words <=> a \in Nat /\ a % 4 = 0 /\ a + 4 <= MAX_HEAP
<1>1. MAX_HEAP \in Nat
  BY HeapAssumption
<1>2. ASSUME NEW a \in Words PROVE a \in Nat /\ a % 4 = 0 /\ a + 4 <= MAX_HEAP
  BY <1>1 DEF Words
<1>3. ASSUME NEW a \in Nat, a % 4 = 0, a + 4 <= MAX_HEAP PROVE a \in Words
  <2>1. a = 4 * (a \div 4) /\ a \div 4 \in 0..(MAX_HEAP \div 4) - 1
    BY <1>1, <1>3
  <2>. QED
    BY <2>1 DEF Words
<1>. QED
  BY <1>2, <1>3

\* Addresses likewise, with multiples of 16.
LEMMA AddressNumbers == \A a : a \in Addresses <=> a \in Nat /\ a % 16 = 0 /\ a <= MAX_HEAP
<1>1. MAX_HEAP \in Nat
  BY HeapAssumption
<1>2. ASSUME NEW a \in Addresses PROVE a \in Nat /\ a % 16 = 0 /\ a <= MAX_HEAP
  BY <1>1 DEF Addresses
<1>3. ASSUME NEW a \in Nat, a % 16 = 0, a <= MAX_HEAP PROVE a \in Addresses
  <2>1. a = 16 * (a \div 16) /\ a \div 16 \in 0..(MAX_HEAP \div 16)
    BY <1>1, <1>3
  <2>. QED
    BY <2>1 DEF Addresses
<1>. QED
  BY <1>2, <1>3

\* Bit of a block in its tags.
Bit(b, A) == IF b \in A THEN 1 ELSE 0

\* A tag packs a size and a bit.
LEMMA Unpacked ==
  ASSUME NEW size \in Nat, size % 8 = 0, NEW bit \in {0, 1}
  PROVE  (size + bit) - ((size + bit) % 8) = size /\ (size + bit) % 2 = bit
OBVIOUS

-----------------------------------------------------------------------------
(* Size classes. *)

\* The bounds of the size classes are numbers.
LEMMA Powers == \A i \in 5..20 : 2^i \in Nat
<1>1. \A i \in 5..20 : \/ i = 5 \/ i = 6 \/ i = 7 \/ i = 8 \/ i = 9 \/ i = 10 \/ i = 11 \/ i = 12
                       \/ i = 13 \/ i = 14 \/ i = 15 \/ i = 16 \/ i = 17 \/ i = 18 \/ i = 19 \/ i = 20
  OBVIOUS
<1>2. /\ 2^5 \in Nat /\ 2^6 \in Nat /\ 2^7 \in Nat /\ 2^8 \in Nat /\ 2^9 \in Nat /\ 2^10 \in Nat
      /\ 2^11 \in Nat /\ 2^12 \in Nat /\ 2^13 \in Nat /\ 2^14 \in Nat /\ 2^15 \in Nat /\ 2^16 \in Nat
      /\ 2^17 \in Nat /\ 2^18 \in Nat /\ 2^19 \in Nat /\ 2^20 \in Nat
  OBVIOUS
<1>. QED
  BY <1>1, <1>2, Zenon

\* Min of a set of numbers is its least element.
LEMMA MinOfNumbers ==
  ASSUME NEW S, S \subseteq Nat, S # {}
  PROVE  Min(S) \in S /\ \A y \in S : Min(S) <= y
BY LeastNumber DEF Min

\* Every size has a class, and a larger size no smaller class.
LEMMA Classes ==
  ASSUME NEW size \in Nat
  PROVE  /\ search(size) \in 0..16
         /\ \A larger \in Nat : size <= larger => search(size) <= search(larger)
<1> DEFINE Fits(x) == {i \in 5..20 : x <= 2^i}
<1>1. \A x : Fits(x) \subseteq Nat /\ Fits(x) \subseteq 5..20
  OBVIOUS
<1>2. \A x : Fits(x) # {} => Min(Fits(x)) \in Fits(x) /\ \A y \in Fits(x) : Min(Fits(x)) <= y
  BY <1>1, MinOfNumbers
<1>3. \A x : search(x) = IF Fits(x) = {} THEN 16 ELSE Min(Fits(x)) - 5
  BY DEF search
<1>4. ASSUME NEW larger \in Nat, size <= larger PROVE Fits(larger) \subseteq Fits(size)
  BY <1>4, Powers
<1> HIDE DEF Fits
<1>5. \A x : search(x) \in 0..16 /\ (Fits(x) # {} => search(x) <= 15)
  <2> TAKE x
  <2>1. CASE Fits(x) = {}
    BY <2>1, <1>3
  <2>2. CASE Fits(x) # {}
    <3>1. Min(Fits(x)) \in 5..20
      BY <2>2, <1>1, <1>2
    <3>. QED
      BY <3>1, <2>2, <1>3
  <2>. QED
    BY <2>1, <2>2
<1>6. ASSUME NEW larger \in Nat, size <= larger PROVE search(size) <= search(larger)
  <2>1. CASE Fits(larger) = {}
    BY <2>1, <1>3, <1>5
  <2>2. CASE Fits(larger) # {}
    <3>1. /\ Min(Fits(larger)) \in Fits(size) /\ Fits(size) # {}
          /\ Min(Fits(size)) <= Min(Fits(larger))
          /\ Min(Fits(size)) \in 5..20 /\ Min(Fits(larger)) \in 5..20
      BY <2>2, <1>1, <1>2, <1>4, <1>6
    <3>. QED
      BY <3>1, <2>2, <1>3
  <2>. QED
    BY <2>1, <2>2
<1>. QED
  BY <1>5, <1>6

-----------------------------------------------------------------------------
(* Writing words. *)

\* Memory r is m with other contents in the words of W only.
SameBut(m, r, W) == DOMAIN r = Words /\ \A x \in Words \ W : r[x] = m[x]

\* PUT writes one word.
LEMMA PutWords ==
  ASSUME NEW m, DOMAIN m = Words, NEW a \in Words, NEW v
  PROVE  SameBut(m, PUT(m, a, v), {a}) /\ PUT(m, a, v)[a] = v
BY DEF PUT, SameBut

\* PUT_PTR writes a pointer, and the word after it.
LEMMA PutPtrWords ==
  ASSUME NEW m, DOMAIN m = Words, NEW a \in Words, a + 4 \in Words, NEW v
  PROVE  SameBut(m, PUT_PTR(m, a, v), {a, a + 4}) /\ PUT_PTR(m, a, v)[a] = v
<1>1. a # a + 4
  BY WordNumbers
<1>. QED
  BY <1>1 DEF PUT_PTR, SameBut

\* PutTags writes header and footer of a block, with the footer where the header says.
LEMMA PutTagsWords ==
  ASSUME NEW m, DOMAIN m = Words, NEW bp \in Int, NEW size \in Nat, size % 8 = 0, size >= 8,
         NEW bit \in {0, 1}, bp - 4 \in Words, bp + size - 8 \in Words
  PROVE  LET r == PutTags(m, bp, size, bit)
         IN  /\ SameBut(m, r, {bp - 4, bp + size - 8})
             /\ r[bp - 4] = size + bit /\ r[bp + size - 8] = size + bit
<1> DEFINE h == PUT(m, bp - 4, size + bit)
<1>1. SameBut(m, h, {bp - 4}) /\ h[bp - 4] = size + bit
  BY PutWords
<1>2. GET_SIZE(h, bp - 4) = size
  BY <1>1, Unpacked DEF GET_SIZE
<1>3. PutTags(m, bp, size, bit) = PUT(h, bp + size - 8, size + bit)
  BY <1>2 DEF PutTags, FTRP
<1>4. /\ SameBut(h, PUT(h, bp + size - 8, size + bit), {bp + size - 8})
      /\ PUT(h, bp + size - 8, size + bit)[bp + size - 8] = size + bit
  <2>1. DOMAIN h = Words
    BY <1>1 DEF SameBut
  <2>. QED
    BY <2>1, PutWords
<1>5. bp - 4 # bp + size - 8 \/ bp - 4 = bp + size - 8
  OBVIOUS
<1>. QED
  BY <1>1, <1>3, <1>4, <1>5 DEF SameBut

-----------------------------------------------------------------------------
(* Heaps.  A heap is described by its end brk and a function sz from its blocks to their sizes. *)

\* The blocks are of legal sizes and fill the heap without gaps.
Geometry(sz, brk) ==
  /\ brk \in Addresses /\ FirstBlock <= brk /\ DOMAIN sz \subseteq Addresses
  /\ \A b \in DOMAIN sz :
       /\ sz[b] \in Nat /\ sz[b] >= 32 /\ sz[b] % 16 = 0
       /\ FirstBlock <= b /\ b + sz[b] <= brk
       /\ b + sz[b] \in DOMAIN sz \union {brk}
  /\ \A b, c \in DOMAIN sz : b < c => b + sz[b] <= c
  /\ FirstBlock \in DOMAIN sz \union {brk}
  /\ \A b \in (DOMAIN sz \union {brk}) \ {FirstBlock} : \E c \in DOMAIN sz : c + sz[c] = b

\* Where the blocks and their words are.
Placed(sz, brk) ==
  /\ brk \in Nat /\ brk % 16 = 0 /\ brk <= MAX_HEAP /\ MAX_HEAP \in Nat /\ brk >= 160
  /\ \A b \in DOMAIN sz :
       /\ b \in Nat /\ b % 16 = 0 /\ b >= 160 /\ b < brk
       /\ sz[b] \in Nat /\ sz[b] >= 32 /\ sz[b] % 16 = 0 /\ b + sz[b] <= brk
       /\ \A x \in b - 4..b + sz[b] - 4 : x % 4 = 0 => x \in Words
  /\ \A b, c \in DOMAIN sz : b < c => b + sz[b] <= c

USE DEF Placed

\* Geometry in numbers.
LEMMA BlockWords ==
  ASSUME NEW sz, NEW brk, Geometry(sz, brk)
  PROVE  Placed(sz, brk)
<1>1. brk \in Nat /\ brk % 16 = 0 /\ brk <= MAX_HEAP /\ MAX_HEAP \in Nat /\ brk >= 160
  BY AddressNumbers, HeapAssumption DEF Geometry
<1>2. ASSUME NEW b \in DOMAIN sz
      PROVE  /\ b \in Nat /\ b % 16 = 0 /\ b >= 160 /\ b < brk
             /\ sz[b] \in Nat /\ sz[b] >= 32 /\ sz[b] % 16 = 0 /\ b + sz[b] <= brk
  BY <1>1, AddressNumbers DEF Geometry
<1>3. ASSUME NEW b \in DOMAIN sz, NEW x \in b - 4..b + sz[b] - 4, x % 4 = 0 PROVE x \in Words
  BY <1>1, <1>2, <1>3, WordNumbers
<1>. QED
  BY <1>1, <1>2, <1>3 DEF Geometry

\* The blocks from b to e become one block, or two that meet at s.
Replaced(sz, b, s, e) ==
  [c \in {c \in DOMAIN sz : c < b \/ c >= e} \union ({b, s} \ {e}) |->
     IF c = b THEN s - b ELSE IF c = s /\ s # e THEN e - s ELSE sz[c]]

\* Blocks replaced by one or two in the same place still fill the heap.
LEMMA ReplacedGeometry ==
  ASSUME NEW sz, NEW brk, Geometry(sz, brk),
         NEW b \in DOMAIN sz, NEW e \in DOMAIN sz \union {brk}, b < e,
         NEW s \in Nat, s % 16 = 0, b + 32 <= s, s = e \/ s + 32 <= e
  PROVE  /\ Geometry(Replaced(sz, b, s, e), brk)
         /\ \A c \in DOMAIN sz : c < b => c + sz[c] <= b
         /\ \A c \in DOMAIN sz : c < e => c + sz[c] <= e
<1> DEFINE new == Replaced(sz, b, s, e)
           Outside == {c \in DOMAIN sz : c < b \/ c >= e}
<1>0. Placed(sz, brk)
  BY BlockWords
<1>1. Placed(sz, brk) /\ e \in Nat /\ e % 16 = 0 /\ e <= brk
  BY <1>0
<1>2. /\ \A c \in DOMAIN sz : c < b => c + sz[c] <= b
      /\ \A c \in DOMAIN sz : c < e => c + sz[c] <= e
  BY <1>1 DEF Geometry
<1>3. /\ DOMAIN new = Outside \union ({b, s} \ {e})
      /\ \A c \in DOMAIN new : new[c] = IF c = b THEN s - b ELSE IF c = s /\ s # e THEN e - s ELSE sz[c]
  BY DEF Replaced
<1>4. \A c \in DOMAIN new :
        \/ c = b /\ new[c] = s - b
        \/ c = s /\ s # e /\ new[c] = e - s
        \/ c \in DOMAIN sz /\ c < b /\ c + sz[c] <= b /\ new[c] = sz[c]
        \/ c \in DOMAIN sz /\ c >= e /\ new[c] = sz[c]
  BY <1>1, <1>2, <1>3
<1>5. /\ b \in DOMAIN new /\ new[b] = s - b
      /\ s # e => s \in DOMAIN new /\ new[s] = e - s
      /\ \A c \in DOMAIN sz : c < b \/ c >= e => c \in DOMAIN new /\ new[c] = sz[c]
      /\ e \in DOMAIN new \union {brk}
  BY <1>1, <1>3
<1> HIDE DEF new, Outside
<1>6. brk \in Addresses /\ FirstBlock <= brk /\ DOMAIN new \subseteq Addresses
  <2>1. brk \in Addresses /\ FirstBlock <= brk /\ DOMAIN sz \subseteq Addresses
    BY DEF Geometry
  <2>2. s \in Addresses
    BY <1>1, AddressNumbers
  <2>. QED
    BY <2>1, <2>2, <1>4
<1>7. ASSUME NEW c \in DOMAIN new
      PROVE  /\ new[c] \in Nat /\ new[c] >= 32 /\ new[c] % 16 = 0
             /\ 160 <= c /\ c + new[c] <= brk
  BY <1>1, <1>4, AddressNumbers
<1>8. ASSUME NEW c \in DOMAIN new PROVE c + new[c] \in DOMAIN new \union {brk}
  <2>1. CASE c = b /\ new[c] = s - b
    BY <2>1, <1>1, <1>5
  <2>2. CASE c = s /\ s # e /\ new[c] = e - s
    BY <2>2, <1>1, <1>5
  <2>3. CASE c \in DOMAIN sz /\ c < b /\ c + sz[c] <= b /\ new[c] = sz[c]
    <3>1. c + sz[c] \in DOMAIN sz
      BY <2>3, <1>1 DEF Geometry
    <3>. QED
      BY <3>1, <2>3, <1>1, <1>5
  <2>4. CASE c \in DOMAIN sz /\ c >= e /\ new[c] = sz[c]
    <3>1. c + sz[c] \in DOMAIN sz \union {brk} /\ c + sz[c] >= e
      BY <2>4, <1>1 DEF Geometry
    <3>. QED
      BY <3>1, <2>4, <1>1, <1>5
  <2>. QED
    BY <2>1, <2>2, <2>3, <2>4, <1>4
<1>9. ASSUME NEW c \in DOMAIN new, NEW d \in DOMAIN new, c < d PROVE c + new[c] <= d
  <2>1. c \in DOMAIN sz /\ d \in DOMAIN sz => c + sz[c] <= d
    BY <1>9 DEF Geometry
  <2>. QED
    BY <2>1, <1>1, <1>4, <1>9
<1>10. 160 \in DOMAIN new \union {brk}
  <2>1. 160 \in DOMAIN sz
    BY <1>1 DEF Geometry
  <2>2. 160 < b => 160 + sz[160] <= b
    BY <2>1, <1>2
  <2>. QED
    BY <2>1, <1>1, <1>5
<1>11. ASSUME NEW c \in (DOMAIN new \union {brk}) \ {160} PROVE \E d \in DOMAIN new : d + new[d] = c
  <2>1. CASE c = s
    BY <2>1, <1>1, <1>5
  <2>2. CASE c # s /\ c = e
    BY <2>2, <1>1, <1>5
  <2>3. CASE c # s /\ c # e
    <3>1. c \in (DOMAIN sz \union {brk}) \ {160}
      BY <2>3, <1>4
    <3>2. PICK d \in DOMAIN sz : d + sz[d] = c
      BY <3>1 DEF Geometry
    <3>3. c <= b \/ c > e
      BY <2>3, <1>1, <1>4
    <3>4. d < b \/ d >= e
      BY <3>2, <3>3, <1>1, <1>2
    <3>. QED
      BY <3>2, <3>4, <1>5
  <2>. QED
    BY <2>1, <2>2, <2>3
<1>. QED
  BY <1>2, <1>6, <1>7, <1>8, <1>9, <1>10, <1>11 DEF Geometry, new

\* The tags say so: header and footer of each block, with the bit of those in A; prologue
\* and epilogue.
Tags(m, brk, sz, A) ==
  /\ DOMAIN m = Words
  /\ m[140] = 17 /\ m[152] = 17 /\ m[brk - 4] = 1
  /\ \A b \in DOMAIN sz :
       m[b - 4] = sz[b] + Bit(b, A) /\ m[b + sz[b] - 8] = sz[b] + Bit(b, A)

\* The free lists hold exactly the blocks of U; rk grows along each list.
Lists(m, sz, U, rk) ==
  /\ \A b \in U : rk[b] \in Nat
  /\ \A num \in 0..16 :
       m[HEAD(num)] # 0 =>
         m[HEAD(num)] \in U /\ search(sz[m[HEAD(num)]]) = num /\ m[m[HEAD(num)]] = 0
  /\ \A b \in U :
       /\ m[b] = 0 => m[HEAD(search(sz[b]))] = b
       /\ m[b] # 0 => m[b] \in U /\ search(sz[m[b]]) = search(sz[b]) /\ m[m[b] + 8] = b
       /\ m[b + 8] # 0 => /\ m[b + 8] \in U /\ search(sz[m[b + 8]]) = search(sz[b])
                          /\ m[m[b + 8]] = b /\ rk[b] < rk[m[b + 8]]

\* The words of the lists, and those from the header at b to the word before that at e.
ListWords(U) == {x \in Words : x < 140 \/ \E b \in U : b <= x /\ x < b + 16}
RegionWords(b, e) == {x \in Words : b - 4 <= x /\ x < e - 4}

\* What writes to the words of the lists only leaves the tags alone.
LEMMA TagsKept ==
  ASSUME NEW sz, NEW brk, NEW m, NEW r, NEW A, NEW U,
         Geometry(sz, brk), Tags(m, brk, sz, A), U \subseteq DOMAIN sz, SameBut(m, r, ListWords(U))
  PROVE  Tags(r, brk, sz, A)
<1>1. Placed(sz, brk)
  BY BlockWords
<1>2. 140 \in Words /\ 152 \in Words /\ brk - 4 \in Words
  <2>1. brk - 4 \in Nat /\ (brk - 4) % 4 = 0
    BY <1>1
  <2>. QED
    BY <2>1, <1>1, WordNumbers
<1>3. ASSUME NEW x \in Words, x >= 140, \A b \in U : ~(b <= x /\ x < b + 16) PROVE r[x] = m[x]
  BY <1>3, WordNumbers DEF SameBut, ListWords
<1>4. \A b \in U : b \in DOMAIN sz
  OBVIOUS
<1>5. r[140] = m[140] /\ r[152] = m[152] /\ r[brk - 4] = m[brk - 4]
  <2>1. \A b \in U : ~(b <= brk - 4 /\ brk - 4 < b + 16) /\ ~(b <= 152)
    BY <1>1, <1>4
  <2>. QED
    BY <2>1, <1>1, <1>2, <1>3, <1>4
<1>6. ASSUME NEW b \in DOMAIN sz PROVE r[b - 4] = m[b - 4] /\ r[b + sz[b] - 8] = m[b + sz[b] - 8]
  <2>1. b - 4 \in Words /\ b + sz[b] - 8 \in Words /\ b - 4 >= 140 /\ b + sz[b] - 8 >= 140
    BY <1>1
  <2>2. ASSUME NEW c \in U
        PROVE  ~(c <= b - 4 /\ b - 4 < c + 16) /\ ~(c <= b + sz[b] - 8 /\ b + sz[b] - 8 < c + 16)
    <3>1. c \in DOMAIN sz /\ (b < c => b + sz[b] <= c) /\ (c < b => c + sz[c] <= b)
      BY <1>1, <1>4
    <3>. QED
      BY <3>1, <1>1
  <2>. QED
    BY <2>1, <2>2, <1>3
<1>. QED
  BY <1>5, <1>6 DEF Tags, SameBut

\* What writes no word of the lists leaves them alone.
LEMMA ListsKept ==
  ASSUME NEW sz, NEW sz2, NEW brk, NEW m, NEW r, NEW U, NEW rk, NEW W,
         Geometry(sz, brk), Lists(m, sz, U, rk), U \subseteq DOMAIN sz,
         \A b \in U : sz2[b] = sz[b],
         SameBut(m, r, W), W \cap ListWords(U) = {}
  PROVE  Lists(r, sz2, U, rk)
<1>1. Placed(sz, brk)
  BY BlockWords
<1>2. \A b \in U : r[b] = m[b] /\ r[b + 8] = m[b + 8]
  <2> TAKE b \in U
  <2>1. b \in ListWords(U) /\ b + 8 \in ListWords(U)
    BY <1>1 DEF ListWords
  <2>. QED
    BY <2>1 DEF SameBut, ListWords
<1>3. \A num \in 0..16 : r[HEAD(num)] = m[HEAD(num)]
  <2> TAKE num \in 0..16
  <2>1. HEAD(num) \in ListWords(U)
    BY WordNumbers, HeapAssumption DEF ListWords
  <2>. QED
    BY <2>1 DEF SameBut, ListWords
<1>4. \A b \in U : search(sz[b]) \in 0..16
  BY <1>1, Classes
<1>5. \A b \in U : rk[b] \in Nat
  BY DEF Lists
<1>6. ASSUME NEW num \in 0..16, r[HEAD(num)] # 0
      PROVE  r[HEAD(num)] \in U /\ search(sz2[r[HEAD(num)]]) = num /\ r[r[HEAD(num)]] = 0
  BY <1>2, <1>3, <1>6 DEF Lists
<1>7. ASSUME NEW b \in U
      PROVE  /\ r[b] = 0 => r[HEAD(search(sz2[b]))] = b
             /\ r[b] # 0 => r[b] \in U /\ search(sz2[r[b]]) = search(sz2[b]) /\ r[r[b] + 8] = b
             /\ r[b + 8] # 0 => /\ r[b + 8] \in U /\ search(sz2[r[b + 8]]) = search(sz2[b])
                                /\ r[r[b + 8]] = b /\ rk[b] < rk[r[b + 8]]
  <2>1. /\ m[b] = 0 => m[HEAD(search(sz[b]))] = b
        /\ m[b] # 0 => m[b] \in U /\ search(sz[m[b]]) = search(sz[b]) /\ m[m[b] + 8] = b
        /\ m[b + 8] # 0 => /\ m[b + 8] \in U /\ search(sz[m[b + 8]]) = search(sz[b])
                           /\ m[m[b + 8]] = b /\ rk[b] < rk[m[b + 8]]
    BY DEF Lists
  <2>. QED
    BY <2>1, <1>2, <1>3, <1>4
<1>. QED
  BY <1>5, <1>6, <1>7 DEF Lists

\* New tags for a region say what its new blocks are.
LEMMA ReplacedTags ==
  ASSUME NEW sz, NEW brk, NEW m, NEW r, NEW A, NEW A2,
         Geometry(sz, brk), Tags(m, brk, sz, A),
         NEW b \in DOMAIN sz, NEW e \in DOMAIN sz \union {brk}, b < e,
         NEW s \in Nat, s % 16 = 0, b + 32 <= s, s = e \/ s + 32 <= e,
         SameBut(m, r, RegionWords(b, e)),
         r[b - 4] = (s - b) + Bit(b, A2), r[s - 8] = (s - b) + Bit(b, A2),
         s # e => r[s - 4] = (e - s) + Bit(s, A2) /\ r[e - 8] = (e - s) + Bit(s, A2),
         \A c \in DOMAIN sz : c < b \/ c >= e => (c \in A2 <=> c \in A)
  PROVE  Tags(r, brk, Replaced(sz, b, s, e), A2)
<1> DEFINE new == Replaced(sz, b, s, e)
<1>0. Placed(sz, brk)
  BY BlockWords
<1>1. Placed(sz, brk) /\ e \in Nat /\ e <= brk
  BY <1>0
<1>2. \A c \in DOMAIN sz : c < b => c + sz[c] <= b
  BY ReplacedGeometry
<1>3. 140 \in Words /\ 152 \in Words /\ brk - 4 \in Words
  BY <1>1, WordNumbers
<1>4. \A x \in Words : x < b - 4 \/ x >= e - 4 => r[x] = m[x]
  BY <1>1, WordNumbers DEF SameBut, RegionWords
<1>5. r[140] = m[140] /\ r[152] = m[152] /\ r[brk - 4] = m[brk - 4]
  BY <1>1, <1>3, <1>4
<1>6. ASSUME NEW c \in DOMAIN sz, c < b \/ c >= e
      PROVE  r[c - 4] = m[c - 4] /\ r[c + sz[c] - 8] = m[c + sz[c] - 8]
  <2>1. /\ c - 4 \in Words /\ c + sz[c] - 8 \in Words
        /\ c - 4 < b - 4 \/ c - 4 >= e - 4
        /\ c + sz[c] - 8 < b - 4 \/ c + sz[c] - 8 >= e - 4
    BY <1>1, <1>2, <1>6
  <2>. QED
    BY <2>1, <1>4
<1>7. ASSUME NEW c \in DOMAIN new
      PROVE  r[c - 4] = new[c] + Bit(c, A2) /\ r[c + new[c] - 8] = new[c] + Bit(c, A2)
  <2>1. \/ c = b /\ new[c] = s - b
        \/ c = s /\ s # e /\ new[c] = e - s
        \/ c \in DOMAIN sz /\ (c < b \/ c >= e) /\ new[c] = sz[c]
    BY <1>1 DEF Replaced
  <2> HIDE DEF new
  <2>2. CASE c = b /\ new[c] = s - b
    BY <2>2, <1>1
  <2>3. CASE c = s /\ s # e /\ new[c] = e - s
    BY <2>3, <1>1
  <2>4. CASE c \in DOMAIN sz /\ (c < b \/ c >= e) /\ new[c] = sz[c]
    BY <2>4, <1>6 DEF Tags, Bit
  <2>. QED
    BY <2>1, <2>2, <2>3, <2>4
<1>. QED
  BY <1>5, <1>7 DEF Tags, SameBut

-----------------------------------------------------------------------------
(* The operations on the lists. *)

\* The size of a block is read from its header.
LEMMA SizeRead ==
  ASSUME NEW sz, NEW brk, NEW m, NEW A, Geometry(sz, brk), Tags(m, brk, sz, A)
  PROVE  \A b \in DOMAIN sz : GET_SIZE(m, b - 4) = sz[b] /\ GET_ALLOC(m, b - 4) = Bit(b, A)
<1>1. Placed(sz, brk)
  BY BlockWords
<1> TAKE b \in DOMAIN sz
<1>2. sz[b] \in Nat /\ sz[b] % 8 = 0 /\ Bit(b, A) \in {0, 1} /\ m[b - 4] = sz[b] + Bit(b, A)
  BY <1>1 DEF Tags, Bit
<1>. QED
  BY <1>2, Unpacked DEF GET_SIZE, GET_ALLOC

\* The words of the lists, one by one.
LEMMA ListPlaces ==
  ASSUME NEW sz, NEW brk, Geometry(sz, brk), NEW U, U \subseteq DOMAIN sz
  PROVE  /\ \A num \in 0..16 : /\ HEAD(num) \in Words /\ HEAD(num) + 4 \in Words
                               /\ HEAD(num) < 140 /\ HEAD(num) + 4 < 140
                               /\ HEAD(num) \in ListWords(U) /\ HEAD(num) + 4 \in ListWords(U)
         /\ \A b \in DOMAIN sz : /\ b \in Words /\ b + 4 \in Words /\ b + 8 \in Words /\ b + 12 \in Words
                                 /\ b + 8 + 4 \in Words
         /\ \A b \in U : /\ b \in ListWords(U) /\ b + 4 \in ListWords(U)
                         /\ b + 8 \in ListWords(U) /\ b + 12 \in ListWords(U)
                         /\ b + 8 + 4 \in ListWords(U)
         /\ \A b, c \in DOMAIN sz : b # c => b + 32 <= c \/ c + 32 <= b
<1>1. Placed(sz, brk)
  BY BlockWords
<1>2. \A num \in 0..16 : HEAD(num) \in Words /\ HEAD(num) + 4 \in Words
  BY WordNumbers, HeapAssumption
<1>3. \A b \in DOMAIN sz : /\ b \in Words /\ b + 4 \in Words /\ b + 8 \in Words /\ b + 12 \in Words
                           /\ b + 8 + 4 \in Words
  <2> TAKE b \in DOMAIN sz
  <2>1. /\ b \in b - 4..b + sz[b] - 4 /\ b + 4 \in b - 4..b + sz[b] - 4
        /\ b + 8 \in b - 4..b + sz[b] - 4 /\ b + 12 \in b - 4..b + sz[b] - 4
        /\ b % 4 = 0 /\ (b + 4) % 4 = 0 /\ (b + 8) % 4 = 0 /\ (b + 12) % 4 = 0
        /\ b + 8 + 4 = b + 12
    BY <1>1
  <2>. QED
    BY <2>1, <1>1
<1>4. \A b, c \in DOMAIN sz : b # c => b + 32 <= c \/ c + 32 <= b
  <2> TAKE b, c \in DOMAIN sz
  <2>1. b < c => b + sz[b] <= c
    BY <1>1
  <2>2. c < b => c + sz[c] <= b
    BY <1>1
  <2>. QED
    BY <2>1, <2>2, <1>1
<1>5. \A b \in U : /\ b \in ListWords(U) /\ b + 4 \in ListWords(U)
                   /\ b + 8 \in ListWords(U) /\ b + 12 \in ListWords(U)
                   /\ b + 8 + 4 \in ListWords(U)
  BY <1>1, <1>3 DEF ListWords
<1>. QED
  BY <1>2, <1>3, <1>4, <1>5 DEF ListWords

\* insert puts a block into its list and writes nothing but words of the lists.
LEMMA Inserted ==
  ASSUME NEW sz, NEW brk, NEW m, NEW A, NEW U, NEW rk,
         Geometry(sz, brk), Tags(m, brk, sz, A), Lists(m, sz, U, rk),
         U \subseteq DOMAIN sz, NEW b \in DOMAIN sz, b \notin U
  PROVE  /\ SameBut(m, insert(m, b), ListWords(U \union {b}))
         /\ \E rk2 : Lists(insert(m, b), sz, U \union {b}, rk2)
<1> DEFINE num == search(sz[b])
           first == m[HEAD(num)]
           m1 == PUT_PTR(m, b + 8, first)
           m2 == IF first = 0 THEN m1 ELSE PUT_PTR(m1, first, b)
           m3 == PUT_PTR(m2, b, 0)
           r == PUT_PTR(m3, HEAD(num), b)
           Written == {b + 8, b + 12, b, b + 4, HEAD(num), HEAD(num) + 4}
                        \union (IF first = 0 THEN {} ELSE {first, first + 4})
<1>1. Placed(sz, brk)
  BY BlockWords
<1>2. num \in 0..16
  BY <1>1, Classes
<1>3. insert(m, b) = r
  BY SizeRead DEF insert, GET_PTR
<1>4. /\ U \union {b} \subseteq DOMAIN sz
      /\ \A n \in 0..16 : HEAD(n) \in Words /\ HEAD(n) + 4 \in Words /\ HEAD(n) + 4 < 140
      /\ \A c \in DOMAIN sz : /\ c \in Words /\ c + 4 \in Words /\ c + 8 \in Words /\ c + 12 \in Words
                              /\ c + 8 + 4 \in Words
      /\ \A c, d \in DOMAIN sz : c # d => c + 32 <= d \/ d + 32 <= c
  BY ListPlaces
<1>5. first # 0 => first \in U /\ search(sz[first]) = num /\ m[first] = 0 /\ first # b
  BY <1>2 DEF Lists
<1> HIDE DEF num, first
<1>6. SameBut(m, m1, {b + 8, b + 12}) /\ m1[b + 8] = first
  <2>1. DOMAIN m = Words /\ b + 8 + 4 = b + 12
    BY <1>1 DEF Tags
  <2>. QED
    BY <2>1, <1>4, PutPtrWords
<1>7. /\ SameBut(m1, m2, IF first = 0 THEN {} ELSE {first, first + 4})
      /\ first # 0 => m2[first] = b
  <2>1. DOMAIN m1 = Words
    BY <1>6 DEF SameBut
  <2>2. CASE first = 0
    BY <2>1, <2>2 DEF SameBut
  <2>3. CASE first # 0
    <3>1. first \in Words /\ first + 4 \in Words
      BY <2>3, <1>4, <1>5
    <3>. QED
      BY <3>1, <2>1, <2>3, PutPtrWords
  <2>. QED
    BY <2>2, <2>3
<1>8. SameBut(m2, m3, {b, b + 4}) /\ m3[b] = 0
  <2>1. DOMAIN m2 = Words
    BY <1>7 DEF SameBut
  <2>. QED
    BY <2>1, <1>4, PutPtrWords
<1>9. SameBut(m3, r, {HEAD(num), HEAD(num) + 4}) /\ r[HEAD(num)] = b
  <2>1. DOMAIN m3 = Words
    BY <1>8 DEF SameBut
  <2> HIDE DEF m3
  <2>2. HEAD(num) \in Words /\ HEAD(num) + 4 \in Words
    BY <1>2, <1>4
  <2>. QED
    BY <2>1, <2>2, PutPtrWords
<1> HIDE DEF m1, m2, m3, r
<1>10. SameBut(m, r, Written)
  BY <1>6, <1>7, <1>8, <1>9 DEF SameBut
<1>11. SameBut(m, r, ListWords(U \union {b}))
  <2>1. Written \subseteq ListWords(U \union {b})
    BY <1>1, <1>2, <1>4, <1>5 DEF ListWords
  <2>. QED
    BY <2>1, <1>10 DEF SameBut
<1>12. r[b] = 0 /\ r[b + 8] = first
  BY <1>1, <1>2, <1>4, <1>5, <1>6, <1>7, <1>8, <1>9 DEF SameBut
<1>13. first # 0 => r[first] = b
  BY <1>1, <1>2, <1>4, <1>5, <1>7, <1>8, <1>9 DEF SameBut
<1>14. \A n \in 0..16 : n # num => r[HEAD(n)] = m[HEAD(n)]
  <2> TAKE n \in 0..16
  <2> SUFFICES ASSUME n # num PROVE HEAD(n) \notin Written
    BY <1>4, <1>10 DEF SameBut
  <2>. QED
    BY <1>1, <1>2, <1>4, <1>5
<1>15. \A c \in U : r[c + 8] = m[c + 8] /\ (c # first => r[c] = m[c])
  <2> TAKE c \in U
  <2>1. c # b /\ c \in DOMAIN sz /\ (c # b => c + 32 <= b \/ b + 32 <= c)
        /\ (first # 0 => c = first \/ c + 32 <= first \/ first + 32 <= c)
    BY <1>4, <1>5
  <2>2. c + 8 \notin Written /\ (c # first => c \notin Written)
    BY <2>1, <1>1, <1>2, <1>4, <1>5
  <2>. QED
    BY <2>1, <2>2, <1>4, <1>10 DEF SameBut
<1> DEFINE rk2 == [c \in U \union {b} |-> IF c = b THEN 0 ELSE rk[c] + 1]
<1>16. ASSUME NEW n \in 0..16, r[HEAD(n)] # 0
       PROVE  r[HEAD(n)] \in U \union {b} /\ search(sz[r[HEAD(n)]]) = n /\ r[r[HEAD(n)]] = 0
  <2>1. CASE n = num
    BY <2>1, <1>9, <1>12 DEF num
  <2>2. CASE n # num
    <3>1. r[HEAD(n)] = m[HEAD(n)] /\ m[HEAD(n)] \in U /\ search(sz[m[HEAD(n)]]) = n /\ m[m[HEAD(n)]] = 0
      BY <2>2, <1>14, <1>16 DEF Lists
    <3>2. m[HEAD(n)] # first
      BY <3>1, <2>2, <1>5, <1>16
    <3>. QED
      BY <3>1, <3>2, <1>15
  <2>. QED
    BY <2>1, <2>2
<1>17. ASSUME NEW c \in U \union {b}
       PROVE  /\ r[c] = 0 => r[HEAD(search(sz[c]))] = c
              /\ r[c] # 0 => r[c] \in U \union {b} /\ search(sz[r[c]]) = search(sz[c]) /\ r[r[c] + 8] = c
              /\ r[c + 8] # 0 => /\ r[c + 8] \in U \union {b} /\ search(sz[r[c + 8]]) = search(sz[c])
                                 /\ r[r[c + 8]] = c /\ rk2[c] < rk2[r[c + 8]]
  <2>1. CASE c = b
    <3>1. r[c] = 0 /\ r[HEAD(search(sz[c]))] = c
      BY <2>1, <1>9, <1>12 DEF num
    <3>2. ASSUME first # 0 PROVE rk2[b] < rk2[first]
      <4>1. rk[first] \in Nat
        BY <3>2, <1>5 DEF Lists
      <4>. QED
        BY <4>1, <3>2, <1>5
    <3>. QED
      BY <3>1, <3>2, <2>1, <1>5, <1>12, <1>13 DEF num
  <2>2. CASE c # b
    <3>1. /\ c \in U /\ rk[c] \in Nat /\ search(sz[c]) \in 0..16
          /\ m[c] = 0 => m[HEAD(search(sz[c]))] = c
          /\ m[c] # 0 => m[c] \in U /\ search(sz[m[c]]) = search(sz[c]) /\ m[m[c] + 8] = c
          /\ m[c + 8] # 0 => /\ m[c + 8] \in U /\ search(sz[m[c + 8]]) = search(sz[c])
                             /\ m[m[c + 8]] = c /\ rk[c] < rk[m[c + 8]]
      BY <2>2, <1>1, Classes DEF Lists
    <3>2. r[c + 8] = m[c + 8] /\ (c # first => r[c] = m[c])
      BY <3>1, <1>15
    <3>3. b # 0 /\ b \in Nat /\ c # 0
      <4>1. c \in DOMAIN sz
        BY <3>1
      <4>. QED
        BY <4>1, <1>1
    <3>4. r[c] = 0 => r[HEAD(search(sz[c]))] = c
      <4> SUFFICES ASSUME r[c] = 0 PROVE r[HEAD(search(sz[c]))] = c
        OBVIOUS
      <4>1. c # first
        BY <1>13, <3>3
      <4>2. m[HEAD(search(sz[c]))] = c
        BY <4>1, <3>1, <3>2
      <4>3. search(sz[c]) # num
        BY <4>1, <4>2 DEF first
      <4>. QED
        BY <4>2, <4>3, <3>1, <1>14
    <3>5. r[c] # 0 => r[c] \in U \union {b} /\ search(sz[r[c]]) = search(sz[c]) /\ r[r[c] + 8] = c
      <4>1. CASE c = first
        <5>1. first # 0
          BY <4>1, <3>3
        <5>. QED
          BY <4>1, <5>1, <1>5, <1>12, <1>13 DEF num
      <4>2. CASE c # first
        BY <4>2, <3>1, <3>2, <1>15
      <4>. QED
        BY <4>1, <4>2
    <3>6. r[c + 8] # 0 => /\ r[c + 8] \in U \union {b} /\ search(sz[r[c + 8]]) = search(sz[c])
                          /\ r[r[c + 8]] = c /\ rk2[c] < rk2[r[c + 8]]
      <4> SUFFICES ASSUME r[c + 8] # 0
                   PROVE  /\ r[c + 8] \in U \union {b} /\ search(sz[r[c + 8]]) = search(sz[c])
                          /\ r[r[c + 8]] = c /\ rk2[c] < rk2[r[c + 8]]
        OBVIOUS
      <4> DEFINE d == m[c + 8]
      <4>1. r[c + 8] = d /\ d \in U /\ d # b /\ search(sz[d]) = search(sz[c]) /\ m[d] = c /\ rk[c] < rk[d]
        BY <3>1, <3>2
      <4>2. rk[d] \in Nat
        BY <4>1 DEF Lists
      <4>3. d # first
        BY <4>1, <1>5, <3>3
      <4>4. r[d] = c
        BY <4>1, <4>3, <1>15
      <4>5. rk2[c] < rk2[d]
        <5>1. rk2[c] = rk[c] + 1 /\ rk2[d] = rk[d] + 1
          BY <4>1, <3>1, <2>2
        <5>. QED
          BY <5>1, <4>1, <4>2, <3>1
      <4>. QED
        BY <4>1, <4>4, <4>5
    <3>. QED
      BY <3>4, <3>5, <3>6
  <2>. QED
    BY <2>1, <2>2
<1>18. \A c \in U \union {b} : rk2[c] \in Nat
  BY DEF Lists
<1> HIDE DEF rk2
<1>19. Lists(r, sz, U \union {b}, rk2)
  BY <1>16, <1>17, <1>18 DEF Lists
<1>. QED
  BY <1>3, <1>11, <1>19

\* delete takes a block out of its list and writes nothing but words of the lists.
LEMMA Deleted ==
  ASSUME NEW sz, NEW brk, NEW m, NEW A, NEW U, NEW rk,
         Geometry(sz, brk), Tags(m, brk, sz, A), Lists(m, sz, U, rk),
         U \subseteq DOMAIN sz, NEW b \in U
  PROVE  /\ SameBut(m, delete(m, b), ListWords(U))
         /\ Lists(delete(m, b), sz, U \ {b}, rk)
<1> DEFINE num == search(sz[b])
           pred == m[b]
           succ == m[b + 8]
           m1 == IF pred = 0 THEN PUT_PTR(m, HEAD(num), succ) ELSE PUT_PTR(m, pred + 8, succ)
           r == IF succ = 0 THEN m1 ELSE PUT_PTR(m1, succ, pred)
           W1 == IF pred = 0 THEN {HEAD(num), HEAD(num) + 4} ELSE {pred + 8, pred + 12}
           W2 == IF succ = 0 THEN {} ELSE {succ, succ + 4}
<1>1. Placed(sz, brk) /\ b \in DOMAIN sz
  BY BlockWords
<1>2. num \in 0..16
  BY <1>1, Classes
<1>3. delete(m, b) = r
  BY <1>1, SizeRead DEF delete, GET_PTR
<1>4. /\ \A n \in 0..16 : HEAD(n) \in Words /\ HEAD(n) + 4 \in Words /\ HEAD(n) + 4 < 140
      /\ \A c \in DOMAIN sz : /\ c \in Words /\ c + 4 \in Words /\ c + 8 \in Words /\ c + 12 \in Words
                              /\ c + 8 + 4 \in Words
      /\ \A c, d \in DOMAIN sz : c # d => c + 32 <= d \/ d + 32 <= c
  BY ListPlaces
<1>5. /\ pred = 0 => m[HEAD(num)] = b
      /\ pred # 0 => pred \in U /\ search(sz[pred]) = num /\ m[pred + 8] = b /\ rk[pred] < rk[b]
      /\ succ # 0 => succ \in U /\ search(sz[succ]) = num /\ m[succ] = b /\ rk[b] < rk[succ]
      /\ rk[b] \in Nat /\ (pred # 0 => rk[pred] \in Nat) /\ (succ # 0 => rk[succ] \in Nat)
  <2>1. b # 0
    BY <1>1
  <2>. QED
    BY <2>1 DEF Lists
<1>6. pred # b /\ succ # b /\ (pred # 0 => pred # succ)
  BY <1>1, <1>5
<1> HIDE DEF num, pred, succ
<1>7. /\ SameBut(m, m1, W1)
      /\ IF pred = 0 THEN m1[HEAD(num)] = succ ELSE m1[pred + 8] = succ
  <2>1. DOMAIN m = Words
    BY DEF Tags
  <2>2. CASE pred = 0
    <3>1. HEAD(num) \in Words /\ HEAD(num) + 4 \in Words
      BY <1>2, <1>4
    <3>. QED
      BY <3>1, <2>1, <2>2, PutPtrWords
  <2>3. CASE pred # 0
    <3>1. pred \in DOMAIN sz
      BY <2>3, <1>5
    <3>2. pred + 8 \in Words /\ pred + 8 + 4 \in Words /\ pred + 8 + 4 = pred + 12
      BY <3>1, <1>1, <1>4
    <3>3. /\ SameBut(m, PUT_PTR(m, pred + 8, succ), {pred + 8, pred + 8 + 4})
          /\ PUT_PTR(m, pred + 8, succ)[pred + 8] = succ
      BY <2>1, <3>2, PutPtrWords
    <3>. QED
      BY <3>2, <3>3, <2>3
  <2>. QED
    BY <2>2, <2>3
<1>8. SameBut(m1, r, W2) /\ (succ # 0 => r[succ] = pred)
  <2>1. DOMAIN m1 = Words
    BY <1>7 DEF SameBut
  <2>2. CASE succ = 0
    BY <2>1, <2>2 DEF SameBut
  <2>3. CASE succ # 0
    <3>1. succ \in Words /\ succ + 4 \in Words
      BY <2>3, <1>4, <1>5
    <3>. QED
      BY <3>1, <2>1, <2>3, PutPtrWords
  <2>. QED
    BY <2>2, <2>3
<1> HIDE DEF m1, r
<1>9. SameBut(m, r, W1 \union W2)
  BY <1>7, <1>8 DEF SameBut
<1>10. SameBut(m, r, ListWords(U))
  <2>1. pred # 0 => pred \in DOMAIN sz /\ pred \in Nat
    BY <1>1, <1>5
  <2>2. succ # 0 => succ \in DOMAIN sz /\ succ \in Nat
    BY <1>1, <1>5
  <2>3. W1 \subseteq ListWords(U)
    BY <2>1, <1>2, <1>4, <1>5 DEF ListWords
  <2>4. W2 \subseteq ListWords(U)
    BY <2>2, <1>4, <1>5 DEF ListWords
  <2>. QED
    BY <2>3, <2>4, <1>9 DEF SameBut
<1>11. /\ pred = 0 => r[HEAD(num)] = succ
       /\ pred # 0 => r[pred + 8] = succ
  <2>1. CASE pred = 0
    <3>1. HEAD(num) \notin W2
      BY <1>1, <1>2, <1>4, <1>5
    <3>. QED
      BY <3>1, <2>1, <1>2, <1>4, <1>7, <1>8 DEF SameBut
  <2>2. CASE pred # 0
    <3>1. pred \in DOMAIN sz /\ (succ # 0 => succ \in DOMAIN sz /\ pred # succ)
      BY <2>2, <1>5, <1>6
    <3>2. pred + 8 \notin W2
      BY <3>1, <1>1, <1>4
    <3>. QED
      BY <3>1, <3>2, <2>2, <1>4, <1>7, <1>8 DEF SameBut
  <2>. QED
    BY <2>1, <2>2
<1>12. \A n \in 0..16 : n # num \/ pred # 0 => r[HEAD(n)] = m[HEAD(n)]
  <2> TAKE n \in 0..16
  <2> SUFFICES ASSUME n # num \/ pred # 0 PROVE HEAD(n) \notin W1 \union W2
    BY <1>4, <1>9 DEF SameBut
  <2>1. pred # 0 => pred \in DOMAIN sz
    BY <1>5
  <2>2. succ # 0 => succ \in DOMAIN sz
    BY <1>5
  <2>. QED
    BY <2>1, <2>2, <1>1, <1>2, <1>4
<1>13. \A c \in U : (c # succ => r[c] = m[c]) /\ (c # pred => r[c + 8] = m[c + 8])
  <2> TAKE c \in U
  <2>1. /\ c \in DOMAIN sz
        /\ pred # 0 => pred \in DOMAIN sz /\ (c = pred \/ c + 32 <= pred \/ pred + 32 <= c)
        /\ succ # 0 => succ \in DOMAIN sz /\ (c = succ \/ c + 32 <= succ \/ succ + 32 <= c)
    BY <1>4, <1>5
  <2>2. (c # succ => c \notin W1 \union W2) /\ (c # pred => c + 8 \notin W1 \union W2)
    BY <2>1, <1>1, <1>2, <1>4
  <2>. QED
    BY <2>1, <2>2, <1>4, <1>9 DEF SameBut
<1>14. ASSUME NEW n \in 0..16, r[HEAD(n)] # 0
       PROVE  r[HEAD(n)] \in U \ {b} /\ search(sz[r[HEAD(n)]]) = n /\ r[r[HEAD(n)]] = 0
  <2>1. CASE n = num /\ pred = 0
    <3>1. r[HEAD(n)] = succ /\ succ # 0
      BY <2>1, <1>11, <1>14
    <3>. QED
      BY <3>1, <2>1, <1>5, <1>6, <1>8
  <2>2. CASE n # num \/ pred # 0
    <3>1. r[HEAD(n)] = m[HEAD(n)] /\ m[HEAD(n)] \in U /\ search(sz[m[HEAD(n)]]) = n /\ m[m[HEAD(n)]] = 0
      BY <2>2, <1>12, <1>14 DEF Lists
    <3>2. m[HEAD(n)] # b
      BY <3>1, <2>2 DEF num, pred
    <3>3. m[HEAD(n)] # succ
      BY <3>1, <1>1, <1>5
    <3>. QED
      BY <3>1, <3>2, <3>3, <1>13
  <2>. QED
    BY <2>1, <2>2
<1>15. ASSUME NEW c \in U \ {b}
       PROVE  /\ r[c] = 0 => r[HEAD(search(sz[c]))] = c
              /\ r[c] # 0 => r[c] \in U \ {b} /\ search(sz[r[c]]) = search(sz[c]) /\ r[r[c] + 8] = c
              /\ r[c + 8] # 0 => /\ r[c + 8] \in U \ {b} /\ search(sz[r[c + 8]]) = search(sz[c])
                                 /\ r[r[c + 8]] = c /\ rk[c] < rk[r[c + 8]]
  <2>1. /\ c \in U /\ c # b /\ c \in DOMAIN sz /\ rk[c] \in Nat
        /\ m[c] = 0 => m[HEAD(search(sz[c]))] = c
        /\ m[c] # 0 => m[c] \in U /\ search(sz[m[c]]) = search(sz[c]) /\ m[m[c] + 8] = c
        /\ m[c + 8] # 0 => /\ m[c + 8] \in U /\ search(sz[m[c + 8]]) = search(sz[c])
                           /\ m[m[c + 8]] = c /\ rk[c] < rk[m[c + 8]]
    BY DEF Lists
  <2>2. c # 0 /\ b # 0 /\ search(sz[c]) \in 0..16
    BY <2>1, <1>1, Classes
  <2>3. /\ r[c] = 0 => r[HEAD(search(sz[c]))] = c
        /\ r[c] # 0 => r[c] \in U \ {b} /\ search(sz[r[c]]) = search(sz[c]) /\ r[r[c] + 8] = c
    <3>1. CASE c = succ
      <4>1. r[c] = pred /\ search(sz[c]) = num /\ (pred # 0 => pred \in U /\ pred # b /\ search(sz[pred]) = num)
        BY <3>1, <2>2, <1>5, <1>6, <1>8
      <4>. QED
        BY <4>1, <3>1, <1>11
    <3>2. CASE c # succ
      <4>1. r[c] = m[c]
        BY <3>2, <2>1, <1>13
      <4>2. m[c] # b
        <5>1. m[c] = b => m[b + 8] = c
          BY <2>1, <2>2
        <5>. QED
          BY <5>1, <3>2 DEF succ
      <4>3. ASSUME m[c] = 0 PROVE r[HEAD(search(sz[c]))] = c
        <5>1. m[HEAD(search(sz[c]))] = c
          BY <4>3, <2>1
        <5>2. search(sz[c]) # num \/ pred # 0
          BY <5>1, <2>1, <1>5
        <5>. QED
          BY <5>1, <5>2, <2>2, <1>12
      <4>4. ASSUME m[c] # 0 PROVE r[m[c] + 8] = c
        <5>1. m[c] \in U /\ m[m[c] + 8] = c
          BY <4>4, <2>1
        <5>2. m[c] # pred
          BY <5>1, <2>1, <2>2, <4>4, <1>5
        <5>. QED
          BY <5>1, <5>2, <1>13
      <4>. QED
        BY <4>1, <4>2, <4>3, <4>4, <2>1
    <3>. QED
      BY <3>1, <3>2
  <2>4. r[c + 8] # 0 => /\ r[c + 8] \in U \ {b} /\ search(sz[r[c + 8]]) = search(sz[c])
                        /\ r[r[c + 8]] = c /\ rk[c] < rk[r[c + 8]]
    <3>1. CASE c = pred
      <4>1. r[c + 8] = succ
        BY <3>1, <2>2, <1>11
      <4>2. succ # 0 => rk[c] < rk[succ]
        BY <3>1, <2>1, <2>2, <1>5
      <4>. QED
        BY <4>1, <4>2, <3>1, <2>2, <1>5, <1>6, <1>8
    <3>2. CASE c # pred
      <4>1. r[c + 8] = m[c + 8]
        BY <3>2, <2>1, <1>13
      <4> SUFFICES ASSUME m[c + 8] # 0 PROVE m[c + 8] # b /\ r[m[c + 8]] = c
        BY <4>1, <2>1
      <4>2. m[c + 8] # b
        BY <3>2, <2>1 DEF pred
      <4>3. m[c + 8] # succ
        BY <2>1, <2>2, <1>5
      <4>. QED
        BY <4>2, <4>3, <2>1, <1>13
    <3>. QED
      BY <3>1, <3>2
  <2>. QED
    BY <2>3, <2>4
<1>16. \A c \in U \ {b} : rk[c] \in Nat
  BY DEF Lists
<1>17. Lists(r, sz, U \ {b}, rk)
  BY <1>14, <1>15, <1>16 DEF Lists
<1>. QED
  BY <1>3, <1>10, <1>17

-----------------------------------------------------------------------------
(* Heaps and what the operations on blocks do to them. *)

\* Memory m is a heap with the blocks of sz, of which those of A are allocated and those of U
\* in the free lists.
Heap(m, brk, sz, A, U) ==
  /\ Geometry(sz, brk) /\ Tags(m, brk, sz, A) /\ \E rk : Lists(m, sz, U, rk)
  /\ A \subseteq DOMAIN sz /\ U \subseteq DOMAIN sz \ A

\* The blocks of A are as large in sz2 as in sz, and r has in them what m has.
Holds(m, sz, r, sz2, A) ==
  \A c \in A : /\ c \in DOMAIN sz2 /\ sz2[c] = sz[c]
               /\ \A x \in Words : c <= x /\ x < c + sz[c] - 8 => r[x] = m[x]

\* The words of the lists are not in blocks that are in no list.
LEMMA ListWordsApart ==
  ASSUME NEW sz, NEW brk, Geometry(sz, brk), NEW U, U \subseteq DOMAIN sz,
         NEW c \in DOMAIN sz, c \notin U, NEW x \in Words, c - 4 <= x, x < c + sz[c] - 4
  PROVE  x \notin ListWords(U)
<1>1. Placed(sz, brk)
  BY BlockWords
<1>2. x \in Nat /\ ~(x < 140)
  BY <1>1, WordNumbers
<1>3. ASSUME NEW b \in U PROVE ~(b <= x /\ x < b + 16)
  <2>1. b \in DOMAIN sz /\ b # c /\ (b < c => b + sz[b] <= c) /\ (c < b => c + sz[c] <= b)
    BY <1>1
  <2>. QED
    BY <2>1, <1>1, <1>2
<1>. QED
  BY <1>2, <1>3 DEF ListWords

\* delete takes a block from the lists and touches no block of the client.
LEMMA HeapDelete ==
  ASSUME NEW m, NEW brk, NEW sz, NEW A, NEW U, Heap(m, brk, sz, A, U), NEW b \in U
  PROVE  /\ Heap(delete(m, b), brk, sz, A, U \ {b})
         /\ Holds(m, sz, delete(m, b), sz, A)
<1> DEFINE r == delete(m, b)
<1>1. /\ Geometry(sz, brk) /\ Tags(m, brk, sz, A)
      /\ A \subseteq DOMAIN sz /\ U \subseteq DOMAIN sz \ A /\ U \subseteq DOMAIN sz
  BY DEF Heap
<1>2. PICK rk : Lists(m, sz, U, rk)
  BY DEF Heap
<1>3. SameBut(m, r, ListWords(U)) /\ Lists(r, sz, U \ {b}, rk)
  BY <1>1, <1>2, Deleted
<1> HIDE DEF r
<1>4. Tags(r, brk, sz, A)
  BY <1>1, <1>3, TagsKept
<1>5. Holds(m, sz, r, sz, A)
  <2>1. ASSUME NEW c \in A, NEW x \in Words, c <= x, x < c + sz[c] - 8 PROVE r[x] = m[x]
    <3>1. c \in DOMAIN sz /\ c \notin U /\ c - 4 <= x /\ x < c + sz[c] - 4
      <4>1. c \in Nat /\ sz[c] \in Nat /\ x \in Nat
        BY <1>1, BlockWords, WordNumbers
      <4>. QED
        BY <4>1, <2>1, <1>1
    <3>. QED
      BY <3>1, <1>1, <1>3, ListWordsApart DEF SameBut
  <2>. QED
    BY <2>1, <1>1 DEF Holds
<1>. QED
  BY <1>1, <1>3, <1>4, <1>5 DEF Heap, r

\* insert puts a block that no list has into its list.
LEMMA HeapInsert ==
  ASSUME NEW m, NEW brk, NEW sz, NEW A, NEW U, Heap(m, brk, sz, A, U),
         NEW b \in DOMAIN sz, b \notin A, b \notin U
  PROVE  /\ Heap(insert(m, b), brk, sz, A, U \union {b})
         /\ Holds(m, sz, insert(m, b), sz, A)
<1> DEFINE r == insert(m, b)
<1>1. /\ Geometry(sz, brk) /\ Tags(m, brk, sz, A)
      /\ A \subseteq DOMAIN sz /\ U \subseteq DOMAIN sz \ A /\ U \subseteq DOMAIN sz
      /\ U \union {b} \subseteq DOMAIN sz
  BY DEF Heap
<1>2. PICK rk : Lists(m, sz, U, rk)
  BY DEF Heap
<1>3. SameBut(m, r, ListWords(U \union {b})) /\ \E rk2 : Lists(r, sz, U \union {b}, rk2)
  BY <1>1, <1>2, Inserted
<1> HIDE DEF r
<1>4. Tags(r, brk, sz, A)
  BY <1>1, <1>3, TagsKept
<1>5. Holds(m, sz, r, sz, A)
  <2>1. ASSUME NEW c \in A, NEW x \in Words, c <= x, x < c + sz[c] - 8 PROVE r[x] = m[x]
    <3>1. c \in DOMAIN sz /\ c \notin U \union {b} /\ c - 4 <= x /\ x < c + sz[c] - 4
      <4>1. c \in Nat /\ sz[c] \in Nat /\ x \in Nat
        BY <1>1, BlockWords, WordNumbers
      <4>. QED
        BY <4>1, <2>1, <1>1
    <3>2. x \notin ListWords(U \union {b})
      BY <3>1, <1>1, ListWordsApart
    <3>. QED
      BY <3>2, <1>3 DEF SameBut
  <2>. QED
    BY <2>1, <1>1 DEF Holds
<1>. QED
  BY <1>1, <1>3, <1>4, <1>5 DEF Heap, r

\* The blocks of X that are not in the region from b to e.
Beside(X, b, e) == {c \in X : c < b \/ c >= e}

\* New tags for the words from b to e, which no list goes through.
LEMMA HeapReplaced ==
  ASSUME NEW m, NEW r, NEW brk, NEW sz, NEW A, NEW A2, NEW U, Heap(m, brk, sz, A, U),
         NEW b \in DOMAIN sz, NEW e \in DOMAIN sz \union {brk}, b < e,
         NEW s \in Nat, s % 16 = 0, b + 32 <= s, s = e \/ s + 32 <= e,
         SameBut(m, r, RegionWords(b, e)),
         r[b - 4] = (s - b) + Bit(b, A2), r[s - 8] = (s - b) + Bit(b, A2),
         s # e => r[s - 4] = (e - s) + Bit(s, A2) /\ r[e - 8] = (e - s) + Bit(s, A2),
         \A c \in DOMAIN sz : c < b \/ c >= e => (c \in A2 <=> c \in A),
         \A c \in U : c < b \/ c >= e,
         A2 \subseteq DOMAIN Replaced(sz, b, s, e)
  PROVE  /\ Heap(r, brk, Replaced(sz, b, s, e), A2, U)
         /\ Holds(m, sz, r, Replaced(sz, b, s, e), Beside(A, b, e))
<1> DEFINE new == Replaced(sz, b, s, e)
<1>1. /\ Geometry(sz, brk) /\ Tags(m, brk, sz, A)
      /\ A \subseteq DOMAIN sz /\ U \subseteq DOMAIN sz \ A /\ U \subseteq DOMAIN sz
  BY DEF Heap
<1>2. PICK rk : Lists(m, sz, U, rk)
  BY DEF Heap
<1>3. Placed(sz, brk) /\ e \in Nat /\ e <= brk
  <2>1. Placed(sz, brk)
    BY <1>1, BlockWords
  <2>. QED
    BY <2>1
<1>4. /\ Geometry(new, brk)
      /\ \A c \in DOMAIN sz : c < b => c + sz[c] <= b
      /\ \A c \in DOMAIN sz : c < e => c + sz[c] <= e
  BY <1>1, ReplacedGeometry
<1>5. Tags(r, brk, new, A2)
  BY <1>1, ReplacedTags
<1>6. \A c \in DOMAIN sz : c < b \/ c >= e => c \in DOMAIN new /\ new[c] = sz[c]
  BY <1>3 DEF Replaced
<1> HIDE DEF new
<1>7. RegionWords(b, e) \cap ListWords(U) = {}
  <2> SUFFICES ASSUME NEW x \in RegionWords(b, e), x \in ListWords(U) PROVE FALSE
    OBVIOUS
  <2>1. x \in Nat /\ b - 4 <= x /\ x < e - 4
    BY WordNumbers DEF RegionWords
  <2>2. ~(x < 140)
    BY <2>1, <1>3
  <2>3. PICK c \in U : c <= x /\ x < c + 16
    BY <2>2 DEF ListWords
  <2>4. c \in DOMAIN sz /\ (c < b => c + sz[c] <= b)
    BY <1>1, <1>4
  <2>. QED
    BY <2>1, <2>3, <2>4, <1>3
<1>8. Lists(r, new, U, rk)
  BY <1>1, <1>2, <1>6, <1>7, ListsKept
<1>9. Holds(m, sz, r, new, Beside(A, b, e))
  <2>1. ASSUME NEW c \in A, c < b \/ c >= e, NEW x \in Words, c <= x, x < c + sz[c] - 8
        PROVE  r[x] = m[x]
    <3>1. c \in DOMAIN sz /\ x \in Nat /\ c + sz[c] - 8 \in Nat
      BY <1>1, <1>3, WordNumbers
    <3>2. x \notin RegionWords(b, e)
      BY <3>1, <2>1, <1>3, <1>4 DEF RegionWords
    <3>. QED
      BY <3>2 DEF SameBut
  <2>. QED
    BY <2>1, <1>1, <1>6 DEF Holds, Beside
<1>10. U \subseteq DOMAIN new \ A2
  BY <1>1, <1>6
<1>. QED
  BY <1>4, <1>5, <1>8, <1>9, <1>10 DEF Heap, new

\* The blocks beside a block, as the macros find them.
LEMMA Neighbours ==
  ASSUME NEW m, NEW brk, NEW sz, NEW A, NEW U, Heap(m, brk, sz, A, U), NEW b \in DOMAIN sz
  PROVE  /\ GET_SIZE(m, b - 4) = sz[b] /\ NEXT_BLKP(m, b) = b + sz[b]
         /\ GET_ALLOC(m, (b + sz[b]) - 4) = 0 <=> b + sz[b] \in DOMAIN sz \ A
         /\ b + sz[b] \in DOMAIN sz => GET_SIZE(m, (b + sz[b]) - 4) = sz[b + sz[b]]
         /\ \A c \in DOMAIN sz : c + sz[c] = b => PREV_BLKP(m, b) = c /\ GET_SIZE(m, c - 4) = sz[c]
         /\ GET_ALLOC(m, FTRP(m, PREV_BLKP(m, b))) = 0 <=> \E c \in DOMAIN sz \ A : c + sz[c] = b
         /\ GET_ALLOC(m, PREV_BLKP(m, b) - 4) = 0 <=> \E c \in DOMAIN sz \ A : c + sz[c] = b
<1>1. Geometry(sz, brk) /\ Tags(m, brk, sz, A)
  BY DEF Heap
<1>2. Placed(sz, brk)
  BY <1>1, BlockWords
<1>3. \A c \in DOMAIN sz : GET_SIZE(m, c - 4) = sz[c] /\ GET_ALLOC(m, c - 4) = Bit(c, A)
  BY <1>1, SizeRead
<1>4. NEXT_BLKP(m, b) = b + sz[b]
  BY <1>3 DEF NEXT_BLKP
<1>5. GET_ALLOC(m, (b + sz[b]) - 4) = 0 <=> b + sz[b] \in DOMAIN sz \ A
  <2>0. \A c \in DOMAIN sz : GET_ALLOC(m, c - 4) = 0 <=> c \notin A
    BY <1>3 DEF Bit
  <2>1. ASSUME NEW n \in DOMAIN sz \union {brk} PROVE GET_ALLOC(m, n - 4) = 0 <=> n \in DOMAIN sz \ A
    <3>1. CASE n \in DOMAIN sz
      BY <2>0, <3>1
    <3>2. CASE n \notin DOMAIN sz
      <4>1. n = brk
        BY <3>2
      <4>2. m[n - 4] = 1
        BY <4>1, <1>1 DEF Tags
      <4>3. GET_ALLOC(m, n - 4) = 1
        BY <4>2 DEF GET_ALLOC
      <4>. QED
        BY <4>3, <3>2
    <3>. QED
      BY <3>1, <3>2
  <2>2. b + sz[b] \in DOMAIN sz \union {brk}
    BY <1>1 DEF Geometry
  <2>. QED
    BY <2>1, <2>2, Zenon
<1>6. \A c, d \in DOMAIN sz : c + sz[c] = b /\ d + sz[d] = b => c = d
  <2> TAKE c, d \in DOMAIN sz
  <2>1. (c < d => c + sz[c] <= d) /\ (d < c => d + sz[d] <= c)
    BY <1>2
  <2>. QED
    BY <2>1, <1>2
<1>7. ASSUME NEW c \in DOMAIN sz, c + sz[c] = b
      PROVE  /\ PREV_BLKP(m, b) = c /\ FTRP(m, c) = b - 8
             /\ GET_ALLOC(m, b - 8) = Bit(c, A)
  <2>0. m[c + sz[c] - 8] = sz[c] + Bit(c, A) /\ c + sz[c] - 8 = b - 8
    BY <1>1, <1>2, <1>7 DEF Tags
  <2>1. m[b - 8] = sz[c] + Bit(c, A)
    BY <2>0, Zenon
  <2>2. sz[c] \in Nat /\ sz[c] % 8 = 0 /\ Bit(c, A) \in {0, 1} /\ c \in Nat
    BY <1>2 DEF Bit
  <2>3. GET_SIZE(m, b - 8) = sz[c] /\ GET_ALLOC(m, b - 8) = Bit(c, A)
    BY <2>1, <2>2, Unpacked DEF GET_SIZE, GET_ALLOC
  <2>4. PREV_BLKP(m, b) = b - sz[c] /\ FTRP(m, c) = c + sz[c] - 8
    BY <2>3, <1>3 DEF PREV_BLKP, FTRP
  <2>. QED
    BY <2>2, <2>3, <2>4, <1>7
<1>8. CASE \E c \in DOMAIN sz : c + sz[c] = b
  <2>1. PICK c \in DOMAIN sz : c + sz[c] = b
    BY <1>8
  <2>2. GET_ALLOC(m, FTRP(m, PREV_BLKP(m, b))) = Bit(c, A) /\ GET_ALLOC(m, PREV_BLKP(m, b) - 4) = Bit(c, A)
    BY <2>1, <1>3, <1>7
  <2>3. Bit(c, A) = 0 <=> \E d \in DOMAIN sz \ A : d + sz[d] = b
    BY <2>1, <1>6 DEF Bit
  <2>4. \A d \in DOMAIN sz : d + sz[d] = b => PREV_BLKP(m, b) = d /\ GET_SIZE(m, d - 4) = sz[d]
    BY <1>3, <1>7
  <2>5. b + sz[b] \in DOMAIN sz => GET_SIZE(m, (b + sz[b]) - 4) = sz[b + sz[b]]
    BY <1>3, Zenon
  <2>. QED
    BY <2>2, <2>3, <2>4, <2>5, <1>3, <1>4, <1>5, Zenon
<1>9. CASE ~\E c \in DOMAIN sz : c + sz[c] = b
  <2>1. b = 160
    BY <1>1, <1>9 DEF Geometry
  <2>2. m[140] = 17 /\ m[152] = 17
    BY <1>1 DEF Tags
  <2>3. PREV_BLKP(m, b) = 144
    BY <2>1, <2>2 DEF PREV_BLKP, GET_SIZE
  <2>4. FTRP(m, 144) = 152
    BY <2>2 DEF FTRP, GET_SIZE
  <2>5. GET_ALLOC(m, 152) = 1 /\ GET_ALLOC(m, 144 - 4) = 1
    BY <2>2 DEF GET_ALLOC
  <2>6. b + sz[b] \in DOMAIN sz => GET_SIZE(m, (b + sz[b]) - 4) = sz[b + sz[b]]
    BY <1>3, Zenon
  <2>7. GET_ALLOC(m, FTRP(m, PREV_BLKP(m, b))) = 1 /\ GET_ALLOC(m, PREV_BLKP(m, b) - 4) = 1
    BY <2>3, <2>4, <2>5, Zenon
  <2>. QED
    BY <2>6, <2>7, <1>3, <1>4, <1>5, <1>9
<1>. QED
  BY <1>8, <1>9

\* The blocks after the region from b to e has become one block, or two that meet at s.
LEMMA ReplacedBlocks ==
  ASSUME NEW sz, NEW b \in Nat, NEW s \in Nat, NEW e \in Nat, b < s, s <= e
  PROVE  LET new == Replaced(sz, b, s, e)
         IN  /\ b \in DOMAIN new /\ new[b] = s - b
             /\ s # e => s \in DOMAIN new /\ new[s] = e - s
             /\ \A c \in DOMAIN sz : c < b \/ c >= e => c \in DOMAIN new /\ new[c] = sz[c]
             /\ \A c \in DOMAIN new : c = b \/ (c = s /\ s # e) \/ (c \in DOMAIN sz /\ (c < b \/ c >= e))
BY DEF Replaced

\* One operation after another.
LEMMA HoldsSteps ==
  ASSUME NEW m, NEW sz, NEW r, NEW sz2, NEW q, NEW sz3, NEW A, NEW B,
         Holds(m, sz, r, sz2, A), Holds(r, sz2, q, sz3, B), B \subseteq A
  PROVE  Holds(m, sz, q, sz3, B)
BY DEF Holds

\* PutTags on a region from b to e.
LEMMA PutTagsOver ==
  ASSUME NEW m, DOMAIN m = Words, NEW b \in Nat, NEW e \in Nat, b % 16 = 0, e % 16 = 0, b + 32 <= e,
         NEW bit \in {0, 1}, b - 4 \in Words, e - 8 \in Words
  PROVE  LET r == PutTags(m, b, e - b, bit)
         IN  SameBut(m, r, {b - 4, e - 8}) /\ r[b - 4] = (e - b) + bit /\ r[e - 8] = (e - b) + bit
<1>1. PICK size \in Nat : size = e - b /\ size % 8 = 0 /\ size >= 8
  <2>1. (e - b) \in Nat /\ (e - b) % 8 = 0 /\ (e - b) >= 8
    OBVIOUS
  <2>. QED
    BY <2>1
<1>2. b + size - 8 = e - 8
  BY <1>1
<1>3. b + size - 8 \in Words
  BY <1>2
<1>4. LET r == PutTags(m, b, size, bit)
      IN  SameBut(m, r, {b - 4, b + size - 8}) /\ r[b - 4] = size + bit /\ r[b + size - 8] = size + bit
  BY <1>1, <1>3, PutTagsWords
<1> HIDE DEF PutTags
<1>. QED
  BY <1>1, <1>2, <1>4, Zenon

\* The allocated blocks once the region is one block, allocated if bit is 1.
Marked(A, b, e, bit) == Beside(A, b, e) \union (IF bit = 1 THEN {b} ELSE {})

\* PutTags makes one block of a region, whatever is there by now (mm).
LEMMA JoinedOver ==
  ASSUME NEW m, NEW mm, NEW brk, NEW sz, NEW A, NEW U, Heap(m, brk, sz, A, U),
         NEW b \in DOMAIN sz, NEW e \in DOMAIN sz \union {brk}, b < e, SameBut(m, mm, RegionWords(b, e)),
         \A c \in U : c < b \/ c >= e, NEW bit \in {0, 1}
  PROVE  LET r   == PutTags(mm, b, e - b, bit)
             sz2 == Replaced(sz, b, e, e)
             A2  == Marked(A, b, e, bit)
         IN  /\ Heap(r, brk, sz2, A2, U)
             /\ Holds(m, sz, r, sz2, Beside(A, b, e))
             /\ SameBut(mm, r, {b - 4, e - 8})
<1> DEFINE r   == PutTags(mm, b, e - b, bit)
           sz2 == Replaced(sz, b, e, e)
           A2  == Marked(A, b, e, bit)
<1>1. Geometry(sz, brk) /\ Tags(m, brk, sz, A) /\ A \subseteq DOMAIN sz /\ U \subseteq DOMAIN sz \ A
  BY DEF Heap
<1>2. Placed(sz, brk) /\ DOMAIN mm = Words
  BY <1>1, BlockWords DEF SameBut
<1>3. b \in Nat /\ e \in Nat /\ e % 16 = 0 /\ b % 16 = 0 /\ b >= 160 /\ e <= brk /\ b + 32 <= e
  <2>1. b + sz[b] <= e
    BY <1>2
  <2>. QED
    BY <2>1, <1>2
<1>4. b - 4 \in Words /\ e - 8 \in Words
  BY <1>2, <1>3, WordNumbers
<1>5. /\ SameBut(mm, r, {b - 4, e - 8}) /\ r[b - 4] = (e - b) + bit /\ r[e - 8] = (e - b) + bit
  BY <1>2, <1>3, <1>4, PutTagsOver
<1> HIDE DEF r
<1>6. Bit(b, A2) = bit
  BY <1>3 DEF Bit, Beside, Marked
<1>7. SameBut(m, r, RegionWords(b, e))
  BY <1>3, <1>4, <1>5 DEF SameBut, RegionWords
<1>8. A2 \subseteq DOMAIN sz2
  <2>1. b \in DOMAIN sz2 /\ Beside(A, b, e) \subseteq DOMAIN sz2
    BY <1>1, <1>3 DEF Beside, Replaced
  <2>. QED
    BY <2>1 DEF Marked
<1>9. \A c \in DOMAIN sz : c < b \/ c >= e => (c \in A2 <=> c \in A)
  BY <1>2, <1>3 DEF Beside, Marked
<1> HIDE DEF A2
<1>10. Heap(r, brk, sz2, A2, U) /\ Holds(m, sz, r, sz2, Beside(A, b, e))
  <2>1. r[b - 4] = (e - b) + Bit(b, A2) /\ r[e - 8] = (e - b) + Bit(b, A2)
    BY <1>5, <1>6
  <2>2. (e = e \/ e + 32 <= e) /\ (e # e => r[e - 4] = (e - e) + Bit(e, A2) /\ r[e - 8] = (e - e) + Bit(e, A2))
    OBVIOUS
  <2>. QED
    BY <2>1, <2>2, <1>3, <1>7, <1>8, <1>9, HeapReplaced
<1>. QED
  BY <1>5, <1>10 DEF r, A2

\* Cut makes two.
LEMMA CutOver ==
  ASSUME NEW m, NEW mm, NEW brk, NEW sz, NEW A, NEW U, Heap(m, brk, sz, A, U),
         NEW b \in DOMAIN sz, NEW e \in DOMAIN sz \union {brk}, b < e, SameBut(m, mm, RegionWords(b, e)),
         \A c \in U : c < b \/ c >= e, NEW bit \in {0, 1},
         NEW s \in Nat, s % 16 = 0, b + 32 <= s, s + 32 <= e
  PROVE  LET r   == Cut(mm, b, s - b, bit, e - s)
             sz2 == Replaced(sz, b, s, e)
             A2  == Beside(A, b, e) \union {IF bit = 1 THEN b ELSE s}
         IN  /\ Heap(r, brk, sz2, A2, U)
             /\ Holds(m, sz, r, sz2, Beside(A, b, e))
             /\ SameBut(mm, r, {b - 4, s - 8, s - 4, e - 8})
<1> DEFINE h   == PutTags(mm, b, s - b, bit)
           r   == PutTags(h, s, e - s, 1 - bit)
           sz2 == Replaced(sz, b, s, e)
           A2  == Beside(A, b, e) \union {IF bit = 1 THEN b ELSE s}
<1>1. Geometry(sz, brk) /\ Tags(m, brk, sz, A) /\ A \subseteq DOMAIN sz /\ U \subseteq DOMAIN sz \ A
  BY DEF Heap
<1>2. Placed(sz, brk) /\ DOMAIN mm = Words
  BY <1>1, BlockWords DEF SameBut
<1>3. b \in Nat /\ e \in Nat /\ e % 16 = 0 /\ b % 16 = 0 /\ b >= 160 /\ e <= brk
  BY <1>2
<1>4. b - 4 \in Words /\ s - 8 \in Words /\ s - 4 \in Words /\ e - 8 \in Words
  BY <1>2, <1>3, WordNumbers
<1>5. SameBut(mm, h, {b - 4, s - 8}) /\ h[b - 4] = (s - b) + bit /\ h[s - 8] = (s - b) + bit
  BY <1>2, <1>3, <1>4, PutTagsOver
<1> HIDE DEF h
<1>6. SameBut(h, r, {s - 4, e - 8}) /\ r[s - 4] = (e - s) + (1 - bit) /\ r[e - 8] = (e - s) + (1 - bit)
  <2>1. DOMAIN h = Words /\ (1 - bit) \in {0, 1}
    BY <1>5 DEF SameBut
  <2>. QED
    BY <2>1, <1>3, <1>4, PutTagsOver
<1>7. r = Cut(mm, b, s - b, bit, e - s)
  <2>1. b + (s - b) = s
    BY <1>3
  <2>. QED
    BY <2>1 DEF Cut, h
<1> HIDE DEF r
<1>8. SameBut(mm, r, {b - 4, s - 8, s - 4, e - 8})
  BY <1>5, <1>6 DEF SameBut
<1>9. r[b - 4] = (s - b) + bit /\ r[s - 8] = (s - b) + bit
  BY <1>3, <1>4, <1>5, <1>6 DEF SameBut
<1>10. Bit(b, A2) = bit /\ Bit(s, A2) = 1 - bit
  BY <1>3 DEF Bit, Beside
<1>11. SameBut(m, r, RegionWords(b, e))
  BY <1>3, <1>4, <1>8 DEF SameBut, RegionWords
<1>12. A2 \subseteq DOMAIN sz2
  <2>1. b \in DOMAIN sz2 /\ s \in DOMAIN sz2
    BY <1>3 DEF Replaced
  <2>2. Beside(A, b, e) \subseteq DOMAIN sz2
    BY <1>1, <1>3 DEF Beside, Replaced
  <2>. QED
    BY <2>1, <2>2
<1>13. \A c \in DOMAIN sz : c < b \/ c >= e => (c \in A2 <=> c \in A)
  BY <1>2, <1>3 DEF Beside
<1> HIDE DEF A2
<1>14. Heap(r, brk, sz2, A2, U) /\ Holds(m, sz, r, sz2, Beside(A, b, e))
  <2>1. /\ r[b - 4] = (s - b) + Bit(b, A2) /\ r[s - 8] = (s - b) + Bit(b, A2)
        /\ r[s - 4] = (e - s) + Bit(s, A2) /\ r[e - 8] = (e - s) + Bit(s, A2)
    BY <1>6, <1>9, <1>10
  <2>. QED
    BY <2>1, <1>3, <1>11, <1>12, <1>13, HeapReplaced
<1>. QED
  BY <1>7, <1>8, <1>14 DEF A2

\* A memory is the same as itself.
LEMMA SameAll ==
  ASSUME NEW m, NEW brk, NEW sz, NEW A, NEW U, Heap(m, brk, sz, A, U), NEW W
  PROVE  SameBut(m, m, W)
BY DEF Heap, Tags, SameBut

\* PutTags makes one block of a region: JoinedOver when nothing has been copied.
LEMMA Joined ==
  ASSUME NEW m, NEW brk, NEW sz, NEW A, NEW U, Heap(m, brk, sz, A, U),
         NEW b \in DOMAIN sz, NEW e \in DOMAIN sz \union {brk}, b < e,
         \A c \in U : c < b \/ c >= e, NEW bit \in {0, 1}
  PROVE  LET r   == PutTags(m, b, e - b, bit)
             sz2 == Replaced(sz, b, e, e)
             A2  == Marked(A, b, e, bit)
         IN  Heap(r, brk, sz2, A2, U) /\ Holds(m, sz, r, sz2, Beside(A, b, e))
<1>1. SameBut(m, m, RegionWords(b, e))
  BY SameAll
<1>. QED
  BY <1>1, JoinedOver

\* Cut makes two blocks of a region: CutOver when nothing has been copied.
LEMMA CutUp ==
  ASSUME NEW m, NEW brk, NEW sz, NEW A, NEW U, Heap(m, brk, sz, A, U),
         NEW b \in DOMAIN sz, NEW e \in DOMAIN sz \union {brk}, b < e,
         \A c \in U : c < b \/ c >= e, NEW bit \in {0, 1},
         NEW s \in Nat, s % 16 = 0, b + 32 <= s, s + 32 <= e
  PROVE  LET r   == Cut(m, b, s - b, bit, e - s)
             sz2 == Replaced(sz, b, s, e)
             A2  == Beside(A, b, e) \union {IF bit = 1 THEN b ELSE s}
         IN  Heap(r, brk, sz2, A2, U) /\ Holds(m, sz, r, sz2, Beside(A, b, e))
<1>1. SameBut(m, m, RegionWords(b, e))
  BY SameAll
<1>. QED
  BY <1>1, CutOver

-----------------------------------------------------------------------------
(* The functions on blocks. *)

\* The allocator's state, as the functions take and return it.
S(m, brk, tail, bp) == [mem |-> m, brk |-> brk, tail |-> tail, bp |-> bp]

\* With, and the parts of a state.
LEMMA WithS ==
  ASSUME NEW m, NEW brk, NEW tail, NEW bp, NEW m2, NEW bp2
  PROVE  /\ With(S(m, brk, tail, bp), m2, bp2) = S(m2, brk, tail, bp2)
         /\ S(m, brk, tail, bp).mem = m /\ S(m, brk, tail, bp).brk = brk
         /\ S(m, brk, tail, bp).tail = tail /\ S(m, brk, tail, bp).bp = bp
<1>1. /\ S(m, brk, tail, bp).mem = m /\ S(m, brk, tail, bp).brk = brk
      /\ S(m, brk, tail, bp).tail = tail /\ S(m, brk, tail, bp).bp = bp
  BY DEF S
<1> DEFINE w == With(S(m, brk, tail, bp), m2, bp2)
<1>2. w = [[S(m, brk, tail, bp) EXCEPT !.mem = m2] EXCEPT !.bp = bp2]
  BY DEF With
<1>3. [S(m, brk, tail, bp) EXCEPT !.mem = m2] = S(m2, brk, tail, bp)
  BY DEF S
<1>4. [S(m2, brk, tail, bp) EXCEPT !.bp = bp2] = S(m2, brk, tail, bp2)
  BY DEF S
<1>. QED
  BY <1>1, <1>2, <1>3, <1>4, Zenon

\* No two neighbouring blocks are both in X.
Apart(sz, X) == \A c \in X : c + sz[c] \notin X

MergedInto(r, m, brk, tail, sz, A, F, X, b, e, sz2) ==
  /\ r = S(r.mem, brk, tail, b)
  /\ Heap(r.mem, brk, sz2, A, DOMAIN sz2 \ A)
  /\ Holds(m, sz, r.mem, sz2, A)
  /\ b \in DOMAIN sz2 \ A /\ sz2[b] = e - b
  /\ (e \notin F /\ (\A c \in F : c + sz[c] # b) /\ Apart(sz, F \ X)) => Apart(sz2, DOMAIN sz2 \ A)

\* FreeBlock makes one free block of the blocks of X, the unlisted free blocks from b to e.
LEMMA Merged ==
  ASSUME NEW m0, NEW m, NEW brk, NEW tail, NEW bp, NEW sz, NEW A, NEW F, NEW X,
         F = DOMAIN sz \ A, Heap(m, brk, sz, A, F \ X), X \subseteq F,
         NEW b \in X, NEW e \in DOMAIN sz \union {brk}, b < e,
         \A c \in DOMAIN sz : c \in X <=> b <= c /\ c < e
  PROVE  LET r == FreeBlock(S(m0, brk, tail, bp), m, b, e - b)
         IN  \E sz2 : MergedInto(r, m, brk, tail, sz, A, F, X, b, e, sz2)
<1> DEFINE h == PutTags(m, b, e - b, 0)
           q == insert(h, b)
           sz2 == Replaced(sz, b, e, e)
           U == F \ X
<1>1. /\ Placed(sz, brk) /\ A \subseteq DOMAIN sz /\ b \in DOMAIN sz /\ b \in Nat /\ e \in Nat
  <2>1. Placed(sz, brk) /\ A \subseteq DOMAIN sz
    BY BlockWords DEF Heap
  <2>. QED
    BY <2>1
<1>2. Beside(A, b, e) = A /\ \A c \in U : c < b \/ c >= e
  <2>1. \A c \in DOMAIN sz : c \in Nat
    BY <1>1
  <2>2. \A c \in DOMAIN sz : c \notin X => c < b \/ c >= e
    BY <2>1, <1>1
  <2>3. \A c \in A : c < b \/ c >= e
    BY <2>2, <1>1
  <2>. QED
    BY <2>2, <2>3 DEF Beside
<1>3. /\ b \in DOMAIN sz2 /\ sz2[b] = e - b
      /\ \A c \in DOMAIN sz : c < b \/ c >= e => c \in DOMAIN sz2 /\ sz2[c] = sz[c]
      /\ \A c \in DOMAIN sz2 : c = b \/ (c \in DOMAIN sz /\ (c < b \/ c >= e))
  BY <1>1 DEF Replaced
<1>4. /\ Heap(h, brk, sz2, Marked(A, b, e, 0), U)
      /\ Holds(m, sz, h, sz2, Beside(A, b, e))
  BY <1>1, <1>2, Joined
<1>5. Heap(h, brk, sz2, A, U) /\ Holds(m, sz, h, sz2, A)
  <2>1. Marked(A, b, e, 0) = A
    BY <1>2 DEF Marked
  <2>. QED
    BY <2>1, <1>2, <1>4
<1> HIDE DEF h
<1>6. Heap(q, brk, sz2, A, U \union {b}) /\ Holds(h, sz2, q, sz2, A)
  BY <1>3, <1>5, HeapInsert
<1>7. Holds(m, sz, q, sz2, A)
  BY <1>5, <1>6, HoldsSteps
<1> HIDE DEF q, sz2
<1>8. U \union {b} = DOMAIN sz2 \ A
  <2>1. ASSUME NEW c \in DOMAIN sz2 \ A PROVE c \in U \union {b}
    BY <1>3, <1>1
  <2>2. ASSUME NEW c \in U PROVE c \in DOMAIN sz2 \ A
    BY <1>2, <1>3
  <2>. QED
    BY <2>1, <2>2, <1>3
<1>9. ASSUME e \notin F, \A c \in F : c + sz[c] # b, Apart(sz, U),
             NEW c \in DOMAIN sz2 \ A
      PROVE  c + sz2[c] \notin DOMAIN sz2 \ A
  <2>1. CASE c = b
    <3>1. c + sz2[c] = e
      BY <2>1, <1>1, <1>3
    <3>. QED
      BY <3>1, <1>1, <1>3, <1>9
  <2>2. CASE c # b
    <3>1. c \in U /\ sz2[c] = sz[c] /\ c + sz[c] # b
      BY <2>2, <1>3, <1>8, <1>9
    <3>2. c + sz[c] \notin U
      BY <3>1, <1>9 DEF Apart
    <3>. QED
      BY <3>1, <3>2, <1>8
  <2>. QED
    BY <2>1, <2>2
<1>10. FreeBlock(S(m0, brk, tail, bp), m, b, e - b) = S(q, brk, tail, b)
  BY WithS DEF FreeBlock, q, h
<1>11. (e \notin F /\ (\A c \in F : c + sz[c] # b) /\ Apart(sz, F \ X)) => Apart(sz2, DOMAIN sz2 \ A)
  BY <1>9 DEF Apart
<1>12. MergedInto(S(q, brk, tail, b), m, brk, tail, sz, A, F, X, b, e, sz2)
  <2>1. S(q, brk, tail, b).mem = q /\ b \notin A
    BY WithS
  <2>. QED
    BY <2>1, <1>3, <1>6, <1>7, <1>8, <1>11 DEF MergedInto
<1>. QED
  BY <1>10, <1>12

\* The footer of a block has its size.
LEMMA FooterSize ==
  ASSUME NEW m, NEW brk, NEW sz, NEW A, NEW U, Heap(m, brk, sz, A, U), NEW c \in DOMAIN sz
  PROVE  GET_SIZE(m, FTRP(m, c)) = sz[c]
<1>1. Geometry(sz, brk) /\ Tags(m, brk, sz, A) /\ Placed(sz, brk)
  BY BlockWords DEF Heap
<1>2. GET_SIZE(m, c - 4) = sz[c]
  BY <1>1, SizeRead
<1>3. FTRP(m, c) = c + sz[c] - 8
  BY <1>2 DEF FTRP
<1>4. m[c + sz[c] - 8] = sz[c] + Bit(c, A)
  BY <1>1 DEF Tags
<1>5. m[FTRP(m, c)] = sz[c] + Bit(c, A)
  BY <1>3, <1>4, Zenon
<1>6. sz[c] \in Nat /\ sz[c] % 8 = 0 /\ Bit(c, A) \in {0, 1}
  BY <1>1 DEF Bit
<1>. QED
  BY <1>5, <1>6, Unpacked DEF GET_SIZE

\* State r came from memory m by putting the free block b, which no list has, into its list,
\* joined with the free blocks beside it.
CoalescedTo(r, m, brk, tail, sz, A, b, sz2) ==
  /\ r = S(r.mem, brk, tail, r.bp)
  /\ Heap(r.mem, brk, sz2, A, DOMAIN sz2 \ A)
  /\ Holds(m, sz, r.mem, sz2, A)
  /\ r.bp \in DOMAIN sz2 \ A /\ r.bp <= b /\ b + sz[b] <= r.bp + sz2[r.bp]
  /\ Apart(sz, (DOMAIN sz \ A) \ {b}) => Apart(sz2, DOMAIN sz2 \ A)

\* coalesce, in each of its four cases.
LEMMA Coalesced ==
  ASSUME NEW m, NEW brk, NEW tail, NEW bp, NEW sz, NEW A, NEW b \in DOMAIN sz \ A,
         Heap(m, brk, sz, A, (DOMAIN sz \ A) \ {b})
  PROVE  \E sz2 : CoalescedTo(coalesce(S(m, brk, tail, bp), b), m, brk, tail, sz, A, b, sz2)
<1> DEFINE F == DOMAIN sz \ A
           r == coalesce(S(m, brk, tail, bp), b)
           n == b + sz[b]
           prevFree == \E c \in F : c + sz[c] = b
           nextFree == n \in F
<1>1. Placed(sz, brk) /\ A \subseteq DOMAIN sz /\ Geometry(sz, brk)
  BY BlockWords DEF Heap
<1>2. /\ GET_SIZE(m, b - 4) = sz[b] /\ NEXT_BLKP(m, b) = n
      /\ GET_ALLOC(m, n - 4) = 0 <=> nextFree
      /\ n \in DOMAIN sz => GET_SIZE(m, n - 4) = sz[n]
      /\ \A c \in DOMAIN sz : c + sz[c] = b => PREV_BLKP(m, b) = c /\ GET_SIZE(m, c - 4) = sz[c]
      /\ GET_ALLOC(m, FTRP(m, PREV_BLKP(m, b))) = 0 <=> prevFree
  BY Neighbours
<1>3. /\ ~prevFree /\ ~nextFree => r = With(S(m, brk, tail, bp), insert(m, b), b)
      /\ ~prevFree /\ nextFree =>
           r = FreeBlock(S(m, brk, tail, bp), delete(m, n), b, sz[b] + GET_SIZE(m, n - 4))
      /\ prevFree /\ ~nextFree =>
           r = FreeBlock(S(m, brk, tail, bp), delete(m, PREV_BLKP(m, b)), PREV_BLKP(m, b),
                         sz[b] + GET_SIZE(m, FTRP(m, PREV_BLKP(m, b))))
      /\ prevFree /\ nextFree =>
           r = FreeBlock(S(m, brk, tail, bp), delete(delete(m, n), PREV_BLKP(m, b)), PREV_BLKP(m, b),
                         sz[b] + GET_SIZE(m, PREV_BLKP(m, b) - 4) + GET_SIZE(m, FTRP(m, n)))
  <2> HIDE DEF prevFree, nextFree, n
  <2>. QED
    BY <1>2 DEF coalesce, S
<1> HIDE DEF r
<1>30. \A c \in DOMAIN sz : GET_SIZE(m, FTRP(m, c)) = sz[c]
  BY FooterSize
<1>40. F \subseteq DOMAIN sz /\ F = DOMAIN sz \ A
  OBVIOUS
<1>4. b \in DOMAIN sz /\ b \in Nat /\ sz[b] \in Nat /\ n \in Nat /\ b < n /\ n \in DOMAIN sz \union {brk}
  BY <1>1 DEF Geometry
<1>5. \A c \in F : c # b /\ c + sz[c] # b => c + sz[c] \notin F \/ ~Apart(sz, F \ {b})
  BY DEF Apart
<1>6. CASE ~prevFree /\ ~nextFree
  <2>1. r = S(insert(m, b), brk, tail, b)
    BY <1>3, <1>6, WithS
  <2>2. /\ Heap(insert(m, b), brk, sz, A, (F \ {b}) \union {b})
        /\ Holds(m, sz, insert(m, b), sz, A)
    BY HeapInsert
  <2>3. (F \ {b}) \union {b} = F
    OBVIOUS
  <2>4. Apart(sz, F \ {b}) => Apart(sz, F)
    BY <1>5, <1>6 DEF Apart
  <2>5. CoalescedTo(r, m, brk, tail, sz, A, b, sz)
    <3>1. r.mem = insert(m, b) /\ r.bp = b
      BY <2>1, WithS
    <3>2. Heap(r.mem, brk, sz, A, F) /\ Holds(m, sz, r.mem, sz, A)
      BY <3>1, <2>2, <2>3
    <3>3. r.bp \in F /\ r.bp <= b /\ b + sz[b] <= r.bp + sz[r.bp] /\ r = S(r.mem, brk, tail, r.bp)
      BY <3>1, <2>1, <1>4
    <3>. QED
      BY <3>2, <3>3, <2>4 DEF CoalescedTo
  <2>. QED
    BY <2>5 DEF r
<1>7. CASE ~prevFree /\ nextFree
  <2> DEFINE e == n + sz[n]
             X == {b, n}
  <2>1. n \in DOMAIN sz /\ n \in F /\ sz[n] \in Nat /\ n < e
        /\ e \in DOMAIN sz \union {brk} /\ sz[b] + sz[n] = e - b
    BY <1>1, <1>4, <1>7 DEF Geometry
  <2>2. \A c \in DOMAIN sz : c \in X <=> b <= c /\ c < e
    BY <1>1, <1>4, <2>1
  <2>3. Heap(delete(m, n), brk, sz, A, (F \ {b}) \ {n}) /\ Holds(m, sz, delete(m, n), sz, A)
    BY <2>1, <1>4, HeapDelete
  <2>4. (F \ {b}) \ {n} = F \ X /\ X \subseteq F /\ b \in X
    BY <2>1
  <2> DEFINE q == FreeBlock(S(m, brk, tail, bp), delete(m, n), b, e - b)
  <2>5. r = q
    BY <2>1, <1>2, <1>3, <1>7
  <2> HIDE DEF X, e
  <2>60. \E z : MergedInto(q, delete(m, n), brk, tail, sz, A, F, X, b, e, z)
    <3>1. b < e
      BY <2>1, <1>4 DEF e
    <3>2. Heap(delete(m, n), brk, sz, A, F \ X)
      BY <2>3, <2>4
    <3> HIDE DEF F
    <3>3. X \subseteq F /\ b \in X
      BY <2>4
    <3>. QED
      BY <2>1, <2>2, <3>1, <3>2, <3>3, <1>40, Merged
  <2> PICK sz2 : MergedInto(q, delete(m, n), brk, tail, sz, A, F, X, b, e, sz2)
    BY <2>60
  <2>6. /\ q = S(q.mem, brk, tail, b)
        /\ Heap(q.mem, brk, sz2, A, DOMAIN sz2 \ A)
        /\ Holds(delete(m, n), sz, q.mem, sz2, A)
        /\ b \in DOMAIN sz2 \ A /\ sz2[b] = e - b
        /\ (e \notin F /\ (\A c \in F : c + sz[c] # b) /\ Apart(sz, F \ X)) => Apart(sz2, DOMAIN sz2 \ A)
    BY DEF MergedInto
  <2> HIDE DEF q
  <2>7. Holds(m, sz, q.mem, sz2, A)
    BY <2>3, <2>6, HoldsSteps
  <2>8. Apart(sz, F \ {b}) => Apart(sz2, DOMAIN sz2 \ A)
    <3>1. Apart(sz, F \ {b}) => e \notin F
      BY <2>1, <1>4 DEF Apart, e
    <3>2. Apart(sz, F \ {b}) => Apart(sz, F \ X)
      BY DEF Apart, X
    <3>. QED
      BY <3>1, <3>2, <2>6, <1>7
  <2>9. q.bp = b /\ b + sz[b] <= b + sz2[b]
    BY <2>1, <2>6, <1>4, WithS DEF e
  <2>10. CoalescedTo(r, m, brk, tail, sz, A, b, sz2)
    BY <2>5, <2>6, <2>7, <2>8, <2>9, <1>4, WithS DEF CoalescedTo
  <2>. QED
    BY <2>10 DEF r
<1>8. CASE prevFree /\ ~nextFree
  <2> PICK p \in F : p + sz[p] = b
    BY <1>8
  <2> DEFINE X == {p, b}
  <2>1. p \in DOMAIN sz /\ p \in Nat /\ sz[p] \in Nat /\ p < b /\ p < n /\ sz[b] + sz[p] = n - p /\ p # b
    BY <1>1, <1>4
  <2>2. \A c \in DOMAIN sz : c \in X <=> p <= c /\ c < n
    BY <1>1, <1>4, <2>1
  <2>3. Heap(delete(m, p), brk, sz, A, (F \ {b}) \ {p}) /\ Holds(m, sz, delete(m, p), sz, A)
    <3>1. p \in F \ {b}
      BY <2>1
    <3>. QED
      BY <3>1, HeapDelete
  <2>4. (F \ {b}) \ {p} = F \ X /\ X \subseteq F /\ p \in X
    BY <2>1
  <2> DEFINE q == FreeBlock(S(m, brk, tail, bp), delete(m, p), p, n - p)
  <2>5. r = q
    BY <2>1, <1>2, <1>3, <1>8, <1>30
  <2> HIDE DEF X, n
  <2>60. \E z : MergedInto(q, delete(m, p), brk, tail, sz, A, F, X, p, n, z)
    <3>2. Heap(delete(m, p), brk, sz, A, F \ X)
      BY <2>3, <2>4
    <3> HIDE DEF F
    <3>3. X \subseteq F /\ p \in X
      BY <2>4
    <3>. QED
      BY <2>1, <2>2, <1>4, <3>2, <3>3, <1>40, Merged
  <2> PICK sz2 : MergedInto(q, delete(m, p), brk, tail, sz, A, F, X, p, n, sz2)
    BY <2>60
  <2>6. /\ q = S(q.mem, brk, tail, p)
        /\ Heap(q.mem, brk, sz2, A, DOMAIN sz2 \ A)
        /\ Holds(delete(m, p), sz, q.mem, sz2, A)
        /\ p \in DOMAIN sz2 \ A /\ sz2[p] = n - p
        /\ (n \notin F /\ (\A c \in F : c + sz[c] # p) /\ Apart(sz, F \ X)) => Apart(sz2, DOMAIN sz2 \ A)
    BY DEF MergedInto
  <2> HIDE DEF q
  <2>7. Holds(m, sz, q.mem, sz2, A)
    BY <2>3, <2>6, HoldsSteps
  <2>8. Apart(sz, F \ {b}) => Apart(sz2, DOMAIN sz2 \ A)
    <3>1. Apart(sz, F \ {b}) => \A c \in F : c + sz[c] # p
      <4>1. b + sz[b] # p
        BY <2>1, <1>4
      <4>. QED
        BY <4>1, <2>1 DEF Apart
    <3>2. Apart(sz, F \ {b}) => Apart(sz, F \ X)
      BY DEF Apart, X
    <3>. QED
      BY <3>1, <3>2, <2>6, <1>8
  <2>9. q.bp = p /\ b + sz[b] <= p + sz2[p]
    BY <2>1, <2>6, <1>4, WithS DEF n
  <2>10. CoalescedTo(r, m, brk, tail, sz, A, b, sz2)
    BY <2>1, <2>5, <2>6, <2>7, <2>8, <2>9, <1>4, WithS DEF CoalescedTo
  <2>. QED
    BY <2>10 DEF r
<1>9. CASE prevFree /\ nextFree
  <2> PICK p \in F : p + sz[p] = b
    BY <1>9
  <2> DEFINE e == n + sz[n]
             X == {p, b, n}
  <2>1. /\ p \in DOMAIN sz /\ p \in Nat /\ sz[p] \in Nat /\ p < b
        /\ n \in DOMAIN sz /\ n \in F /\ sz[n] \in Nat /\ n < e /\ e \in DOMAIN sz \union {brk}
    BY <1>1, <1>4, <1>9 DEF Geometry
  <2>2. \A c \in DOMAIN sz : c \in X <=> p <= c /\ c < e
    <3>1. ASSUME NEW c \in DOMAIN sz PROVE c \in X <=> p <= c /\ c < e
      <4>1. (p < c => b <= c) /\ (b < c => n <= c) /\ (n < c => e <= c) /\ c \in Nat
        BY <1>1, <1>4, <2>1
      <4>. QED
        BY <4>1, <1>4, <2>1
    <3>. QED
      BY <3>1
  <2>3. Heap(delete(m, n), brk, sz, A, (F \ {b}) \ {n}) /\ Holds(m, sz, delete(m, n), sz, A)
    BY <2>1, <1>4, HeapDelete
  <2>30. /\ Heap(delete(delete(m, n), p), brk, sz, A, ((F \ {b}) \ {n}) \ {p})
         /\ Holds(delete(m, n), sz, delete(delete(m, n), p), sz, A)
    <3>1. p \in (F \ {b}) \ {n}
      BY <1>4, <2>1
    <3>. QED
      BY <3>1, <2>3, HeapDelete
  <2>4. ((F \ {b}) \ {n}) \ {p} = F \ X /\ X \subseteq F /\ p \in X
    BY <2>1
  <2> DEFINE m2 == delete(delete(m, n), p)
             q == FreeBlock(S(m, brk, tail, bp), m2, p, e - p)
  <2>5. r = q
    <3>1. sz[b] + sz[p] + sz[n] = e - p
      BY <2>1, <1>4
    <3>. QED
      BY <3>1, <2>1, <1>2, <1>3, <1>9, <1>30
  <2> HIDE DEF X, e
  <2>60. \E z : MergedInto(q, m2, brk, tail, sz, A, F, X, p, e, z)
    <3>1. p < e
      BY <2>1, <1>4 DEF e
    <3>2. Heap(m2, brk, sz, A, F \ X)
      BY <2>30, <2>4
    <3> HIDE DEF F, m2
    <3>3. X \subseteq F /\ p \in X
      BY <2>4
    <3>. QED
      BY <2>1, <2>2, <3>1, <3>2, <3>3, <1>40, Merged
  <2> PICK sz2 : MergedInto(q, m2, brk, tail, sz, A, F, X, p, e, sz2)
    BY <2>60
  <2>6. /\ q = S(q.mem, brk, tail, p)
        /\ Heap(q.mem, brk, sz2, A, DOMAIN sz2 \ A)
        /\ Holds(m2, sz, q.mem, sz2, A)
        /\ p \in DOMAIN sz2 \ A /\ sz2[p] = e - p
        /\ (e \notin F /\ (\A c \in F : c + sz[c] # p) /\ Apart(sz, F \ X)) => Apart(sz2, DOMAIN sz2 \ A)
    BY DEF MergedInto
  <2> HIDE DEF q, m2
  <2>7. Holds(m, sz, q.mem, sz2, A)
    BY <2>3, <2>30, <2>6, HoldsSteps DEF m2
  <2>8. Apart(sz, F \ {b}) => Apart(sz2, DOMAIN sz2 \ A)
    <3>1. Apart(sz, F \ {b}) => \A c \in F : c + sz[c] # p
      <4>1. b + sz[b] # p
        BY <2>1, <1>4
      <4>. QED
        BY <4>1, <2>1 DEF Apart
    <3>2. Apart(sz, F \ {b}) => Apart(sz, F \ X)
      BY DEF Apart, X
    <3>3. Apart(sz, F \ {b}) => e \notin F
      BY <2>1, <1>4 DEF Apart, e
    <3>. QED
      BY <3>1, <3>2, <3>3, <2>6
  <2>9. q.bp = p /\ b + sz[b] <= p + sz2[p]
    BY <2>1, <2>6, <1>4, WithS DEF e
  <2>10. CoalescedTo(r, m, brk, tail, sz, A, b, sz2)
    BY <2>1, <2>5, <2>6, <2>7, <2>8, <2>9, <1>4, WithS DEF CoalescedTo
  <2>. QED
    BY <2>10 DEF r
<1>. QED
  BY <1>6, <1>7, <1>8, <1>9 DEF r

-----------------------------------------------------------------------------
(* Walks through the heap. *)

\* The equation of the function that Blocks defines, and a solution: the blocks in the smallest
\* set of addresses that has bp and with a block the address after it.
WalkEquation(m, brk, f) ==
  f = [bp \in Addresses |-> IF IsBlock(m, bp, brk) THEN {bp} \union f[NEXT_BLKP(m, bp)] ELSE {}]
Onward(m, brk, T) == \A x \in T : IsBlock(m, x, brk) => NEXT_BLKP(m, x) \in T
Reach(m, brk, bp) == {c \in Addresses : \A T \in SUBSET Addresses : Onward(m, brk, T) /\ bp \in T => c \in T}
Walk(m, brk) == [bp \in Addresses |-> {c \in Reach(m, brk, bp) : IsBlock(m, c, brk)}]

\* The function that Blocks defines by recursion exists: every block reaches the blocks after it.
LEMMA WalkExists == \A m, brk : WalkEquation(m, brk, Walk(m, brk))
<1> TAKE m, brk
<1> DEFINE R(bp) == Reach(m, brk, bp)
           N(bp) == NEXT_BLKP(m, bp)
           Is(bp) == IsBlock(m, bp, brk)
<1>1. ASSUME NEW bp \in Addresses
      PROVE  R(bp) \subseteq Addresses /\ bp \in R(bp) /\ Onward(m, brk, R(bp))
  BY DEF Reach, Onward, IsBlock
<1>2. ASSUME NEW bp \in Addresses, NEW T \in SUBSET Addresses, Onward(m, brk, T), bp \in T
      PROVE  R(bp) \subseteq T
  BY <1>2 DEF Reach
<1>3. ASSUME NEW bp \in Addresses, Is(bp) PROVE R(bp) = {bp} \union R(N(bp))
  <2>1. N(bp) \in Addresses
    BY <1>3 DEF IsBlock
  <2>2. Onward(m, brk, {bp} \union R(N(bp)))
    BY <2>1, <1>1 DEF Onward
  <2>3. R(bp) \subseteq {bp} \union R(N(bp))
    BY <2>1, <2>2, <1>1, <1>2
  <2>4. N(bp) \in R(bp)
    BY <1>1, <1>3 DEF Onward
  <2>5. R(N(bp)) \subseteq R(bp)
    BY <2>1, <2>4, <1>1, <1>2
  <2>. QED
    BY <2>3, <2>5, <1>1
<1>4. ASSUME NEW bp \in Addresses, ~Is(bp) PROVE R(bp) \subseteq {bp}
  <2>1. Onward(m, brk, {bp})
    BY <1>4 DEF Onward
  <2>. QED
    BY <2>1, <1>2
<1> DEFINE f == Walk(m, brk)
<1>5. \A bp \in Addresses : f[bp] = {c \in R(bp) : Is(c)}
  BY DEF Walk
<1>6. ASSUME NEW bp \in Addresses
      PROVE  f[bp] = IF Is(bp) THEN {bp} \union f[N(bp)] ELSE {}
  <2>1. CASE Is(bp)
    <3>1. N(bp) \in Addresses
      BY <2>1 DEF IsBlock
    <3>2. f[bp] = {c \in R(bp) : Is(c)} /\ f[N(bp)] = {c \in R(N(bp)) : Is(c)}
      BY <3>1, <1>5
    <3> HIDE DEF f, Is, N, R
    <3>. QED
      BY <3>2, <2>1, <1>3
  <2>2. CASE ~Is(bp)
    <3> HIDE DEF f, Is, N, R
    <3>. QED
      BY <2>2, <1>4, <1>5
  <2>. QED
    BY <2>1, <2>2
<1>7. f = [bp \in Addresses |-> f[bp]]
  BY DEF Walk
<1>. QED
  BY <1>6, <1>7 DEF WalkEquation

\* So Blocks is a value of a function that satisfies the equation.
LEMMA BlocksWalk ==
  ASSUME NEW m, NEW brk
  PROVE  \E f : WalkEquation(m, brk, f) /\ Blocks(m, brk) = f[FirstBlock]
<1>1. WalkEquation(m, brk, CHOOSE f : WalkEquation(m, brk, f))
  BY WalkExists
<1>2. Blocks(m, brk) = (CHOOSE f : WalkEquation(m, brk, f))[FirstBlock]
  BY DEF Blocks, WalkEquation
<1>. QED
  BY <1>1, <1>2

\* Blocks finds the blocks.
LEMMA BlocksFound ==
  ASSUME NEW m, NEW brk, NEW sz, NEW A, Geometry(sz, brk), Tags(m, brk, sz, A)
  PROVE  Blocks(m, brk) = DOMAIN sz
<1>1. PICK f : WalkEquation(m, brk, f) /\ Blocks(m, brk) = f[160]
  BY BlocksWalk
<1>2. Placed(sz, brk)
  BY BlockWords
<1>3. \A bp \in Addresses : f[bp] = IF IsBlock(m, bp, brk) THEN {bp} \union f[NEXT_BLKP(m, bp)] ELSE {}
  BY <1>1 DEF WalkEquation
<1>4. \A b \in DOMAIN sz : NEXT_BLKP(m, b) = b + sz[b]
  BY SizeRead DEF NEXT_BLKP
<1>5. DOMAIN sz \subseteq Addresses /\ brk \in Addresses /\ 160 \in DOMAIN sz \union {brk}
  BY DEF Geometry
<1>6. \A b \in DOMAIN sz : b + sz[b] \in DOMAIN sz \union {brk}
  BY DEF Geometry
<1>7. f[brk] = {}
  <2>1. ~IsBlock(m, brk, brk)
    BY <1>2, AddressNumbers DEF IsBlock
  <2>. QED
    BY <2>1, <1>3, <1>5
<1>8. ASSUME NEW b \in DOMAIN sz PROVE f[b] = {b} \union f[b + sz[b]]
  <2>1. IsBlock(m, b, brk)
    BY <1>2, <1>4, <1>5, <1>6 DEF IsBlock
  <2>. QED
    BY <2>1, <1>3, <1>4, <1>5
<1> DEFINE From(b) == {c \in DOMAIN sz : c >= b}
           Bad == {n \in Nat : \E b \in DOMAIN sz \union {brk} : n = brk - b /\ f[b] # From(b)}
<1>9. ASSUME Bad # {} PROVE FALSE
  <2>1. PICK n \in Bad : \A k \in Bad : n <= k
    BY <1>9, LeastNumber
  <2>2. PICK b \in DOMAIN sz \union {brk} : n = brk - b /\ f[b] # From(b)
    BY <2>1
  <2>3. b # brk
    BY <2>2, <1>2, <1>7
  <2>4. b \in DOMAIN sz /\ b + sz[b] \in DOMAIN sz \union {brk}
    BY <2>3, <1>6
  <2>5. brk - (b + sz[b]) \in Nat /\ brk - (b + sz[b]) < n
    BY <2>2, <2>4, <1>2
  <2>6. f[b + sz[b]] = From(b + sz[b])
    BY <2>1, <2>4, <2>5
  <2>7. \A c \in DOMAIN sz : c >= b <=> c = b \/ c >= b + sz[b]
    BY <2>4, <1>2
  <2>8. From(b) = {b} \union From(b + sz[b])
    BY <2>4, <2>7
  <2>. QED
    BY <2>2, <2>4, <2>6, <2>8, <1>8
<1>10. \A b \in DOMAIN sz \union {brk} : f[b] = From(b)
  <2>1. \A b \in DOMAIN sz \union {brk} : brk - b \in Nat
    BY <1>2
  <2>. QED
    BY <2>1, <1>9
<1>11. From(160) = DOMAIN sz
  BY <1>2
<1>. QED
  BY <1>1, <1>5, <1>10, <1>11

\* The equation of the function that List defines, up to its n-th value; it has a solution.
ListEquation(m, num, n, f) ==
  f = [k \in 1..n |-> IF k = 1 THEN GET_PTR(m, HEAD(num))
                      ELSE IF f[k - 1] = 0 THEN 0 ELSE GET_PTR(m, SUCP(f[k - 1]))]

\* By induction on n, the function that List defines exists.
LEMMA ListExists == \A m, num : \A n \in Nat : \E f : ListEquation(m, num, n, f)
<1> TAKE m, num
<1> DEFINE Ok(n) == \E f : ListEquation(m, num, n, f)
           Bad == {n \in Nat : ~Ok(n)}
<1>1. Ok(0)
  <2>1. ListEquation(m, num, 0, [k \in {} |-> 0])
    <3>1. 1..0 = {}
      OBVIOUS
    <3>. QED
      BY <3>1 DEF ListEquation
  <2>. QED
    BY <2>1
<1>2. ASSUME NEW n \in Nat, Ok(n) PROVE Ok(n + 1)
  <2>1. PICK f : ListEquation(m, num, n, f)
    BY <1>2
  <2> DEFINE Step(k, g) == IF k = 1 THEN GET_PTR(m, HEAD(num))
                           ELSE IF g[k - 1] = 0 THEN 0 ELSE GET_PTR(m, SUCP(g[k - 1]))
             g == [k \in 1..n + 1 |-> Step(k, f)]
  <2>2. \A k \in 1..n : f[k] = Step(k, f) /\ g[k] = Step(k, f)
    BY <2>1 DEF ListEquation
  <2>3. \A k \in 1..n + 1 : k = 1 \/ k - 1 \in 1..n
    OBVIOUS
  <2>4. \A k \in 1..n + 1 : Step(k, f) = Step(k, g)
    BY <2>2, <2>3
  <2>5. g = [k \in 1..n + 1 |-> Step(k, g)]
    <3>1. g = [k \in 1..n + 1 |-> g[k]]
      OBVIOUS
    <3>2. \A k \in 1..n + 1 : g[k] = Step(k, f)
      OBVIOUS
    <3> HIDE DEF g, Step
    <3>. QED
      BY <3>1, <3>2, <2>4
  <2>6. ListEquation(m, num, n + 1, g)
    <3> HIDE DEF g
    <3>. QED
      BY <2>5, Zenon DEF ListEquation
  <2>. QED
    BY <2>6
<1>3. ASSUME Bad # {} PROVE FALSE
  <2>1. PICK n \in Bad : \A k \in Bad : n <= k
    BY <1>3, LeastNumber
  <2>2. n # 0
    BY <2>1, <1>1
  <2>3. n - 1 \in Nat /\ n = (n - 1) + 1 /\ ~(n <= n - 1)
    BY <2>2
  <2>4. Ok(n - 1)
    BY <2>1, <2>3
  <2>. QED
    BY <2>1, <2>3, <2>4, <1>2
<1>. QED
  BY <1>3

\* So List satisfies its equation; a heap has no more than MaxBlocks blocks.
LEMMA ListWalk ==
  ASSUME NEW m, NEW num
  PROVE  /\ MaxBlocks \in Nat /\ MaxBlocks >= 1 /\ 32 * MaxBlocks <= MAX_HEAP /\ MAX_HEAP < 32 * MaxBlocks + 32
         /\ DOMAIN List(m, num) = 1..MaxBlocks
         /\ List(m, num)[1] = m[HEAD(num)]
         /\ \A k \in 1..MaxBlocks : k + 1 <= MaxBlocks =>
              List(m, num)[k + 1] = IF List(m, num)[k] = 0 THEN 0 ELSE m[List(m, num)[k] + 8]
<1>1. MaxBlocks \in Nat /\ MaxBlocks >= 1 /\ 32 * MaxBlocks <= MAX_HEAP /\ MAX_HEAP < 32 * MaxBlocks + 32
  BY HeapAssumption DEF MaxBlocks
<1>2. ListEquation(m, num, MaxBlocks, CHOOSE f : ListEquation(m, num, MaxBlocks, f))
  BY <1>1, ListExists
<1>3. List(m, num) = CHOOSE f : ListEquation(m, num, MaxBlocks, f)
  BY Zenon DEF List, ListEquation
<1> DEFINE f == List(m, num)
<1>4. f = [k \in 1..MaxBlocks |-> IF k = 1 THEN m[HEAD(num)] ELSE IF f[k - 1] = 0 THEN 0 ELSE m[f[k - 1] + 8]]
  BY <1>2, <1>3 DEF ListEquation, GET_PTR
<1> HIDE DEF f
<1>5. \A k \in 1..MaxBlocks : f[k] = IF k = 1 THEN m[HEAD(num)] ELSE IF f[k - 1] = 0 THEN 0 ELSE m[f[k - 1] + 8]
  BY <1>4
<1>6. DOMAIN f = 1..MaxBlocks
  BY <1>4
<1>7. ASSUME NEW k \in 1..MaxBlocks, k + 1 <= MaxBlocks
      PROVE f[k + 1] = IF f[k] = 0 THEN 0 ELSE m[f[k] + 8]
  <2>1. k + 1 \in 1..MaxBlocks /\ k + 1 # 1 /\ (k + 1) - 1 = k
    BY <1>1, <1>7
  <2>. QED
    BY <2>1, <1>5
<1>8. f[1] = m[HEAD(num)]
  BY <1>1, <1>5
<1>. QED
  BY <1>1, <1>6, <1>7, <1>8 DEF f

\* The nodes of list num are the blocks of its size class in U.
LEMMA ListFound ==
  ASSUME NEW m, NEW brk, NEW sz, NEW U, NEW rk, Geometry(sz, brk), U \subseteq DOMAIN sz,
         Lists(m, sz, U, rk), NEW num \in 0..16
  PROVE  /\ \A k \in 1..MaxBlocks :
              List(m, num)[k] = 0 \/ (List(m, num)[k] \in U /\ search(sz[List(m, num)[k]]) = num)
         /\ \A b \in U : search(sz[b]) = num => \E k \in 1..MaxBlocks : List(m, num)[k] = b
<1> DEFINE f == List(m, num)
           In(b) == b \in U /\ search(sz[b]) = num
<1>1. Placed(sz, brk)
  BY BlockWords
<1>2. /\ MaxBlocks \in Nat /\ MaxBlocks >= 1 /\ 32 * MaxBlocks <= MAX_HEAP /\ MAX_HEAP < 32 * MaxBlocks + 32
      /\ f[1] = m[HEAD(num)]
      /\ \A k \in 1..MaxBlocks : k + 1 <= MaxBlocks => f[k + 1] = IF f[k] = 0 THEN 0 ELSE m[f[k] + 8]
  BY ListWalk
<1> HIDE DEF f
<1>3. f[1] = 0 \/ In(f[1])
  BY <1>2 DEF Lists
<1>4. \A b : In(b) => /\ m[b] = 0 => m[HEAD(num)] = b
                      /\ m[b] # 0 => In(m[b]) /\ m[m[b] + 8] = b
                      /\ m[b + 8] # 0 => In(m[b + 8]) /\ m[m[b + 8]] = b /\ rk[b] < rk[m[b + 8]]
                      /\ rk[b] \in Nat /\ b # 0 /\ b \in DOMAIN sz
  BY <1>1 DEF Lists
<1> HIDE DEF In
<1>5. ASSUME NEW k \in 1..MaxBlocks, k + 1 <= MaxBlocks, f[k] = 0 \/ In(f[k])
      PROVE  /\ f[k + 1] = 0 \/ In(f[k + 1])
             /\ f[k + 1] # 0 => f[k] # 0 /\ rk[f[k]] < rk[f[k + 1]]
  BY <1>2, <1>4, <1>5
<1>6. ASSUME NEW k \in 1..MaxBlocks, ~(f[k] = 0 \/ In(f[k])) PROVE FALSE
  <2> DEFINE Bad == {j \in Nat : j \in 1..MaxBlocks /\ ~(f[j] = 0 \/ In(f[j]))}
  <2>1. Bad \subseteq Nat /\ Bad # {}
    BY <1>6
  <2>2. PICK j \in Bad : \A i \in Bad : j <= i
    BY <2>1, LeastNumber
  <2>3. j # 1 /\ j \in 1..MaxBlocks
    BY <2>2, <1>3
  <2>4. j - 1 \in 1..MaxBlocks /\ (j - 1) + 1 = j /\ ~(j <= j - 1)
    BY <2>3, <1>2
  <2>5. f[j - 1] = 0 \/ In(f[j - 1])
    BY <2>2, <2>4
  <2>6. f[(j - 1) + 1] = 0 \/ In(f[(j - 1) + 1])
    BY <2>3, <2>4, <2>5, <1>2, <1>5
  <2>. QED
    BY <2>2, <2>4, <2>6
<1>7. \A k \in 1..MaxBlocks : f[k] = 0 \/ In(f[k])
  BY <1>6
<1>8. ASSUME NEW i \in 1..MaxBlocks, NEW k \in 1..MaxBlocks, i < k, f[k] # 0
      PROVE  f[i] # 0 /\ rk[f[i]] < rk[f[k]]
  <2> DEFINE Bad == {j \in Nat : j \in 1..MaxBlocks /\ i < j /\ f[j] # 0 /\ ~(f[i] # 0 /\ rk[f[i]] < rk[f[j]])}
  <2>1. ASSUME Bad # {} PROVE FALSE
    <3>1. PICK j \in Bad : \A j2 \in Bad : j <= j2
      BY <2>1, LeastNumber
    <3>2. j \in 1..MaxBlocks /\ i < j /\ f[j] # 0 /\ j - 1 \in 1..MaxBlocks /\ (j - 1) + 1 = j /\ ~(j <= j - 1)
      BY <3>1, <1>2
    <3>3. f[j - 1] # 0 /\ rk[f[j - 1]] < rk[f[j]]
      <4>1. (j - 1) + 1 <= MaxBlocks /\ f[(j - 1) + 1] # 0
        BY <3>2, <1>2
      <4>2. f[j - 1] # 0 /\ rk[f[j - 1]] < rk[f[(j - 1) + 1]]
        BY <3>2, <4>1, <1>5, <1>7
      <4>. QED
        BY <4>2, <3>2
    <3>4. CASE i = j - 1
      BY <3>1, <3>3, <3>4
    <3>5. CASE i < j - 1
      <4>1. f[i] # 0 /\ rk[f[i]] < rk[f[j - 1]]
        BY <3>1, <3>2, <3>3, <3>5
      <4>2. rk[f[i]] \in Nat /\ rk[f[j - 1]] \in Nat /\ rk[f[j]] \in Nat
        BY <3>2, <3>3, <4>1, <1>4, <1>7
      <4>. QED
        BY <3>1, <3>3, <4>1, <4>2
    <3>. QED
      BY <3>2, <3>4, <3>5
  <2>2. k \in Nat
    BY <1>2
  <2>. QED
    BY <2>1, <2>2, <1>8
<1>9. \A i, k \in 1..MaxBlocks : i # k /\ f[i] # 0 /\ f[k] # 0 => f[i] # f[k]
  <2>1. ASSUME NEW i \in 1..MaxBlocks, NEW k \in 1..MaxBlocks, i < k, f[k] # 0 PROVE f[i] # f[k]
    <3>1. f[i] # 0 /\ rk[f[i]] < rk[f[k]] /\ rk[f[k]] \in Nat
      BY <2>1, <1>4, <1>7, <1>8
    <3>. QED
      BY <3>1
  <2>. QED
    BY <2>1, <1>2
\* There is room for at most MaxBlocks blocks.
<1>10. ASSUME NEW b, In(b), \A k \in 1..MaxBlocks : f[k] # 0 /\ f[k] # b PROVE FALSE
  <2> DEFINE g == [k \in 0..MaxBlocks |-> (IF k = 0 THEN b ELSE f[k]) \div 32]
             node(k) == IF k = 0 THEN b ELSE f[k]
  <2>1. \A k \in 0..MaxBlocks : node(k) \in DOMAIN sz
    BY <1>2, <1>4, <1>7, <1>10
  <2>2. \A c \in DOMAIN sz : c \div 32 \in 0..(MaxBlocks - 1)
    BY <1>1, <1>2
  <2>3. g \in [0..MaxBlocks -> 0..(MaxBlocks - 1)]
    BY <2>1, <2>2
  <2>4. \A n \in Nat : IsFiniteSet(0..n) /\ Cardinality(0..n) = n + 1
    <3>1. ASSUME NEW n \in Nat PROVE IsFiniteSet(0..n) /\ Cardinality(0..n) = n + 1
      <4>1. 0 \in Int /\ n \in Int /\ ~(0 > n) /\ n - 0 + 1 = n + 1
        OBVIOUS
      <4>2. IsFiniteSet(0..n) /\ Cardinality(0..n) = IF 0 > n THEN 0 ELSE n - 0 + 1
        BY <4>1, FS_Interval, Zenon
      <4>. QED
        BY <4>1, <4>2, Zenon
    <3>. QED
      BY <3>1
  <2> HIDE DEF g
  <2>5. PICK i \in 0..MaxBlocks, k \in 0..MaxBlocks : i # k /\ g[i] = g[k]
    <3> DEFINE Places == 0..MaxBlocks
               Rooms == 0..(MaxBlocks - 1)
    <3>1. MaxBlocks - 1 \in Nat /\ (MaxBlocks - 1) + 1 < MaxBlocks + 1
      BY <1>2
    <3>2. IsFiniteSet(Places) /\ IsFiniteSet(Rooms) /\ Cardinality(Rooms) < Cardinality(Places)
      BY <3>1, <2>4, <1>2
    <3>3. g \in [Places -> Rooms]
      BY <2>3
    <3> HIDE DEF Places, Rooms
    <3>4. \E i, k \in Places : i # k /\ g[i] = g[k]
      BY <3>2, <3>3, FS_PigeonHole
    <3>. QED
      BY <3>4 DEF Places
  <2>6. node(i) \div 32 = node(k) \div 32
    BY <2>5 DEF g
  <2>7. node(i) # node(k)
    BY <2>5, <1>2, <1>9, <1>10
  <2>8. \A c, d \in DOMAIN sz : c \div 32 = d \div 32 => c = d
    BY <1>1
  <2>. QED
    BY <2>1, <2>6, <2>7, <2>8
<1>11. ASSUME NEW b, In(b), \A k \in 1..MaxBlocks : f[k] # b PROVE FALSE
  <2> DEFINE Missing == {n \in Nat : \E c : In(c) /\ rk[c] = n /\ \A k \in 1..MaxBlocks : f[k] # c}
  <2>1. Missing # {}
    BY <1>4, <1>11
  <2>2. PICK n \in Missing : \A i \in Missing : n <= i
    BY <2>1, LeastNumber
  <2>3. PICK c : In(c) /\ rk[c] = n /\ \A k \in 1..MaxBlocks : f[k] # c
    BY <2>2
  <2>4. m[c] # 0
    BY <2>3, <1>2, <1>4
  <2>5. In(m[c]) /\ m[m[c] + 8] = c /\ rk[m[c]] < n /\ rk[m[c]] \in Nat
    BY <2>3, <2>4, <1>4
  <2>6. PICK k \in 1..MaxBlocks : f[k] = m[c]
    BY <2>2, <2>5
  <2>7. k = MaxBlocks
    <3>1. f[k] # 0 /\ c # 0
      BY <2>3, <2>4, <2>6, <1>4
    <3>2. k + 1 <= MaxBlocks => k + 1 \in 1..MaxBlocks /\ f[k + 1] = c
      BY <2>5, <2>6, <3>1, <1>2
    <3>. QED
      BY <2>3, <3>2, <1>2
  <2>8. \A i \in 1..MaxBlocks : f[i] # 0
    BY <2>4, <2>6, <2>7, <1>2, <1>8
  <2>. QED
    BY <2>3, <2>8, <1>10
<1>12. \A b \in U : search(sz[b]) = num => \E k \in 1..MaxBlocks : f[k] = b
  BY <1>11 DEF In
<1>. QED
  BY <1>7, <1>12 DEF f, In

\* find_fit finds a block of U that is large enough, if there is one.
LEMMA FitFound ==
  ASSUME NEW m, NEW brk, NEW sz, NEW A, NEW U, Heap(m, brk, sz, A, U), NEW asize \in Nat
  PROVE  LET bp == find_fit(m, asize)
         IN  /\ bp # 0 => bp \in U /\ sz[bp] >= asize
             /\ bp = 0 => \A b \in U : sz[b] < asize
<1>1. /\ Geometry(sz, brk) /\ Tags(m, brk, sz, A) /\ U \subseteq DOMAIN sz
      /\ \A b \in DOMAIN sz : GET_SIZE(m, b - 4) = sz[b] /\ b # 0 /\ sz[b] \in Nat
  <2>1. /\ Geometry(sz, brk) /\ Tags(m, brk, sz, A) /\ U \subseteq DOMAIN sz
    BY DEF Heap
  <2>. QED
    BY <2>1, SizeRead, BlockWords
<1>2. PICK rk : Lists(m, sz, U, rk)
  BY DEF Heap
<1>3. ASSUME NEW num \in 0..16
      PROVE  /\ FirstFit(m, num, asize) # 0 =>
                  FirstFit(m, num, asize) \in U /\ sz[FirstFit(m, num, asize)] >= asize
             /\ FirstFit(m, num, asize) = 0 => \A b \in U : search(sz[b]) = num => sz[b] < asize
  <2> DEFINE list == List(m, num)
             fits == {k \in 1..MaxBlocks : list[k] # 0 /\ GET_SIZE(m, list[k] - 4) >= asize}
  <2>1. /\ \A k \in 1..MaxBlocks : list[k] = 0 \/ (list[k] \in U /\ search(sz[list[k]]) = num)
        /\ \A b \in U : search(sz[b]) = num => \E k \in 1..MaxBlocks : list[k] = b
    BY <1>1, <1>2, ListFound
  <2>2. FirstFit(m, num, asize) = IF fits = {} THEN 0 ELSE list[Min(fits)]
    BY DEF FirstFit
  <2>3. fits # {} => Min(fits) \in fits
    <3>1. fits \subseteq Nat
      OBVIOUS
    <3> HIDE DEF fits
    <3>. QED
      BY <3>1, MinOfNumbers
  <2> HIDE DEF list
  <2>4. \A k \in fits : list[k] \in U /\ sz[list[k]] >= asize /\ list[k] # 0
    BY <2>1, <1>1
  <2>5. fits = {} => \A b \in U : search(sz[b]) = num => sz[b] < asize
    BY <2>1, <1>1
  <2> HIDE DEF fits
  <2>. QED
    BY <2>2, <2>3, <2>4, <2>5
<1> DEFINE nums == {num \in search(asize)..16 : FirstFit(m, num, asize) # 0}
<1>4. find_fit(m, asize) = IF nums = {} THEN 0 ELSE FirstFit(m, Min(nums), asize)
  BY DEF find_fit
<1>5. search(asize) \in 0..16 /\ nums \subseteq Nat /\ nums \subseteq 0..16
  BY Classes
<1>6. nums # {} => Min(nums) \in nums
  <2> HIDE DEF nums
  <2>. QED
    BY <1>5, MinOfNumbers
<1>7. CASE nums # {}
  <2>1. FirstFit(m, Min(nums), asize) # 0 /\ Min(nums) \in 0..16
    BY <1>5, <1>6, <1>7
  <2> HIDE DEF nums
  <2>. QED
    BY <2>1, <1>3, <1>4, <1>7
<1>8. CASE nums = {}
  <2>1. ASSUME NEW b \in U, sz[b] >= asize PROVE FALSE
    <3>1. search(sz[b]) \in 0..16 /\ search(asize) <= search(sz[b]) /\ sz[b] \in Nat
      BY <2>1, <1>1, Classes
    <3>2. search(sz[b]) \in search(asize)..16
      BY <3>1, <1>5
    <3>3. FirstFit(m, search(sz[b]), asize) = 0
      BY <3>2, <1>8
    <3>. QED
      BY <2>1, <3>1, <3>3, <1>3
  <2>2. \A b \in U : sz[b] < asize
    BY <2>1, <1>1
  <2>. QED
    BY <2>2, <1>4, <1>8
<1>. QED
  BY <1>7, <1>8

-----------------------------------------------------------------------------
(* Allocating and freeing. *)

\* The other blocks are before a block or after it.
LEMMA AroundBlock ==
  ASSUME NEW sz, NEW brk, Placed(sz, brk), NEW b \in DOMAIN sz, NEW X, X \subseteq DOMAIN sz
  PROVE  /\ Beside(X, b, b + sz[b]) = X \ {b}
         /\ \A c \in X \ {b} : c < b \/ c >= b + sz[b]
         /\ b < b + sz[b] /\ b \in Nat /\ sz[b] \in Nat /\ b + sz[b] \in Nat
<1>1. b \in Nat /\ sz[b] \in Nat /\ sz[b] >= 32
  OBVIOUS
<1>2. \A c \in DOMAIN sz : c # b => c < b \/ c >= b + sz[b]
  BY <1>1
<1>. QED
  BY <1>1, <1>2 DEF Beside

\* EXCEPT on the block pointer of a state.
LEMMA OtherPointer ==
  ASSUME NEW m, NEW brk, NEW tail, NEW bp, NEW bp2
  PROVE  [S(m, brk, tail, bp) EXCEPT !.bp = bp2] = S(m, brk, tail, bp2)
BY DEF S

\* State r came from memory m: the heap up to brk now has the allocated block r.bp besides
\* those of A.
PlacedIn(r, m, brk, tail, sz, A, asize, sz2) ==
  /\ r = S(r.mem, brk, tail, r.bp)
  /\ r.bp \in DOMAIN sz2 \ A
  /\ Heap(r.mem, brk, sz2, A \union {r.bp}, (DOMAIN sz2 \ A) \ {r.bp})
  /\ Holds(m, sz, r.mem, sz2, A)
  /\ sz2[r.bp] = asize \/ sz2[r.bp] = asize + 16
  /\ Apart(sz, DOMAIN sz \ A) => Apart(sz2, (DOMAIN sz2 \ A) \ {r.bp})

\* place allocates in a free block: all of it, or its end or its start.
LEMMA Placing ==
  ASSUME NEW m, NEW brk, NEW tail, NEW sz, NEW A, Heap(m, brk, sz, A, DOMAIN sz \ A),
         NEW b \in DOMAIN sz \ A, NEW asize \in Nat, asize % 16 = 0, asize >= 32, sz[b] >= asize
  PROVE  \E sz2 : PlacedIn(place(S(m, brk, tail, b), asize), m, brk, tail, sz, A, asize, sz2)
<1> DEFINE F == DOMAIN sz \ A
           e == b + sz[b]
           rest == sz[b] - asize
           m1 == delete(m, b)
           r == place(S(m, brk, tail, b), asize)
<1>1. Placed(sz, brk) /\ A \subseteq DOMAIN sz /\ Geometry(sz, brk)
  BY BlockWords DEF Heap
<1>2. GET_SIZE(m, b - 4) = sz[b]
  BY Neighbours
<1>3. r = IF rest < 32 THEN With(S(m, brk, tail, b), PutTags(m1, b, asize + rest, 1), b)
          ELSE IF asize >= 100
          THEN [coalesce(With(S(m, brk, tail, b), Cut(m1, b, rest, 0, asize), b), b) EXCEPT !.bp = b + rest]
          ELSE [coalesce(With(S(m, brk, tail, b), Cut(m1, b, asize, 1, rest), b), b + asize) EXCEPT !.bp = b]
  BY <1>2 DEF place, S
<1> HIDE DEF r
<1>4. Heap(m1, brk, sz, A, F \ {b}) /\ Holds(m, sz, m1, sz, A)
  BY HeapDelete
<1> HIDE DEF m1
<1>5. /\ e \in DOMAIN sz \union {brk} /\ b < e /\ b \in Nat /\ e \in Nat /\ b \in DOMAIN sz /\ b \notin A
      /\ sz[b] \in Nat /\ sz[b] % 16 = 0 /\ b % 16 = 0
  BY <1>1 DEF Geometry
<1>6. /\ Beside(A, b, e) = A /\ \A c \in A \union (F \ {b}) : c < b \/ c >= e
  <2>1. \A c \in DOMAIN sz \ {b} : c < b \/ c >= e
    BY <1>1, <1>5
  <2>2. \A c \in A \union (F \ {b}) : c \in DOMAIN sz \ {b}
    BY <1>1, <1>5
  <2>3. \A c \in A \union (F \ {b}) : c < b \/ c >= e
    BY <2>1, <2>2
  <2> HIDE DEF e
  <2>4. Beside(A, b, e) = A
    BY <2>3 DEF Beside
  <2>. QED
    BY <2>3, <2>4
<1>7. CASE rest < 32
  <2>1. asize + rest = e - b /\ (sz[b] = asize \/ sz[b] = asize + 16)
    BY <1>5, <1>7
  <2> DEFINE sz2 == Replaced(sz, b, e, e)
             q == PutTags(m1, b, e - b, 1)
  <2>2. r = S(q, brk, tail, b)
    BY <2>1, <1>3, <1>7, WithS
  <2>3. /\ Heap(q, brk, sz2, Marked(A, b, e, 1), F \ {b})
        /\ Holds(m1, sz, q, sz2, Beside(A, b, e))
    BY <1>4, <1>5, <1>6, Joined
  <2>4. Heap(q, brk, sz2, A \union {b}, F \ {b}) /\ Holds(m, sz, q, sz2, A)
    <3>0. Marked(A, b, e, 1) = A \union {b}
      BY <1>6 DEF Marked
    <3>1. Heap(q, brk, sz2, A \union {b}, F \ {b}) /\ Holds(m1, sz, q, sz2, A)
      BY <2>3, <3>0, <1>6
    <3>. QED
      BY <3>1, <1>4, HoldsSteps
  <2>5. DOMAIN sz2 = DOMAIN sz /\ \A c \in DOMAIN sz : sz2[c] = sz[c]
    <3>1. \A c \in DOMAIN sz : c < b \/ c >= e \/ c = b
      BY <1>5, <1>6
    <3>. QED
      BY <3>1, <1>5 DEF Replaced
  <2> HIDE DEF q, sz2
  <2>6. Apart(sz, F) => Apart(sz2, F \ {b})
    BY <2>5 DEF Apart
  <2>7. r.mem = q /\ r.bp = b
    BY <2>2, WithS
  <2>8. DOMAIN sz2 \ A = F /\ b \in F
    BY <2>5
  <2>9. PlacedIn(r, m, brk, tail, sz, A, asize, sz2)
    BY <2>1, <2>2, <2>4, <2>5, <2>6, <2>7, <2>8, <1>5 DEF PlacedIn
  <2>. QED
    BY <2>9 DEF r
<1>8. CASE rest >= 32 /\ asize >= 100
  <2> DEFINE s == b + rest
             sz1 == Replaced(sz, b, s, e)
             q == Cut(m1, b, s - b, 0, e - s)
             A2 == A \union {s}
             c0 == coalesce(S(q, brk, tail, b), b)
  <2>1. s \in Nat /\ s % 16 = 0 /\ b + 32 <= s /\ s + 32 <= e /\ rest = s - b /\ asize = e - s /\ s < e /\ b < s
    BY <1>5, <1>8
  <2>2. r = [c0 EXCEPT !.bp = s]
    <3>1. r = [coalesce(With(S(m, brk, tail, b), Cut(m1, b, rest, 0, asize), b), b) EXCEPT !.bp = s]
      BY <1>3, <1>5, <1>8
    <3>2. Cut(m1, b, rest, 0, asize) = q
      <4> HIDE DEF rest, e, s
      <4>. QED
        BY <2>1, Zenon
    <3> HIDE DEF q, s, rest
    <3>. QED
      BY <3>1, <3>2, WithS
  <2> HIDE DEF s
  <2>3. /\ Heap(q, brk, sz1, Beside(A, b, e) \union {IF 0 = 1 THEN b ELSE s}, F \ {b})
        /\ Holds(m1, sz, q, sz1, Beside(A, b, e))
    BY <2>1, <1>4, <1>5, <1>6, CutUp
  <2>4. Heap(q, brk, sz1, A2, F \ {b}) /\ Holds(m, sz, q, sz1, A)
    <3>1. Heap(q, brk, sz1, A2, F \ {b}) /\ Holds(m1, sz, q, sz1, A)
      BY <2>3, <1>6
    <3>. QED
      BY <3>1, <1>4, HoldsSteps
  <2>5. /\ b \in DOMAIN sz1 /\ s \in DOMAIN sz1 /\ sz1[b] = s - b /\ sz1[s] = e - s
        /\ \A c \in DOMAIN sz : c # b => c \in DOMAIN sz1 /\ sz1[c] = sz[c] /\ c # s
        /\ \A c \in DOMAIN sz1 : c = b \/ c = s \/ (c \in DOMAIN sz /\ c # b)
    <3>1. \A c \in DOMAIN sz : c # b => c < b \/ c >= e
      BY <1>6
    <3>. QED
      BY <3>1, <2>1, <1>5 DEF Replaced
  <2> HIDE DEF q, sz1
  <2>6. b \in DOMAIN sz1 \ A2 /\ (DOMAIN sz1 \ A2) \ {b} = F \ {b}
    BY <2>1, <2>5, <1>5
  <2>7. \E sz2 : CoalescedTo(c0, q, brk, tail, sz1, A2, b, sz2)
    BY <2>4, <2>6, Coalesced
  <2> HIDE DEF c0
  <2> PICK sz2 : CoalescedTo(c0, q, brk, tail, sz1, A2, b, sz2)
    BY <2>7
  <2>8. /\ c0 = S(c0.mem, brk, tail, c0.bp)
        /\ Heap(c0.mem, brk, sz2, A2, DOMAIN sz2 \ A2)
        /\ Holds(q, sz1, c0.mem, sz2, A2)
        /\ Apart(sz1, (DOMAIN sz1 \ A2) \ {b}) => Apart(sz2, DOMAIN sz2 \ A2)
    BY DEF CoalescedTo
  <2>9. r = S(c0.mem, brk, tail, s)
    BY <2>2, <2>8, OtherPointer
  <2>10. r.mem = c0.mem /\ r.bp = s
    BY <2>9, WithS
  <2>11. s \in DOMAIN sz2 /\ sz2[s] = asize /\ s \notin A
    <3>1. s \in DOMAIN sz2 /\ sz2[s] = sz1[s]
      BY <2>8 DEF Holds
    <3>2. s \notin A
      BY <2>1, <2>5, <1>1, <1>5
    <3>. QED
      BY <3>1, <3>2, <2>1, <2>5
  <2>12. Holds(m, sz, c0.mem, sz2, A)
    <3>1. Holds(q, sz1, c0.mem, sz2, A)
      BY <2>8 DEF Holds
    <3>. QED
      BY <3>1, <2>4, HoldsSteps
  <2>13. Apart(sz, F) => Apart(sz2, DOMAIN sz2 \ A2)
    <3>1. Apart(sz, F) => Apart(sz1, F \ {b})
      BY <2>5 DEF Apart
    <3>. QED
      BY <3>1, <2>6, <2>8
  <2>14. DOMAIN sz2 \ A2 = (DOMAIN sz2 \ A) \ {s}
    OBVIOUS
  <2>15. PlacedIn(r, m, brk, tail, sz, A, asize, sz2)
    <3> HIDE DEF F
    <3>1. /\ r = S(r.mem, brk, tail, r.bp) /\ r.bp \in DOMAIN sz2 \ A
          /\ Heap(r.mem, brk, sz2, A \union {r.bp}, (DOMAIN sz2 \ A) \ {r.bp})
          /\ Holds(m, sz, r.mem, sz2, A) /\ sz2[r.bp] = asize
      BY <2>8, <2>9, <2>10, <2>11, <2>12, <2>14
    <3>2. Apart(sz, DOMAIN sz \ A) => Apart(sz2, (DOMAIN sz2 \ A) \ {r.bp})
      BY <2>10, <2>13, <2>14 DEF F
    <3>. QED
      BY <3>1, <3>2 DEF PlacedIn
  <2>. QED
    BY <2>15 DEF r
<1>9. CASE rest >= 32 /\ ~(asize >= 100)
  <2> DEFINE s == b + asize
             sz1 == Replaced(sz, b, s, e)
             q == Cut(m1, b, s - b, 1, e - s)
             A2 == A \union {b}
             c0 == coalesce(S(q, brk, tail, b), s)
  <2>1. s \in Nat /\ s % 16 = 0 /\ b + 32 <= s /\ s + 32 <= e /\ asize = s - b /\ rest = e - s /\ s < e /\ b < s
    BY <1>5, <1>9
  <2>2. r = [c0 EXCEPT !.bp = b]
    <3>1. r = [coalesce(With(S(m, brk, tail, b), Cut(m1, b, asize, 1, rest), b), s) EXCEPT !.bp = b]
      BY <1>3, <1>5, <1>9
    <3>2. Cut(m1, b, asize, 1, rest) = q
      <4> HIDE DEF rest, e, s
      <4>. QED
        BY <2>1, Zenon
    <3> HIDE DEF q, s, rest
    <3>. QED
      BY <3>1, <3>2, WithS
  <2> HIDE DEF s
  <2>3. /\ Heap(q, brk, sz1, Beside(A, b, e) \union {IF 1 = 1 THEN b ELSE s}, F \ {b})
        /\ Holds(m1, sz, q, sz1, Beside(A, b, e))
    BY <2>1, <1>4, <1>5, <1>6, CutUp
  <2>4. Heap(q, brk, sz1, A2, F \ {b}) /\ Holds(m, sz, q, sz1, A)
    <3>1. Heap(q, brk, sz1, A2, F \ {b}) /\ Holds(m1, sz, q, sz1, A)
      BY <2>3, <1>6
    <3>. QED
      BY <3>1, <1>4, HoldsSteps
  <2>5. /\ b \in DOMAIN sz1 /\ s \in DOMAIN sz1 /\ sz1[b] = s - b /\ sz1[s] = e - s
        /\ \A c \in DOMAIN sz : c # b => c \in DOMAIN sz1 /\ sz1[c] = sz[c] /\ c # s
        /\ \A c \in DOMAIN sz1 : c = b \/ c = s \/ (c \in DOMAIN sz /\ c # b)
    <3>1. \A c \in DOMAIN sz : c # b => c < b \/ c >= e
      BY <1>6
    <3>. QED
      BY <3>1, <2>1, <1>5 DEF Replaced
  <2> HIDE DEF q, sz1
  <2>6. s \in DOMAIN sz1 \ A2 /\ (DOMAIN sz1 \ A2) \ {s} = F \ {b}
    BY <2>1, <2>5, <1>1, <1>5
  <2>7. \E sz2 : CoalescedTo(c0, q, brk, tail, sz1, A2, s, sz2)
    BY <2>4, <2>6, Coalesced
  <2> HIDE DEF c0
  <2> PICK sz2 : CoalescedTo(c0, q, brk, tail, sz1, A2, s, sz2)
    BY <2>7
  <2>8. /\ c0 = S(c0.mem, brk, tail, c0.bp)
        /\ Heap(c0.mem, brk, sz2, A2, DOMAIN sz2 \ A2)
        /\ Holds(q, sz1, c0.mem, sz2, A2)
        /\ Apart(sz1, (DOMAIN sz1 \ A2) \ {s}) => Apart(sz2, DOMAIN sz2 \ A2)
    BY DEF CoalescedTo
  <2>9. r = S(c0.mem, brk, tail, b)
    BY <2>2, <2>8, OtherPointer
  <2>10. r.mem = c0.mem /\ r.bp = b
    BY <2>9, WithS
  <2>11. b \in DOMAIN sz2 /\ sz2[b] = asize /\ b \notin A
    <3>1. b \in DOMAIN sz2 /\ sz2[b] = sz1[b]
      BY <2>8 DEF Holds
    <3>. QED
      BY <3>1, <2>1, <2>5
  <2>12. Holds(m, sz, c0.mem, sz2, A)
    <3>1. Holds(q, sz1, c0.mem, sz2, A)
      BY <2>8 DEF Holds
    <3>. QED
      BY <3>1, <2>4, HoldsSteps
  <2>13. Apart(sz, F) => Apart(sz2, DOMAIN sz2 \ A2)
    <3>1. Apart(sz, F) => Apart(sz1, F \ {b})
      BY <2>5 DEF Apart
    <3>. QED
      BY <3>1, <2>6, <2>8
  <2>14. DOMAIN sz2 \ A2 = (DOMAIN sz2 \ A) \ {b}
    OBVIOUS
  <2>15. PlacedIn(r, m, brk, tail, sz, A, asize, sz2)
    <3> HIDE DEF F
    <3>1. /\ r = S(r.mem, brk, tail, r.bp) /\ r.bp \in DOMAIN sz2 \ A
          /\ Heap(r.mem, brk, sz2, A \union {r.bp}, (DOMAIN sz2 \ A) \ {r.bp})
          /\ Holds(m, sz, r.mem, sz2, A) /\ sz2[r.bp] = asize
      BY <2>8, <2>9, <2>10, <2>11, <2>12, <2>14
    <3>2. Apart(sz, DOMAIN sz \ A) => Apart(sz2, (DOMAIN sz2 \ A) \ {r.bp})
      BY <2>10, <2>13, <2>14 DEF F
    <3>. QED
      BY <3>1, <3>2 DEF PlacedIn
  <2>. QED
    BY <2>15 DEF r
<1>. QED
  <2>1. rest < 32 \/ rest >= 32
    BY <1>5
  <2>. QED
    BY <2>1, <1>7, <1>8, <1>9

\* A heap that has grown by a free block of size bytes at its end.
Grown(sz, brk, size) == [c \in DOMAIN sz \union {brk} |-> IF c = brk THEN size ELSE sz[c]]

\* What extend_heap writes before it coalesces.
Extension(m, p, size) ==
  PUT(PUT_PTR(PutTags(m, p, size, 0), SUCP(p), NULL), HDRP(p + size), PACK(0, 1))

\* Before it coalesces, extend_heap has made the old epilogue a free block that no list has.
LEMMA Extended ==
  ASSUME NEW m, NEW brk, NEW sz, NEW A, NEW U, Heap(m, brk, sz, A, U),
         NEW size \in Nat, size % 16 = 0, size >= 32, brk + size <= MAX_HEAP
  PROVE  LET r == Extension(m, brk, size)
             sz2 == Grown(sz, brk, size)
         IN  /\ Heap(r, brk + size, sz2, A, U) /\ Holds(m, sz, r, sz2, A)
             /\ DOMAIN sz2 = DOMAIN sz \union {brk} /\ brk \notin DOMAIN sz /\ sz2[brk] = size
             /\ \A c \in DOMAIN sz : sz2[c] = sz[c]
<1> DEFINE e == brk + size
           m1 == PutTags(m, brk, size, 0)
           m2 == PUT_PTR(m1, brk + 8, 0)
           r == PUT(m2, e - 4, 1)
           sz2 == Grown(sz, brk, size)
           Written == {brk - 4, e - 8, brk + 8, brk + 12, e - 4}
<1>1. /\ Geometry(sz, brk) /\ Tags(m, brk, sz, A) /\ A \subseteq DOMAIN sz /\ U \subseteq DOMAIN sz \ A
  BY DEF Heap
<1>2. Placed(sz, brk) /\ DOMAIN m = Words
  BY <1>1, BlockWords DEF Tags
<1>3. brk \in Nat /\ brk % 16 = 0 /\ brk >= 160 /\ e \in Nat /\ e % 16 = 0 /\ brk + 32 <= e
      /\ e <= MAX_HEAP /\ size = e - brk
  BY <1>2
<1> HIDE DEF e
<1>4. brk - 4 \in Words /\ e - 8 \in Words /\ brk + 8 \in Words /\ (brk + 8) + 4 \in Words /\ e - 4 \in Words
      /\ (brk + 8) + 4 = brk + 12
  <2>1. /\ (brk - 4) % 4 = 0 /\ (e - 8) % 4 = 0 /\ (brk + 8) % 4 = 0 /\ (brk + 12) % 4 = 0 /\ (e - 4) % 4 = 0
        /\ (brk + 8) + 4 = brk + 12 /\ MAX_HEAP \in Nat
    BY <1>2, <1>3
  <2>2. /\ brk - 4 \in Nat /\ e - 8 \in Nat /\ brk + 8 \in Nat /\ brk + 12 \in Nat /\ e - 4 \in Nat
        /\ (brk - 4) + 4 <= MAX_HEAP /\ (e - 8) + 4 <= MAX_HEAP /\ (brk + 8) + 4 <= MAX_HEAP
        /\ (brk + 12) + 4 <= MAX_HEAP /\ (e - 4) + 4 <= MAX_HEAP
    BY <2>1, <1>3
  <2>. QED
    BY <2>1, <2>2, WordNumbers
<1>5. SameBut(m, m1, {brk - 4, e - 8}) /\ m1[brk - 4] = size /\ m1[e - 8] = size
  <2>1. SameBut(m, m1, {brk - 4, e - 8}) /\ m1[brk - 4] = size + 0 /\ m1[e - 8] = size + 0
    <3>1. LET q == PutTags(m, brk, e - brk, 0)
          IN  SameBut(m, q, {brk - 4, e - 8}) /\ q[brk - 4] = (e - brk) + 0 /\ q[e - 8] = (e - brk) + 0
      BY <1>2, <1>3, <1>4, PutTagsOver
    <3> HIDE DEF PutTags
    <3>. QED
      BY <3>1, <1>3, Zenon
  <2>. QED
    BY <2>1
<1> HIDE DEF m1
<1>6. SameBut(m1, m2, {brk + 8, brk + 12})
  <2>1. SameBut(m1, m2, {brk + 8, (brk + 8) + 4})
    BY <1>4, <1>5, PutPtrWords DEF SameBut
  <2>. QED
    BY <2>1, <1>4
<1> HIDE DEF m2
<1>7. SameBut(m2, r, {e - 4}) /\ r[e - 4] = 1
  BY <1>4, <1>6, PutWords DEF SameBut
<1>8. r = Extension(m, brk, size)
  <2>1. PACK(0, 1) = 1
    OBVIOUS
  <2>. QED
    BY <2>1 DEF Extension, m1, m2, e
<1> HIDE DEF r
<1>9. SameBut(m, r, Written)
  BY <1>5, <1>6, <1>7 DEF SameBut
<1>10. r[brk - 4] = size /\ r[e - 8] = size
  BY <1>3, <1>4, <1>5, <1>6, <1>7 DEF SameBut
<1>11. /\ DOMAIN sz2 = DOMAIN sz \union {brk} /\ brk \notin DOMAIN sz /\ sz2[brk] = size
       /\ \A c \in DOMAIN sz : sz2[c] = sz[c]
  <2>1. brk \notin DOMAIN sz
    BY <1>2
  <2>. QED
    BY <2>1 DEF Grown
<1> HIDE DEF sz2
<1>12. Geometry(sz2, e)
  <2>1. e \in Addresses /\ brk \in Addresses /\ 160 <= e
    BY <1>1, <1>3, AddressNumbers DEF Geometry
  <2>2. ASSUME NEW c \in DOMAIN sz2
        PROVE  /\ sz2[c] \in Nat /\ sz2[c] >= 32 /\ sz2[c] % 16 = 0
               /\ 160 <= c /\ c + sz2[c] <= e
               /\ c + sz2[c] \in DOMAIN sz2 \union {e}
    <3>1. CASE c = brk
      <4>1. c + sz2[c] = e
        BY <3>1, <1>3, <1>11
      <4>. QED
        BY <3>1, <4>1, <1>3, <1>11
    <3>2. CASE c \in DOMAIN sz
      <4>1. c + sz2[c] \in DOMAIN sz \union {brk}
        BY <3>2, <1>1, <1>11 DEF Geometry
      <4>. QED
        BY <3>2, <4>1, <1>2, <1>3, <1>11
    <3>. QED
      BY <3>1, <3>2, <1>11
  <2>3. ASSUME NEW c \in DOMAIN sz2, NEW d \in DOMAIN sz2, c < d PROVE c + sz2[c] <= d
    <3>1. c # brk
      BY <2>3, <1>2, <1>3, <1>11
    <3>. QED
      BY <3>1, <2>3, <1>2, <1>3, <1>11
  <2>4. ASSUME NEW d \in DOMAIN sz2 \union {e}, d # 160 PROVE \E c \in DOMAIN sz2 : c + sz2[c] = d
    <3>1. CASE d = e
      BY <3>1, <1>3, <1>11
    <3>2. CASE d \in DOMAIN sz \union {brk}
      <4>1. \E c \in DOMAIN sz : c + sz[c] = d
        BY <3>2, <2>4, <1>1 DEF Geometry
      <4>. QED
        BY <4>1, <1>11
    <3>. QED
      BY <3>1, <3>2, <1>11
  <2>5. DOMAIN sz2 \subseteq Addresses /\ 160 \in DOMAIN sz2 \union {e}
    BY <2>1, <1>1, <1>11 DEF Geometry
  <2>. QED
    BY <2>1, <2>2, <2>3, <2>4, <2>5 DEF Geometry
<1>13. Tags(r, e, sz2, A)
  <2>1. 140 \in Words \ Written /\ 152 \in Words \ Written
    <3>1. 140 \in Words /\ 152 \in Words
      BY <1>2, <1>3, WordNumbers
    <3>2. 140 \notin Written /\ 152 \notin Written
      BY <1>3
    <3>. QED
      BY <3>1, <3>2
  <2>2. r[140] = 17 /\ r[152] = 17
    <3>1. m[140] = 17 /\ m[152] = 17
      BY <1>1 DEF Tags
    <3> HIDE DEF Written
    <3>2. \A x \in Words \ Written : r[x] = m[x]
      BY <1>9 DEF SameBut
    <3>. QED
      BY <2>1, <3>1, <3>2
  <2>3. ASSUME NEW c \in DOMAIN sz
        PROVE  r[c - 4] = sz2[c] + Bit(c, A) /\ r[c + sz2[c] - 8] = sz2[c] + Bit(c, A)
    <3>1. c - 4 \in Words \ Written /\ c + sz[c] - 8 \in Words \ Written
      BY <1>2, <1>3, WordNumbers
    <3>2. r[c - 4] = m[c - 4] /\ r[c + sz[c] - 8] = m[c + sz[c] - 8]
      BY <3>1, <1>9 DEF SameBut
    <3>. QED
      BY <3>2, <1>1, <1>11 DEF Tags
  <2>4. r[brk - 4] = sz2[brk] + Bit(brk, A) /\ r[brk + sz2[brk] - 8] = sz2[brk] + Bit(brk, A)
    <3>1. Bit(brk, A) = 0
      BY <1>1, <1>11 DEF Bit
    <3>2. brk + sz2[brk] - 8 = e - 8 /\ sz2[brk] + Bit(brk, A) = size
      BY <3>1, <1>3, <1>11
    <3>. QED
      BY <3>2, <1>10
  <2>. QED
    BY <2>2, <2>3, <2>4, <1>7, <1>11 DEF Tags, SameBut
<1>14. \E rk : Lists(r, sz2, U, rk)
  <2> PICK rk : Lists(m, sz, U, rk)
    BY DEF Heap
  <2>1. Written \cap ListWords(U) = {}
    <3> SUFFICES ASSUME NEW x \in Written, x \in ListWords(U) PROVE FALSE
      OBVIOUS
    <3>1. x \in Nat /\ x >= brk - 4
      BY <1>3
    <3>2. PICK c \in U : c <= x /\ x < c + 16
      BY <3>1, <1>3 DEF ListWords
    <3>. QED
      BY <3>1, <3>2, <1>1, <1>2
  <2>2. U \subseteq DOMAIN sz /\ \A b \in U : sz2[b] = sz[b]
    BY <1>1, <1>11
  <2>. QED
    BY <2>1, <2>2, <1>1, <1>9, ListsKept
<1>15. Holds(m, sz, r, sz2, A)
  <2>1. ASSUME NEW c \in A, NEW x \in Words, c <= x, x < c + sz[c] - 8 PROVE r[x] = m[x]
    <3>1. c \in DOMAIN sz /\ x \in Nat
      BY <1>1, WordNumbers
    <3>2. x \notin Written
      BY <2>1, <3>1, <1>2, <1>3
    <3>. QED
      BY <3>2, <1>9 DEF SameBut
  <2>. QED
    BY <2>1, <1>1, <1>11 DEF Holds
<1>. QED
  BY <1>1, <1>8, <1>11, <1>12, <1>13, <1>14, <1>15 DEF Heap, e, sz2

\* State r came from memory m: the heap now has a free block r.bp of at least that size.
EnlargedTo(r, m, brk, sz, A, least, sz2) ==
  /\ r = S(r.mem, r.brk, r.brk, r.bp)
  /\ Heap(r.mem, r.brk, sz2, A, DOMAIN sz2 \ A)
  /\ Holds(m, sz, r.mem, sz2, A)
  /\ r.bp \in DOMAIN sz2 \ A /\ sz2[r.bp] >= least /\ r.brk >= brk
  /\ Apart(sz, DOMAIN sz \ A) => Apart(sz2, DOMAIN sz2 \ A)

\* extend_heap enlarges the heap by a free block, or fails if it would be too large.
LEMMA Extending ==
  ASSUME NEW m, NEW brk, NEW bp, NEW sz, NEW A, Heap(m, brk, sz, A, DOMAIN sz \ A),
         NEW size \in Nat, size % 16 = 0, size >= 32
  PROVE  LET r == extend_heap(S(m, brk, brk, bp), size \div 4)
         IN  /\ brk + size > MAX_HEAP => r = S(m, brk, brk, 0)
             /\ ~(brk + size > MAX_HEAP) => \E sz2 : EnlargedTo(r, m, brk, sz, A, size, sz2)
<1> DEFINE words == size \div 4
           r == extend_heap(S(m, brk, brk, bp), words)
           e == brk + size
           m1 == Extension(m, brk, size)
           sz1 == Grown(sz, brk, size)
<1>1. (words + (words % 2)) * 4 = size
  <2>1. words \in Nat /\ size = 4 * words /\ words % 2 = 0
    OBVIOUS
  <2>. QED
    BY <2>1
<1>2. brk \in Nat /\ MAX_HEAP \in Nat
  BY BlockWords DEF Heap
<1>3. r = IF SbrkFails(brk, size) THEN [S(m, brk, brk, bp) EXCEPT !.bp = 0]
          ELSE coalesce([mem |-> m1, brk |-> e, tail |-> e, bp |-> brk], brk)
  <2> HIDE DEF words
  <2>1. /\ S(m, brk, brk, bp).tail = brk /\ S(m, brk, brk, bp).brk = brk /\ S(m, brk, brk, bp).mem = m
    BY WithS
  <2>2. r = IF SbrkFails(brk, (words + (words % 2)) * 4) THEN [S(m, brk, brk, bp) EXCEPT !.bp = 0]
          ELSE coalesce([mem |-> Extension(m, brk, (words + (words % 2)) * 4),
                         brk |-> brk + (words + (words % 2)) * 4,
                         tail |-> brk + (words + (words % 2)) * 4, bp |-> brk], brk)
    BY <2>1 DEF extend_heap, Extension
  <2> HIDE DEF r
  <2>. QED
    BY <2>2, <1>1
<1> HIDE DEF r
<1>4. SbrkFails(brk, size) <=> e > MAX_HEAP
  BY <1>2 DEF SbrkFails
<1>5. CASE e > MAX_HEAP
  <2>1. r = S(m, brk, brk, 0)
    BY <1>3, <1>4, <1>5, OtherPointer
  <2>. QED
    BY <2>1, <1>5 DEF r
<1>6. CASE ~(e > MAX_HEAP)
  <2>1. r = coalesce(S(m1, e, e, brk), brk)
    BY <1>3, <1>4, <1>6 DEF S
  <2>2. /\ Heap(m1, e, sz1, A, DOMAIN sz \ A) /\ Holds(m, sz, m1, sz1, A)
        /\ DOMAIN sz1 = DOMAIN sz \union {brk} /\ brk \notin DOMAIN sz /\ sz1[brk] = size
        /\ \A c \in DOMAIN sz : sz1[c] = sz[c]
    <3>1. e <= MAX_HEAP
      BY <1>2, <1>6
    <3>. QED
      BY <3>1, Extended
  <2>3. brk \in DOMAIN sz1 \ A /\ (DOMAIN sz1 \ A) \ {brk} = DOMAIN sz \ A
    BY <2>2 DEF Heap
  <2> HIDE DEF m1, sz1
  <2>4. \E sz2 : CoalescedTo(r, m1, e, e, sz1, A, brk, sz2)
    BY <2>1, <2>2, <2>3, Coalesced
  <2> PICK sz2 : CoalescedTo(r, m1, e, e, sz1, A, brk, sz2)
    BY <2>4
  <2>5. /\ r = S(r.mem, e, e, r.bp) /\ Heap(r.mem, e, sz2, A, DOMAIN sz2 \ A)
        /\ Holds(m1, sz1, r.mem, sz2, A) /\ r.bp \in DOMAIN sz2 \ A
        /\ r.bp <= brk /\ brk + sz1[brk] <= r.bp + sz2[r.bp]
        /\ Apart(sz1, DOMAIN sz \ A) => Apart(sz2, DOMAIN sz2 \ A)
    BY <2>3 DEF CoalescedTo
  <2>6. sz2[r.bp] >= size
    <3>1. r.bp \in Nat /\ sz2[r.bp] \in Nat
      BY <2>5, BlockWords DEF Heap
    <3>. QED
      BY <3>1, <2>2, <2>5, <1>2
  <2>7. r.brk = e /\ e >= brk
    BY <2>5, <1>2, WithS
  <2>8. Holds(m, sz, r.mem, sz2, A)
    BY <2>2, <2>5, HoldsSteps
  <2>9. Apart(sz, DOMAIN sz \ A) => Apart(sz1, DOMAIN sz \ A)
    BY <2>2 DEF Apart
  <2>10. EnlargedTo(r, m, brk, sz, A, size, sz2)
    BY <2>5, <2>6, <2>7, <2>8, <2>9 DEF EnlargedTo
  <2>. QED
    BY <2>10, <1>6 DEF r
<1>. QED
  BY <1>5, <1>6

\* A memory holds what it holds.
LEMMA HoldsSelf ==
  ASSUME NEW m, NEW sz, NEW A, A \subseteq DOMAIN sz
  PROVE  Holds(m, sz, m, sz, A)
BY DEF Holds

\* A free block that is large enough: an old one if there is one, else a new one.
LEMMA Finding ==
  ASSUME NEW m, NEW brk, NEW bp, NEW sz, NEW A, Heap(m, brk, sz, A, DOMAIN sz \ A),
         NEW asize \in Nat, asize % 16 = 0, asize >= 32
  PROVE  LET r == FitOrExtend(S(m, brk, brk, bp), asize)
         IN  /\ r = S(m, brk, brk, 0) \/ (r.bp # 0 /\ \E sz2 : EnlargedTo(r, m, brk, sz, A, asize, sz2))
             /\ r.brk # brk => \A b \in DOMAIN sz \ A : sz[b] < asize
<1> DEFINE s == S(m, brk, brk, bp)
           r == FitOrExtend(s, asize)
           fit == find_fit(m, asize)
           most == Max({asize, CHUNKSIZE})
<1>1. r = IF fit # 0 THEN [s EXCEPT !.bp = fit] ELSE extend_heap(s, most \div 4)
  BY WithS DEF FitOrExtend
<1>2. /\ fit # 0 => fit \in DOMAIN sz \ A /\ sz[fit] >= asize
      /\ fit = 0 => \A b \in DOMAIN sz \ A : sz[b] < asize
  BY FitFound
<1>3. most \in Nat /\ most % 16 = 0 /\ most >= 32 /\ most >= asize
  <2>1. CHUNKSIZE \in Nat /\ CHUNKSIZE % 16 = 0 /\ CHUNKSIZE >= 32
    BY HeapAssumption
  <2>2. \E x \in {asize, CHUNKSIZE} : \A y \in {asize, CHUNKSIZE} : x >= y
    BY <2>1
  <2>3. most \in {asize, CHUNKSIZE} /\ \A y \in {asize, CHUNKSIZE} : most >= y
    BY <2>2 DEF Max
  <2>. QED
    BY <2>1, <2>3
<1> HIDE DEF r, fit, most
<1>4. CASE fit # 0
  <2>1. r = S(m, brk, brk, fit)
    BY <1>1, <1>4, OtherPointer
  <2>2. r.mem = m /\ r.brk = brk /\ r.bp = fit /\ brk >= brk
    <3>1. brk \in Nat
      BY BlockWords DEF Heap
    <3>. QED
      BY <2>1, <3>1, WithS
  <2>3. Holds(m, sz, m, sz, A)
    BY HoldsSelf DEF Heap
  <2>4. EnlargedTo(r, m, brk, sz, A, asize, sz)
    BY <2>1, <2>2, <2>3, <1>2, <1>4 DEF EnlargedTo
  <2>. QED
    BY <2>2, <2>4, <1>4 DEF r
<1>5. CASE fit = 0
  <2>1. r = extend_heap(s, most \div 4)
    BY <1>1, <1>5
  <2>2. CASE brk + most > MAX_HEAP
    <3>1. r = S(m, brk, brk, 0)
      BY <2>1, <2>2, <1>3, Extending
    <3>. QED
      BY <3>1, <1>2, <1>5 DEF r
  <2>3. CASE ~(brk + most > MAX_HEAP)
    <3>1. \E sz2 : EnlargedTo(r, m, brk, sz, A, most, sz2)
      BY <2>1, <2>3, <1>3, Extending
    <3>2. PICK sz2 : EnlargedTo(r, m, brk, sz, A, most, sz2)
      BY <3>1
    <3>3. r.bp \in Nat /\ sz2[r.bp] \in Nat /\ r.bp # 0
      BY <3>2, BlockWords DEF EnlargedTo, Heap
    <3>4. sz2[r.bp] >= asize
      BY <3>2, <3>3, <1>3 DEF EnlargedTo
    <3>5. EnlargedTo(r, m, brk, sz, A, asize, sz2)
      BY <3>2, <3>4 DEF EnlargedTo
    <3>. QED
      BY <3>3, <3>5, <1>2, <1>5 DEF r
  <2>. QED
    BY <2>2, <2>3
<1>. QED
  BY <1>4, <1>5

\* State r came from memory m of a heap up to brk: it has the new allocated block r.bp, and if
\* the heap grew for it no free block had fit.
Allocates(r, m, brk, sz, A, asize, sz2) ==
  /\ r = S(r.mem, r.brk, r.brk, r.bp)
  /\ r.bp \in DOMAIN sz2 \ A
  /\ Heap(r.mem, r.brk, sz2, A \union {r.bp}, (DOMAIN sz2 \ A) \ {r.bp})
  /\ Holds(m, sz, r.mem, sz2, A)
  /\ sz2[r.bp] = asize \/ sz2[r.bp] = asize + 16
  /\ Apart(sz, DOMAIN sz \ A) => Apart(sz2, (DOMAIN sz2 \ A) \ {r.bp})
  /\ r.brk >= brk
  /\ r.brk # brk => \A b \in DOMAIN sz \ A : sz[b] < asize

\* A new allocated block, or the heap is exhausted and nothing has changed.
LEMMA Allocating ==
  ASSUME NEW m, NEW brk, NEW bp, NEW sz, NEW A, Heap(m, brk, sz, A, DOMAIN sz \ A),
         NEW asize \in Nat, asize % 16 = 0, asize >= 32
  PROVE  LET r == PlaceIfAny(FitOrExtend(S(m, brk, brk, bp), asize), asize)
         IN  r = S(m, brk, brk, 0) \/ (r.bp # 0 /\ \E sz2 : Allocates(r, m, brk, sz, A, asize, sz2))
<1> DEFINE q == FitOrExtend(S(m, brk, brk, bp), asize)
           r == PlaceIfAny(q, asize)
<1>1. /\ q = S(m, brk, brk, 0) \/ (q.bp # 0 /\ \E sz2 : EnlargedTo(q, m, brk, sz, A, asize, sz2))
      /\ q.brk # brk => \A b \in DOMAIN sz \ A : sz[b] < asize
  BY Finding
<1>2. r = IF q.bp = 0 THEN q ELSE place(q, asize)
  BY DEF PlaceIfAny
<1> HIDE DEF q, r
<1>3. CASE q = S(m, brk, brk, 0)
  BY <1>2, <1>3, WithS DEF r, q
<1>4. CASE q.bp # 0 /\ \E sz2 : EnlargedTo(q, m, brk, sz, A, asize, sz2)
  <2> PICK sz1 : EnlargedTo(q, m, brk, sz, A, asize, sz1)
    BY <1>4
  <2>1. /\ q = S(q.mem, q.brk, q.brk, q.bp)
        /\ Heap(q.mem, q.brk, sz1, A, DOMAIN sz1 \ A)
        /\ Holds(m, sz, q.mem, sz1, A)
        /\ q.bp \in DOMAIN sz1 \ A /\ sz1[q.bp] >= asize /\ q.brk >= brk
        /\ Apart(sz, DOMAIN sz \ A) => Apart(sz1, DOMAIN sz1 \ A)
    BY DEF EnlargedTo
  <2>2. r = place(S(q.mem, q.brk, q.brk, q.bp), asize)
    BY <2>1, <1>2, <1>4
  <2>3. \E sz2 : PlacedIn(r, q.mem, q.brk, q.brk, sz1, A, asize, sz2)
    BY <2>1, <2>2, Placing
  <2> PICK sz2 : PlacedIn(r, q.mem, q.brk, q.brk, sz1, A, asize, sz2)
    BY <2>3
  <2>4. /\ r = S(r.mem, q.brk, q.brk, r.bp) /\ r.bp \in DOMAIN sz2 \ A
        /\ Heap(r.mem, q.brk, sz2, A \union {r.bp}, (DOMAIN sz2 \ A) \ {r.bp})
        /\ Holds(q.mem, sz1, r.mem, sz2, A)
        /\ sz2[r.bp] = asize \/ sz2[r.bp] = asize + 16
        /\ Apart(sz1, DOMAIN sz1 \ A) => Apart(sz2, (DOMAIN sz2 \ A) \ {r.bp})
    BY DEF PlacedIn
  <2>5. r.brk = q.brk
    BY <2>4, WithS
  <2>6. Holds(m, sz, r.mem, sz2, A)
    BY <2>1, <2>4, HoldsSteps
  <2>7. r.bp # 0
    BY <2>4, BlockWords DEF Heap
  <2>8. Allocates(r, m, brk, sz, A, asize, sz2)
    BY <2>1, <2>4, <2>5, <2>6, <1>1 DEF Allocates
  <2>. QED
    BY <2>7, <2>8 DEF r, q
<1>. QED
  BY <1>1, <1>3, <1>4

\* Adjust rounds up to a legal size with room for the tags.
LEMMA Adjusted ==
  ASSUME NEW size \in Nat \ {0}
  PROVE  Adjust(size) \in Nat /\ Adjust(size) % 16 = 0 /\ Adjust(size) >= 32 /\ size <= Adjust(size) - 8
BY DEF Adjust, ALIGN

\* State r came from memory m: block ptr is free.
Frees(r, m, brk, sz, A, ptr, sz2) ==
  /\ r = S(r.mem, brk, brk, r.bp)
  /\ Heap(r.mem, brk, sz2, A \ {ptr}, DOMAIN sz2 \ (A \ {ptr}))
  /\ Holds(m, sz, r.mem, sz2, A \ {ptr})
  /\ Apart(sz, DOMAIN sz \ A) => Apart(sz2, DOMAIN sz2 \ (A \ {ptr}))

\* mm_free of a block.
LEMMA Freeing ==
  ASSUME NEW m, NEW brk, NEW bp, NEW sz, NEW A, Heap(m, brk, sz, A, DOMAIN sz \ A), NEW ptr \in A
  PROVE  \E sz2 : Frees(mm_free(S(m, brk, brk, bp), ptr), m, brk, sz, A, ptr, sz2)
<1> DEFINE F == DOMAIN sz \ A
           e == ptr + sz[ptr]
           m1 == PutTags(m, ptr, e - ptr, 0)
           sz1 == Replaced(sz, ptr, e, e)
           A1 == A \ {ptr}
           r == mm_free(S(m, brk, brk, bp), ptr)
<1>1. Placed(sz, brk) /\ A \subseteq DOMAIN sz /\ Geometry(sz, brk)
  BY BlockWords DEF Heap
<1>2. ptr \in DOMAIN sz /\ ptr \in Nat /\ ptr # 0 /\ e \in DOMAIN sz \union {brk}
      /\ ptr < e /\ e \in Nat /\ sz[ptr] = e - ptr
  BY <1>1 DEF Geometry
<1>3. r = coalesce(S(m1, brk, brk, ptr), ptr)
  <2>1. GET_SIZE(m, ptr - 4) = sz[ptr]
    BY <1>2, Neighbours
  <2>2. r = coalesce(With(S(m, brk, brk, bp), PutTags(m, ptr, sz[ptr], 0), ptr), ptr)
    BY <2>1, <1>2, WithS DEF mm_free
  <2>3. PutTags(m, ptr, sz[ptr], 0) = m1
    <3> HIDE DEF e
    <3>. QED
      BY <1>2, Zenon
  <2> HIDE DEF r, m1
  <2>. QED
    BY <2>2, <2>3, WithS
<1> HIDE DEF r
<1>4. \A c \in DOMAIN sz \ {ptr} : c < ptr \/ c >= e
  BY <1>1, <1>2
<1> HIDE DEF e
<1>5. Beside(A, ptr, e) = A1
  BY <1>1, <1>2, <1>4 DEF Beside
<1>6. Heap(m1, brk, sz1, A1, F) /\ Holds(m, sz, m1, sz1, A1)
  <2>1. \A c \in F : c < ptr \/ c >= e
    BY <1>4
  <2>2. /\ Heap(m1, brk, sz1, Marked(A, ptr, e, 0), F)
        /\ Holds(m, sz, m1, sz1, Beside(A, ptr, e))
    BY <2>1, <1>2, Joined
  <2>3. Marked(A, ptr, e, 0) = A1
    BY <1>5 DEF Marked
  <2>. QED
    BY <2>2, <2>3, <1>5
<1>7. DOMAIN sz1 = DOMAIN sz /\ \A c \in DOMAIN sz : sz1[c] = sz[c]
  <2>1. \A c \in DOMAIN sz : c < ptr \/ c >= e \/ c = ptr
    BY <1>4
  <2>. QED
    BY <2>1, <1>2 DEF Replaced
<1> HIDE DEF m1, sz1
<1>8. ptr \in DOMAIN sz1 \ A1 /\ (DOMAIN sz1 \ A1) \ {ptr} = F
  BY <1>2, <1>7
<1>9. \E sz2 : CoalescedTo(r, m1, brk, brk, sz1, A1, ptr, sz2)
  BY <1>3, <1>6, <1>8, Coalesced
<1> PICK sz2 : CoalescedTo(r, m1, brk, brk, sz1, A1, ptr, sz2)
  BY <1>9
<1>10. /\ r = S(r.mem, brk, brk, r.bp) /\ Heap(r.mem, brk, sz2, A1, DOMAIN sz2 \ A1)
       /\ Holds(m1, sz1, r.mem, sz2, A1)
       /\ Apart(sz1, F) => Apart(sz2, DOMAIN sz2 \ A1)
  BY <1>8 DEF CoalescedTo
<1>11. Apart(sz, F) => Apart(sz1, F)
  BY <1>7 DEF Apart
<1>12. Holds(m, sz, r.mem, sz2, A1)
  BY <1>6, <1>10, HoldsSteps
<1>13. Frees(r, m, brk, sz, A, ptr, sz2)
  BY <1>10, <1>11, <1>12 DEF Frees
<1>. QED
  BY <1>13 DEF r

-----------------------------------------------------------------------------
(* Writes between the tags, and reallocation. *)

\* The words that say where the blocks of a heap are.
StructureWords(brk, sz, U) ==
  {140, 152, brk - 4} \union {b - 4 : b \in DOMAIN sz} \union {b + sz[b] - 8 : b \in DOMAIN sz}
    \union ListWords(U)

\* A heap is in the words that say where its blocks and lists are.
LEMMA HeapKept ==
  ASSUME NEW m, NEW brk, NEW sz, NEW A, NEW U, Heap(m, brk, sz, A, U), NEW r, DOMAIN r = Words,
         \A x \in StructureWords(brk, sz, U) : r[x] = m[x]
  PROVE  Heap(r, brk, sz, A, U)
<1>1. /\ Geometry(sz, brk) /\ Tags(m, brk, sz, A) /\ A \subseteq DOMAIN sz /\ U \subseteq DOMAIN sz \ A
  BY DEF Heap
<1>2. PICK rk : Lists(m, sz, U, rk)
  BY DEF Heap
<1>3. Tags(r, brk, sz, A)
  <2>1. {140, 152, brk - 4} \subseteq StructureWords(brk, sz, U)
    BY DEF StructureWords
  <2>2. \A b \in DOMAIN sz : b - 4 \in StructureWords(brk, sz, U) /\ b + sz[b] - 8 \in StructureWords(brk, sz, U)
    BY DEF StructureWords
  <2>. QED
    BY <1>1, <2>1, <2>2 DEF Tags
<1>4. Lists(r, sz, U, rk)
  <2> DEFINE W == {x \in Words : r[x] # m[x]}
  <2>1. SameBut(m, r, W) /\ W \cap ListWords(U) = {}
    BY DEF SameBut, StructureWords
  <2> HIDE DEF W
  <2>. QED
    BY <1>1, <1>2, <2>1, ListsKept
<1>. QED
  BY <1>1, <1>3, <1>4 DEF Heap

\* The words of the payload of block b, and those of its first n bytes.
Payload(b, n) == {x \in Words : b <= x /\ x < b + n}

\* What writes to the payload of an allocated block leaves the heap alone.
LEMMA PayloadWritten ==
  ASSUME NEW m, NEW brk, NEW sz, NEW A, NEW U, Heap(m, brk, sz, A, U), NEW b \in A,
         NEW r, SameBut(m, r, Payload(b, sz[b] - 8))
  PROVE  Heap(r, brk, sz, A, U) /\ Holds(m, sz, r, sz, A \ {b})
<1>1. /\ Geometry(sz, brk) /\ Tags(m, brk, sz, A) /\ A \subseteq DOMAIN sz /\ U \subseteq DOMAIN sz \ A
  BY DEF Heap
<1>2. Placed(sz, brk)
  BY <1>1, BlockWords
<1>3. b \in DOMAIN sz /\ b \in Nat /\ sz[b] \in Nat /\ b >= 160 /\ b + sz[b] <= brk
  BY <1>1, <1>2
<1>4. ASSUME NEW x \in StructureWords(brk, sz, U) PROVE x \notin Payload(b, sz[b] - 8)
  <2> SUFFICES ASSUME x \in Words, b <= x, x < b + (sz[b] - 8) PROVE FALSE
    BY DEF Payload
  <2>1. x \in Nat /\ x < b + sz[b] - 4 /\ b - 4 <= x
    BY <1>3, WordNumbers
  <2>2. CASE x \in {140, 152, brk - 4}
    BY <2>1, <2>2, <1>2, <1>3
  <2>3. ASSUME NEW c \in DOMAIN sz, x = c - 4 \/ x = c + sz[c] - 8 PROVE FALSE
    BY <2>1, <2>3, <1>2, <1>3
  <2>4. CASE x \in ListWords(U)
    <3>1. x < b + sz[b] - 4 /\ b \notin U /\ U \subseteq DOMAIN sz
      BY <2>1, <1>1
    <3>. QED
      BY <2>1, <2>4, <3>1, <1>1, <1>3, ListWordsApart
  <2>. QED
    BY <2>2, <2>3, <2>4 DEF StructureWords
<1>5. StructureWords(brk, sz, U) \subseteq Words
  <2>1. brk - 4 \in Words /\ 140 \in Words /\ 152 \in Words
    BY <1>2, WordNumbers
  <2>2. \A c \in DOMAIN sz : c - 4 \in Words /\ c + sz[c] - 8 \in Words
    BY <1>2, WordNumbers
  <2>. QED
    BY <2>1, <2>2 DEF StructureWords, ListWords
<1>6. DOMAIN r = Words /\ \A x \in StructureWords(brk, sz, U) : r[x] = m[x]
  BY <1>4, <1>5 DEF SameBut
<1>7. ASSUME NEW c \in A \ {b}, NEW x \in Words, c <= x, x < c + sz[c] - 8 PROVE r[x] = m[x]
  <2>1. c \in DOMAIN sz /\ c # b /\ x \in Nat
    BY <1>1, WordNumbers
  <2>2. x \notin Payload(b, sz[b] - 8)
    BY <2>1, <1>2, <1>3, <1>7 DEF Payload
  <2>. QED
    BY <2>2 DEF SameBut
<1>. QED
  BY <1>1, <1>6, <1>7, HeapKept DEF Holds

\* memcpy writes its n bytes at dst, and from the first word up it copies them.
LEMMA Copied ==
  ASSUME NEW m, NEW dst, NEW src, NEW n, NEW order
  PROVE  /\ SameBut(m, Memcpy(m, dst, src, n, order), Payload(dst, n))
         /\ order = "forward" => \A x \in Payload(dst, n) :
              Memcpy(m, dst, src, n, order)[x] = m[src + 4 * ((x - dst) \div 4)]
<1> DEFINE r == Memcpy(m, dst, src, n, order)
<1>1. DOMAIN r = Words
  BY DEF Memcpy
<1>2. \A x \in Words : ~(dst <= x /\ x < dst + n) => r[x] = m[x]
  BY DEF Memcpy, InPayload
<1>3. order = "forward" => \A x \in Words : dst <= x /\ x < dst + n => r[x] = m[src + 4 * ((x - dst) \div 4)]
  BY DEF Memcpy, InPayload
<1> HIDE DEF r
<1>4. SameBut(m, r, Payload(dst, n))
  BY <1>1, <1>2 DEF SameBut, Payload
<1>5. order = "forward" => \A x \in Payload(dst, n) : r[x] = m[src + 4 * ((x - dst) \div 4)]
  BY <1>3 DEF Payload
<1>. QED
  BY <1>4, <1>5 DEF r

\* State r came from memory m: the region from b to e now starts with the allocated block b.
ResizedTo(r, m, mm, brk, tail, sz, A, b, e, asize, sz2) ==
  /\ r = S(r.mem, brk, tail, b)
  /\ b \in DOMAIN sz2
  /\ Heap(r.mem, brk, sz2, Beside(A, b, e) \union {b}, DOMAIN sz2 \ (Beside(A, b, e) \union {b}))
  /\ Holds(m, sz, r.mem, sz2, Beside(A, b, e))
  /\ sz2[b] = asize \/ sz2[b] = asize + 16
  /\ \A x \in Payload(b, asize - 8) : r.mem[x] = mm[x]

\* Resize allocates a region that no list goes through, or its start if the rest makes a block.
LEMMA Resizing ==
  ASSUME NEW s0, NEW m, NEW mm, NEW brk, NEW tail, NEW bp, NEW sz, NEW A, NEW U, Heap(m, brk, sz, A, U),
         NEW b \in DOMAIN sz, NEW e \in DOMAIN sz \union {brk}, b < e,
         SameBut(m, mm, RegionWords(b, e)),
         \A c \in U : c < b \/ c >= e,
         \A c \in DOMAIN sz \ A : c \in U \/ (b <= c /\ c < e),
         NEW have, have = e - b, NEW asize \in Nat, asize % 16 = 0, asize >= 32, have >= asize
  PROVE  \E sz2 : ResizedTo(Resize(S(s0, brk, tail, bp), mm, b, have, asize),
                            m, mm, brk, tail, sz, A, b, e, asize, sz2)
<1> DEFINE r == Resize(S(s0, brk, tail, bp), mm, b, have, asize)
           B == Beside(A, b, e)
<1>1. Placed(sz, brk) /\ A \subseteq DOMAIN sz /\ Geometry(sz, brk) /\ U \subseteq DOMAIN sz \ A
  BY BlockWords DEF Heap
<1>2. b \in Nat /\ e \in Nat /\ b % 16 = 0 /\ e % 16 = 0 /\ b >= 160 /\ e <= brk
  BY <1>1
<1>3. b \notin B /\ \A c \in B : c \in A /\ (c < b \/ c >= e)
  BY <1>2 DEF Beside
<1>4. CASE have - asize >= 32
  <2> DEFINE s == b + asize
             sz1 == Replaced(sz, b, s, e)
             c == Cut(mm, b, s - b, 1, e - s)
             q == insert(c, s)
             A2 == B \union {b}
  <2>1. s \in Nat /\ s % 16 = 0 /\ b + 32 <= s /\ s + 32 <= e /\ asize = s - b /\ have - asize = e - s /\ b < s
    BY <1>2, <1>4
  <2>2. r = S(q, brk, tail, b)
    <3>1. r = With(S(s0, brk, tail, bp), insert(Cut(mm, b, asize, 1, have - asize), s), b)
      BY <1>4 DEF Resize
    <3>2. Cut(mm, b, asize, 1, have - asize) = c
      <4> HIDE DEF s
      <4>. QED
        BY <2>1, Zenon
    <3> HIDE DEF r, s, c
    <3>. QED
      BY <3>1, <3>2, WithS
  <2> HIDE DEF s
  <2>3. /\ Heap(c, brk, sz1, B \union {IF 1 = 1 THEN b ELSE s}, U)
        /\ Holds(m, sz, c, sz1, B)
        /\ SameBut(mm, c, {b - 4, s - 8, s - 4, e - 8})
    BY <2>1, CutOver
  <2>4. Heap(c, brk, sz1, A2, U)
    BY <2>3
  <2>5. /\ b \in DOMAIN sz1 /\ s \in DOMAIN sz1 /\ sz1[b] = s - b /\ sz1[s] = e - s
        /\ \A d \in DOMAIN sz : d < b \/ d >= e => d \in DOMAIN sz1 /\ sz1[d] = sz[d]
        /\ \A d \in DOMAIN sz1 : d = b \/ d = s \/ (d \in DOMAIN sz /\ (d < b \/ d >= e))
    BY <2>1, <1>2 DEF Replaced
  <2> HIDE DEF c, sz1
  <2>6. s \notin A2 /\ s \notin U
    BY <2>1, <1>1, <1>2, <1>3
  <2>7. Heap(q, brk, sz1, A2, U \union {s}) /\ Holds(c, sz1, q, sz1, A2)
    BY <2>4, <2>5, <2>6, HeapInsert
  <2>8. U \union {s} = DOMAIN sz1 \ A2
    <3>1. ASSUME NEW d \in DOMAIN sz1 \ A2 PROVE d \in U \union {s}
      <4>1. d = s \/ (d \in DOMAIN sz /\ (d < b \/ d >= e) /\ d \notin B)
        BY <2>5
      <4>2. CASE d # s
        <5>1. d \in DOMAIN sz \ A
          BY <4>1, <4>2 DEF Beside
        <5>2. ~(b <= d /\ d < e)
          BY <4>1, <4>2, <1>1, <1>2
        <5>. QED
          BY <5>1, <5>2
      <4>. QED
        BY <4>2
    <3>2. ASSUME NEW d \in U PROVE d \in DOMAIN sz1 \ A2
      BY <2>5, <1>1, <1>2, <1>3
    <3>. QED
      BY <3>1, <3>2, <2>5, <2>6
  <2>9. Holds(c, sz1, q, sz1, B)
    BY <2>7 DEF Holds
  <2>10. Holds(m, sz, q, sz1, B)
    BY <2>3, <2>9, HoldsSteps
  <2>11. ASSUME NEW x \in Payload(b, asize - 8) PROVE q[x] = mm[x]
    <3>1. x \in Words /\ x \in Nat /\ b <= x /\ x < s - 8
      BY <2>1, <1>2, WordNumbers DEF Payload
    <3>2. c[x] = mm[x]
      <4>1. x \notin {b - 4, s - 8, s - 4, e - 8}
        BY <3>1, <2>1, <1>2
      <4>. QED
        BY <4>1, <3>1, <2>3 DEF SameBut
    <3>3. q[x] = c[x]
      <4>1. x < b + sz1[b] - 8
        BY <3>1, <2>1, <2>5, <1>2
      <4>. QED
        BY <3>1, <4>1, <2>7 DEF Holds
    <3>. QED
      BY <3>2, <3>3
  <2>12. r.mem = q
    BY <2>2, WithS
  <2> HIDE DEF q
  <2>13. Heap(q, brk, sz1, A2, DOMAIN sz1 \ A2)
    BY <2>7, <2>8
  <2>14. sz1[b] = asize
    BY <2>1, <2>5
  <2>15. ResizedTo(r, m, mm, brk, tail, sz, A, b, e, asize, sz1)
    BY <2>2, <2>5, <2>10, <2>11, <2>12, <2>13, <2>14 DEF ResizedTo
  <2>. QED
    BY <2>15
<1>5. CASE ~(have - asize >= 32)
  <2> DEFINE sz1 == Replaced(sz, b, e, e)
             q == PutTags(mm, b, e - b, 1)
             A2 == B \union {b}
  <2>1. r = S(q, brk, tail, b)
    <3>1. r = With(S(s0, brk, tail, bp), PutTags(mm, b, have, 1), b)
      BY <1>5 DEF Resize
    <3>. QED
      BY <3>1, WithS
  <2>2. Heap(q, brk, sz1, Marked(A, b, e, 1), U) /\ Holds(m, sz, q, sz1, B) /\ SameBut(mm, q, {b - 4, e - 8})
    BY <1>2, JoinedOver
  <2>3. Heap(q, brk, sz1, A2, U)
    BY <2>2 DEF Marked
  <2>4. /\ b \in DOMAIN sz1 /\ sz1[b] = e - b
        /\ \A d \in DOMAIN sz : d < b \/ d >= e => d \in DOMAIN sz1 /\ sz1[d] = sz[d]
        /\ \A d \in DOMAIN sz1 : d = b \/ (d \in DOMAIN sz /\ (d < b \/ d >= e))
    BY <1>2 DEF Replaced
  <2> HIDE DEF q, sz1
  <2>5. U = DOMAIN sz1 \ A2
    <3>1. ASSUME NEW d \in DOMAIN sz1 \ A2 PROVE d \in U
      <4>1. d \in DOMAIN sz /\ (d < b \/ d >= e) /\ d \notin B
        BY <2>4
      <4>2. d \in DOMAIN sz \ A
        BY <4>1 DEF Beside
      <4>3. ~(b <= d /\ d < e)
        BY <4>1, <1>1, <1>2
      <4>. QED
        BY <4>2, <4>3
    <3>2. ASSUME NEW d \in U PROVE d \in DOMAIN sz1 \ A2
      BY <2>4, <1>1, <1>2, <1>3
    <3>. QED
      BY <3>1, <3>2
  <2>6. Heap(q, brk, sz1, A2, DOMAIN sz1 \ A2)
    BY <2>3, <2>5
  <2>7. sz1[b] = asize \/ sz1[b] = asize + 16
    BY <2>4, <1>2, <1>5
  <2>8. ASSUME NEW x \in Payload(b, asize - 8) PROVE q[x] = mm[x]
    <3>1. x \in Words /\ x \in Nat /\ b <= x /\ x < e - 8
      BY <1>2, WordNumbers DEF Payload
    <3>2. x \notin {b - 4, e - 8}
      BY <3>1, <1>2
    <3>. QED
      BY <3>1, <3>2, <2>2 DEF SameBut
  <2>9. r.mem = q
    BY <2>1, WithS
  <2>10. ResizedTo(r, m, mm, brk, tail, sz, A, b, e, asize, sz1)
    BY <2>1, <2>2, <2>4, <2>6, <2>7, <2>8, <2>9 DEF ResizedTo
  <2>. QED
    BY <2>10
<1>. QED
  BY <1>4, <1>5

\* State r came from memory m: block ptr has become the block r.bp, with its data if they were
\* copied from the first word up; if the heap grew for it, it is a new block that did not fit.
Reallocates(r, m, brk, sz, A, ptr, asize, order, sz2) ==
  /\ r = S(r.mem, r.brk, r.brk, r.bp)
  /\ r.bp \in DOMAIN sz2 \ (A \ {ptr})
  /\ Heap(r.mem, r.brk, sz2, (A \ {ptr}) \union {r.bp}, DOMAIN sz2 \ ((A \ {ptr}) \union {r.bp}))
  /\ Holds(m, sz, r.mem, sz2, A \ {ptr})
  /\ sz2[r.bp] = asize \/ sz2[r.bp] = asize + 16
  /\ order = "forward" =>
       \A x \in Payload(r.bp, asize - 8) : x < r.bp + (sz[ptr] - 8) => r.mem[x] = m[ptr + (x - r.bp)]
  /\ r.brk >= brk
  /\ r.brk # brk => r.bp \notin A /\ \A c \in DOMAIN sz \ A : sz[c] < asize

\* The data of block ptr are at b in mm.
DataMoved(m, mm, b, ptr, n) == \A x \in Payload(b, n) : mm[x] = m[ptr + (x - b)]

\* Resize on the region from b to e, in which ptr is the only block of the client: m1 came from m
\* by deletions from the lists, mm from m1 by a copy within the region.
LEMMA ResizedInPlace ==
  ASSUME NEW m, NEW brk, NEW bp, NEW sz, NEW A, Heap(m, brk, sz, A, DOMAIN sz \ A), NEW ptr \in A,
         NEW s0, NEW m1, NEW U, Heap(m1, brk, sz, A, U), Holds(m, sz, m1, sz, A), NEW mm,
         NEW b \in DOMAIN sz, NEW e \in DOMAIN sz \union {brk}, b <= ptr, ptr < e,
         SameBut(m1, mm, RegionWords(b, e)), NEW order,
         order = "forward" => DataMoved(m1, mm, b, ptr, sz[ptr] - 8),
         \A c \in A : c = ptr \/ c < b \/ c >= e,
         \A c \in U : c < b \/ c >= e,
         \A c \in DOMAIN sz \ A : c \in U \/ (b <= c /\ c < e),
         NEW have, have = e - b, NEW asize \in Nat, asize % 16 = 0, asize >= 32, have >= asize
  PROVE  \E sz2 : Reallocates(Resize(S(s0, brk, brk, bp), mm, b, have, asize),
                              m, brk, sz, A, ptr, asize, order, sz2)
<1> DEFINE r == Resize(S(s0, brk, brk, bp), mm, b, have, asize)
           B == A \ {ptr}
<1>1. Placed(sz, brk) /\ A \subseteq DOMAIN sz
  BY BlockWords DEF Heap
<1>2. b \in Nat /\ ptr \in Nat /\ e \in Nat /\ b < e /\ sz[ptr] \in Nat
  BY <1>1
<1>3. \E sz2 : ResizedTo(r, m1, mm, brk, brk, sz, A, b, e, asize, sz2)
  BY <1>2, Resizing
<1> HIDE DEF r
<1> PICK sz2 : ResizedTo(r, m1, mm, brk, brk, sz, A, b, e, asize, sz2)
  BY <1>3
<1>4. Beside(A, b, e) = B
  <2>1. ~(ptr < b \/ ptr >= e)
    BY <1>2
  <2>. QED
    BY <2>1, Zenon DEF Beside
<1>5. /\ r = S(r.mem, brk, brk, b) /\ b \in DOMAIN sz2
      /\ Heap(r.mem, brk, sz2, B \union {b}, DOMAIN sz2 \ (B \union {b}))
      /\ Holds(m1, sz, r.mem, sz2, B)
      /\ sz2[b] = asize \/ sz2[b] = asize + 16
      /\ \A x \in Payload(b, asize - 8) : r.mem[x] = mm[x]
  BY <1>4 DEF ResizedTo
<1>6. r.brk = brk /\ r.bp = b
  BY <1>5, WithS
<1>7. b \notin B
  BY <1>2
<1>8. Holds(m, sz, r.mem, sz2, B)
  BY <1>5, HoldsSteps
<1>9. ASSUME order = "forward", NEW x \in Payload(b, asize - 8), x < b + (sz[ptr] - 8)
      PROVE  r.mem[x] = m[ptr + (x - b)]
  <2>1. x \in Words /\ x \in Nat /\ b <= x /\ x % 4 = 0 /\ b % 4 = 0 /\ ptr % 4 = 0
    BY <1>1, WordNumbers DEF Payload
  <2>2. r.mem[x] = m1[ptr + (x - b)]
    BY <1>5, <1>9, <2>1 DEF DataMoved, Payload
  <2>3. PICK y : y = ptr + (x - b)
    OBVIOUS
  <2>4. y \in Nat /\ y % 4 = 0 /\ ptr <= y /\ y < ptr + sz[ptr] - 8
    BY <2>1, <2>3, <1>2, <1>9
  <2>5. y \in Words
    BY <2>4, <1>1
  <2>. QED
    BY <2>2, <2>3, <2>4, <2>5 DEF Holds
<1>10. Reallocates(r, m, brk, sz, A, ptr, asize, order, sz2)
  BY <1>1, <1>5, <1>6, <1>7, <1>8, <1>9 DEF Reallocates
<1>. QED
  BY <1>10 DEF r

\* The last resort: a larger new block, to which the data are copied, and ptr is freed.
LEMMA CopiedAndFreed ==
  ASSUME NEW m, NEW brk, NEW bp, NEW sz, NEW A, Heap(m, brk, sz, A, DOMAIN sz \ A), NEW ptr \in A,
         NEW asize \in Nat, asize % 16 = 0, asize >= 32, asize > sz[ptr], NEW order
  PROVE  LET r == CopyAndFree(PlaceIfAny(FitOrExtend(S(m, brk, brk, bp), asize), asize), ptr, sz[ptr], order)
         IN  r = S(m, brk, brk, 0) \/ (r.bp # 0 /\ \E sz2 : Reallocates(r, m, brk, sz, A, ptr, asize, order, sz2))
<1> DEFINE old == sz[ptr]
           q == PlaceIfAny(FitOrExtend(S(m, brk, brk, bp), asize), asize)
           r == CopyAndFree(q, ptr, old, order)
           n == old - 8
           mc == Memcpy(q.mem, q.bp, ptr, n, order)
           F == mm_free(S(mc, q.brk, q.brk, q.bp), ptr)
           A1 == A \union {q.bp}
           B == A \ {ptr}
<1>1. q = S(m, brk, brk, 0) \/ (q.bp # 0 /\ \E sz1 : Allocates(q, m, brk, sz, A, asize, sz1))
  BY Allocating
<1>2. q.bp = 0 => r = q
  BY DEF CopyAndFree
<1>3. q.bp # 0 => r = [mm_free([q EXCEPT !.mem = mc], ptr) EXCEPT !.bp = q.bp]
  BY DEF CopyAndFree
<1> HIDE DEF q, r
<1>4. CASE q = S(m, brk, brk, 0)
  BY <1>2, <1>4, WithS DEF r, q
<1>5. CASE q.bp # 0 /\ \E sz1 : Allocates(q, m, brk, sz, A, asize, sz1)
  <2> PICK sz1 : Allocates(q, m, brk, sz, A, asize, sz1)
    BY <1>5
  <2>1. /\ q = S(q.mem, q.brk, q.brk, q.bp)
        /\ q.bp \in DOMAIN sz1 \ A
        /\ Heap(q.mem, q.brk, sz1, A1, (DOMAIN sz1 \ A) \ {q.bp})
        /\ Holds(m, sz, q.mem, sz1, A)
        /\ sz1[q.bp] = asize \/ sz1[q.bp] = asize + 16
        /\ q.brk >= brk
        /\ q.brk # brk => \A c \in DOMAIN sz \ A : sz[c] < asize
    BY DEF Allocates
  <2>2. DOMAIN sz1 \ A1 = (DOMAIN sz1 \ A) \ {q.bp} /\ q.bp \in A1 /\ A1 \ {q.bp} = A
    BY <2>1
  <2>3. Placed(sz, brk) /\ ptr \in DOMAIN sz /\ Placed(sz1, q.brk)
    BY <2>1, BlockWords DEF Heap
  <2>4. /\ old \in Nat /\ old >= 32 /\ ptr \in Nat /\ ptr % 16 = 0
        /\ q.bp \in Nat /\ q.bp % 16 = 0 /\ sz1[q.bp] \in Nat /\ old < sz1[q.bp] /\ n \in Nat /\ n = old - 8
    BY <2>1, <2>3
  <2>5. [q EXCEPT !.mem = mc] = S(mc, q.brk, q.brk, q.bp)
    <3>1. \A mx : [S(q.mem, q.brk, q.brk, q.bp) EXCEPT !.mem = mx] = S(mx, q.brk, q.brk, q.bp)
      BY DEF S
    <3>. QED
      BY <2>1, <3>1, Zenon
  <2>6. /\ SameBut(q.mem, mc, Payload(q.bp, n))
        /\ order = "forward" => \A x \in Payload(q.bp, n) : mc[x] = q.mem[ptr + 4 * ((x - q.bp) \div 4)]
    BY Copied
  <2> HIDE DEF mc, n, old
  <2>7. SameBut(q.mem, mc, Payload(q.bp, sz1[q.bp] - 8))
    <3>1. Payload(q.bp, n) \subseteq Payload(q.bp, sz1[q.bp] - 8)
      BY <2>4, WordNumbers DEF Payload
    <3>. QED
      BY <2>6, <3>1 DEF SameBut
  <2>8. Heap(mc, q.brk, sz1, A1, DOMAIN sz1 \ A1) /\ Holds(q.mem, sz1, mc, sz1, A)
    <3>1. Heap(q.mem, q.brk, sz1, A1, DOMAIN sz1 \ A1)
      BY <2>1, <2>2
    <3>2. Heap(mc, q.brk, sz1, A1, DOMAIN sz1 \ A1) /\ Holds(q.mem, sz1, mc, sz1, A1 \ {q.bp})
      <4> HIDE DEF A1
      <4>. QED
        BY ONLY <3>1, <2>2, <2>7, PayloadWritten
    <3>. QED
      BY <3>2, <2>2
  <2>9. ptr \in A1
    OBVIOUS
  <2>10. \E sz2 : Frees(F, mc, q.brk, sz1, A1, ptr, sz2)
    BY <2>8, <2>9, Freeing
  <2>11. r = [F EXCEPT !.bp = q.bp]
    BY <1>3, <1>5, <2>5
  <2> HIDE DEF F
  <2> PICK sz2 : Frees(F, mc, q.brk, sz1, A1, ptr, sz2)
    BY <2>10
  <2>12. A1 \ {ptr} = B \union {q.bp}
    BY <2>1
  <2>13. /\ F = S(F.mem, q.brk, q.brk, F.bp)
         /\ Heap(F.mem, q.brk, sz2, B \union {q.bp}, DOMAIN sz2 \ (B \union {q.bp}))
         /\ Holds(mc, sz1, F.mem, sz2, B \union {q.bp})
    BY <2>12 DEF Frees
  <2>14. r = S(F.mem, q.brk, q.brk, q.bp)
    BY <2>11, <2>13, OtherPointer
  <2>15. r.mem = F.mem /\ r.brk = q.brk /\ r.bp = q.bp
    BY <2>14, WithS
  <2>16. q.bp \in DOMAIN sz2 \ B /\ sz2[q.bp] = sz1[q.bp]
    BY <2>1, <2>13 DEF Holds
  <2>17. Holds(m, sz, F.mem, sz2, B)
    <3>1. Holds(m, sz, mc, sz1, A)
      BY <2>1, <2>8, HoldsSteps
    <3>2. Holds(mc, sz1, F.mem, sz2, B)
      BY <2>13 DEF Holds
    <3>. QED
      BY <3>1, <3>2, HoldsSteps
  <2>18. ASSUME order = "forward", NEW x \in Payload(q.bp, asize - 8), x < q.bp + (old - 8)
         PROVE  F.mem[x] = m[ptr + (x - q.bp)]
    <3>1. x \in Words /\ x \in Nat /\ q.bp <= x /\ x % 4 = 0
      BY WordNumbers DEF Payload
    <3>2. x \in Payload(q.bp, n) /\ x < q.bp + sz1[q.bp] - 8
      BY <3>1, <2>4, <2>18 DEF Payload
    <3>3. F.mem[x] = mc[x]
      BY <2>13, <3>1, <3>2 DEF Holds
    <3>4. mc[x] = q.mem[ptr + (x - q.bp)]
      <4>1. 4 * ((x - q.bp) \div 4) = x - q.bp
        BY <3>1, <2>4
      <4>. QED
        BY <4>1, <3>2, <2>6, <2>18
    <3>5. PICK y : y = ptr + (x - q.bp)
      OBVIOUS
    <3>6. y \in Nat /\ y % 4 = 0 /\ ptr <= y /\ y < ptr + old - 8
      BY <3>1, <3>5, <2>4, <2>18
    <3>7. y \in Words
      BY <3>6, <2>3 DEF old
    <3>8. q.mem[y] = m[y]
      BY <3>6, <3>7, <2>1 DEF Holds, old
    <3>. QED
      BY <3>3, <3>4, <3>5, <3>8
  <2>19. Reallocates(r, m, brk, sz, A, ptr, asize, order, sz2)
    BY <2>1, <2>13, <2>14, <2>15, <2>16, <2>17, <2>18 DEF Reallocates, old
  <2>. QED
    BY <2>15, <2>19, <1>5 DEF r, q, old
<1>. QED
  BY <1>1, <1>4, <1>5

\* memcpy within a region.
LEMMA MovedWithin ==
  ASSUME NEW m, NEW dst \in Nat, dst % 16 = 0, NEW src \in Nat, NEW n \in Nat, NEW order,
         NEW e \in Nat, dst + n <= e - 4
  PROVE  LET mm == Memcpy(m, dst, src, n, order)
         IN  SameBut(m, mm, RegionWords(dst, e)) /\ (order = "forward" => DataMoved(m, mm, dst, src, n))
<1> DEFINE mm == Memcpy(m, dst, src, n, order)
<1>1. /\ SameBut(m, mm, Payload(dst, n))
      /\ order = "forward" => \A x \in Payload(dst, n) : mm[x] = m[src + 4 * ((x - dst) \div 4)]
  BY Copied
<1> HIDE DEF mm
<1>2. Payload(dst, n) \subseteq RegionWords(dst, e)
  BY WordNumbers DEF Payload, RegionWords
<1>3. \A x \in Payload(dst, n) : 4 * ((x - dst) \div 4) = x - dst
  BY WordNumbers DEF Payload
<1>4. SameBut(m, mm, RegionWords(dst, e))
  BY <1>1, <1>2 DEF SameBut
<1>5. order = "forward" => DataMoved(m, mm, dst, src, n)
  BY <1>1, <1>3 DEF DataMoved
<1>. QED
  BY <1>4, <1>5 DEF mm

\* mm_realloc in terms of what it reads of the blocks at n and p beside ptr.
ReallocResult(s, m, ptr, asize, old, n, p, ns, ps, order) ==
  IF asize <= old /\ old - asize < 32 THEN With(s, m, ptr)
  ELSE IF asize <= old THEN Resize(s, m, ptr, old, asize)
  ELSE IF GET_ALLOC(m, n - 4) = 0 /\ ns + old >= asize
  THEN Resize(s, delete(m, n), ptr, ns + old, asize)
  ELSE IF GET_ALLOC(m, p - 4) = 0 /\ ps + old >= asize
  THEN Resize(s, Memcpy(delete(m, p), p, ptr, old - 8, order), p, ps + old, asize)
  ELSE IF GET_ALLOC(m, p - 4) = 0 /\ GET_ALLOC(m, n - 4) = 0 /\ ps + (ns + old) >= asize
  THEN Resize(s, Memcpy(delete(delete(m, p), n), p, ptr, old - 8, order), p, ps + (ns + old), asize)
  ELSE CopyAndFree(PlaceIfAny(FitOrExtend(s, asize), asize), ptr, old, order)

\* mm_realloc is what ReallocResult says.
LEMMA ReallocCases ==
  ASSUME NEW s, NEW ptr, ptr # 0, NEW size, size # 0, NEW order, NEW m, m = s.mem,
         NEW asize, asize = Adjust(size), NEW old, old = GET_SIZE(m, ptr - 4),
         NEW n, n = NEXT_BLKP(m, ptr), NEW p, p = PREV_BLKP(m, ptr),
         NEW ns, ns = GET_SIZE(m, n - 4), NEW ps, ps = GET_SIZE(m, p - 4)
  PROVE  mm_realloc(s, ptr, size, order) = ReallocResult(s, m, ptr, asize, old, n, p, ns, ps, order)
BY DEF mm_realloc, NextFits, Shrink, ReallocResult, ALIGNMENT

\* The region from b to e, in which ptr is the only block of the client and whose free blocks
\* have left the lists (m1) and given room to the data of ptr (mm).
Cleared(m, brk, sz, A, ptr, order, m1, U, mm, b, e) ==
  /\ Heap(m1, brk, sz, A, U) /\ Holds(m, sz, m1, sz, A)
  /\ b \in DOMAIN sz /\ e \in DOMAIN sz \union {brk} /\ b <= ptr /\ ptr < e
  /\ SameBut(m1, mm, RegionWords(b, e))
  /\ order = "forward" => DataMoved(m1, mm, b, ptr, sz[ptr] - 8)
  /\ \A c \in A : c = ptr \/ c < b \/ c >= e
  /\ \A c \in U : c < b \/ c >= e
  /\ \A c \in DOMAIN sz \ A : c \in U \/ (b <= c /\ c < e)

\* ResizedInPlace in the terms of Cleared.
LEMMA ClearedResized ==
  ASSUME NEW m, NEW brk, NEW bp, NEW sz, NEW A, Heap(m, brk, sz, A, DOMAIN sz \ A), NEW ptr \in A,
         NEW s0, NEW order, NEW m1, NEW U, NEW mm, NEW b, NEW e,
         Cleared(m, brk, sz, A, ptr, order, m1, U, mm, b, e),
         NEW have, have = e - b, NEW asize \in Nat, asize % 16 = 0, asize >= 32, have >= asize
  PROVE  \E sz2 : Reallocates(Resize(S(s0, brk, brk, bp), mm, b, have, asize),
                              m, brk, sz, A, ptr, asize, order, sz2)
BY ResizedInPlace DEF Cleared

\* mm_realloc of a block and a size: the block is resized, where it is or over the free blocks
\* beside it, or moved; or the heap is exhausted and nothing has changed.
LEMMA Reallocating ==
  ASSUME NEW m, NEW brk, NEW sz, NEW A, Heap(m, brk, sz, A, DOMAIN sz \ A), NEW ptr \in A,
         NEW size \in Nat \ {0}, NEW order
  PROVE  LET r == mm_realloc(S(m, brk, brk, 0), ptr, size, order)
         IN  r = S(m, brk, brk, 0)
               \/ (r.bp # 0 /\ \E sz2 : Reallocates(r, m, brk, sz, A, ptr, Adjust(size), order, sz2))
<1> DEFINE s == S(m, brk, brk, 0)
           asize == Adjust(size)
           old == sz[ptr]
           n == ptr + old
           r == mm_realloc(s, ptr, size, order)
           p == PREV_BLKP(m, ptr)
           ns == GET_SIZE(m, n - 4)
           ps == GET_SIZE(m, p - 4)
           FF == DOMAIN sz \ A
           prevFree == \E c \in FF : c + sz[c] = ptr
           nextFree == n \in FF
           Goal == \E sz2 : Reallocates(r, m, brk, sz, A, ptr, asize, order, sz2)
<1>1. Placed(sz, brk) /\ A \subseteq DOMAIN sz /\ Geometry(sz, brk) /\ ptr \in DOMAIN sz
  BY BlockWords DEF Heap
<1>2. ptr \in Nat /\ ptr # 0 /\ ptr % 16 = 0 /\ old \in Nat /\ old >= 32 /\ n \in Nat
      /\ n \in DOMAIN sz \union {brk}
  BY <1>1 DEF Geometry
<1>3. asize \in Nat /\ asize % 16 = 0 /\ asize >= 32
  BY Adjusted
<1>4. /\ GET_SIZE(m, ptr - 4) = old /\ NEXT_BLKP(m, ptr) = n
      /\ GET_ALLOC(m, n - 4) = 0 <=> nextFree
      /\ nextFree => ns = sz[n]
      /\ \A c \in DOMAIN sz : c + sz[c] = ptr => p = c /\ ps = sz[c]
      /\ GET_ALLOC(m, p - 4) = 0 <=> prevFree
  BY <1>1, Neighbours
<1>5. s.mem = m
  BY WithS
<1>6. r = IF asize <= old /\ old - asize < 32 THEN With(s, m, ptr)
          ELSE IF asize <= old THEN Resize(s, m, ptr, old, asize)
          ELSE IF nextFree /\ ns + old >= asize
          THEN Resize(s, delete(m, n), ptr, ns + old, asize)
          ELSE IF prevFree /\ ps + old >= asize
          THEN Resize(s, Memcpy(delete(m, p), p, ptr, old - 8, order), p, ps + old, asize)
          ELSE IF prevFree /\ nextFree /\ ps + (ns + old) >= asize
          THEN Resize(s, Memcpy(delete(delete(m, p), n), p, ptr, old - 8, order), p, ps + (ns + old), asize)
          ELSE CopyAndFree(PlaceIfAny(FitOrExtend(s, asize), asize), ptr, old, order)
  <2> HIDE DEF s, asize, old, n, p, ns, ps, prevFree, nextFree
  <2>1. r = ReallocResult(s, m, ptr, asize, old, n, p, ns, ps, order)
    <3> SUFFICES mm_realloc(s, ptr, size, order) = ReallocResult(s, m, ptr, asize, old, n, p, ns, ps, order)
      BY DEF r
    <3>1. asize = Adjust(size) /\ p = PREV_BLKP(m, ptr) /\ ns = GET_SIZE(m, n - 4) /\ ps = GET_SIZE(m, p - 4)
      BY DEF asize, p, ns, ps
    <3>. QED
      BY <3>1, <1>2, <1>4, <1>5, ReallocCases
  <2> HIDE DEF r
  <2>. QED
    BY <2>1, <1>4 DEF ReallocResult
<1> HIDE DEF r, asize, p, ns, ps
<1>7. /\ \A c \in DOMAIN sz : c = ptr \/ c < ptr \/ c >= n
      /\ \A c \in DOMAIN sz : n < c => n \in DOMAIN sz /\ n + sz[n] <= c
      /\ \A c \in DOMAIN sz : c < ptr => c + sz[c] <= ptr
  <2>1. \A c \in DOMAIN sz : n < c => n # brk
    BY <1>1
  <2>. QED
    BY <2>1, <1>1, <1>2
<1>8. old - 8 \in Nat
  BY <1>2
<1>9. Holds(m, sz, m, sz, A)
  BY <1>1, HoldsSelf
<1>9a. ASSUME asize <= old, old - asize < 32 PROVE Goal
  <2>1. r = S(m, brk, brk, ptr)
    BY <1>6, <1>9a, WithS
  <2>2. r.mem = m /\ r.brk = brk /\ r.bp = ptr
    BY <2>1, WithS
  <2>3. (A \ {ptr}) \union {ptr} = A
    OBVIOUS
  <2>4. old = asize \/ old = asize + 16
    BY <1>1, <1>2, <1>3, <1>9a
  <2>5. Holds(m, sz, m, sz, A \ {ptr})
    BY <1>9 DEF Holds
  <2>6. \A x \in Payload(ptr, asize - 8) : m[x] = m[ptr + (x - ptr)]
    BY <1>2, WordNumbers DEF Payload
  <2>7. Heap(m, brk, sz, (A \ {ptr}) \union {ptr}, DOMAIN sz \ ((A \ {ptr}) \union {ptr}))
    BY <2>3
  <2> HIDE DEF old
  <2>8. Reallocates(S(m, brk, brk, ptr), m, brk, sz, A, ptr, asize, order, sz)
    BY <2>1, <2>2, <2>4, <2>5, <2>6, <2>7, <1>1 DEF Reallocates, old
  <2>. QED
    BY <2>1, <2>8
<1>10. ASSUME asize <= old, ~(old - asize < 32) PROVE Goal
  <2>1. SameBut(m, m, RegionWords(ptr, n))
    BY SameAll
  <2>2. DataMoved(m, m, ptr, ptr, sz[ptr] - 8)
    BY <1>2, WordNumbers DEF DataMoved, Payload
  <2>3. old = n - ptr /\ old >= asize /\ ptr < n
    BY <1>2, <1>3, <1>10
  <2>4. r = Resize(S(m, brk, brk, 0), m, ptr, old, asize)
    BY <1>6, <1>10
  <2>5. \A c \in FF : c < ptr \/ c >= n
    BY <1>7
  <2>6. Cleared(m, brk, sz, A, ptr, order, m, FF, m, ptr, n)
    BY <2>1, <2>2, <2>3, <2>5, <1>1, <1>2, <1>7, <1>9 DEF Cleared
  <2> HIDE DEF n, old
  <2>. QED
    BY <2>3, <2>4, <2>6, <1>3, ClearedResized
<1>11. ASSUME ~(asize <= old), nextFree, ns + old >= asize PROVE Goal
  <2> DEFINE e == n + sz[n]
             U == FF \ {n}
             m1 == delete(m, n)
  <2>1. n \in DOMAIN sz /\ n \notin A /\ sz[n] \in Nat /\ sz[n] >= 32 /\ ns = sz[n]
        /\ e \in DOMAIN sz \union {brk} /\ e \in Nat
    BY <1>1, <1>4, <1>11 DEF Geometry
  <2>2. Heap(m1, brk, sz, A, U) /\ Holds(m, sz, m1, sz, A)
    BY <1>11, HeapDelete
  <2>3. r = Resize(S(m, brk, brk, 0), m1, ptr, ns + old, asize)
    BY <1>6, <1>11
  <2> HIDE DEF m1
  <2>4. SameBut(m1, m1, RegionWords(ptr, e))
    BY <2>2, SameAll
  <2>5. DataMoved(m1, m1, ptr, ptr, sz[ptr] - 8)
    BY <1>2, WordNumbers DEF DataMoved, Payload
  <2>6. ns + old = e - ptr /\ ns + old >= asize /\ ptr < e
    BY <2>1, <1>2, <1>3, <1>11
  <2>7. \A c \in DOMAIN sz : c = ptr \/ c = n \/ c < ptr \/ c >= e
    <3>1. \A c \in DOMAIN sz : c \in Nat
      BY <1>1
    <3>. QED
      BY <3>1, <1>2, <1>7
  <2>8. n < e /\ ptr < n
    BY <2>1, <1>2
  <2>9. /\ \A c \in A : c = ptr \/ c < ptr \/ c >= e
        /\ \A c \in U : c < ptr \/ c >= e
        /\ \A c \in FF : c \in U \/ (ptr <= c /\ c < e)
    BY <2>1, <2>7, <2>8, <1>1, <1>2
  <2>10. PICK have : have = ns + old
    OBVIOUS
  <2> HIDE DEF n, old, e, U
  <2>11. \E sz2 : Reallocates(Resize(S(m, brk, brk, 0), m1, ptr, have, asize),
                                    m, brk, sz, A, ptr, asize, order, sz2)
    <3>1. Cleared(m, brk, sz, A, ptr, order, m1, U, m1, ptr, e)
      BY <2>1, <2>2, <2>4, <2>5, <2>6, <2>9, <1>1, <1>2 DEF Cleared
    <3>. QED
      BY <3>1, <2>6, <2>10, <1>3, ClearedResized
  <2>. QED
    BY <2>3, <2>10, <2>11
<1>12. ASSUME ~(asize <= old), ~(nextFree /\ ns + old >= asize), prevFree, ps + old >= asize PROVE Goal
  <2> PICK c \in FF : c + sz[c] = ptr
    BY <1>12
  <2> DEFINE U == FF \ {c}
             m1 == delete(m, c)
             mm == Memcpy(m1, c, ptr, old - 8, order)
  <2>1. c \in DOMAIN sz /\ c \notin A /\ c \in Nat /\ c % 16 = 0 /\ sz[c] \in Nat
        /\ sz[c] >= 32 /\ p = c /\ ps = sz[c]
    BY <1>1, <1>4
  <2>2. Heap(m1, brk, sz, A, U) /\ Holds(m, sz, m1, sz, A)
    BY HeapDelete
  <2>3. r = Resize(S(m, brk, brk, 0), mm, c, ps + old, asize)
    BY <1>6, <1>12, <2>1
  <2>4. c + (old - 8) <= n - 4 /\ c < ptr /\ ptr < n
    BY <2>1, <1>2
  <2> HIDE DEF m1
  <2>5. /\ SameBut(m1, mm, RegionWords(c, n))
        /\ order = "forward" => DataMoved(m1, mm, c, ptr, old - 8)
    <3> HIDE DEF n, old, mm
    <3> DEFINE k == old - 8
    <3>1. k \in Nat /\ c + k <= n - 4
      BY <1>8, <2>4
    <3> HIDE DEF k
    <3>2. /\ SameBut(m1, Memcpy(m1, c, ptr, k, order), RegionWords(c, n))
          /\ order = "forward" => DataMoved(m1, Memcpy(m1, c, ptr, k, order), c, ptr, k)
      BY <3>1, <2>1, <1>2, MovedWithin
    <3>. QED
      BY <3>2 DEF k, mm
  <2>6. ps + old = n - c /\ ps + old >= asize
    BY <2>1, <1>2, <1>3, <1>12
  <2>7. \A d \in DOMAIN sz : d = ptr \/ d = c \/ d < c \/ d >= n
    BY <2>1, <1>1, <1>7
  <2>8. /\ \A d \in A : d = ptr \/ d < c \/ d >= n
        /\ \A d \in U : d < c \/ d >= n
        /\ \A d \in FF : d \in U \/ (c <= d /\ d < n)
    BY <2>1, <2>4, <2>7, <1>1, <1>2
  <2>9. PICK have : have = ps + old
    OBVIOUS
  <2> HIDE DEF n, U, mm
  <2>10. \E sz2 : Reallocates(Resize(S(m, brk, brk, 0), mm, c, have, asize), m, brk, sz, A, ptr, asize, order, sz2)
    <3>1. Cleared(m, brk, sz, A, ptr, order, m1, U, mm, c, n)
      <4>1. c <= ptr
        BY <2>1, <2>4, <1>2
      <4>. QED
        BY <4>1, <2>1, <2>2, <2>4, <2>5, <2>8, <1>1, <1>2 DEF Cleared, old
    <3>. QED
      BY <3>1, <2>6, <2>9, <1>3, ClearedResized
  <2>. QED
    BY <2>3, <2>9, <2>10
<1>13. ASSUME ~(asize <= old), ~(nextFree /\ ns + old >= asize), ~(prevFree /\ ps + old >= asize),
              prevFree, nextFree, ps + (ns + old) >= asize
       PROVE  Goal
  <2> PICK c \in FF : c + sz[c] = ptr
    BY <1>13
  <2> DEFINE e == n + sz[n]
             U1 == FF \ {c}
             U == U1 \ {n}
             m0 == delete(m, c)
             m1 == delete(m0, n)
             mm == Memcpy(m1, c, ptr, old - 8, order)
  <2>1. c \in DOMAIN sz /\ c \notin A /\ c \in Nat /\ c % 16 = 0 /\ sz[c] \in Nat
        /\ sz[c] >= 32 /\ p = c /\ ps = sz[c]
    BY <1>1, <1>4
  <2>2. n \in DOMAIN sz /\ n \notin A /\ sz[n] \in Nat /\ sz[n] >= 32 /\ ns = sz[n]
        /\ e \in DOMAIN sz \union {brk} /\ e \in Nat
    BY <1>1, <1>4, <1>13 DEF Geometry
  <2>3. r = Resize(S(m, brk, brk, 0), mm, c, ps + (ns + old), asize)
    BY <1>6, <1>13, <2>1
  <2>4. c + (old - 8) <= e - 4 /\ c < ptr /\ ptr < n /\ n < e
    BY <2>1, <2>2, <1>2
  <2>5. Heap(m0, brk, sz, A, U1) /\ Holds(m, sz, m0, sz, A)
    BY HeapDelete
  <2> HIDE DEF m0
  <2>6. Heap(m1, brk, sz, A, U) /\ Holds(m0, sz, m1, sz, A)
    <3>1. n \in U1
      BY <2>1, <2>4, <1>13
    <3>. QED
      BY <3>1, <2>5, HeapDelete
  <2> HIDE DEF m1
  <2>7. Holds(m, sz, m1, sz, A)
    BY <2>5, <2>6, HoldsSteps
  <2>8. /\ SameBut(m1, mm, RegionWords(c, e))
        /\ order = "forward" => DataMoved(m1, mm, c, ptr, old - 8)
    <3> HIDE DEF n, old, mm, e
    <3> DEFINE k == old - 8
    <3>1. k \in Nat /\ c + k <= e - 4
      BY <1>8, <2>4
    <3> HIDE DEF k
    <3>2. /\ SameBut(m1, Memcpy(m1, c, ptr, k, order), RegionWords(c, e))
          /\ order = "forward" => DataMoved(m1, Memcpy(m1, c, ptr, k, order), c, ptr, k)
      BY <3>1, <2>1, <2>2, <1>2, MovedWithin
    <3>. QED
      BY <3>2 DEF k, mm
  <2>9. ps + (ns + old) = e - c /\ ps + (ns + old) >= asize
    BY <2>1, <2>2, <1>2, <1>3, <1>13
  <2>10. \A d \in DOMAIN sz : d = ptr \/ d = c \/ d = n \/ d < c \/ d >= e
    BY <2>1, <2>2, <1>1, <1>2, <1>7
  <2>11. /\ \A d \in A : d = ptr \/ d < c \/ d >= e
         /\ \A d \in U : d < c \/ d >= e
         /\ \A d \in FF : d \in U \/ (c <= d /\ d < e)
    BY <2>1, <2>2, <2>4, <2>10, <1>1, <1>2
  <2>12. PICK have : have = ps + (ns + old)
    OBVIOUS
  <2>13. ptr < e
    BY <2>2, <2>4, <1>2
  <2> HIDE DEF n, U, mm, e
  <2>14. \E sz2 : Reallocates(Resize(S(m, brk, brk, 0), mm, c, have, asize), m, brk, sz, A, ptr, asize, order, sz2)
    <3>1. Cleared(m, brk, sz, A, ptr, order, m1, U, mm, c, e)
      <4>1. c <= ptr
        BY <2>1, <2>4, <1>2
      <4>. QED
        BY <4>1, <2>1, <2>2, <2>6, <2>7, <2>8, <2>11, <2>13, <1>1, <1>2 DEF Cleared, old
    <3>. QED
      BY <3>1, <2>9, <2>12, <1>3, ClearedResized
  <2>. QED
    BY <2>3, <2>12, <2>14
<1>14. ASSUME ~(asize <= old), ~(nextFree /\ ns + old >= asize), ~(prevFree /\ ps + old >= asize),
              ~(prevFree /\ nextFree /\ ps + (ns + old) >= asize)
       PROVE  r = S(m, brk, brk, 0) \/ Goal
  <2>1. r = CopyAndFree(PlaceIfAny(FitOrExtend(S(m, brk, brk, 0), asize), asize), ptr, sz[ptr], order)
    BY <1>6, <1>14
  <2>2. asize > sz[ptr]
    BY <1>2, <1>3, <1>14
  <2>. QED
    BY <2>1, <2>2, <1>3, CopiedAndFreed
<1>15. r = S(m, brk, brk, 0) \/ Goal
  BY <1>9a, <1>10, <1>11, <1>12, <1>13, <1>14
<1>16. ASSUME Goal PROVE r.bp # 0
  BY <1>16, BlockWords DEF Reallocates, Heap
<1>. QED
  BY <1>15, <1>16 DEF r, asize

-----------------------------------------------------------------------------
(* The client. *)

\* The client's blocks are in the heap, each as large as it must be, and hold its data.
Sized(sz, blocks) ==
  \A bp \in DOMAIN blocks :
    /\ bp \in DOMAIN sz /\ blocks[bp] \in Sizes
    /\ sz[bp] = Adjust(blocks[bp]) \/ sz[bp] = Adjust(blocks[bp]) + 16
Intact(m, blocks) == \A bp \in DOMAIN blocks : \A x \in Payload(bp, blocks[bp]) : m[x] = Data(x)
ClientHeap(m, brk, sz, blocks) ==
  /\ Heap(m, brk, sz, DOMAIN blocks, DOMAIN sz \ DOMAIN blocks)
  /\ Sized(sz, blocks) /\ Intact(m, blocks)

\* Requests fit in their blocks.
LEMMA RequestsFit ==
  ASSUME NEW sz, NEW blocks, Sized(sz, blocks), NEW bp \in DOMAIN blocks
  PROVE  /\ blocks[bp] \in Nat \ {0} /\ sz[bp] \in Nat /\ blocks[bp] <= sz[bp] - 8
         /\ Adjust(blocks[bp]) \in Nat /\ Adjust(blocks[bp]) % 16 = 0 /\ Adjust(blocks[bp]) >= 32
<1>1. blocks[bp] \in Nat \ {0} /\ (sz[bp] = Adjust(blocks[bp]) \/ sz[bp] = Adjust(blocks[bp]) + 16)
  BY ClientAssumption DEF Sized
<1>2. /\ Adjust(blocks[bp]) \in Nat /\ Adjust(blocks[bp]) % 16 = 0 /\ Adjust(blocks[bp]) >= 32
      /\ blocks[bp] <= Adjust(blocks[bp]) - 8
  BY <1>1, Adjusted
<1>. QED
  BY <1>1, <1>2

\* What the words between two calls have lost is not part of the heap, nor the client's.
LEMMA SettledKept ==
  ASSUME NEW m, NEW brk, NEW sz, NEW blocks, ClientHeap(m, brk, sz, blocks)
  PROVE  ClientHeap(Settled(m, brk, blocks), brk, sz, blocks)
<1> DEFINE A == DOMAIN blocks
           U == DOMAIN sz \ A
           r == Settled(m, brk, blocks)
           tags == UNION {{HDRP(bp), FTRP(m, bp)} : bp \in Blocks(m, brk)}
           ptrs == UNION {{PREP(bp), PREP(bp) + WSIZE, SUCP(bp), SUCP(bp) + WSIZE} :
                            bp \in {b \in Blocks(m, brk) : IsFree(m, b)}}
           used == (0..(FirstBlock - WSIZE)) \cup tags \cup ptrs \cup {HDRP(brk)}
<1>1. Heap(m, brk, sz, A, U) /\ Geometry(sz, brk) /\ Tags(m, brk, sz, A) /\ Sized(sz, blocks) /\ Intact(m, blocks)
  BY DEF ClientHeap, Heap
<1>2. Placed(sz, brk)
  BY <1>1, BlockWords
<1>3. r = [a \in Words |-> IF a \in used \/ \E bp \in DOMAIN blocks : InPayload(a, bp, blocks[bp])
                           THEN m[a] ELSE Junk]
  BY Zenon DEF Settled
<1> HIDE DEF r
<1>4. Blocks(m, brk) = DOMAIN sz
  BY <1>1, BlocksFound
<1>5. \A b \in DOMAIN sz : /\ FTRP(m, b) = b + sz[b] - 8
                           /\ IsFree(m, b) <=> b \notin A
  BY <1>1, SizeRead DEF FTRP, IsFree, Bit
<1>6. ASSUME NEW x \in StructureWords(brk, sz, U) PROVE x \in used
  <2>1. CASE x \in {140, 152}
    BY <2>1
  <2>2. CASE x = brk - 4
    BY <2>2
  <2>3. ASSUME NEW b \in DOMAIN sz, x = b - 4 \/ x = b + sz[b] - 8 PROVE x \in tags
    BY <2>3, <1>4, <1>5
  <2>4. CASE x \in ListWords(U)
    <3>1. x \in Words /\ x \in Nat /\ x % 4 = 0
      BY <2>4, WordNumbers DEF ListWords
    <3>2. CASE x < 140
      BY <3>1, <3>2
    <3>3. CASE ~(x < 140)
      <4>1. PICK b \in U : b <= x /\ x < b + 16
        BY <2>4, <3>3 DEF ListWords
      <4>2. b \in Nat /\ b % 16 = 0
        BY <1>2
      <4>3. x = b \/ x = b + 4 \/ x = b + 8 \/ x = b + 8 + 4
        BY <3>1, <4>1, <4>2
      <4>4. b \in Blocks(m, brk) /\ IsFree(m, b)
        BY <1>4, <1>5
      <4>5. x \in ptrs
        BY <4>3, <4>4
      <4>. QED
        BY <4>5
    <3>. QED
      BY <3>2, <3>3
  <2>. QED
    BY <2>1, <2>2, <2>3, <2>4 DEF StructureWords
<1> HIDE DEF used
<1>7. StructureWords(brk, sz, U) \subseteq Words
  <2>1. brk - 4 \in Words /\ 140 \in Words /\ 152 \in Words
    BY <1>2, WordNumbers
  <2>2. \A c \in DOMAIN sz : c - 4 \in Words /\ c + sz[c] - 8 \in Words
    BY <1>2, WordNumbers
  <2>. QED
    BY <2>1, <2>2 DEF StructureWords, ListWords
<1>8. DOMAIN r = Words /\ \A x \in StructureWords(brk, sz, U) : r[x] = m[x]
  BY <1>3, <1>6, <1>7
<1>9. Heap(r, brk, sz, A, U)
  BY <1>1, <1>8, HeapKept
<1>10. Intact(r, blocks)
  <2> SUFFICES ASSUME NEW bp \in DOMAIN blocks, NEW x \in Payload(bp, blocks[bp]) PROVE r[x] = Data(x)
    BY DEF Intact
  <2>1. x \in Words /\ InPayload(x, bp, blocks[bp]) /\ m[x] = Data(x)
    BY <1>1 DEF Payload, InPayload, Intact
  <2>. QED
    BY <2>1, <1>3
<1>. QED
  BY <1>1, <1>9, <1>10 DEF ClientHeap, r

\* A block the allocator holds still has the size and the data the client knows.
LEMMA StillHeld ==
  ASSUME NEW m, NEW brk, NEW sz, NEW blocks, ClientHeap(m, brk, sz, blocks),
         NEW r, NEW sz2, NEW A, Holds(m, sz, r, sz2, A), A \subseteq DOMAIN blocks,
         NEW rest, DOMAIN rest = A, \A bp \in A : rest[bp] = blocks[bp]
  PROVE  Sized(sz2, rest) /\ Intact(r, rest)
<1>2. Sized(sz, blocks) /\ Intact(m, blocks) /\ Placed(sz, brk)
  BY BlockWords DEF ClientHeap, Heap
<1>3. Sized(sz2, rest)
  BY <1>2 DEF Sized, Holds
<1>4. ASSUME NEW bp \in A, NEW x \in Payload(bp, blocks[bp]) PROVE r[x] = Data(x)
  <2>1. bp \in DOMAIN blocks /\ bp \in DOMAIN sz
    BY <1>2 DEF Sized
  <2>2. blocks[bp] \in Nat /\ sz[bp] \in Nat /\ blocks[bp] <= sz[bp] - 8
    BY <1>2, <2>1, RequestsFit
  <2>3. x \in Words /\ x \in Nat /\ bp <= x /\ x < bp + blocks[bp] /\ bp \in Nat
    BY <1>2, <2>1, WordNumbers DEF Payload
  <2>4. x < bp + sz[bp] - 8
    BY <2>2, <2>3
  <2>5. r[x] = m[x]
    BY <2>3, <2>4 DEF Holds
  <2>. QED
    BY <2>1, <2>5, <1>2 DEF Intact
<1>5. Intact(r, rest)
  BY <1>4 DEF Intact
<1>. QED
  BY <1>3, <1>5

\* The client fills the block it has got.
LEMMA FilledBlock ==
  ASSUME NEW m, NEW brk, NEW sz, NEW others, NEW bp, bp \notin DOMAIN others,
         Heap(m, brk, sz, DOMAIN others \union {bp}, DOMAIN sz \ (DOMAIN others \union {bp})),
         Sized(sz, others), Intact(m, others), NEW size \in Sizes,
         sz[bp] = Adjust(size) \/ sz[bp] = Adjust(size) + 16
  PROVE  ClientHeap(Fill(m, bp, size), brk, sz, Also(bp, size, others))
<1> DEFINE blocks == Also(bp, size, others)
           r == Fill(m, bp, size)
           A == DOMAIN others \union {bp}
<1>1. DOMAIN blocks = A /\ blocks[bp] = size /\ \A b \in DOMAIN others : blocks[b] = others[b]
  BY DEF Also
<1> HIDE DEF blocks
<1>2. Placed(sz, brk) /\ bp \in DOMAIN sz /\ A \subseteq DOMAIN sz
  BY BlockWords DEF Heap
<1>3. Sized(sz, blocks)
  BY <1>1, <1>2 DEF Sized
<1>4. size \in Nat /\ sz[bp] \in Nat /\ size <= sz[bp] - 8 /\ bp \in Nat
  <2>1. bp \in DOMAIN blocks
    BY <1>1
  <2>. QED
    BY <2>1, <1>1, <1>2, <1>3, RequestsFit
<1>5. /\ DOMAIN r = Words
      /\ \A x \in Words : r[x] = IF bp <= x /\ x < bp + size THEN Data(x) ELSE m[x]
  BY DEF Fill, InPayload
<1> HIDE DEF r
<1>6. SameBut(m, r, Payload(bp, sz[bp] - 8))
  <2>1. ASSUME NEW x \in Words \ Payload(bp, sz[bp] - 8) PROVE r[x] = m[x]
    BY <1>4, <1>5, WordNumbers DEF Payload
  <2>. QED
    BY <2>1, <1>5 DEF SameBut
<1>7. Heap(r, brk, sz, A, DOMAIN sz \ A) /\ Holds(m, sz, r, sz, A \ {bp})
  BY <1>6, PayloadWritten
<1>8. A \ {bp} = DOMAIN others
  OBVIOUS
<1>9. ASSUME NEW b \in A, NEW x \in Payload(b, blocks[b]) PROVE r[x] = Data(x)
  <2>1. CASE b = bp
    BY <2>1, <1>1, <1>5, <1>9 DEF Payload
  <2>2. CASE b # bp
    <3>1. b \in DOMAIN others /\ x \in Payload(b, others[b]) /\ b \in DOMAIN sz /\ b \in Nat
      BY <2>2, <1>1, <1>2, <1>9
    <3>2. others[b] \in Nat /\ sz[b] \in Nat /\ others[b] <= sz[b] - 8
      BY <3>1, RequestsFit
    <3>3. x \in Words /\ x \in Nat /\ b <= x /\ x < b + sz[b] - 8
      BY <3>1, <3>2, WordNumbers DEF Payload
    <3>4. r[x] = m[x]
      BY <3>1, <3>3, <1>7, <1>8 DEF Holds
    <3>. QED
      BY <3>1, <3>4 DEF Intact
  <2>. QED
    BY <2>1, <2>2
<1>10. Intact(r, blocks)
  BY <1>1, <1>9 DEF Intact
<1>. QED
  BY <1>1, <1>3, <1>7, <1>10 DEF ClientHeap, blocks, r

\* The blocks lie before the end of the heap.
LEMMA HeapEnd ==
  ASSUME NEW m, NEW brk, NEW sz, NEW A, NEW U, Heap(m, brk, sz, A, U), NEW b \in DOMAIN sz
  PROVE  brk > 160 /\ brk \in Addresses /\ b \in Addresses
<1>1. Geometry(sz, brk)
  BY DEF Heap
<1>2. Placed(sz, brk)
  BY <1>1, BlockWords
<1>. QED
  BY <1>1, <1>2 DEF Geometry

\* What mm_init writes before it extends the heap: empty lists, the prologue and the epilogue.
Prologue ==
  LET m0 == [a \in Words |-> IF a < HEAD(17) THEN 0 ELSE Junk]
      m1 == PUT(m0, heap_listp + 34 * WSIZE, PACK(ALIGNMENT, 1))
      m2 == PUT(m1, heap_listp + 37 * WSIZE, PACK(ALIGNMENT, 1))
  IN  PUT(m2, heap_listp + 38 * WSIZE, PACK(0, 1))

\* mm_init makes a heap with one block, or more, all of them free.
LEMMA Initializing ==
  \E sz : /\ mm_init = S(mm_init.mem, mm_init.brk, mm_init.brk, mm_init.bp)
          /\ Heap(mm_init.mem, mm_init.brk, sz, {}, DOMAIN sz)
          /\ Apart(sz, DOMAIN sz) /\ mm_init.brk > 160
<1> DEFINE m == Prologue
           sz0 == [c \in {} |-> 0]
           size == CHUNKSIZE + 64
           r == mm_init
<1>1. CHUNKSIZE \in Nat /\ CHUNKSIZE % 16 = 0 /\ MAX_HEAP \in Nat /\ 160 + size <= MAX_HEAP /\ CHUNKSIZE >= 32
  BY HeapAssumption
<1>2. size \in Nat /\ size % 16 = 0 /\ size >= 32
  BY <1>1
<1>3. /\ DOMAIN m = Words /\ m[140] = 17 /\ m[152] = 17 /\ m[156] = 1
      /\ \A num \in 0..16 : m[HEAD(num)] = 0
  <2> DEFINE m0 == [a \in Words |-> IF a < 140 THEN 0 ELSE Junk]
  <2>1. m = PUT(PUT(PUT(m0, 140, 17), 152, 17), 156, 1)
    BY DEF Prologue
  <2>2. 140 \in Words /\ 152 \in Words /\ 156 \in Words
    BY <1>1, WordNumbers
  <2>3. m = [[[m0 EXCEPT ![140] = 17] EXCEPT ![152] = 17] EXCEPT ![156] = 1]
    BY <2>1 DEF PUT
  <2>4. \A num \in 0..16 : HEAD(num) \in Words /\ HEAD(num) \in Nat /\ HEAD(num) < 140
    BY <1>1, WordNumbers
  <2>5. DOMAIN m = Words /\ \A x \in Words : m[x] = IF x = 156 THEN 1 ELSE IF x \in {140, 152} THEN 17
                                                   ELSE IF x < 140 THEN 0 ELSE Junk
    <3> HIDE DEF m
    <3>. QED
      BY <2>3
  <2> HIDE DEF m
  <2>6. \A num \in 0..16 : m[HEAD(num)] = 0
    BY <2>4, <2>5
  <2>. QED
    BY <2>2, <2>5, <2>6
<1>4. r = extend_heap(S(m, 160, 160, 0), size \div 4)
  <2>1. NEXT_BLKP(m, 144) = 160
    BY <1>3 DEF NEXT_BLKP, GET_SIZE
  <2>2. r = extend_heap([mem |-> m, brk |-> 160, tail |-> NEXT_BLKP(m, 144), bp |-> 0], (CHUNKSIZE + 64) \div 4)
    BY DEF mm_init, Prologue
  <2> HIDE DEF r, m
  <2>. QED
    BY <2>1, <2>2 DEF S
<1> HIDE DEF m, r
<1>5. Heap(m, 160, sz0, {}, {})
  <2>1. Geometry(sz0, 160)
    BY <1>1, AddressNumbers DEF Geometry
  <2>2. Tags(m, 160, sz0, {})
    BY <1>3 DEF Tags
  <2>3. Lists(m, sz0, {}, sz0)
    BY <1>3 DEF Lists
  <2>. QED
    BY <2>1, <2>2, <2>3 DEF Heap
<1>6. DOMAIN sz0 \ {} = {} /\ Apart(sz0, {})
  BY DEF Apart
<1> HIDE DEF sz0, size
<1>7. \E sz : EnlargedTo(r, m, 160, sz0, {}, size, sz)
  <2>1. ~(160 + size > MAX_HEAP)
    BY <1>1, <1>2
  <2>2. Heap(m, 160, sz0, {}, DOMAIN sz0 \ {})
    BY <1>5, <1>6
  <2>. QED
    BY <1>2, <1>4, <2>1, <2>2, Extending
<1>8. PICK sz : EnlargedTo(r, m, 160, sz0, {}, size, sz)
  BY <1>7
<1>9. DOMAIN sz \ {} = DOMAIN sz
  OBVIOUS
<1>10. r = S(r.mem, r.brk, r.brk, r.bp) /\ Heap(r.mem, r.brk, sz, {}, DOMAIN sz) /\ Apart(sz, DOMAIN sz)
  BY <1>6, <1>8, <1>9 DEF EnlargedTo
<1>11. r.brk > 160
  <2>1. r.bp \in DOMAIN sz
    BY <1>8 DEF EnlargedTo
  <2>. QED
    BY <2>1, <1>10, HeapEnd
<1>. QED
  BY <1>10, <1>11 DEF r

\* mm_malloc, and mm_realloc of no block: a new block, or nothing has changed.
LEMMA MallocCall ==
  ASSUME NEW m, NEW brk, NEW sz, NEW A, Heap(m, brk, sz, A, DOMAIN sz \ A), NEW size \in Nat
  PROVE  LET r == mm_malloc(S(m, brk, brk, 0), size)
         IN  /\ r = S(m, brk, brk, 0)
                  \/ (size # 0 /\ r.bp # 0 /\ \E sz2 : Allocates(r, m, brk, sz, A, Adjust(size), sz2))
             /\ \A order : mm_realloc(S(m, brk, brk, 0), 0, size, order) \in {S(m, brk, brk, 0), r}
<1> DEFINE s == S(m, brk, brk, 0)
           r == mm_malloc(s, size)
<1>1. [s EXCEPT !.bp = 0] = s
  BY OtherPointer
<1>2. r = IF size = 0 THEN [s EXCEPT !.bp = 0] ELSE PlaceIfAny(FitOrExtend(s, Adjust(size)), Adjust(size))
  BY DEF mm_malloc
<1>3. \A order : mm_realloc(s, 0, size, order) = IF size = 0 THEN [s EXCEPT !.bp = 0] ELSE r
  BY DEF mm_realloc, mm_free
<1> HIDE DEF r, s
<1>4. CASE size = 0
  BY <1>1, <1>2, <1>3, <1>4 DEF r, s
<1>5. CASE size # 0
  <2>1. Adjust(size) \in Nat /\ Adjust(size) % 16 = 0 /\ Adjust(size) >= 32
    BY <1>5, Adjusted
  <2>2. PICK asize \in Nat : asize = Adjust(size)
    BY <2>1
  <2>3. r = PlaceIfAny(FitOrExtend(S(m, brk, brk, 0), asize), asize)
    BY <1>2, <1>5, <2>2 DEF s
  <2>4. r = S(m, brk, brk, 0) \/ (r.bp # 0 /\ \E sz2 : Allocates(r, m, brk, sz, A, asize, sz2))
    BY <2>1, <2>2, <2>3, Allocating
  <2>. QED
    BY <2>2, <2>4, <1>3, <1>5 DEF r, s
<1>. QED
  BY <1>4, <1>5

\* What Blocks, BlockSize and IsFree find.
LEMMA HeapRead ==
  ASSUME NEW m, NEW brk, NEW sz, NEW A, NEW U, Heap(m, brk, sz, A, U)
  PROVE  /\ Blocks(m, brk) = DOMAIN sz
         /\ \A b \in DOMAIN sz : BlockSize(m, b) = sz[b] /\ (IsFree(m, b) <=> b \notin A)
<1>1. Geometry(sz, brk) /\ Tags(m, brk, sz, A)
  BY DEF Heap
<1>2. Blocks(m, brk) = DOMAIN sz
  BY <1>1, BlocksFound
<1>3. \A b \in DOMAIN sz : BlockSize(m, b) = sz[b] /\ (IsFree(m, b) <=> b \notin A)
  BY <1>1, SizeRead DEF BlockSize, IsFree, Bit
<1>. QED
  BY <1>2, <1>3

\* The client after a call that allocates, frees or reallocates a block.
LEMMA ClientAllocates ==
  ASSUME NEW m, NEW brk, NEW sz, NEW blocks, ClientHeap(m, brk, sz, blocks), NEW size \in Sizes,
         NEW r, NEW sz2, Allocates(r, m, brk, sz, DOMAIN blocks, Adjust(size), sz2)
  PROVE  LET all == Also(r.bp, size, blocks)
         IN  /\ ClientHeap(Fill(r.mem, r.bp, size), r.brk, sz2, all)
             /\ Apart(sz, DOMAIN sz \ DOMAIN blocks) => Apart(sz2, DOMAIN sz2 \ DOMAIN all)
<1> DEFINE A == DOMAIN blocks
           all == Also(r.bp, size, blocks)
<1>1. /\ r.bp \in DOMAIN sz2 \ A
      /\ Heap(r.mem, r.brk, sz2, A \union {r.bp}, (DOMAIN sz2 \ A) \ {r.bp})
      /\ Holds(m, sz, r.mem, sz2, A)
      /\ sz2[r.bp] = Adjust(size) \/ sz2[r.bp] = Adjust(size) + 16
      /\ Apart(sz, DOMAIN sz \ A) => Apart(sz2, (DOMAIN sz2 \ A) \ {r.bp})
  BY DEF Allocates
<1>2. (DOMAIN sz2 \ A) \ {r.bp} = DOMAIN sz2 \ (A \union {r.bp})
  OBVIOUS
<1>3. Sized(sz2, blocks) /\ Intact(r.mem, blocks)
  BY <1>1, StillHeld
<1>4. ClientHeap(Fill(r.mem, r.bp, size), r.brk, sz2, all)
  BY <1>1, <1>2, <1>3, FilledBlock
<1>5. DOMAIN all = A \union {r.bp}
  BY DEF Also
<1> HIDE DEF all
<1>. QED
  BY <1>1, <1>2, <1>4, <1>5 DEF all

\* The same for a block that is freed.
LEMMA ClientFrees ==
  ASSUME NEW m, NEW brk, NEW sz, NEW blocks, ClientHeap(m, brk, sz, blocks), NEW ptr \in DOMAIN blocks,
         NEW rest, DOMAIN rest = DOMAIN blocks \ {ptr}, \A b \in DOMAIN rest : rest[b] = blocks[b],
         NEW r, NEW sz2, Frees(r, m, brk, sz, DOMAIN blocks, ptr, sz2)
  PROVE  /\ ClientHeap(r.mem, brk, sz2, rest)
         /\ Apart(sz, DOMAIN sz \ DOMAIN blocks) => Apart(sz2, DOMAIN sz2 \ DOMAIN rest)
<1>1. Sized(sz2, rest) /\ Intact(r.mem, rest)
  BY StillHeld DEF Frees
<1>. QED
  BY <1>1 DEF Frees, ClientHeap

\* The first n bytes of the client's block ptr are in the block r.bp.
DataKept(r, ptr, n) == \A a \in PayloadWords(r.bp, n) : r.mem[a] = Data(ptr + (a - r.bp))

\* The same for a block that is reallocated.
LEMMA ClientReallocates ==
  ASSUME NEW m, NEW brk, NEW sz, NEW blocks, ClientHeap(m, brk, sz, blocks), NEW ptr \in DOMAIN blocks,
         NEW rest, DOMAIN rest = DOMAIN blocks \ {ptr}, \A b \in DOMAIN rest : rest[b] = blocks[b],
         NEW size \in Sizes, NEW order,
         NEW r, NEW sz2, Reallocates(r, m, brk, sz, DOMAIN blocks, ptr, Adjust(size), order, sz2)
  PROVE  /\ ClientHeap(Fill(r.mem, r.bp, size), r.brk, sz2, Also(r.bp, size, rest))
         /\ order = "forward" => DataKept(r, ptr, Min({blocks[ptr], size}))
<1> DEFINE A == DOMAIN blocks
           B == DOMAIN rest
           least == Min({blocks[ptr], size})
<1>1. /\ r.bp \in DOMAIN sz2 \ B
      /\ Heap(r.mem, r.brk, sz2, B \union {r.bp}, DOMAIN sz2 \ (B \union {r.bp}))
      /\ Holds(m, sz, r.mem, sz2, B)
      /\ sz2[r.bp] = Adjust(size) \/ sz2[r.bp] = Adjust(size) + 16
      /\ order = "forward" => \A x \in Payload(r.bp, Adjust(size) - 8) :
                                 x < r.bp + (sz[ptr] - 8) => r.mem[x] = m[ptr + (x - r.bp)]
  BY DEF Reallocates
<1>2. Sized(sz2, rest) /\ Intact(r.mem, rest)
  BY <1>1, StillHeld
<1>3. ClientHeap(Fill(r.mem, r.bp, size), r.brk, sz2, Also(r.bp, size, rest))
  BY <1>1, <1>2, FilledBlock
<1>4. Sized(sz, blocks) /\ Intact(m, blocks) /\ Placed(sz, brk) /\ ptr \in DOMAIN sz
  BY BlockWords DEF ClientHeap, Heap, Sized
<1>5. blocks[ptr] \in Nat /\ sz[ptr] \in Nat /\ blocks[ptr] <= sz[ptr] - 8
  BY <1>4, RequestsFit
<1>6. size \in Nat /\ Adjust(size) \in Nat /\ size <= Adjust(size) - 8
  BY ClientAssumption, Adjusted
<1>7. least \in Nat /\ least <= blocks[ptr] /\ least <= size
  <2>1. {blocks[ptr], size} \subseteq Nat
    BY <1>5, <1>6
  <2>2. least \in {blocks[ptr], size} /\ \A y \in {blocks[ptr], size} : least <= y
    BY <2>1, MinOfNumbers
  <2>. QED
    BY <2>1, <2>2
<1>8. r.bp \in Nat /\ r.bp % 16 = 0 /\ ptr \in Nat /\ ptr % 16 = 0 /\ Placed(sz2, r.brk)
  <2>1. Placed(sz2, r.brk)
    BY <1>1, BlockWords DEF Heap
  <2>. QED
    BY <2>1, <1>1, <1>4
<1> HIDE DEF least
<1>9. ASSUME order = "forward", NEW a \in PayloadWords(r.bp, least) PROVE r.mem[a] = Data(ptr + (a - r.bp))
  <2>1. a \in Words /\ a \in Nat /\ a % 4 = 0 /\ r.bp <= a /\ a < r.bp + least
    BY WordNumbers DEF PayloadWords, InPayload
  <2>2. a \in Payload(r.bp, Adjust(size) - 8) /\ a < r.bp + (sz[ptr] - 8)
    <3>1. least <= Adjust(size) - 8 /\ least <= sz[ptr] - 8
      BY <1>5, <1>6, <1>7
    <3>2. a < r.bp + (Adjust(size) - 8) /\ a < r.bp + (sz[ptr] - 8)
      BY ONLY <3>1, <2>1, <1>5, <1>6, <1>7, <1>8
    <3>. QED
      BY <3>2, <2>1 DEF Payload
  <2>3. r.mem[a] = m[ptr + (a - r.bp)]
    BY <2>2, <1>1, <1>9
  <2>4. PICK y : y = ptr + (a - r.bp)
    OBVIOUS
  <2>5. y \in Nat /\ y % 4 = 0 /\ ptr <= y /\ y < ptr + blocks[ptr] /\ y < ptr + sz[ptr] - 8
    <3>1. y \in Nat /\ ptr <= y /\ y < ptr + least
      <4>1. r.bp \in Nat /\ ptr \in Nat /\ a \in Nat /\ r.bp <= a /\ a < r.bp + least /\ least \in Nat
        BY <2>1, <1>7, <1>8
      <4>2. PICK d : d = a - r.bp
        OBVIOUS
      <4>3. d \in Nat /\ d < least
        BY ONLY <4>1, <4>2
      <4>. QED
        BY ONLY <4>1, <4>2, <4>3, <2>4
    <3>2. y % 4 = 0
      BY ONLY <2>1, <2>4, <1>8
    <3>3. y < ptr + blocks[ptr] /\ y < ptr + sz[ptr] - 8
      BY ONLY <3>1, <1>5, <1>7, <1>8
    <3>. QED
      BY <3>1, <3>2, <3>3
  <2>6. y \in Words
    BY <2>5, <1>4
  <2>7. m[y] = Data(y)
    BY <2>5, <2>6, <1>4 DEF Intact, Payload
  <2>. QED
    BY <2>3, <2>4, <2>7
<1>. QED
  BY <1>3, <1>9 DEF least, DataKept

\* The ranges of the driver: where the payloads are.
PayloadRange(bp, size) == [lo |-> bp, hi |-> bp + size - 1]
Payloads(blocks) == {PayloadRange(bp, blocks[bp]) : bp \in DOMAIN blocks}

\* add_range accepts the payload of a block.
LEMMA PayloadAccepted ==
  ASSUME NEW m, NEW brk, NEW sz, NEW bp, NEW size, NEW others, bp \notin DOMAIN others,
         ClientHeap(m, brk, sz, Also(bp, size, others))
  PROVE  /\ Driver!Accepted(PayloadRange(bp, size), Payloads(others), brk)
         /\ Payloads(Also(bp, size, others)) = Payloads(others) \union {PayloadRange(bp, size)}
<1> DEFINE all == Also(bp, size, others)
<1>1. /\ DOMAIN all = {bp} \union DOMAIN others /\ all[bp] = size
      /\ \A b \in DOMAIN others : all[b] = others[b] /\ b # bp
  BY DEF Also
<1> HIDE DEF all
<1>2. Sized(sz, all) /\ Placed(sz, brk) /\ DOMAIN all \subseteq DOMAIN sz
  BY BlockWords DEF ClientHeap, Heap, all
<1>3. ASSUME NEW b \in DOMAIN all
      PROVE  /\ b \in Nat /\ b % 16 = 0 /\ all[b] \in Nat \ {0} /\ b + all[b] < brk
             /\ \A c \in DOMAIN all : b < c => b + all[b] <= c
  <2>1. b \in DOMAIN sz /\ b \in Nat /\ b % 16 = 0 /\ sz[b] \in Nat /\ b + sz[b] <= brk
    BY <1>2
  <2>2. all[b] \in Nat \ {0} /\ all[b] <= sz[b] - 8
    BY <1>2, RequestsFit
  <2>3. \A c \in DOMAIN all : b < c => b + sz[b] <= c /\ c \in Nat
    BY <1>2, <2>1
  <2>4. brk \in Nat
    BY <1>2
  <2>. QED
    BY ONLY <2>1, <2>2, <2>3, <2>4
<1>4. bp \in DOMAIN all /\ size \in Nat \ {0} /\ bp \in Nat /\ bp % 16 = 0 /\ bp + size < brk /\ brk \in Nat
  BY <1>1, <1>2, <1>3
<1>5. ASSUME NEW b \in DOMAIN others PROVE ~Driver!Overlaps(PayloadRange(bp, size), PayloadRange(b, others[b]))
  <2>1. /\ b \in Nat /\ others[b] \in Nat \ {0} /\ b # bp /\ b \in DOMAIN all
        /\ bp < b => bp + size <= b
        /\ b < bp => b + others[b] <= bp
    BY <1>1, <1>3, <1>4
  <2>. QED
    BY <2>1, <1>4 DEF Driver!Overlaps, PayloadRange
<1>6. Driver!Accepted(PayloadRange(bp, size), Payloads(others), brk)
  <2>1. \A p \in Payloads(others) : ~Driver!Overlaps(PayloadRange(bp, size), p)
    BY <1>5 DEF Payloads
  <2>. QED
    BY <2>1, <1>4 DEF Driver!Accepted, Driver!ALIGNMENT, PayloadRange
<1>7. Payloads(all) = Payloads(others) \union {PayloadRange(bp, size)}
  BY <1>1 DEF Payloads
<1>. QED
  BY <1>6, <1>7 DEF all

\* Without a block its payload is no longer among the ranges.
LEMMA PayloadRemoved ==
  ASSUME NEW blocks, NEW ptr \in DOMAIN blocks, NEW rest, DOMAIN rest = DOMAIN blocks \ {ptr},
         \A b \in DOMAIN rest : rest[b] = blocks[b]
  PROVE  Payloads(rest) = Payloads(blocks) \ {PayloadRange(ptr, blocks[ptr])}
<1>1. \A b \in DOMAIN rest : PayloadRange(b, rest[b]) # PayloadRange(ptr, blocks[ptr])
  BY DEF PayloadRange
<1>. QED
  BY <1>1 DEF Payloads

-----------------------------------------------------------------------------
(* The specification. *)

HeapInv(sz) ==
  /\ ClientHeap(mem, mem_brk, sz, live)
  /\ ~realloced => Apart(sz, DOMAIN sz \ DOMAIN live)

\* Between two calls the memory is a heap, and the client's blocks are its allocated ones.
IInv ==
  /\ \E sz : HeapInv(sz)
  /\ freelist_tailp = mem_brk /\ mem_brk > FirstBlock
  /\ kept \in BOOLEAN /\ realloced \in BOOLEAN

\* The heap grows only for a block that no free block could hold.
Grows ==
  mem_brk' # mem_brk =>
    \E bp \in DOMAIN live' :
      /\ bp \notin DOMAIN live
      /\ \A b \in Blocks(mem, mem_brk) : IsFree(mem, b) => BlockSize(mem, b) < Adjust(live'[bp])

\* A call ends in such a state when the client has written its data.
LEMMA Continues ==
  ASSUME NEW r, NEW m, NEW sz, NEW blocks, Becomes(r, m, blocks), r.tail = r.brk,
         ClientHeap(m, r.brk, sz, blocks), ~realloced' => Apart(sz, DOMAIN sz \ DOMAIN blocks),
         r.brk > 160, kept' \in BOOLEAN, realloced' \in BOOLEAN
  PROVE  IInv'
<1>1. /\ mem' = Settled(m, r.brk, blocks) /\ mem_brk' = r.brk /\ freelist_tailp' = r.tail /\ live' = blocks
  BY DEF Becomes
<1>2. ClientHeap(mem', mem_brk', sz, live')
  BY <1>1, SettledKept
<1>3. HeapInv(sz)'
  BY <1>1, <1>2 DEF HeapInv
<1>. QED
  BY <1>1, <1>3 DEF IInv

\* The state after mm_init is one.
LEMMA InitIInv == Init => IInv
<1> SUFFICES ASSUME Init PROVE IInv
  OBVIOUS
<1> DEFINE r == mm_init
<1>1. /\ mem = Settled(r.mem, r.brk, <<>>) /\ mem_brk = r.brk /\ freelist_tailp = r.tail
      /\ live = <<>> /\ kept = TRUE /\ realloced = FALSE
  BY DEF Init
<1>2. PICK sz : /\ r = S(r.mem, r.brk, r.brk, r.bp) /\ Heap(r.mem, r.brk, sz, {}, DOMAIN sz)
                /\ Apart(sz, DOMAIN sz) /\ r.brk > 160
  BY Initializing
<1> HIDE DEF r
<1>3. DOMAIN live = {} /\ DOMAIN sz \ {} = DOMAIN sz
  BY <1>1
<1>4. ClientHeap(r.mem, r.brk, sz, live)
  BY <1>2, <1>3 DEF ClientHeap, Sized, Intact
<1>5. mem = Settled(r.mem, r.brk, live)
  BY <1>1
<1>6. ClientHeap(mem, mem_brk, sz, live)
  BY <1>1, <1>4, <1>5, SettledKept
<1>7. r.tail = r.brk
  BY <1>2, WithS
<1>8. HeapInv(sz)
  BY <1>2, <1>3, <1>6 DEF HeapInv
<1>9. freelist_tailp = mem_brk /\ mem_brk > 160 /\ kept \in BOOLEAN /\ realloced \in BOOLEAN
  BY ONLY <1>1, <1>2, <1>7
<1>. QED
  BY <1>8, <1>9 DEF IInv

\* The driver accepts the step, or sees nothing of it.
DriverStep == Driver!Next \/ (Payloads(live') = Payloads(live) /\ mem_brk' = mem_brk)

\* The ranges of the refinement are those payloads.
LEMMA RangesAre ==
  /\ Payloads(live) = {[lo |-> bp, hi |-> bp + live[bp] - 1] : bp \in DOMAIN live}
  /\ Payloads(live') = {[lo |-> bp, hi |-> bp + live'[bp] - 1] : bp \in DOMAIN live'}
BY DEF Payloads, PayloadRange

\* A payload joins the ranges, in place of none or of one.
LEMMA DriverAdds ==
  ASSUME NEW bp \in Addresses, NEW size \in Sizes, NEW others,
         others = Payloads(live) \/ \E p \in Payloads(live) : others = Payloads(live) \ {p},
         mem_brk' \in Addresses, mem_brk' >= mem_brk,
         Driver!Accepted(PayloadRange(bp, size), others, mem_brk'),
         Payloads(live') = others \union {PayloadRange(bp, size)}
  PROVE  DriverStep
<1>1. PayloadRange(bp, size) = Driver!Range(bp, size)
  BY DEF PayloadRange, Driver!Range
<1>2. CASE others = Payloads(live)
  <2>1. Driver!Alloc(bp, size)
    BY <1>1, <1>2, RangesAre DEF Driver!Alloc, Driver!AddRange
  <2>. QED
    BY <2>1 DEF Driver!Next, DriverStep
<1>3. CASE \E p \in Payloads(live) : others = Payloads(live) \ {p}
  <2>1. PICK p \in Payloads(live) : others = Payloads(live) \ {p}
    BY <1>3
  <2>2. Driver!Realloc(p, bp, size)
    BY <1>1, <2>1, RangesAre DEF Driver!Realloc, Driver!AddRange
  <2>. QED
    BY <2>2, RangesAre DEF Driver!Next, DriverStep
<1>. QED
  BY <1>2, <1>3

\* A payload leaves the ranges.
LEMMA DriverRemoves ==
  ASSUME NEW p \in Payloads(live), Payloads(live') = Payloads(live) \ {p}, mem_brk' = mem_brk
  PROVE  DriverStep
<1>1. Driver!Free(p)
  BY RangesAre DEF Driver!Free
<1>. QED
  BY <1>1, RangesAre DEF Driver!Next, DriverStep

\* State in the terms of this module, and the blocks without one of them.
LEMMA StateS == freelist_tailp = mem_brk => State = S(mem, mem_brk, mem_brk, 0)
BY DEF State, S

\* Without, in terms of its values.
LEMMA WithoutBlock ==
  ASSUME NEW ptr
  PROVE  DOMAIN Without(ptr) = DOMAIN live \ {ptr} /\ \A b \in DOMAIN Without(ptr) : Without(ptr)[b] = live[b]
BY DEF Without, Restrict

\* What a free block could hold is read from the memory.
LEMMA GrowsBecause ==
  ASSUME NEW sz, HeapInv(sz), NEW bp \in DOMAIN live', bp \notin DOMAIN live,
         \A b \in DOMAIN sz \ DOMAIN live : sz[b] < Adjust(live'[bp])
  PROVE  Grows
<1>1. Heap(mem, mem_brk, sz, DOMAIN live, DOMAIN sz \ DOMAIN live)
  BY DEF HeapInv, ClientHeap
<1>2. Blocks(mem, mem_brk) = DOMAIN sz /\ \A b \in DOMAIN sz : BlockSize(mem, b) = sz[b]
      /\ (IsFree(mem, b) <=> b \notin DOMAIN live)
  BY <1>1, HeapRead
<1>. QED
  BY <1>2 DEF Grows

\* mm_malloc, and mm_realloc of no block.
LEMMA MallocStep ==
  ASSUME IInv, NEW size \in Sizes \union {0}, Malloc(size)
  PROVE  IInv' /\ Grows /\ DriverStep
<1>1. PICK sz : HeapInv(sz)
  BY DEF IInv
<1>2. /\ freelist_tailp = mem_brk /\ mem_brk > 160 /\ kept \in BOOLEAN
      /\ realloced \in BOOLEAN /\ kept' = kept /\ realloced' = realloced
  BY DEF IInv, Malloc
<1>3. size \in Nat
  BY ClientAssumption
<1> DEFINE s == S(mem, mem_brk, mem_brk, 0)
           A == DOMAIN live
<1>4. PICK r \in {mm_malloc(s, size)} \union {mm_realloc(s, 0, size, order) : order \in CopyOrders} :
        IF r.bp = 0 THEN Becomes(r, r.mem, live) ELSE Takes(r, size, live)
  BY <1>2, StateS DEF Malloc
<1>5. ClientHeap(mem, mem_brk, sz, live) /\ (~realloced => Apart(sz, DOMAIN sz \ A))
      /\ Heap(mem, mem_brk, sz, A, DOMAIN sz \ A)
  BY <1>1 DEF HeapInv, ClientHeap
<1>6. r = s \/ (size # 0 /\ r.bp # 0 /\ \E sz2 : Allocates(r, mem, mem_brk, sz, A, Adjust(size), sz2))
  <2>1. r = s \/ r = mm_malloc(s, size)
    BY <1>3, <1>4, <1>5, MallocCall
  <2>. QED
    BY <2>1, <1>3, <1>5, MallocCall
<1>7. CASE r = s
  <2>1. r.bp = 0 /\ r.mem = mem /\ r.brk = mem_brk /\ r.tail = mem_brk
    BY <1>7, WithS
  <2>2. Becomes(r, mem, live)
    BY <2>1, <1>4
  <2>3. IInv'
    BY <2>1, <2>2, <1>2, <1>5, Continues
  <2>4. mem_brk' = mem_brk /\ live' = live
    BY <2>1, <2>2 DEF Becomes
  <2>. QED
    BY <2>3, <2>4 DEF Grows, DriverStep
<1>8. CASE size # 0 /\ r.bp # 0 /\ \E sz2 : Allocates(r, mem, mem_brk, sz, A, Adjust(size), sz2)
  <2>1. PICK sz2 : Allocates(r, mem, mem_brk, sz, A, Adjust(size), sz2)
    BY <1>8
  <2>2. size \in Sizes
    BY <1>8
  <2> DEFINE all == Also(r.bp, size, live)
             m == Fill(r.mem, r.bp, size)
  <2>3. /\ ClientHeap(m, r.brk, sz2, all)
        /\ Apart(sz, DOMAIN sz \ A) => Apart(sz2, DOMAIN sz2 \ DOMAIN all)
    BY <2>1, <2>2, <1>5, ClientAllocates
  <2>4. Becomes(r, m, all)
    BY <1>4, <1>8 DEF Takes
  <2>5. /\ r.tail = r.brk /\ r.bp \notin A /\ r.brk >= mem_brk
        /\ (r.brk # mem_brk => \A b \in DOMAIN sz \ A : sz[b] < Adjust(size))
        /\ r.brk > 160 /\ r.brk \in Addresses /\ r.bp \in Addresses
    BY <2>1, WithS, HeapEnd DEF Allocates
  <2>6. all[r.bp] = size /\ r.bp \in DOMAIN all
    BY DEF Also
  <2>7. /\ Driver!Accepted(PayloadRange(r.bp, size), Payloads(live), r.brk)
        /\ Payloads(all) = Payloads(live) \union {PayloadRange(r.bp, size)}
    BY <2>3, <2>5, PayloadAccepted
  <2> HIDE DEF all, m
  <2>8. IInv'
    BY <2>3, <2>4, <2>5, <1>2, <1>5, Continues
  <2>9. mem_brk' = r.brk /\ live' = all
    BY <2>4 DEF Becomes
  <2>10. Grows
    <3>1. CASE mem_brk' = mem_brk
      BY <3>1 DEF Grows
    <3>2. CASE mem_brk' # mem_brk
      BY <2>5, <2>6, <2>9, <3>2, <1>1, GrowsBecause
    <3>. QED
      BY <3>1, <3>2
  <2>11. DriverStep
    BY <2>2, <2>5, <2>7, <2>9, DriverAdds
  <2>. QED
    BY <2>8, <2>10, <2>11
<1>. QED
  BY <1>6, <1>7, <1>8

\* mm_free, of a block or of none.
LEMMA FreeStep ==
  ASSUME IInv, NEW ptr \in DOMAIN live \union {0}, Free(ptr)
  PROVE  IInv' /\ Grows /\ DriverStep
<1>1. PICK sz : HeapInv(sz)
  BY DEF IInv
<1>2. /\ freelist_tailp = mem_brk /\ mem_brk > 160 /\ kept \in BOOLEAN
      /\ realloced \in BOOLEAN /\ kept' = kept /\ realloced' = realloced
  BY DEF IInv, Free
<1> DEFINE s == S(mem, mem_brk, mem_brk, 0)
           A == DOMAIN live
           rest == Without(ptr)
           r == mm_free(s, ptr)
<1>3. Becomes(r, r.mem, rest)
  BY <1>2, StateS DEF Free
<1>4. ClientHeap(mem, mem_brk, sz, live) /\ (~realloced => Apart(sz, DOMAIN sz \ A))
      /\ Heap(mem, mem_brk, sz, A, DOMAIN sz \ A)
  BY <1>1 DEF HeapInv, ClientHeap
<1>5. DOMAIN rest = A \ {ptr} /\ \A b \in DOMAIN rest : rest[b] = live[b]
  BY WithoutBlock
<1> HIDE DEF rest
<1>6. CASE ptr \in A
  <2>1. PICK sz2 : Frees(r, mem, mem_brk, sz, A, ptr, sz2)
    BY <1>4, <1>6, Freeing
  <2> HIDE DEF r
  <2>2. ClientHeap(r.mem, mem_brk, sz2, rest) /\ (Apart(sz, DOMAIN sz \ A) => Apart(sz2, DOMAIN sz2 \ DOMAIN rest))
    BY <2>1, <1>4, <1>5, <1>6, ClientFrees
  <2>3. r.tail = r.brk /\ r.brk = mem_brk
    BY <2>1, WithS DEF Frees
  <2>4. IInv'
    BY <2>2, <2>3, <1>2, <1>3, <1>4, Continues
  <2>5. mem_brk' = mem_brk /\ live' = rest
    BY <2>3, <1>3 DEF Becomes
  <2>6. DriverStep
    <3>1. Payloads(live') = Payloads(live) \ {PayloadRange(ptr, live[ptr])}
      BY <2>5, <1>5, <1>6, PayloadRemoved
    <3>2. PayloadRange(ptr, live[ptr]) \in Payloads(live)
      BY <1>6 DEF Payloads
    <3>. QED
      BY <3>1, <3>2, <2>5, DriverRemoves
  <2>. QED
    BY <2>4, <2>5, <2>6 DEF Grows
<1>7. CASE ptr \notin A
  <2>1. r = s
    BY <1>7 DEF mm_free
  <2> HIDE DEF r
  <2>2. r.mem = mem /\ r.brk = mem_brk /\ r.tail = mem_brk
    BY <2>1, WithS
  <2>3. DOMAIN rest = A
    BY <1>5, <1>7
  <2>4. ClientHeap(mem, mem_brk, sz, rest)
    BY <2>3, <1>4, <1>5 DEF ClientHeap, Sized, Intact
  <2>5. IInv'
    BY <2>2, <2>3, <2>4, <1>2, <1>3, <1>4, Continues
  <2>6. mem_brk' = mem_brk /\ live' = rest
    BY <2>2, <1>3 DEF Becomes
  <2>7. Payloads(rest) = Payloads(live)
    BY <2>3, <1>5 DEF Payloads
  <2>. QED
    BY <2>5, <2>6, <2>7 DEF Grows, DriverStep
<1>. QED
  BY <1>6, <1>7

\* What a call of mm_realloc does to the client.
LEMMA ReallocStep ==
  ASSUME IInv, NEW ptr \in DOMAIN live, NEW size \in Sizes \union {0}, NEW order \in CopyOrders,
         Realloc(ptr, size, order)
  PROVE  IInv' /\ Grows /\ DriverStep /\ (order = "forward" /\ kept => kept')
<1>1. PICK sz : HeapInv(sz)
  BY DEF IInv
<1>2. /\ freelist_tailp = mem_brk /\ mem_brk > 160 /\ kept \in BOOLEAN
      /\ realloced \in BOOLEAN /\ realloced' = TRUE
  BY DEF IInv, Realloc
<1> DEFINE s == S(mem, mem_brk, mem_brk, 0)
           A == DOMAIN live
           rest == Without(ptr)
           r == mm_realloc(s, ptr, size, order)
<1>3. \/ /\ r.bp # 0 /\ Takes(r, size, rest)
         /\ kept' = DataKept(r, ptr, Min({live[ptr], size}))
      \/ /\ r.bp = 0 /\ Becomes(r, r.mem, IF size = 0 THEN rest ELSE live) /\ kept' = kept
  BY <1>2, StateS DEF Realloc, DataKept
<1>4. ClientHeap(mem, mem_brk, sz, live) /\ Heap(mem, mem_brk, sz, A, DOMAIN sz \ A)
  BY <1>1 DEF HeapInv, ClientHeap
<1>5. DOMAIN rest = A \ {ptr} /\ \A b \in DOMAIN rest : rest[b] = live[b]
  BY WithoutBlock
<1>10. /\ Payloads(rest) = Payloads(live) \ {PayloadRange(ptr, live[ptr])}
       /\ PayloadRange(ptr, live[ptr]) \in Payloads(live)
  <2>1. Payloads(rest) = Payloads(live) \ {PayloadRange(ptr, live[ptr])}
    <3> HIDE DEF rest
    <3>. QED
      BY <1>5, PayloadRemoved
  <2>. QED
    BY <2>1 DEF Payloads
<1> HIDE DEF rest
<1>6. CASE size = 0
  <2> DEFINE f == mm_free(s, ptr)
  <2>1. r = [f EXCEPT !.bp = 0]
    BY <1>6 DEF mm_realloc
  <2>2. PICK sz2 : Frees(f, mem, mem_brk, sz, A, ptr, sz2)
    BY <1>4, Freeing
  <2> HIDE DEF f, r
  <2>3. ClientHeap(f.mem, mem_brk, sz2, rest)
    BY <2>2, <1>4, <1>5, ClientFrees
  <2>4. f = S(f.mem, mem_brk, mem_brk, f.bp)
    BY <2>2 DEF Frees
  <2>5. r = S(f.mem, mem_brk, mem_brk, 0)
    BY <2>1, <2>4, OtherPointer
  <2>6. r.mem = f.mem /\ r.brk = mem_brk /\ r.tail = mem_brk /\ r.bp = 0
    BY <2>5, WithS
  <2>7. Becomes(r, r.mem, rest) /\ kept' = kept
    BY <2>6, <1>3, <1>6
  <2>8. IInv'
    BY <2>3, <2>6, <2>7, <1>2, Continues
  <2>9. mem_brk' = mem_brk /\ live' = rest
    BY <2>6, <2>7 DEF Becomes
  <2>10. DriverStep
    BY <2>9, <1>10, DriverRemoves
  <2>. QED
    BY <2>7, <2>8, <2>9, <2>10 DEF Grows
<1>7. CASE size # 0
  <2>1. size \in Sizes /\ size \in Nat \ {0}
    BY <1>7, ClientAssumption
  <2>2. r = s \/ (r.bp # 0 /\ \E sz2 : Reallocates(r, mem, mem_brk, sz, A, ptr, Adjust(size), order, sz2))
    BY <2>1, <1>4, Reallocating
  <2> HIDE DEF r
  <2>3. CASE r = s
    <3>1. r.mem = mem /\ r.brk = mem_brk /\ r.tail = mem_brk /\ r.bp = 0
      BY <2>3, WithS
    <3>2. Becomes(r, mem, live) /\ kept' = kept
      BY <3>1, <1>3, <1>7
    <3>3. IInv'
      BY <3>1, <3>2, <1>2, <1>4, Continues
    <3>4. mem_brk' = mem_brk /\ live' = live
      BY <3>1, <3>2 DEF Becomes
    <3>. QED
      BY <3>2, <3>3, <3>4 DEF Grows, DriverStep
  <2>4. CASE r.bp # 0 /\ \E sz2 : Reallocates(r, mem, mem_brk, sz, A, ptr, Adjust(size), order, sz2)
    <3>1. PICK sz2 : Reallocates(r, mem, mem_brk, sz, A, ptr, Adjust(size), order, sz2)
      BY <2>4
    <3> DEFINE all == Also(r.bp, size, rest)
               m == Fill(r.mem, r.bp, size)
               Data2 == DataKept(r, ptr, Min({live[ptr], size}))
    <3>2. ClientHeap(m, r.brk, sz2, all) /\ (order = "forward" => Data2)
      <4> HIDE DEF A
      <4>1. ptr \in DOMAIN live /\ DOMAIN rest = DOMAIN live \ {ptr} /\ \A b \in DOMAIN rest : rest[b] = live[b]
        BY <1>5 DEF A
      <4>2. Reallocates(r, mem, mem_brk, sz, DOMAIN live, ptr, Adjust(size), order, sz2)
        BY <3>1 DEF A
      <4>3. ClientHeap(m, r.brk, sz2, all)
        BY ONLY <4>1, <4>2, <2>1, <1>4, ClientReallocates, Zenon
      <4>4. order = "forward" => Data2
        BY ONLY <4>1, <4>2, <2>1, <1>4, ClientReallocates, Zenon
      <4>. QED
        BY <4>3, <4>4
    <3>3. Becomes(r, m, all) /\ kept' = Data2
      BY <1>3, <2>4 DEF Takes
    <3>4. /\ r.tail = r.brk /\ r.bp \notin DOMAIN rest /\ r.brk >= mem_brk
          /\ (r.brk # mem_brk => r.bp \notin A /\ \A b \in DOMAIN sz \ A : sz[b] < Adjust(size))
          /\ r.brk > 160 /\ r.brk \in Addresses /\ r.bp \in Addresses
      BY <3>1, <1>5, WithS, HeapEnd DEF Reallocates
    <3>5. all[r.bp] = size /\ r.bp \in DOMAIN all
      BY DEF Also
    <3>6. Data2 \in BOOLEAN
      BY DEF DataKept
    <3>10. /\ Driver!Accepted(PayloadRange(r.bp, size), Payloads(rest), r.brk)
           /\ Payloads(all) = Payloads(rest) \union {PayloadRange(r.bp, size)}
      BY <3>2, <3>4, PayloadAccepted
    <3> HIDE DEF all, m, Data2
    <3>7. IInv'
      BY <3>2, <3>3, <3>4, <3>6, <1>2, Continues
    <3>8. mem_brk' = r.brk /\ live' = all
      BY <3>3 DEF Becomes
    <3>9. Grows
      <4>1. CASE mem_brk' = mem_brk
        BY <4>1 DEF Grows
      <4>2. CASE mem_brk' # mem_brk
        BY <3>4, <3>5, <3>8, <4>2, <1>1, GrowsBecause
      <4>. QED
        BY <4>1, <4>2
    <3>11. DriverStep
      BY <2>1, <3>4, <3>8, <3>10, <1>10, DriverAdds
    <3>. QED
      BY <3>2, <3>3, <3>7, <3>9, <3>11
  <2>. QED
    BY <2>2, <2>3, <2>4
<1>. QED
  BY <1>6, <1>7

\* Every step of the client keeps the heap, and does what the properties of steps say.
LEMMA NextStep ==
  ASSUME IInv, [Next]_vars
  PROVE  IInv' /\ Grows /\ DriverStep /\ (CopyOrders = {"forward"} /\ kept => kept')
<1>1. ASSUME NEW size \in Sizes \union {0}, Malloc(size)
      PROVE  IInv' /\ Grows /\ DriverStep /\ (kept => kept')
  BY <1>1, MallocStep DEF Malloc
<1>2. ASSUME NEW ptr \in DOMAIN live \union {0}, Free(ptr)
      PROVE  IInv' /\ Grows /\ DriverStep /\ (kept => kept')
  BY <1>2, FreeStep DEF Free
<1>3. ASSUME NEW ptr \in DOMAIN live, NEW size \in Sizes \union {0}, NEW order \in CopyOrders,
             Realloc(ptr, size, order)
      PROVE  IInv' /\ Grows /\ DriverStep /\ (CopyOrders = {"forward"} /\ kept => kept')
  BY <1>3, ReallocStep
<1>4. CASE UNCHANGED vars
  BY <1>4 DEF vars, IInv, HeapInv, ClientHeap, Grows, DriverStep
<1>. QED
  BY <1>1, <1>2, <1>3, <1>4 DEF Next

\* At every moment between two calls the memory is a heap: blocks described by one function, tags
\* and lists that say the same, and the client's blocks with its data.
THEOREM HeapInvariant == Spec => []IInv
<1>1. IInv /\ [Next]_vars => IInv'
  BY NextStep
<1>. QED
  BY <1>1, InitIInv, PTL DEF Spec

\* What an IInv says of the blocks, at hand.
LEMMA HeapFacts ==
  ASSUME IInv
  PROVE  \E sz : /\ HeapInv(sz) /\ Geometry(sz, mem_brk) /\ Tags(mem, mem_brk, sz, DOMAIN live)
                 /\ Placed(sz, mem_brk) /\ Blocks(mem, mem_brk) = DOMAIN sz /\ DOMAIN live \subseteq DOMAIN sz
                 /\ \A b \in DOMAIN sz : /\ BlockSize(mem, b) = sz[b] /\ (IsFree(mem, b) <=> b \notin DOMAIN live)
                                         /\ NEXT_BLKP(mem, b) = b + sz[b] /\ FTRP(mem, b) = b + sz[b] - 8
<1>1. PICK sz : HeapInv(sz)
  BY DEF IInv
<1>2. Heap(mem, mem_brk, sz, DOMAIN live, DOMAIN sz \ DOMAIN live)
  BY <1>1 DEF HeapInv, ClientHeap
<1>3. Geometry(sz, mem_brk) /\ Tags(mem, mem_brk, sz, DOMAIN live) /\ DOMAIN live \subseteq DOMAIN sz
  BY <1>2 DEF Heap
<1>4. /\ Blocks(mem, mem_brk) = DOMAIN sz
      /\ \A b \in DOMAIN sz : BlockSize(mem, b) = sz[b] /\ (IsFree(mem, b) <=> b \notin DOMAIN live)
  BY <1>2, HeapRead
<1>5. \A b \in DOMAIN sz : NEXT_BLKP(mem, b) = b + sz[b] /\ FTRP(mem, b) = b + sz[b] - 8
  BY <1>3, SizeRead DEF NEXT_BLKP, FTRP
<1>6. Placed(sz, mem_brk)
  BY <1>3, BlockWords
<1>. QED
  BY <1>1, <1>3, <1>4, <1>5, <1>6

\* Boundary tags: blocks of legal size without gaps up to the epilogue, footers like headers.
THEOREM BoundaryTagsHold == Spec => []BoundaryTags
<1>1. ASSUME IInv PROVE BoundaryTags
  <2>1. PICK sz : /\ HeapInv(sz) /\ Geometry(sz, mem_brk) /\ Tags(mem, mem_brk, sz, DOMAIN live)
                  /\ Placed(sz, mem_brk) /\ Blocks(mem, mem_brk) = DOMAIN sz /\ DOMAIN live \subseteq DOMAIN sz
                  /\ \A b \in DOMAIN sz : /\ BlockSize(mem, b) = sz[b]
                                          /\ NEXT_BLKP(mem, b) = b + sz[b] /\ FTRP(mem, b) = b + sz[b] - 8
    BY <1>1, HeapFacts
  <2>2. freelist_tailp = mem_brk /\ mem_brk > 160 /\ kept \in BOOLEAN /\ realloced \in BOOLEAN
    BY <1>1 DEF IInv
  <2>3. TypeOK
    <3>1. Sized(sz, live)
      BY <2>1 DEF HeapInv, ClientHeap
    <3>. QED
      BY <2>1, <2>2, <3>1 DEF TypeOK, Geometry, Tags, Sized
  <2>4. 160 \in DOMAIN sz
    BY <2>1, <2>2 DEF Geometry
  <2>5. ASSUME NEW b \in DOMAIN sz
        PROVE  /\ BlockSize(mem, b) >= 32 /\ mem[FTRP(mem, b)] = mem[HDRP(b)]
               /\ NEXT_BLKP(mem, b) \in DOMAIN sz \union {mem_brk}
    BY <2>1 DEF Geometry, Tags
  <2>6. mem[mem_brk - 4] = 1
    BY <2>1 DEF Tags
  <2>. QED
    BY <2>1, <2>2, <2>3, <2>4, <2>5, <2>6 DEF BoundaryTags
<1>. QED
  BY <1>1, HeapInvariant, PTL

\* Free lists: list num holds exactly the free blocks of its class, linked both ways.
THEOREM FreeListsHold == Spec => []FreeLists
<1>1. ASSUME IInv PROVE FreeLists
  <2>1. PICK sz : /\ HeapInv(sz) /\ Geometry(sz, mem_brk) /\ Blocks(mem, mem_brk) = DOMAIN sz
                  /\ \A b \in DOMAIN sz : BlockSize(mem, b) = sz[b] /\ (IsFree(mem, b) <=> b \notin DOMAIN live)
    BY <1>1, HeapFacts
  <2> DEFINE U == DOMAIN sz \ DOMAIN live
  <2>2. PICK rk : Lists(mem, sz, U, rk)
    BY <2>1 DEF HeapInv, ClientHeap, Heap
  <2> SUFFICES ASSUME NEW num \in 0..16
               PROVE  LET nodes == Range(List(mem, num)) \ {NULL}
                          first == GET_PTR(mem, HEAD(num))
                      IN  /\ nodes = {bp \in Blocks(mem, mem_brk) :
                                         IsFree(mem, bp) /\ search(BlockSize(mem, bp)) = num}
                          /\ first # NULL => GET_PTR(mem, PREP(first)) = NULL
                          /\ \A bp \in nodes : LET succ == GET_PTR(mem, SUCP(bp))
                                               IN  succ # NULL => GET_PTR(mem, PREP(succ)) = bp
    BY DEF FreeLists
  <2> DEFINE Class == {b \in U : search(sz[b]) = num}
  <2>3. /\ \A k \in 1..MaxBlocks :
             List(mem, num)[k] = 0 \/ (List(mem, num)[k] \in U /\ search(sz[List(mem, num)[k]]) = num)
        /\ \A b \in U : search(sz[b]) = num => \E k \in 1..MaxBlocks : List(mem, num)[k] = b
    BY <2>1, <2>2, ListFound
  <2>4. DOMAIN List(mem, num) = 1..MaxBlocks
    BY ListWalk
  <2>5. 0 \notin DOMAIN sz
    BY <2>1, BlockWords
  <2>6. Range(List(mem, num)) \ {0} = Class
    BY <2>3, <2>4, <2>5 DEF Range
  <2>7. Class = {bp \in Blocks(mem, mem_brk) : IsFree(mem, bp) /\ search(BlockSize(mem, bp)) = num}
    BY <2>1
  <2>8. mem[HEAD(num)] # 0 => mem[mem[HEAD(num)]] = 0
    BY <2>2 DEF Lists
  <2>9. \A b \in Class : mem[b + 8] # 0 => mem[mem[b + 8]] = b
    BY <2>2 DEF Lists
  <2>. QED
    BY <2>6, <2>7, <2>8, <2>9 DEF GET_PTR
<1>. QED
  BY <1>1, HeapInvariant, PTL

\* No block is lost or handed out twice, and none is larger than it need be.
THEOREM BlocksAreLiveHold == Spec => []BlocksAreLive
<1>1. ASSUME IInv PROVE BlocksAreLive
  <2>1. PICK sz : /\ HeapInv(sz) /\ Blocks(mem, mem_brk) = DOMAIN sz /\ DOMAIN live \subseteq DOMAIN sz
                  /\ \A b \in DOMAIN sz : BlockSize(mem, b) = sz[b] /\ (IsFree(mem, b) <=> b \notin DOMAIN live)
    BY <1>1, HeapFacts
  <2>2. Sized(sz, live)
    BY <2>1 DEF HeapInv, ClientHeap
  <2>3. \A bp \in DOMAIN live : live[bp] <= sz[bp] - 8 /\ sz[bp] \in {Adjust(live[bp]), Adjust(live[bp]) + 16}
    BY <2>2, RequestsFit DEF Sized
  <2>. QED
    BY <2>1, <2>3 DEF BlocksAreLive
<1>. QED
  BY <1>1, HeapInvariant, PTL

\* No call writes into a block of the client.
THEOREM ClientDataStaysIntact == Spec => []ClientDataIntact
<1>1. ASSUME IInv PROVE ClientDataIntact
  BY <1>1 DEF IInv, HeapInv, ClientHeap, Intact, ClientDataIntact, PayloadWords, Payload, InPayload
<1>. QED
  BY <1>1, HeapInvariant, PTL

\* Until the first mm_realloc no two neighbouring blocks are free.
THEOREM CoalescedBeforeRealloc == Spec => []CoalescedUntilRealloc
<1>1. ASSUME IInv PROVE CoalescedUntilRealloc
  <2>1. PICK sz : /\ HeapInv(sz) /\ Geometry(sz, mem_brk) /\ Blocks(mem, mem_brk) = DOMAIN sz
                  /\ \A b \in DOMAIN sz : (IsFree(mem, b) <=> b \notin DOMAIN live)
                       /\ NEXT_BLKP(mem, b) = b + sz[b]
    BY <1>1, HeapFacts
  <2>2. ~realloced => Apart(sz, DOMAIN sz \ DOMAIN live)
    BY <2>1 DEF HeapInv
  <2>3. \A b \in DOMAIN sz : b + sz[b] \in DOMAIN sz \union {mem_brk}
    BY <2>1 DEF Geometry
  <2>. QED
    BY <2>1, <2>2, <2>3 DEF CoalescedUntilRealloc, Apart
<1>. QED
  BY <1>1, HeapInvariant, PTL

\* The heap grows only for a block that no free block could hold.
THEOREM HeapGrowsOnlyWithoutFit == Spec => GrowsOnlyWithoutFit
<1>1. IInv /\ [Next]_vars => [Grows]_vars
  BY NextStep
<1>2. Grows => (mem_brk' # mem_brk =>
                  \E bp \in DOMAIN live' :
                    /\ bp \notin DOMAIN live
                    /\ \A b \in Blocks(mem, mem_brk) : IsFree(mem, b) => BlockSize(mem, b) < Adjust(live'[bp]))
  BY DEF Grows
<1>. QED
  BY <1>1, <1>2, HeapInvariant, PTL DEF Spec, GrowsOnlyWithoutFit

\* mm_realloc keeps the data, if memcpy copies from the first word up.
THEOREM ReallocKeepsTheData ==
  ASSUME CopyOrders = {"forward"}
  PROVE  Spec => []ReallocKeepsData
<1>1. Init => kept
  BY DEF Init
<1>2. IInv /\ kept /\ [Next]_vars => kept'
  BY NextStep
<1>. QED
  BY <1>1, <1>2, HeapInvariant, PTL DEF Spec, ReallocKeepsData

\* The allocator implements what the driver demands of it: its payloads are aligned, inside the
\* heap and apart from each other.
THEOREM DriverAccepts == Spec => AcceptedByDriver
<1>1. Init => Driver!Init
  <2> SUFFICES ASSUME Init PROVE Driver!Init
    OBVIOUS
  <2>1. IInv /\ DOMAIN live = {}
    BY InitIInv DEF Init
  <2>2. mem_brk \in Addresses
    BY <2>1, HeapFacts DEF Geometry
  <2>. QED
    BY <2>1, <2>2 DEF Driver!Init
<1>2. IInv /\ [Next]_vars => [Driver!Next]_(Driver!vars)
  BY NextStep, RangesAre DEF DriverStep, Driver!vars
<1>. QED
  BY <1>1, <1>2, HeapInvariant, PTL DEF Spec, AcceptedByDriver, Driver!Spec
=============================================================================

------------------------- MODULE Primitives_proofs ---------------------------
(***************************************************************************)
(* Proofs about the hashes, HKDF, GCM and texts of digits, for any size of  *)
(* bytes, blocks, hashes and counters that the assumptions of the modules   *)
(* allow.                                                                   *)
(***************************************************************************)
EXTENDS Hkdf, Sha3, Gcm, HexText, Division, SequenceTheorems

-----------------------------------------------------------------------------
(* Bytes. *)

\* The powers of the number of bytes.
LEMMA Powers ==
  ASSUME Byte \in Nat \ {0}
  PROVE  /\ \A k \in Nat : Values(k) \in Nat \ {0}
         /\ Values(0) = 1 /\ \A k \in Nat : Values(k + 1) = Byte * Values(k)
<1>1. Byte \in Int /\ Byte > 0
  OBVIOUS
<1>2. \A k \in Nat : Power(Byte, k) \in Int /\ Power(Byte, k) > 0
  BY <1>1, PowerPositive
<1>3. Power(Byte, 0) = 1 /\ \A k \in Nat : Power(Byte, k + 1) = Byte * Power(Byte, k)
  BY <1>1, PowerStep
<1>. QED
  BY <1>2, <1>3 DEF Values

\* More bytes have at least as many values.
LEMMA PowersGrow ==
  ASSUME Byte \in Nat \ {0}, NEW j \in Nat, NEW k \in Nat, j <= k
  PROVE  Values(j) <= Values(k)
<1> USE Powers
<1> DEFINE Below == {l \in Nat : j <= l /\ Values(l) < Values(j)}
<1>1. Below = {}
  <2> SUFFICES ASSUME Below # {} PROVE FALSE
    OBVIOUS
  <2>1. PICK l \in Below : \A i \in Below : l <= i
    BY LeastNumber
  <2>2. l # j
    BY <2>1
  <2>3. l - 1 \in Nat /\ j <= l - 1 /\ l - 1 \notin Below
    BY <2>1, <2>2
  <2>4. Values(l - 1) >= Values(j) /\ Values(l) = Byte * Values(l - 1)
    <3>1. l = (l - 1) + 1
      BY <2>1
    <3>. QED
      BY <2>3, <3>1
  <2>5. Byte * Values(l - 1) >= Values(l - 1)
    BY <2>3
  <2>. QED
    BY <2>1, <2>3, <2>4, <2>5
<1>. QED
  BY <1>1

\* A function on the first n numbers is a sequence.
LEMMA IsSequence ==
  ASSUME NEW S, NEW n \in Nat, NEW f \in [1..n -> S]
  PROVE  f \in Seq(S) /\ Len(f) = n
  OBVIOUS

\* A function of the first n numbers.
Numbered(f, n) == f = [k \in 1..n |-> f[k]]

\* Two sequences one after the other.
LEMMA Joined ==
  ASSUME NEW n \in Nat, NEW l \in Nat, NEW f, NEW g, f = [k \in 1..n |-> f[k]], g = [k \in 1..l |-> g[k]]
  PROVE  /\ Len(f \o g) = n + l /\ f \o g = [k \in 1..n + l |-> (f \o g)[k]]
         /\ \A k \in 1..n + l : (f \o g)[k] = IF k <= n THEN f[k] ELSE g[k - n]
<1> DEFINE S == {f[k] : k \in 1..n} \cup {g[k] : k \in 1..l}
<1>1. f \in [1..n -> S] /\ g \in [1..l -> S]
  OBVIOUS
<1> HIDE DEF S
<1>2. f \in Seq(S) /\ Len(f) = n
  BY <1>1, IsSequence, Zenon
<1>3. g \in Seq(S) /\ Len(g) = l
  BY <1>1, IsSequence, Zenon
<1>4. /\ f \o g \in Seq(S) /\ Len(f \o g) = n + l
      /\ \A i \in 1..n + l : (f \o g)[i] = IF i <= n THEN f[i] ELSE g[i - n]
  BY <1>2, <1>3, ConcatProperties
<1> DEFINE both == f \o g
<1> HIDE DEF both
<1>5. both = [k \in 1..Len(both) |-> both[k]]
  <2>1. both \in Seq(S)
    BY <1>4 DEF both
  <2>. QED
    BY <2>1
<1>. QED
  BY <1>4, <1>5 DEF both

-----------------------------------------------------------------------------
(* Sequences. *)

\* w is f and then g, of n and of l elements.
OneAfterTheOther(w, f, g, n, l) ==
  /\ Numbered(w, n + l) /\ Len(w) = n + l
  /\ \A k \in 1..n : w[k] = f[k]
  /\ \A k \in 1..l : w[n + k] = g[k]

\* The first of two joined sequences ends where the second begins.
LEMMA Concatenation ==
  ASSUME NEW n \in Nat, NEW l \in Nat, NEW f, NEW g, Numbered(f, n), Numbered(g, l)
  PROVE  OneAfterTheOther(f \o g, f, g, n, l)
<1> DEFINE both == f \o g
<1>1. /\ Len(both) = n + l /\ both = [k \in 1..n + l |-> both[k]]
      /\ \A k \in 1..n + l : both[k] = IF k <= n THEN f[k] ELSE g[k - n]
  BY Joined DEF Numbered
<1> HIDE DEF both
<1>2. \A k \in 1..n : both[k] = f[k]
  BY <1>1
<1>3. \A k \in 1..l : both[n + k] = g[k]
  <2> SUFFICES ASSUME NEW k \in 1..l PROVE both[n + k] = g[k]
    OBVIOUS
  <2>1. n + k \in 1..n + l /\ ~(n + k <= n) /\ (n + k) - n = k
    OBVIOUS
  <2>. QED
    BY <1>1, <2>1
<1>. QED
  BY <1>1, <1>2, <1>3 DEF both, Numbered, OneAfterTheOther

\* With the same first part, the second ones are the same if the sequences are.
LEMMA SameRest ==
  ASSUME NEW n \in Nat, NEW l \in Nat, NEW m \in Nat, NEW w, NEW f, NEW g, NEW h,
         OneAfterTheOther(w, f, g, n, l), OneAfterTheOther(w, f, h, n, m),
         Numbered(g, l), Numbered(h, m)
  PROVE  l = m /\ g = h
<1>1. OneAfterTheOther(w, f, g, n, l)
  OBVIOUS
<1>2. OneAfterTheOther(w, f, h, n, m)
  OBVIOUS
<1>3. l = m
  BY <1>1, <1>2 DEF OneAfterTheOther
<1>4. \A k \in 1..l : g[k] = h[k]
  BY <1>1, <1>2, <1>3 DEF OneAfterTheOther
<1>. QED
  BY <1>3, <1>4 DEF Numbered

\* With first parts of the same length, both are the same if the sequences are.
LEMMA SameFirst ==
  ASSUME NEW n \in Nat, NEW l \in Nat, NEW m \in Nat, NEW f, NEW g, NEW h, NEW i,
         Numbered(f, n), Numbered(g, l), Numbered(h, n), Numbered(i, m), f \o g = h \o i
  PROVE  f = h
<1> DEFINE w == f \o g
<1>0. w = h \o i
  OBVIOUS
<1>1. OneAfterTheOther(w, f, g, n, l)
  BY Concatenation, Zenon
<1>2. OneAfterTheOther(w, h, i, n, m)
  BY <1>0, Concatenation, Zenon
<1> HIDE DEF w
<1>3. \A k \in 1..n : f[k] = h[k]
  BY <1>1, <1>2 DEF OneAfterTheOther
<1>. QED
  BY <1>3 DEF Numbered

\* p is the part of f after the first low elements, of l elements.
PartAfter(p, f, low, l) == Numbered(p, l) /\ \A k \in 1..l : p[k] = f[low + k]

\* A part of a sequence.
LEMMA Cut ==
  ASSUME NEW n \in Nat, NEW low \in Nat, NEW high \in Nat, low <= high, high <= n, NEW f, Numbered(f, n)
  PROVE  PartAfter(SubSeq(f, low + 1, high), f, low, high - low)
<1> DEFINE S == {f[k] : k \in 1..n}
           from == low + 1
           part == SubSeq(f, from, high)
<1>1. \A k \in from..high : f[k] \in S
  OBVIOUS
<1>2. from \in Int /\ high \in Int
  OBVIOUS
<1> HIDE DEF S, from
<1>3. /\ part \in Seq(S) /\ Len(part) = IF from <= high THEN high - from + 1 ELSE 0
      /\ \A i \in 1..high - from + 1 : part[i] = f[from + i - 1]
  BY <1>1, <1>2, SubSeqProperties
<1> HIDE DEF part
<1>4. Len(part) = high - low /\ \A i \in 1..high - low : part[i] = f[low + i]
  <2>1. from <= high \/ high - low = 0
    BY DEF from
  <2>2. Len(part) = high - low
    BY <1>3, <2>1 DEF from
  <2>3. \A i \in 1..high - low : i \in 1..high - from + 1 /\ from + i - 1 = low + i
    BY DEF from
  <2>. QED
    BY <1>3, <2>2, <2>3
<1>5. part = [k \in 1..Len(part) |-> part[k]]
  BY <1>3
<1>. QED
  BY <1>4, <1>5 DEF part, from, Numbered, PartAfter

\* Joining is associative, also with a last element.
LEMMA LastOfThree ==
  ASSUME NEW n \in Nat, NEW l \in Nat, NEW f, NEW g, Numbered(f, n), Numbered(g, l), NEW x
  PROVE  /\ (f \o g) \o <<x>> = f \o Append(g, x)
         /\ Numbered(Append(g, x), l + 1)
<1> DEFINE S == {f[k] : k \in 1..n} \cup {g[k] : k \in 1..l} \cup {x}
<1>1. f \in [1..n -> S] /\ g \in [1..l -> S] /\ x \in S
  BY DEF Numbered
<1> HIDE DEF S
<1>2. f \in Seq(S)
  BY <1>1, IsSequence, Zenon
<1>3. g \in Seq(S) /\ Len(g) = l
  BY <1>1, IsSequence, Zenon
<1>4. <<x>> \in Seq(S)
  BY <1>1
<1>5. g \o <<x>> = Append(g, x) /\ Append(g, x) \in Seq(S) /\ Len(Append(g, x)) = l + 1
  BY <1>1, <1>3
<1>6. (f \o g) \o <<x>> = f \o (g \o <<x>>)
  BY <1>2, <1>3, <1>4, ConcatAssociative
<1> DEFINE a == Append(g, x)
<1> HIDE DEF a
<1>7. Numbered(a, l + 1)
  <2>1. a \in Seq(S) /\ Len(a) = l + 1
    BY <1>5 DEF a
  <2>. QED
    BY <2>1 DEF Numbered
<1>. QED
  BY <1>5, <1>6, <1>7 DEF a

\* r is f, of n elements, with c elements after o replaced by the first ones of g.
WithReplaced(r, f, g, n, o, c) ==
  /\ Numbered(r, n)
  /\ \A k \in 1..o : r[k] = f[k]
  /\ \A k \in 1..c : r[o + k] = g[k]

\* Part of a sequence is replaced.
LEMMA Replaced ==
  ASSUME NEW n \in Nat, NEW l \in Nat, NEW f, NEW g, Numbered(f, n), Numbered(g, l),
         NEW o \in Nat, NEW c \in Nat, o + c <= n, c <= l,
         NEW r, r = SubSeq(f, 1, o) \o SubSeq(g, 1, c) \o SubSeq(f, o + c + 1, n)
  PROVE  WithReplaced(r, f, g, n, o, c)
<1> DEFINE zero == 0
           p == o + c
           left == SubSeq(f, zero + 1, o)
           mid == SubSeq(g, zero + 1, c)
           right == SubSeq(f, p + 1, n)
           front == left \o mid
<1>0. r = front \o right
  OBVIOUS
<1>1. zero \in Nat /\ zero <= o /\ zero <= c /\ o <= n /\ p \in Nat /\ p <= n /\ n <= n /\ c <= l /\ o - zero = o /\ c - zero = c
  OBVIOUS
<1> HIDE DEF zero, p
<1>2. PartAfter(left, f, zero, o - zero)
  BY <1>1, Cut, Zenon
<1>3. PartAfter(mid, g, zero, c - zero)
  BY <1>1, Cut, Zenon
<1>4. PartAfter(right, f, p, n - p)
  BY <1>1, Cut, Zenon
<1> HIDE DEF left, mid, right
<1>5. /\ Numbered(left, o) /\ Numbered(mid, c)
      /\ \A k \in 1..o : left[k] = f[k]
      /\ \A k \in 1..c : mid[k] = g[k]
  BY <1>1, <1>2, <1>3 DEF zero, PartAfter
<1>6. OneAfterTheOther(front, left, mid, o, c)
  BY <1>5, Concatenation, Zenon
<1> HIDE DEF front
<1> DEFINE rest == n - p
<1>7. rest \in Nat /\ p + rest = n /\ Numbered(right, rest) /\ Numbered(front, p)
  BY <1>1, <1>4, <1>6 DEF p, PartAfter, OneAfterTheOther
<1> HIDE DEF rest
<1>8. OneAfterTheOther(r, front, right, p, rest)
  BY <1>0, <1>1, <1>7, Concatenation, Zenon
<1>9. \A k \in 1..o : k \in 1..p
  BY DEF p
<1>10. \A k \in 1..c : o + k \in 1..p
  BY DEF p
<1>. QED
  BY <1>5, <1>6, <1>7, <1>8, <1>9, <1>10 DEF OneAfterTheOther, WithReplaced

-----------------------------------------------------------------------------
(* SHA-256. *)

\* The sizes of the code: two words leave room in a block, and a word counts all bits that
\* an int can.
Contexts ==
  [buf : [Offsets -> Int], len : Nat, bits : [0..1 -> 0..Word - 1], hash : Seq([Offsets -> Int])]

\* Before the padding: the hashed blocks and the buffer are the bytes read so far, in their
\* order, and the hashed ones are counted.
HoldsWhatWasRead(context, bytes, m) ==
  /\ context \in Contexts /\ context.len < Block
  /\ bytes = Block * Len(context.hash) + context.len
  /\ context.bits[1] = 0 /\ context.bits[0] = 8 * (Block * Len(context.hash))
  /\ \A b \in 1..Len(context.hash), k \in Offsets : context.hash[b][k] = m[Block * (b - 1) + k + 1]
  /\ \A k \in Offsets : k < context.len => context.buf[k] = m[Block * Len(context.hash) + k + 1]

ShaInv ==
  /\ message \in Seq(Int) /\ 8 * Len(message) <= INT_MAX
  /\ read \in 0..Len(message) /\ phase \in {"idle", "reading", "returned"}
  /\ phase = "idle" => read = 0 /\ text = FreshText
  /\ phase # "returned" => HoldsWhatWasRead(text, read, message)
  /\ phase = "returned" => ShaTypeOK /\ Absorbed(text.hash) = Padded(message)

\* Counting bits that still fit in the low word does not touch the high one.
LEMMA CountsBits ==
  ASSUME NEW context \in Contexts, NEW x \in Nat, context.bits[1] = 0,
         context.bits[0] + x <= INT_MAX
  PROVE  /\ sha_add(context, x) \in Contexts
         /\ sha_add(context, x).bits[0] = context.bits[0] + x /\ sha_add(context, x).bits[1] = 0
         /\ sha_add(context, x).buf = context.buf /\ sha_add(context, x).len = context.len
         /\ sha_add(context, x).hash = context.hash
<1> DEFINE total == context.bits[0] + x
<1>1. Word \in Nat \ {0} /\ INT_MAX \in Nat /\ INT_MAX < Word
  BY Powers, ShaAssumption DEF Word
<1>2. context.bits \in [0..1 -> 0..Word - 1]
  BY DEF Contexts
<1>3. context.bits[0] \in 0..Word - 1 /\ total \in 0..Word - 1
  BY <1>1, <1>2
<1>4. ~(context.bits[0] > Word - 1 - x)
  BY <1>1, <1>3
<1>5. total % Word = total
  <2>1. \A t \in 0..Word - 1 : t = Word * 0 + t
    BY <1>1
  <2>2. \A t \in 0..Word - 1 : t % Word = t
    BY <1>1, <2>1, DivUnique
  <2>. QED
    BY <1>3, <2>2
<1> DEFINE bits == [context.bits EXCEPT ![1] = 0, ![0] = total]
<1>6. sha_add(context, x) = [context EXCEPT !.bits = bits]
  <2>1. sha_add(context, x) = [context EXCEPT !.bits[1] = @, !.bits[0] = (@ + x) % Word]
    BY <1>4 DEF sha_add
  <2>2. [context EXCEPT !.bits[1] = @, !.bits[0] = (@ + x) % Word] = [context EXCEPT !.bits = [context.bits EXCEPT ![1] = @, ![0] = (@ + x) % Word]]
    BY <1>2 DEF Contexts
  <2>. QED
    BY <1>2, <1>5, <2>1, <2>2
<1>7. bits \in [0..1 -> 0..Word - 1] /\ bits[0] = total /\ bits[1] = 0
  BY <1>1, <1>2, <1>3
<1> HIDE DEF bits
<1>. QED
  BY <1>6, <1>7 DEF Contexts

\* A byte goes into the buffer, and a full buffer into the hash.
LEMMA TakesByte ==
  ASSUME NEW m \in Seq(Int), 8 * Len(m) <= INT_MAX, NEW c, NEW bytes \in Nat, bytes < Len(m),
         HoldsWhatWasRead(c, bytes, m)
  PROVE  HoldsWhatWasRead(Taken(c, m[bytes + 1]), bytes + 1, m)
<1> DEFINE byte == m[bytes + 1]
           len == c.len
           blocks == Len(c.hash)
           P == Block * blocks
           buffer == [c.buf EXCEPT ![len] = byte]
           stored == [c EXCEPT !.buf[c.len] = byte, !.len = @ + 1]
<1>1. /\ Block \in Nat /\ Block > 0 /\ INT_MAX \in Nat /\ byte \in Int /\ Offsets = 0..Block - 1
      /\ c \in Contexts /\ len \in Nat /\ len < Block /\ len \in Offsets
  <2>1. Block \in Nat /\ Block > 0 /\ INT_MAX \in Nat /\ Offsets = 0..Block - 1
    BY ShaAssumption DEF Offsets
  <2>2. byte \in Int
    OBVIOUS
  <2>3. c \in Contexts /\ len < Block
    BY DEF HoldsWhatWasRead
  <2>4. len \in Nat
    BY <2>3 DEF Contexts
  <2>. QED
    BY <2>1, <2>2, <2>3, <2>4
<1>2. c.buf \in [Offsets -> Int] /\ c.hash \in Seq([Offsets -> Int]) /\ c.bits \in [0..1 -> 0..Word - 1]
  BY <1>1 DEF Contexts
<1>3. blocks \in Nat
  BY <1>2
<1>4. P \in Nat
  BY <1>1, <1>3
<1>5. bytes = P + len
  BY DEF HoldsWhatWasRead
<1>6. \A k \in Offsets : k < len => c.buf[k] = m[P + k + 1]
  BY DEF HoldsWhatWasRead
<1>7. \A b \in 1..blocks, k \in Offsets : c.hash[b][k] = m[Block * (b - 1) + k + 1]
  BY DEF HoldsWhatWasRead
<1>8. c.bits[1] = 0 /\ c.bits[0] = 8 * P
  BY DEF HoldsWhatWasRead
<1>9. buffer \in [Offsets -> Int] /\ buffer[len] = byte /\ \A k \in Offsets : k # len => buffer[k] = c.buf[k]
  BY <1>1, <1>2
<1>10. stored = [c EXCEPT !.buf = buffer, !.len = len + 1]
  BY <1>1 DEF Contexts
<1>11. /\ stored \in Contexts /\ stored.buf = buffer /\ stored.len = len + 1
       /\ stored.hash = c.hash /\ stored.bits = c.bits
  <2> HIDE DEF buffer, stored
  <2>1. len + 1 \in Nat
    BY <1>1
  <2>. QED
    BY <1>1, <1>9, <1>10, <2>1 DEF Contexts
<1>12. Taken(c, byte) = IF stored.len = Block THEN [sha_add(hashing(stored), Block * 8) EXCEPT !.len = 0] ELSE stored
  BY DEF Taken
<1> HIDE DEF buffer, stored, P, blocks, len, byte
<1>13. \A k \in Offsets : k < len + 1 => buffer[k] = m[P + k + 1]
  <2> SUFFICES ASSUME NEW k \in Offsets, k < len + 1 PROVE buffer[k] = m[P + k + 1]
    OBVIOUS
  <2>1. CASE k = len
    BY <1>5, <1>9, <2>1 DEF byte
  <2>2. CASE k # len
    <3>1. k < len
      BY <1>1, <2>2
    <3>. QED
      BY <1>6, <1>9, <2>2, <3>1
  <2>. QED
    BY <2>1, <2>2
<1>14. CASE len + 1 # Block
  <2>1. Taken(c, byte) = stored
    BY <1>11, <1>12, <1>14
  <2>2. len + 1 < Block /\ bytes + 1 = P + (len + 1)
    BY <1>1, <1>4, <1>5, <1>14
  <2>3. HoldsWhatWasRead(stored, bytes + 1, m)
    <3>1. stored.len < Block /\ bytes + 1 = Block * Len(stored.hash) + stored.len
      BY <1>11, <2>2 DEF P, blocks
    <3>2. stored.bits[1] = 0 /\ stored.bits[0] = 8 * (Block * Len(stored.hash))
      BY <1>8, <1>11 DEF P, blocks
    <3>3. \A k \in Offsets : k < stored.len => stored.buf[k] = m[Block * Len(stored.hash) + k + 1]
      BY <1>11, <1>13 DEF P, blocks
    <3>. QED
      BY <1>7, <1>11, <3>1, <3>2, <3>3 DEF HoldsWhatWasRead, blocks
  <2>. QED
    BY <2>1, <2>3 DEF byte
<1>15. CASE len + 1 = Block
  <2> DEFINE h == hashing(stored)
             t == sha_add(h, Block * 8)
             hash == Append(c.hash, buffer)
             r == [t EXCEPT !.len = 0]
  <2>1. Taken(c, byte) = r
    BY <1>11, <1>12, <1>15
  <2>2. h = [stored EXCEPT !.hash = hash]
    BY <1>11 DEF hashing, Contexts
  <2>3. /\ hash \in Seq([Offsets -> Int]) /\ Len(hash) = blocks + 1
        /\ \A b \in 1..blocks : hash[b] = c.hash[b]
        /\ hash[blocks + 1] = buffer
    BY <1>2, <1>9 DEF blocks
  <2> HIDE DEF h, hash
  <2>4. h \in Contexts /\ h.hash = hash /\ h.bits = c.bits
    BY <1>11, <2>2, <2>3 DEF Contexts
  <2>5. 8 * P + Block * 8 <= INT_MAX
    <3>1. 8 * P + Block * 8 = 8 * (bytes + 1)
      BY <1>1, <1>4, <1>5, <1>15
    <3>2. Len(m) \in Nat
      OBVIOUS
    <3>. QED
      BY <1>1, <3>1, <3>2
  <2>6. t \in Contexts /\ t.bits[0] = 8 * P + Block * 8 /\ t.bits[1] = 0 /\ t.hash = hash
    <3> DEFINE x == Block * 8
    <3>1. x \in Nat
      BY <1>1
    <3> HIDE DEF x
    <3>2. h.bits[1] = 0 /\ h.bits[0] + x <= INT_MAX /\ h.bits[0] = 8 * P
      BY <1>8, <2>4, <2>5 DEF x
    <3>3. sha_add(h, x) \in Contexts /\ sha_add(h, x).bits[0] = 8 * P + x /\ sha_add(h, x).bits[1] = 0 /\ sha_add(h, x).hash = h.hash
      BY <2>4, <3>1, <3>2, CountsBits
    <3>. QED
      BY <2>4, <3>3 DEF x
  <2> HIDE DEF t
  <2>7. r \in Contexts /\ r.len = 0 /\ r.hash = hash /\ r.bits = t.bits
    BY <2>6 DEF Contexts
  <2> HIDE DEF r
  <2>8. Block * (blocks + 1) = P + Block
    BY <1>1, <1>3 DEF P
  <2>9. bytes + 1 = Block * (blocks + 1) + 0 /\ 8 * (Block * (blocks + 1)) = 8 * P + Block * 8
    BY <1>1, <1>4, <1>5, <1>15, <2>8, SMTT(30)
  <2>10. \A b \in 1..blocks + 1, k \in Offsets : hash[b][k] = m[Block * (b - 1) + k + 1]
    <3> SUFFICES ASSUME NEW b \in 1..blocks + 1, NEW k \in Offsets
                 PROVE  hash[b][k] = m[Block * (b - 1) + k + 1]
      OBVIOUS
    <3>1. CASE b = blocks + 1
      <4>1. k < len + 1
        BY <1>1, <1>15
      <4>2. b - 1 = blocks
        BY <1>3, <3>1
      <4>3. Block * (b - 1) = P
        BY <4>2 DEF P
      <4>. QED
        BY <1>13, <2>3, <3>1, <4>1, <4>3
    <3>2. CASE b # blocks + 1
      <4>1. b \in 1..blocks
        BY <1>3, <3>2
      <4>. QED
        BY <1>7, <2>3, <4>1 DEF blocks
    <3>. QED
      BY <3>1, <3>2
  <2>11. HoldsWhatWasRead(r, bytes + 1, m)
    <3>1. r.len < Block /\ bytes + 1 = Block * Len(r.hash) + r.len
      BY <1>1, <2>3, <2>7, <2>9
    <3>2. r.bits[1] = 0 /\ r.bits[0] = 8 * (Block * Len(r.hash))
      BY <2>3, <2>6, <2>7, <2>9
    <3>3. \A k \in Offsets : ~(k < r.len)
      BY <1>1, <2>7
    <3>. QED
      BY <2>3, <2>7, <2>10, <3>1, <3>2, <3>3 DEF HoldsWhatWasRead
  <2>. QED
    BY <2>1, <2>11 DEF byte
<1>. QED
  BY <1>14, <1>15

\* The blocks of a hash are all bytes of a function, if each block has the bytes of its place.
LEMMA AbsorbsBlocks ==
  ASSUME Block \in Nat, Block > 0, NEW hash \in Seq([Offsets -> Int]), NEW f,
         f = [k \in 1..Block * Len(hash) |-> f[k]],
         \A q \in 0..Len(hash) - 1, o \in Offsets : hash[q + 1][o] = f[Block * q + o + 1]
  PROVE  Absorbed(hash) = f
<1>1. Len(hash) \in Nat
  OBVIOUS
<1>2. ASSUME NEW k \in 1..Block * Len(hash)
      PROVE  hash[(k - 1) \div Block + 1][(k - 1) % Block] = f[k]
  <2> DEFINE q == (k - 1) \div Block
             o == (k - 1) % Block
             n == Len(hash)
  <2>0. Block * n \in Int
    BY <1>1
  <2>1. k - 1 \in Nat /\ k \in Nat /\ k <= Block * n
    BY <2>0
  <2>2. q \in Nat /\ o \in Offsets /\ k - 1 = Block * q + o
    <3>1. q \in Nat
      BY <2>1, QuotientNat
    <3>2. o \in 0..Block - 1 /\ k - 1 = Block * q + o
      BY <2>1, DivMod
    <3>. QED
      BY <3>1, <3>2 DEF Offsets
  <2> HIDE DEF q, o, n
  <2>3. q < n
    <3> SUFFICES ASSUME n <= q PROVE FALSE
      BY <1>1, <2>2 DEF n
    <3>1. Block * n <= Block * q
      BY <1>1, <2>2, MultiplesGrow DEF n
    <3>2. Block * q \in Int
      BY <2>2
    <3>. QED
      BY <1>1, <2>0, <2>1, <2>2, <3>1, <3>2 DEF Offsets
  <2>4. q \in 0..n - 1 /\ Block * q + o + 1 = k
    <3>1. Block * q \in Int /\ o \in Int
      BY <2>2 DEF Offsets
    <3>. QED
      BY <1>1, <2>1, <2>2, <2>3, <3>1 DEF n
  <2>5. hash[q + 1][o] = f[k]
    BY <2>2, <2>4 DEF n
  <2>. QED
    BY <2>5 DEF q, o
<1>3. Absorbed(hash) = [k \in 1..Block * Len(hash) |-> hash[(k - 1) \div Block + 1][(k - 1) % Block]]
  BY DEF Absorbed
<1>. QED
  BY <1>2, <1>3

\* The two words have the bytes of the number that the low one has.
LEMMA LengthBytes ==
  ASSUME NEW bits \in [0..1 -> Int], NEW number \in 0..Word - 1,
         bits[0] = number, bits[1] = 0, NEW low \in 0..2 * Half - 1
  PROVE  shb(bits[low \div Half], low % Half) = shb(number, low)
<1>1. Byte \in Nat \ {0} /\ Half \in Nat /\ Half > 0 /\ low \in Nat /\ low < 2 * Half
  BY ShaAssumption
<1>2. CASE low < Half
  <2>1. low \in 0..Half - 1
    BY <1>1, <1>2
  <2>2. low \div Half = 0 /\ low % Half = low
    BY <1>1, <2>1, SmallQuotient
  <2>. QED
    BY <2>2
<1>3. CASE ~(low < Half)
  <2>1. low = Half * 1 + (low - Half) /\ low - Half \in 0..Half - 1 /\ low - Half \in Nat /\ Half <= low
    BY <1>1, <1>3
  <2>2. low \div Half = 1 /\ low % Half = low - Half
    BY <1>1, <2>1, DivUnique
  <2>3. Values(low - Half) \in Nat \ {0} /\ Values(low) \in Nat \ {0} /\ Values(Half) \in Nat \ {0}
    BY <1>1, <2>1, Powers
  <2>4. Values(Half) <= Values(low)
    BY <1>1, <2>1, PowersGrow
  <2>5. 0 \in 0..Values(low - Half) - 1 /\ number \in 0..Values(low) - 1 /\ 0 \in 0..Byte - 1
    BY <1>1, <2>3, <2>4 DEF Word
  <2>6. 0 \div Values(low - Half) = 0 /\ number \div Values(low) = 0
    <3> DEFINE d == Values(low)
               e == Values(low - Half)
    <3>1. d \in Int /\ d > 0 /\ e \in Int /\ e > 0 /\ number \in 0..d - 1 /\ 0 \in 0..e - 1
      BY <2>3, <2>5
    <3> HIDE DEF d, e
    <3>2. \A y \in 0..e - 1 : y \div e = 0
      BY <3>1, SmallQuotient
    <3>3. number \div d = 0
      BY <3>1, SmallQuotient
    <3>. QED
      BY <3>1, <3>2, <3>3 DEF d, e
  <2>7. shb(number, low) = 0 % Byte
    BY <2>6 DEF shb
  <2>8. shb(0, low - Half) = 0 % Byte
    BY <2>6 DEF shb
  <2>. QED
    BY <2>2, <2>7, <2>8
<1>. QED
  BY <1>2, <1>3

\* The last blocks: what was read, a one bit, zeros and the number of bits.
LEMMA MainHashPads ==
  ASSUME NEW m \in Seq(Int), 8 * Len(m) <= INT_MAX, NEW c, HoldsWhatWasRead(c, Len(m), m)
  PROVE  /\ main_hash(c) \in Contexts /\ main_hash(c).len = c.len
         /\ Absorbed(main_hash(c).hash) = Padded(m)
<1> DEFINE n == Len(m)
           len == c.len
           h == Len(c.hash)
           P == Block * h
           one == Byte \div 2
           buffer == [k \in Offsets |-> IF k < len THEN c.buf[k] ELSE IF k = len THEN one ELSE 0]
           zeros == [k \in Offsets |-> 0]
           terminated == Terminated(c)
           flushed == Flushed(terminated)
           counted == sha_add(flushed, len * 8)
           bytes == [k \in Offsets |-> IF Block - 1 - k < 2 * Half THEN shb(8 * n, Block - 1 - k) ELSE flushed.buf[k]]
           result == main_hash(c)
           total == Block * ((n + 2 * Half + Block) \div Block)
           padded == Padded(m)
<1>1. /\ Byte \in Nat /\ Byte > 0 /\ Half \in Nat /\ Half > 0 /\ Block \in Nat /\ Block > 2 * Half
      /\ INT_MAX \in Nat /\ Word \in Nat /\ INT_MAX < Word /\ Offsets = 0..Block - 1 /\ one \in Int
  <2>1. Byte \in Nat \ {0} /\ Half \in Nat \ {0} /\ Block \in Nat /\ Block > 2 * Half /\ INT_MAX \in Nat /\ INT_MAX < Word
    BY ShaAssumption
  <2>2. Word \in Nat
    BY <2>1, Powers DEF Word
  <2>3. one \in Int
    BY <2>1
  <2>. QED
    BY <2>1, <2>2, <2>3 DEF Offsets
<1>2. /\ c \in Contexts /\ len \in Nat /\ len < Block /\ n \in Nat
      /\ c.buf \in [Offsets -> Int] /\ c.hash \in Seq([Offsets -> Int]) /\ c.bits \in [0..1 -> 0..Word - 1]
  BY DEF HoldsWhatWasRead, Contexts
<1>3. h \in Nat
  BY <1>2
<1>4. P \in Nat
  BY <1>1, <1>3
<1>5. n = P + len /\ c.bits[1] = 0 /\ c.bits[0] = 8 * P
  BY DEF HoldsWhatWasRead
<1>6. \A k \in Offsets : k < len => c.buf[k] = m[P + k + 1]
  BY DEF HoldsWhatWasRead
<1>7. \A b \in 1..h, k \in Offsets : c.hash[b][k] = m[Block * (b - 1) + k + 1]
  BY DEF HoldsWhatWasRead
<1>8. buffer \in [Offsets -> Int] /\ zeros \in [Offsets -> Int]
  BY <1>1, <1>2
<1>9. terminated = [c EXCEPT !.buf = buffer]
  <2>1. len % Block = len
    <3>1. len \in 0..Block - 1 /\ Block \in Int /\ Block > 0
      BY <1>1, <1>2
    <3> HIDE DEF len
    <3>. QED
      BY <3>1, SmallQuotient
  <2>. QED
    BY <1>2, <2>1 DEF Terminated, Contexts
<1>10. /\ terminated \in Contexts /\ terminated.buf = buffer /\ terminated.len = len
       /\ terminated.hash = c.hash /\ terminated.bits = c.bits
  <2> HIDE DEF buffer, terminated
  <2>. QED
    BY <1>2, <1>8, <1>9 DEF Contexts
<1>11. flushed = IF len + 2 * Half < Block THEN terminated
                 ELSE [terminated EXCEPT !.hash = Append(c.hash, buffer), !.buf = zeros]
  <2>1. (len > Block - 2 * Half - 1) <=> ~(len + 2 * Half < Block)
    BY <1>1, <1>2, SMTT(30)
  <2>2. hashing(terminated) = [terminated EXCEPT !.hash = Append(c.hash, buffer)]
    BY <1>10 DEF hashing, Contexts
  <2>3. [hashing(terminated) EXCEPT !.buf = [k \in Offsets |-> 0]]
         = [terminated EXCEPT !.hash = Append(c.hash, buffer), !.buf = zeros]
    BY <2>2
  <2>. QED
    BY <1>10, <2>1, <2>3 DEF Flushed
<1> HIDE DEF buffer, zeros, terminated, one
<1>12. /\ flushed \in Contexts /\ flushed.len = len /\ flushed.bits = c.bits
       /\ flushed.buf = IF len + 2 * Half < Block THEN buffer ELSE zeros
       /\ flushed.hash = IF len + 2 * Half < Block THEN c.hash ELSE Append(c.hash, buffer)
  <2>1. Append(c.hash, buffer) \in Seq([Offsets -> Int])
    BY <1>2, <1>8
  <2>2. CASE len + 2 * Half < Block
    BY <1>10, <1>11, <2>2
  <2>3. CASE ~(len + 2 * Half < Block)
    <3> DEFINE hash == Append(c.hash, buffer)
    <3>1. flushed = [terminated EXCEPT !.hash = hash, !.buf = zeros]
      BY <1>11, <2>3
    <3> HIDE DEF hash, flushed
    <3>2. flushed \in Contexts /\ flushed.len = len /\ flushed.bits = c.bits /\ flushed.buf = zeros /\ flushed.hash = hash
      BY <1>8, <1>10, <2>1, <3>1 DEF Contexts, hash
    <3>. QED
      BY <2>3, <3>2 DEF hash
  <2>. QED
    BY <2>2, <2>3
<1> HIDE DEF flushed
<1>13. /\ counted \in Contexts /\ counted.bits[0] = 8 * n /\ counted.bits[1] = 0
       /\ counted.buf = flushed.buf /\ counted.len = len /\ counted.hash = flushed.hash
  <2> DEFINE x == len * 8
  <2>1. x \in Nat /\ 8 * P + x = 8 * n /\ 8 * n <= INT_MAX
    <3>1. 8 * n <= INT_MAX
      OBVIOUS
    <3> HIDE DEF n, P, len
    <3>2. x \in Nat /\ 8 * P + x = 8 * n
      BY <1>2, <1>4, <1>5
    <3>. QED
      BY <3>1, <3>2
  <2> HIDE DEF x
  <2>2. flushed.bits[1] = 0 /\ flushed.bits[0] = 8 * P /\ flushed.bits[0] + x <= INT_MAX
    BY <1>5, <1>12, <2>1
  <2>3. /\ sha_add(flushed, x) \in Contexts /\ sha_add(flushed, x).bits[0] = flushed.bits[0] + x /\ sha_add(flushed, x).bits[1] = 0
        /\ sha_add(flushed, x).buf = flushed.buf /\ sha_add(flushed, x).len = flushed.len /\ sha_add(flushed, x).hash = flushed.hash
    BY <1>12, <2>1, <2>2, CountsBits
  <2>. QED
    BY <1>12, <2>1, <2>2, <2>3 DEF x
<1> HIDE DEF counted
<1>14. bytes \in [Offsets -> Int]
  <2>1. \A k \in Nat : shb(8 * n, k) \in Int
    <3> SUFFICES ASSUME NEW k \in Nat PROVE shb(8 * n, k) \in Int
      OBVIOUS
    <3> DEFINE p == Values(k)
               x == 8 * n
    <3>1. p \in Nat \ {0} /\ x \in Int
      <4>0. Byte \in Nat \ {0}
        BY <1>1
      <4>1. p \in Nat \ {0}
        BY <4>0, Powers
      <4>. QED
        BY <1>1, <1>2, <4>1
    <3> HIDE DEF p, x
    <3>2. x \div p \in Int
      BY <3>1
    <3>3. (x \div p) % Byte \in Int
      BY <1>1, <3>2
    <3>. QED
      BY <3>3 DEF shb, p, x
  <2>2. flushed.buf \in [Offsets -> Int]
    BY <1>12 DEF Contexts
  <2>3. \A k \in Offsets : Block - 1 - k \in Nat
    BY <1>1
  <2>. QED
    BY <2>1, <2>2, <2>3
<1>15. WithLength(counted) = [counted EXCEPT !.buf = bytes]
  <2>1. ASSUME NEW k \in Offsets
        PROVE  LET low == Block - 1 - k
               IN  (IF low < 2 * Half THEN shb(counted.bits[low \div Half], low % Half) ELSE counted.buf[k]) = bytes[k]
    <3> DEFINE low == Block - 1 - k
               number == 8 * n
    <3>1. CASE low < 2 * Half
      <4>1. low \in 0..2 * Half - 1 /\ number \in 0..Word - 1
        BY <1>1, <1>2, <3>1
      <4>2. counted.bits \in [0..1 -> Int] /\ counted.bits[0] = number /\ counted.bits[1] = 0
        BY <1>1, <1>13 DEF Contexts
      <4>3. bytes[k] = shb(number, low)
        BY <3>1
      <4> HIDE DEF low, number, bytes
      <4>4. shb(counted.bits[low \div Half], low % Half) = shb(number, low)
        BY <4>1, <4>2, LengthBytes
      <4>. QED
        BY <3>1, <4>3, <4>4 DEF low
    <3>2. CASE ~(low < 2 * Half)
      BY <1>13, <3>2
    <3>. QED
      BY <3>1, <3>2
  <2>2. WithLength(counted) = [counted EXCEPT !.buf = [k \in Offsets |->
          LET low == Block - 1 - k
          IN  IF low < 2 * Half THEN shb(counted.bits[low \div Half], low % Half) ELSE counted.buf[k]]]
    BY <1>13 DEF WithLength, Contexts
  <2>. QED
    BY <2>1, <2>2
<1>16. result \in Contexts /\ result.len = len /\ result.hash = Append(flushed.hash, bytes)
  <2> DEFINE w == WithLength(counted)
  <2> HIDE DEF bytes, w
  <2>1. w \in Contexts /\ w.buf = bytes /\ w.hash = flushed.hash /\ w.len = len
    BY <1>13, <1>14, <1>15 DEF Contexts, w
  <2>2. result = hashing(w)
    BY DEF main_hash, w, counted, flushed, terminated
  <2>3. Append(flushed.hash, bytes) \in Seq([Offsets -> Int])
    <3>1. flushed.hash \in Seq([Offsets -> Int])
      BY <1>12 DEF Contexts
    <3>. QED
      BY <1>14, <3>1
  <2>. QED
    BY <2>1, <2>2, <2>3 DEF hashing, Contexts
<1>17. padded = [k \in 1..total |-> padded[k]]
       /\ \A k \in 1..total : padded[k] = IF k <= n THEN m[k] ELSE IF k = n + 1 THEN one
                                          ELSE IF k <= total - 2 * Half THEN 0 ELSE shb(8 * n, total - k)
  BY DEF Padded, one
<1>18. \A k \in Offsets : buffer[k] = IF k < len THEN m[P + k + 1] ELSE IF k = len THEN one ELSE 0
  BY <1>6 DEF buffer
<1>19. \A k \in Offsets : bytes[k] = IF Block - 1 - k < 2 * Half THEN shb(8 * n, Block - 1 - k) ELSE flushed.buf[k]
  OBVIOUS
<1>20. \A q \in 0..h - 1, o \in Offsets : Block * q \in Nat /\ Block * q + Block <= P
  <2> SUFFICES ASSUME NEW q \in 0..h - 1 PROVE Block * q \in Nat /\ Block * q + Block <= P
    OBVIOUS
  <2>1. q \in Nat /\ q + 1 <= h
    BY <1>3
  <2>2. Block * (q + 1) <= P
    <3> DEFINE next == q + 1
    <3>1. next \in Int /\ h \in Int /\ next <= h
      BY <1>3, <2>1
    <3> HIDE DEF next
    <3>2. Block * next <= Block * h
      BY <1>1, <3>1, MultiplesGrow
    <3>. QED
      BY <3>2 DEF next
  <2>3. Block * (q + 1) = Block * q + Block /\ Block * q \in Nat
    BY <1>1, <2>1
  <2>. QED
    BY <2>2, <2>3
<1>21. result.hash \in Seq([Offsets -> Int])
  BY <1>16 DEF Contexts
<1>22. /\ total = Block * Len(result.hash)
       /\ \A q \in 0..Len(result.hash) - 1, o \in Offsets : result.hash[q + 1][o] = padded[Block * q + o + 1]
  <2> HIDE DEF bytes, total, result, n, P, h, len, padded
  <2>1. CASE len + 2 * Half < Block
    <3>1. result.hash = Append(c.hash, bytes) /\ flushed.buf = buffer
      BY <1>12, <1>16, <2>1
    <3>2. Len(result.hash) = h + 1 /\ result.hash[h + 1] = bytes /\ \A q \in 1..h : result.hash[q] = c.hash[q]
      BY <1>2, <1>14, <3>1 DEF h
    <3>3. total = Block * (h + 1) /\ Block * (h + 1) = P + Block
      <4>1. n + 2 * Half + Block = Block * (h + 1) + (len + 2 * Half) /\ Block * (h + 1) = P + Block
        BY <1>1, <1>2, <1>3, <1>4, <1>5 DEF P
      <4> DEFINE x == n + 2 * Half + Block
                 q == h + 1
                 r == len + 2 * Half
      <4>2. x \in Int /\ q \in Int /\ r \in 0..Block - 1 /\ x = Block * q + r
        BY <1>1, <1>2, <1>3, <2>1, <4>1
      <4> HIDE DEF x, q, r
      <4>3. x \div Block = q
        BY <1>1, <4>2, DivUnique
      <4>. QED
        BY <4>1, <4>3 DEF total, x, q
    <3>4. ASSUME NEW q \in 0..h, NEW o \in Offsets PROVE result.hash[q + 1][o] = padded[Block * q + o + 1]
      <4>1. CASE q < h
        <5>1. q \in 0..h - 1 /\ q + 1 \in 1..h /\ (q + 1) - 1 = q
          BY <1>3, <4>1
        <5>2. result.hash[q + 1][o] = m[Block * q + o + 1]
          BY <1>7, <3>2, <5>1
        <5>3. Block * q + o + 1 \in 1..total /\ Block * q + o + 1 <= n
          <6> DEFINE start == Block * q
          <6>1. start \in Nat /\ start + Block <= P
            BY <1>20, <5>1
          <6>2. total \in Nat /\ P + Block <= total
            BY <1>1, <1>4, <3>3
          <6>3. Block \in Nat /\ len \in Nat /\ P \in Nat /\ n = P + len /\ o \in 0..Block - 1
            BY <1>1, <1>2, <1>4, <1>5
          <6> HIDE DEF start
          <6>4. start + o + 1 \in 1..total /\ start + o + 1 <= n
            BY <6>1, <6>2, <6>3
          <6>. QED
            BY <6>4 DEF start
        <5>. QED
          BY <1>17, <5>2, <5>3
      <4>2. CASE q = h
        <5> DEFINE k == P + o + 1
        <5>1. k \in 1..total /\ o \in Int /\ total - k = Block - 1 - o
          BY <1>1, <1>4, <3>3
        <5>2. padded[k] = IF k <= n THEN m[k] ELSE IF k = n + 1 THEN one
                          ELSE IF k <= total - 2 * Half THEN 0 ELSE shb(8 * n, Block - 1 - o)
          BY <1>17, <5>1
        <5>3. /\ (k <= n) <=> (o < len)
              /\ (k = n + 1) <=> (o = len)
              /\ (k <= total - 2 * Half) <=> ~(Block - 1 - o < 2 * Half)
              /\ Block - 1 - o < 2 * Half => o > len
          <6>1. total = P + Block
            BY <3>3
          <6>. QED
            BY <1>1, <1>2, <1>4, <1>5, <2>1, <5>1, <6>1
        <5>4. bytes[o] = padded[k]
          <6>1. bytes[o] = IF Block - 1 - o < 2 * Half THEN shb(8 * n, Block - 1 - o) ELSE buffer[o]
            BY <1>19, <3>1
          <6>2. buffer[o] = IF o < len THEN m[k] ELSE IF o = len THEN one ELSE 0
            BY <1>18
          <6>3. len \in Int /\ (o > len => ~(o < len) /\ o # len)
            BY <1>2, <5>1
          <6> HIDE DEF k
          <6>. QED
            BY <5>2, <5>3, <6>1, <6>2, <6>3
        <5>. QED
          BY <3>2, <4>2, <5>4 DEF P
      <4>. QED
        BY <1>3, <4>1, <4>2
    <3>. QED
      BY <1>3, <3>2, <3>3, <3>4
  <2>2. CASE ~(len + 2 * Half < Block)
    <3>1. result.hash = Append(Append(c.hash, buffer), bytes) /\ flushed.buf = zeros
      BY <1>12, <1>16, <2>2
    <3>2. /\ Len(result.hash) = h + 2 /\ result.hash[h + 1] = buffer /\ result.hash[h + 2] = bytes
          /\ \A q \in 1..h : result.hash[q] = c.hash[q]
      <4> DEFINE first == Append(c.hash, buffer)
      <4>1. first \in Seq([Offsets -> Int]) /\ Len(first) = h + 1 /\ first[h + 1] = buffer /\ \A q \in 1..h : first[q] = c.hash[q]
        BY <1>2, <1>8 DEF h
      <4> HIDE DEF first
      <4>2. Len(result.hash) = h + 2 /\ result.hash[h + 2] = bytes /\ \A q \in 1..h + 1 : result.hash[q] = first[q]
        BY <1>3, <1>14, <3>1, <4>1 DEF first
      <4>. QED
        BY <1>3, <4>1, <4>2
    <3>3. total = Block * (h + 2) /\ Block * (h + 2) = P + Block + Block
      <4>1. n + 2 * Half + Block = Block * (h + 2) + (len + 2 * Half - Block) /\ Block * (h + 2) = P + Block + Block
        BY <1>1, <1>2, <1>3, <1>4, <1>5 DEF P
      <4> DEFINE x == n + 2 * Half + Block
                 q == h + 2
                 r == len + 2 * Half - Block
      <4>2. x \in Int /\ q \in Int /\ r \in 0..Block - 1 /\ x = Block * q + r
        BY <1>1, <1>2, <1>3, <2>2, <4>1
      <4> HIDE DEF x, q, r
      <4>3. x \div Block = q
        BY <1>1, <4>2, DivUnique
      <4>. QED
        BY <4>1, <4>3 DEF total, x, q
    <3>4. ASSUME NEW q \in 0..h + 1, NEW o \in Offsets PROVE result.hash[q + 1][o] = padded[Block * q + o + 1]
      <4>1. CASE q < h
        <5>1. q \in 0..h - 1 /\ q + 1 \in 1..h /\ (q + 1) - 1 = q
          BY <1>3, <4>1
        <5>2. result.hash[q + 1][o] = m[Block * q + o + 1]
          BY <1>7, <3>2, <5>1
        <5>3. Block * q + o + 1 \in 1..total /\ Block * q + o + 1 <= n
          <6> DEFINE start == Block * q
          <6>1. start \in Nat /\ start + Block <= P
            BY <1>20, <5>1
          <6>2. total \in Nat /\ P + Block <= total
            BY <1>1, <1>4, <3>3
          <6>3. Block \in Nat /\ len \in Nat /\ P \in Nat /\ n = P + len /\ o \in 0..Block - 1
            BY <1>1, <1>2, <1>4, <1>5
          <6> HIDE DEF start
          <6>4. start + o + 1 \in 1..total /\ start + o + 1 <= n
            BY <6>1, <6>2, <6>3
          <6>. QED
            BY <6>4 DEF start
        <5>. QED
          BY <1>17, <5>2, <5>3
      <4>2. CASE q = h
        <5> DEFINE k == P + o + 1
        <5>1. k \in 1..total /\ o \in Int /\ k <= total - 2 * Half
          BY <1>1, <1>4, <3>3
        <5>2. padded[k] = IF k <= n THEN m[k] ELSE IF k = n + 1 THEN one ELSE 0
          BY <1>17, <5>1
        <5>3. (k <= n <=> o < len) /\ (k = n + 1 <=> o = len)
          BY <1>1, <1>2, <1>4, <1>5, <5>1
        <5>4. buffer[o] = padded[k]
          BY <1>18, <5>2, <5>3
        <5>. QED
          BY <3>2, <4>2, <5>4 DEF P
      <4>3. CASE q = h + 1
        <5> DEFINE k == P + Block + o + 1
        <5>1. k \in 1..total /\ o \in Int /\ total - k = Block - 1 - o /\ ~(k <= n) /\ k # n + 1
          BY <1>1, <1>2, <1>4, <1>5, <3>3, SMTT(30)
        <5>2. padded[k] = IF k <= total - 2 * Half THEN 0 ELSE shb(8 * n, Block - 1 - o)
          BY <1>17, <5>1
        <5>3. k <= total - 2 * Half <=> ~(Block - 1 - o < 2 * Half)
          BY <1>1, <1>4, <3>3, <5>1
        <5>4. bytes[o] = padded[k]
          BY <1>19, <3>1, <5>2, <5>3 DEF zeros
        <5>5. Block * (h + 1) = P + Block /\ q + 1 = h + 2
          BY <1>1, <1>3, <4>3 DEF P
        <5>. QED
          BY <3>2, <4>3, <5>4, <5>5
      <4>. QED
        BY <1>3, <4>1, <4>2, <4>3
    <3>. QED
      <4>1. Len(result.hash) - 1 = h + 1
        BY <1>3, <3>2
      <4>. QED
        BY <3>2, <3>3, <3>4, <4>1
  <2>. QED
    BY <2>1, <2>2
<1> HIDE DEF result, padded, total
<1>23. padded = [k \in 1..Block * Len(result.hash) |-> padded[k]]
  BY <1>17, <1>22
<1>24. Absorbed(result.hash) = padded
  <2>1. Block \in Nat /\ Block > 0
    BY <1>1
  <2>. QED
    BY <1>21, <1>22, <1>23, <2>1, AbsorbsBlocks
<1>. QED
  BY <1>16, <1>24 DEF result, padded

\* A context that is new holds the first zero bytes of any message.
LEMMA FreshHoldsNothing ==
  ASSUME NEW m
  PROVE  HoldsWhatWasRead(FreshText, 0, m)
<1>1. Block \in Nat /\ Block > 0 /\ Word \in Nat /\ Word > 0
  <2>1. Word \in Nat /\ INT_MAX \in Nat /\ INT_MAX < Word
    BY Powers, ShaAssumption DEF Word
  <2>. QED
    BY <2>1, ShaAssumption
<1>2. /\ FreshText.buf = [k \in Offsets |-> -1000] /\ FreshText.len = 0
      /\ FreshText.bits = [k \in 0..1 |-> 0] /\ FreshText.hash = <<>>
  BY DEF FreshText
<1>3. FreshText \in Contexts
  <2>1. [k \in Offsets |-> -1000] \in [Offsets -> Int] /\ [k \in 0..1 |-> 0] \in [0..1 -> 0..Word - 1]
    BY <1>1
  <2>2. <<>> \in Seq([Offsets -> Int])
    OBVIOUS
  <2>. QED
    BY <2>1, <2>2 DEF FreshText, Contexts
<1>4. Len(FreshText.hash) = 0 /\ Block * 0 = 0 /\ FreshText.bits[0] = 0 /\ FreshText.bits[1] = 0
  BY <1>1, <1>2
<1>5. \A k \in Offsets : ~(k < 0)
  BY <1>1 DEF Offsets
<1>. QED
  BY <1>1, <1>2, <1>3, <1>4, <1>5 DEF HoldsWhatWasRead

\* The context of every state of a call is one that holds the bytes read so far.
THEOREM ShaInvariance == ShaSpec => []ShaInv
<1>1. ShaInit => ShaInv
  <2> SUFFICES ASSUME ShaInit PROVE ShaInv
    OBVIOUS
  <2>1. <<>> \in Seq(Int) /\ Len(<<>>) = 0 /\ 8 * 0 = 0 /\ 0 <= INT_MAX
    BY ShaAssumption
  <2>2. HoldsWhatWasRead(FreshText, 0, <<>>)
    BY FreshHoldsNothing
  <2>. QED
    BY <2>1, <2>2 DEF ShaInit, ShaInv
<1>2. ShaInv /\ [ShaNext]_shaVars => ShaInv'
  <2> SUFFICES ASSUME ShaInv, [ShaNext]_shaVars PROVE ShaInv'
    OBVIOUS
  <2>0. message \in Seq(Int) /\ 8 * Len(message) <= INT_MAX /\ read \in 0..Len(message) /\ Len(message) \in Nat
    BY DEF ShaInv
  <2>1. CASE \E n \in 0..INT_MAX \div 8 : sha_256(n)
    <3>0. INT_MAX \div 8 \in Int
      BY ShaAssumption
    <3>1. PICK n \in 0..INT_MAX \div 8 : sha_256(n)
      BY <2>1
    <3>2. n \in Nat /\ n * 8 <= INT_MAX
      BY <3>0, <3>1 DEF sha_256
    <3>3. message' \in Seq(Int) /\ Len(message') = n
      BY <3>1, <3>2 DEF sha_256
    <3>4. read' = 0 /\ text' = FreshText /\ phase' = "reading"
      BY <3>1 DEF sha_256, ShaInv
    <3>5. 8 * Len(message') <= INT_MAX /\ 0 \in 0..Len(message')
      BY <3>2, <3>3, ShaAssumption
    <3>6. HoldsWhatWasRead(text', read', message')
      BY <3>4, FreshHoldsNothing
    <3>. QED
      BY <3>3, <3>4, <3>5, <3>6 DEF ShaInv
  <2>2. CASE TakeByte
    <3>1. /\ phase = "reading" /\ read \in Nat /\ read < Len(message) /\ message' = message /\ phase' = phase
          /\ text' = Taken(text, message[read + 1]) /\ read' = read + 1
      BY <2>0, <2>2 DEF TakeByte
    <3>2. HoldsWhatWasRead(text, read, message)
      BY <3>1 DEF ShaInv
    <3>3. HoldsWhatWasRead(Taken(text, message[read + 1]), read + 1, message)
      BY <2>0, <3>1, <3>2, TakesByte
    <3>4. read' \in 0..Len(message')
      BY <2>0, <3>1
    <3>. QED
      BY <2>0, <3>1, <3>3, <3>4 DEF ShaInv
  <2>3. CASE Finish
    <3>1. /\ phase = "reading" /\ read = Len(message) /\ message' = message /\ read' = read
          /\ phase' = "returned" /\ text' = main_hash(text)
      BY <2>0, <2>3 DEF Finish
    <3>2. HoldsWhatWasRead(text, Len(message), message)
      BY <3>1 DEF ShaInv
    <3>3. text' \in Contexts /\ text'.len = text.len /\ Absorbed(text'.hash) = Padded(message)
      BY <2>0, <3>1, <3>2, MainHashPads
    <3>4. text.len \in Offsets
      BY <3>2, ShaAssumption DEF HoldsWhatWasRead, Contexts, Offsets
    <3>5. text'.bits[0] \in 0..Word - 1 /\ text'.bits[1] \in 0..Word - 1
      BY <3>3 DEF Contexts
    <3>6. ShaTypeOK' /\ (Absorbed(text.hash) = Padded(message))'
      BY <2>0, <3>1, <3>3, <3>4, <3>5 DEF ShaTypeOK
    <3>. QED
      BY <2>0, <3>1, <3>6 DEF ShaInv
  <2>4. CASE UNCHANGED shaVars
    BY <2>4 DEF ShaInv, shaVars, ShaTypeOK, HoldsWhatWasRead, Absorbed
  <2>. QED
    BY <2>1, <2>2, <2>3, <2>4 DEF ShaNext
<1>. QED
  BY <1>1, <1>2, PTL DEF ShaSpec

\* SHA-256 hashes the padded message (sha256.cpp: add, main_hash, sha_256): for every message
\* that an int can count the bits of, and for every size of a block with room for two words.
THEOREM ShaHashesThePaddedMessage == ShaSpec => []HashesThePaddedMessage
<1>1. ShaInv => HashesThePaddedMessage
  <2> SUFFICES ASSUME ShaInv PROVE HashesThePaddedMessage
    OBVIOUS
  <2>1. CASE phase = "returned"
    BY <2>1 DEF ShaInv, HashesThePaddedMessage
  <2>2. CASE phase # "returned"
    <3>1. HoldsWhatWasRead(text, read, message) /\ read \in 0..Len(message) /\ phase \in {"idle", "reading", "returned"}
      BY <2>2 DEF ShaInv
    <3> DEFINE P == Block * Len(text.hash)
    <3>2. Block \in Nat /\ Len(text.hash) \in Nat /\ Word \in Nat /\ text.len \in Nat
      BY <3>1, Powers, ShaAssumption DEF HoldsWhatWasRead, Contexts, Word
    <3>3. P \in Nat
      BY <3>2
    <3>4. text.len < Block /\ read = P + text.len /\ text.bits[1] = 0 /\ text.bits[0] = 8 * P
      BY <3>1 DEF HoldsWhatWasRead
    <3>5. text.bits[0] \in 0..Word - 1 /\ text.bits[1] \in 0..Word - 1
      BY <3>1 DEF HoldsWhatWasRead, Contexts
    <3> HIDE DEF P
    <3>6. text.bits[0] + Word * text.bits[1] + 8 * text.len = 8 * read /\ text.len \in Offsets
      BY <3>2, <3>3, <3>4 DEF Offsets
    <3>7. ShaTypeOK
      BY <3>1, <3>5, <3>6 DEF ShaTypeOK
    <3>. QED
      BY <2>2, <3>7 DEF HashesThePaddedMessage
  <2>. QED
    BY <2>1, <2>2
<1>. QED
  BY <1>1, ShaInvariance, PTL

-----------------------------------------------------------------------------
(* SHA-3. *)

\* A buffer holds a block.
Sponges ==
  [absorbed : Seq([1..sizeof_block -> Int]), buf : [1..BufBytes -> Int],
   size : 0..sizeof_block, num : Nat]

\* The absorbed blocks and the waiting bytes are the first n bytes, in their order.
HoldsFirst(s, n) ==
  /\ s \in Sponges
  /\ s.num = sizeof_block * Len(s.absorbed) /\ n = s.num + s.size
  /\ \A b \in 1..Len(s.absorbed), k \in 1..sizeof_block :
       s.absorbed[b][k] = -(sizeof_block * (b - 1) + k)
  /\ \A k \in 1..s.size : s.buf[k] = -(s.num + k)

SpongeInv ==
  /\ added \in 0..MaxAdded /\ sizeof_buffer < sizeof_block
  /\ HoldsFirst(sponge, added)
  /\ \A d \in digests : d.of = PaddedBlocks(d.bytes)

\* Bytes that fit go behind those that wait.
LEMMA BufferedHolds ==
  ASSUME NEW s, NEW n \in Nat, HoldsFirst(s, n), NEW data \in Seq(Int),
         s.size + Len(data) <= sizeof_block, \A k \in 1..Len(data) : data[k] = -(n + k)
  PROVE  /\ HoldsFirst(Buffered(s, data), n + Len(data))
         /\ Buffered(s, data).size = s.size + Len(data)
<1> DEFINE new == [k \in 1..BufBytes |-> IF k > s.size /\ k <= s.size + Len(data) THEN data[k - s.size] ELSE s.buf[k]]
           r == Buffered(s, data)
           size == s.size
           len == Len(data)
<1>1. /\ sizeof_block \in Nat /\ BufBytes \in Nat /\ sizeof_block <= BufBytes
      /\ s \in Sponges /\ size \in Nat /\ s.num \in Nat /\ s.buf \in [1..BufBytes -> Int] /\ len \in Nat
  BY SpongeAssumption DEF HoldsFirst, Sponges
<1>2. r = [s EXCEPT !.buf = new, !.size = size + len]
  BY <1>1 DEF Buffered, Sponges
<1>3. new \in [1..BufBytes -> Int]
  <2> SUFFICES ASSUME NEW k \in 1..BufBytes
               PROVE  (IF k > size /\ k <= size + len THEN data[k - size] ELSE s.buf[k]) \in Int
    OBVIOUS
  <2>1. CASE k > size /\ k <= size + len
    <3>1. k - size \in 1..len
      BY <1>1, <2>1
    <3>2. data[k - size] \in Int
      BY <3>1
    <3>. QED
      BY <2>1, <3>2
  <2>2. CASE ~(k > size /\ k <= size + len)
    BY <1>1, <2>2
  <2>. QED
    BY <2>1, <2>2
<1>4. size + len \in 0..sizeof_block
  BY <1>1
<1>5. n = s.num + size
  BY DEF HoldsFirst
<1>6. \A k \in 1..size + len : new[k] = -(s.num + k)
  <2> SUFFICES ASSUME NEW k \in 1..size + len PROVE new[k] = -(s.num + k)
    OBVIOUS
  <2>0. k \in 1..BufBytes
    BY <1>1, <1>4
  <2>1. CASE k > size
    <3>1. k - size \in 1..len /\ n + (k - size) = s.num + k
      <4> DEFINE num == s.num
      <4>1. num \in Nat /\ n = num + size /\ size \in Nat /\ len \in Nat /\ k \in 1..size + len
        BY <1>1, <1>5
      <4> HIDE DEF num, size, len
      <4>2. k - size \in 1..len /\ n + (k - size) = num + k
        BY <2>1, <4>1
      <4>. QED
        BY <4>2 DEF num
    <3>2. data[k - size] = -(n + (k - size))
      BY <3>1
    <3>3. new[k] = data[k - size]
      BY <2>0, <2>1
    <3>. QED
      BY <3>1, <3>2, <3>3
  <2>2. CASE ~(k > size)
    <3>1. k \in 1..size /\ new[k] = s.buf[k]
      BY <1>1, <2>0, <2>2
    <3>. QED
      BY <3>1 DEF HoldsFirst
  <2>. QED
    BY <2>1, <2>2
<1> HIDE DEF r, new, size, len
<1>7. r \in Sponges /\ r.buf = new /\ r.size = size + len /\ r.num = s.num /\ r.absorbed = s.absorbed
  BY <1>1, <1>2, <1>3, <1>4 DEF Sponges
<1>8. n + len = s.num + (size + len)
  BY <1>1, <1>5
<1>9. HoldsFirst(r, n + len)
  BY <1>6, <1>7, <1>8 DEF HoldsFirst
<1>. QED
  BY <1>7, <1>9 DEF r, size, len

\* A full buffer is the next block.
LEMMA AbsorbHolds ==
  ASSUME NEW s, NEW n \in Nat, HoldsFirst(s, n)
  PROVE  /\ HoldsFirst(Absorb(s), n)
         /\ Absorb(s).size = IF s.size = sizeof_block THEN 0 ELSE s.size
<1>1. /\ sizeof_block \in Nat /\ sizeof_block > 0 /\ BufBytes \in Nat /\ sizeof_block <= BufBytes
      /\ s \in Sponges /\ s.size \in Nat /\ s.num \in Nat /\ s.buf \in [1..BufBytes -> Int]
      /\ s.absorbed \in Seq([1..sizeof_block -> Int])
  BY SpongeAssumption DEF HoldsFirst, Sponges
<1>2. CASE s.size # sizeof_block
  BY <1>2 DEF Absorb
<1>3. CASE s.size = sizeof_block
  <2> DEFINE block == BlockOf(s.buf)
             blocks == Append(s.absorbed, block)
             len == Len(s.absorbed)
             r == Absorb(s)
  <2>1. block = [k \in 1..sizeof_block |-> s.buf[k]] /\ block \in [1..sizeof_block -> Int]
    BY <1>1 DEF BlockOf
  <2>2. r = [s EXCEPT !.absorbed = blocks, !.num = s.num + sizeof_block, !.size = 0]
    BY <1>1, <1>3 DEF Absorb, block_process, Sponges
  <2>3. len \in Nat
    BY <1>1
  <2> HIDE DEF block
  <2>4. /\ blocks \in Seq([1..sizeof_block -> Int]) /\ Len(blocks) = len + 1
        /\ \A b \in 1..len : blocks[b] = s.absorbed[b]
        /\ blocks[len + 1] = block
    <3> DEFINE old == s.absorbed
    <3>1. old \in Seq([1..sizeof_block -> Int])
      BY <1>1
    <3> HIDE DEF old
    <3>2. /\ Append(old, block) \in Seq([1..sizeof_block -> Int]) /\ Len(Append(old, block)) = Len(old) + 1
          /\ \A b \in 1..Len(old) : Append(old, block)[b] = old[b]
          /\ Append(old, block)[Len(old) + 1] = block
      BY <2>1, <3>1
    <3>. QED
      BY <3>2 DEF old
  <2>5. s.num + sizeof_block \in Nat /\ 0 \in 0..sizeof_block
    BY <1>1
  <2> HIDE DEF blocks, r
  <2>6. r \in Sponges /\ r.absorbed = blocks /\ r.num = s.num + sizeof_block /\ r.size = 0
    BY <1>1, <2>2, <2>4, <2>5 DEF Sponges
  <2>7. s.num = sizeof_block * len /\ n = s.num + sizeof_block
    BY <1>3 DEF HoldsFirst
  <2>8. s.num + sizeof_block = sizeof_block * (len + 1) /\ n = (s.num + sizeof_block) + 0
    BY <1>1, <2>3, <2>7
  <2>9. \A b \in 1..len + 1, k \in 1..sizeof_block : blocks[b][k] = -(sizeof_block * (b - 1) + k)
    <3> SUFFICES ASSUME NEW b \in 1..len + 1, NEW k \in 1..sizeof_block
                 PROVE  blocks[b][k] = -(sizeof_block * (b - 1) + k)
      OBVIOUS
    <3>1. CASE b = len + 1
      <4>1. sizeof_block * (b - 1) = s.num
        <5>1. b - 1 = len
          BY <2>3, <3>1
        <5>. QED
          BY <2>7, <5>1
      <4>2. s.buf[k] = -(s.num + k)
        BY <1>3 DEF HoldsFirst
      <4>. QED
        BY <2>1, <2>4, <3>1, <4>1, <4>2
    <3>2. CASE b # len + 1
      <4>1. b \in 1..len
        BY <2>3, <3>2
      <4>. QED
        BY <2>4, <4>1 DEF HoldsFirst, len
    <3>. QED
      BY <3>1, <3>2
  <2>10. HoldsFirst(r, n)
    <3>1. \A k \in 1..0 : r.buf[k] = -(r.num + k)
      OBVIOUS
    <3>2. r.num = sizeof_block * Len(r.absorbed) /\ n = r.num + r.size
      BY <2>4, <2>6, <2>8
    <3>. QED
      BY <2>4, <2>6, <2>9, <3>1, <3>2 DEF HoldsFirst
  <2>. QED
    BY <1>3, <2>6, <2>10 DEF r
<1>. QED
  BY <1>2, <1>3

\* Whole blocks of data are the next ones, if no byte waits before them.
LEMMA AbsorbBlocksHolds ==
  ASSUME NEW s, NEW n \in Nat, HoldsFirst(s, n), NEW data \in Seq(Int),
         s.size = 0 \/ Len(data) = 0, \A k \in 1..Len(data) : data[k] = -(n + k),
         NEW whole, whole = Len(data) \div sizeof_block
  PROVE  /\ whole \in Nat /\ whole * sizeof_block \in 0..Len(data) /\ Len(data) - whole * sizeof_block < sizeof_block
         /\ HoldsFirst(AbsorbBlocks(s, data), n + whole * sizeof_block)
         /\ AbsorbBlocks(s, data).size = s.size
<1> DEFINE L == Len(data)
           W == whole * sizeof_block
           old == s.absorbed
           len == Len(old)
           new == [b \in 1..whole |-> BlockOf(SubSeq(data, (b - 1) * sizeof_block + 1, b * sizeof_block))]
           r == AbsorbBlocks(s, data)
<1>1. /\ sizeof_block \in Nat /\ sizeof_block > 0
      /\ s \in Sponges /\ s.size \in Nat /\ s.num \in Nat
      /\ old \in Seq([1..sizeof_block -> Int]) /\ L \in Nat /\ len \in Nat
  BY SpongeAssumption DEF HoldsFirst, Sponges
<1>2. s.num = sizeof_block * len /\ n = s.num + s.size
  BY DEF HoldsFirst
<1>3. whole \in Nat /\ W \in Nat /\ W <= L /\ L - W < sizeof_block
  <2>1. whole \in Nat
    <3> HIDE DEF L
    <3>1. sizeof_block \in Int /\ sizeof_block > 0 /\ L \in Nat
      BY <1>1
    <3>2. L \div sizeof_block \in Nat
      BY <3>1, QuotientNat, Zenon
    <3>. QED
      BY <3>2 DEF L
  <2>2. L % sizeof_block \in 0..sizeof_block - 1 /\ L = sizeof_block * whole + (L % sizeof_block)
    BY <1>1, DivMod
  <2>3. W = sizeof_block * whole /\ W \in Nat
    BY <1>1, <2>1
  <2> DEFINE m == L % sizeof_block
  <2> HIDE DEF m, W, L
  <2>4. m \in 0..sizeof_block - 1 /\ L = W + m
    BY <2>2, <2>3 DEF m
  <2>. QED
    BY <1>1, <2>1, <2>3, <2>4
<1>4. ASSUME NEW b \in 1..whole
      PROVE  /\ (b - 1) * sizeof_block \in Nat /\ b * sizeof_block = (b - 1) * sizeof_block + sizeof_block
             /\ b * sizeof_block <= W
  <2>1. b \in Nat /\ b - 1 \in Nat /\ b <= whole
    BY <1>3
  <2>2. sizeof_block * b <= sizeof_block * whole
    <3>1. b \in Int /\ whole \in Int /\ b <= whole /\ sizeof_block \in Nat
      BY <1>1, <1>3, <2>1
    <3>. QED
      BY <3>1, MultiplesGrow
  <2>3. b * sizeof_block = sizeof_block * b /\ whole * sizeof_block = sizeof_block * whole
    BY <1>1, <1>3, <2>1
  <2>4. (b - 1) * sizeof_block \in Nat /\ b * sizeof_block = (b - 1) * sizeof_block + sizeof_block
    BY <1>1, <2>1
  <2>. QED
    BY <2>2, <2>3, <2>4
<1>5. ASSUME NEW b \in 1..whole
      PROVE  /\ new[b] \in [1..sizeof_block -> Int]
             /\ \A k \in 1..sizeof_block : new[b][k] = -(n + (b - 1) * sizeof_block + k)
  <2> DEFINE low == (b - 1) * sizeof_block
             high == b * sizeof_block
             part == SubSeq(data, low + 1, high)
  <2>1. low \in Nat /\ high \in Nat /\ high = low + sizeof_block /\ high <= L
    BY <1>1, <1>3, <1>4
  <2>2. \A i \in low + 1..high : i \in 1..L /\ data[i] \in Int
    <3>1. \A i \in low + 1..high : i \in 1..L
      <4> HIDE DEF low, high, L
      <4>. QED
        BY <1>1, <2>1
    <3>. QED
      BY <3>1
  <2>3. \A i \in 1..high - (low + 1) + 1 : part[i] = data[(low + 1) + i - 1]
    <3>1. low + 1 \in Int /\ high \in Int
      BY <2>1
    <3> DEFINE from == low + 1
    <3> HIDE DEF low, high
    <3>2. from \in Int /\ \A i \in from..high : data[i] \in Int
      BY <2>2, <3>1
    <3> HIDE DEF from
    <3>3. \A i \in 1..high - from + 1 : SubSeq(data, from, high)[i] = data[from + i - 1]
      BY <3>1, <3>2, SubSeqProperties
    <3>. QED
      BY <3>3 DEF from
  <2>4. ASSUME NEW k \in 1..sizeof_block PROVE part[k] = -(n + low + k) /\ part[k] \in Int
    <3> HIDE DEF part, low, high, L
    <3>1. k \in 1..high - (low + 1) + 1 /\ (low + 1) + k - 1 = low + k /\ low + k \in low + 1..high /\ n + low + k = n + (low + k)
      BY <1>1, <2>1
    <3>2. part[k] = data[low + k] /\ low + k \in 1..L /\ data[low + k] \in Int
      BY <2>2, <2>3, <3>1
    <3>3. data[low + k] = -(n + (low + k))
      BY <3>2 DEF L
    <3>. QED
      BY <3>1, <3>2, <3>3
  <2>5. new[b] = [k \in 1..sizeof_block |-> part[k]]
    BY DEF BlockOf
  <2> HIDE DEF part, new
  <2>. QED
    BY <2>4, <2>5
<1>6. r = [s EXCEPT !.absorbed = old \o new, !.num = s.num + W]
  BY <1>1 DEF AbsorbBlocks, Sponges
<1> DEFINE blocks == old \o new
<1>7. /\ blocks \in Seq([1..sizeof_block -> Int]) /\ Len(blocks) = len + whole
      /\ \A b \in 1..len + whole : blocks[b] = IF b <= len THEN old[b] ELSE new[b - len]
  <2>1. new \in Seq([1..sizeof_block -> Int]) /\ Len(new) = whole
    <3> DEFINE Blocks == [1..sizeof_block -> Int]
    <3>1. new = [b \in 1..whole |-> new[b]] /\ \A b \in 1..whole : new[b] \in Blocks
      BY <1>5
    <3> HIDE DEF new, Blocks
    <3>2. new \in [1..whole -> Blocks]
      BY <3>1
    <3>3. new \in Seq(Blocks) /\ Len(new) = whole
      BY <1>3, <3>2, IsSequence, Zenon
    <3>. QED
      BY <3>3 DEF Blocks
  <2> HIDE DEF new, old
  <2>. QED
    BY <1>1, <2>1, ConcatProperties, ZenonT(30) DEF len
<1> HIDE DEF r, new, blocks, old, W, len, L
<1>8. r \in Sponges /\ r.absorbed = blocks /\ r.num = s.num + W /\ r.size = s.size /\ r.buf = s.buf
  <2>1. s.num + W \in Nat
    BY <1>1, <1>3
  <2>. QED
    BY <1>1, <1>6, <1>7, <2>1 DEF Sponges, blocks
<1>9. s.num + W = sizeof_block * (len + whole) /\ n + W = (s.num + W) + s.size
  <2>1. sizeof_block * (len + whole) = sizeof_block * len + W
    BY <1>1, <1>3 DEF W
  <2>. QED
    BY <1>1, <1>2, <1>3, <2>1
<1>10. \A b \in 1..len + whole, k \in 1..sizeof_block : blocks[b][k] = -(sizeof_block * (b - 1) + k)
  <2> SUFFICES ASSUME NEW b \in 1..len + whole, NEW k \in 1..sizeof_block
               PROVE  blocks[b][k] = -(sizeof_block * (b - 1) + k)
    OBVIOUS
  <2>1. CASE b <= len
    <3>1. b \in 1..len
      BY <1>1, <1>3, <2>1
    <3>2. old[b][k] = -(sizeof_block * (b - 1) + k)
      BY <3>1 DEF HoldsFirst, old, len
    <3>. QED
      BY <1>7, <2>1, <3>2
  <2>2. CASE ~(b <= len)
    <3> DEFINE a == b - len
    <3>1. a \in 1..whole /\ b = len + a
      BY <1>1, <1>3, <2>2
    <3> HIDE DEF a
    <3>2. new[a][k] = -(n + (a - 1) * sizeof_block + k)
      BY <1>5, <3>1
    <3>3. n = sizeof_block * len
      <4>1. L >= sizeof_block
        <5>1. a * sizeof_block <= W /\ (a - 1) * sizeof_block \in Nat
              /\ a * sizeof_block = (a - 1) * sizeof_block + sizeof_block
          BY <1>4, <3>1
        <5>. QED
          BY <1>1, <1>3, <5>1
      <4>2. s.size = 0
        BY <1>1, <4>1 DEF L
      <4>3. n = s.num + 0
        BY <1>2, <4>2
      <4>. QED
        BY <1>1, <1>2, <4>3
    <3>4. sizeof_block * (b - 1) = sizeof_block * len + (a - 1) * sizeof_block
      BY <1>1, <3>1
    <3>5. blocks[b] = new[a]
      BY <1>7, <2>2 DEF a
    <3>6. (a - 1) * sizeof_block \in Int
      BY <1>4, <3>1
    <3>. QED
      BY <3>2, <3>3, <3>4, <3>5
  <2>. QED
    BY <2>1, <2>2
<1>11. HoldsFirst(r, n + W)
  <2>1. \A k \in 1..s.size : r.buf[k] = -(r.num + k)
    <3> SUFFICES ASSUME NEW k \in 1..s.size PROVE r.buf[k] = -(r.num + k)
      OBVIOUS
    <3>1. s.size # 0
      BY <1>1
    <3>2. L = 0
      BY <3>1 DEF L
    <3>3. W = 0 /\ s.num + W = s.num
      BY <1>1, <1>3, <3>2
    <3>4. s.buf[k] = -(s.num + k)
      BY DEF HoldsFirst
    <3>. QED
      BY <1>8, <3>3, <3>4
  <2>2. r.num = sizeof_block * Len(r.absorbed) /\ n + W = r.num + r.size
    BY <1>7, <1>8, <1>9
  <2>3. \A b \in 1..Len(r.absorbed), k \in 1..sizeof_block : r.absorbed[b][k] = -(sizeof_block * (b - 1) + k)
    BY <1>7, <1>8, <1>10
  <2>. QED
    BY <1>8, <2>1, <2>2, <2>3 DEF HoldsFirst
<1>12. W \in 0..L
  BY <1>1, <1>3
<1>. QED
  BY <1>3, <1>8, <1>11, <1>12 DEF r, W, L

\* A part of a sequence.
LEMMA PartOf ==
  ASSUME NEW S, NEW data \in Seq(S), NEW low \in Nat, NEW high \in Nat, low <= high, high <= Len(data)
  PROVE  /\ SubSeq(data, low + 1, high) \in Seq(S) /\ Len(SubSeq(data, low + 1, high)) = high - low
         /\ \A k \in 1..high - low : SubSeq(data, low + 1, high)[k] = data[low + k]
<1> DEFINE from == low + 1
<1>1. from \in Int /\ high \in Int
  OBVIOUS
<1>2. \A i \in from..high : data[i] \in S
  OBVIOUS
<1> HIDE DEF from
<1>3. /\ SubSeq(data, from, high) \in Seq(S)
      /\ Len(SubSeq(data, from, high)) = IF from <= high THEN high - from + 1 ELSE 0
      /\ \A i \in 1..high - from + 1 : SubSeq(data, from, high)[i] = data[from + i - 1]
  BY <1>1, <1>2, SubSeqProperties
<1>4. \A k \in 1..high - low : k \in 1..high - from + 1 /\ from + k - 1 = low + k
  BY DEF from
<1>5. Len(SubSeq(data, from, high)) = high - low
  BY <1>3 DEF from
<1>. QED
  BY <1>3, <1>4, <1>5 DEF from

\* A call of add appends its bytes, and leaves room in the buffer.
LEMMA AddHolds ==
  ASSUME NEW s, NEW n \in Nat, HoldsFirst(s, n), s.size < sizeof_block,
         NEW data \in Seq(Int), \A k \in 1..Len(data) : data[k] = -(n + k)
  PROVE  HoldsFirst(sponge_add(s, data), n + Len(data)) /\ sponge_add(s, data).size < sizeof_block
<1> DEFINE L == Len(data)
           size == s.size
           fill == IF size > 0 THEN Lower(L, sizeof_block - size) ELSE 0
           head == SubSeq(data, 1, fill)
           filled == Buffered(s, head)
           first == Absorb(filled)
           rest == SubSeq(data, fill + 1, L)
           M == Len(rest)
           whole == M \div sizeof_block
           W == whole * sizeof_block
           second == AbsorbBlocks(first, rest)
           tail == SubSeq(rest, W + 1, M)
           r == Buffered(second, tail)
<1>0. sponge_add(s, data) = r
  BY DEF sponge_add
<1>1. sizeof_block \in Nat /\ sizeof_block > 0 /\ size \in Nat /\ L \in Nat /\ size < sizeof_block
  BY SpongeAssumption DEF HoldsFirst, Sponges
<1>2. /\ fill \in Nat /\ fill <= L /\ size + fill <= sizeof_block
      /\ size = 0 => fill = 0
      /\ size > 0 => fill = L \/ size + fill = sizeof_block
  BY <1>1 DEF Lower
<1> HIDE DEF L, size, fill, r
<1>3. head \in Seq(Int) /\ Len(head) = fill /\ \A k \in 1..Len(head) : head[k] = -(n + k)
  <2> DEFINE zero == 0
  <2>1. zero \in Nat /\ zero + 1 = 1 /\ zero <= fill /\ fill - zero = fill
    BY <1>2
  <2>4. data \in Seq(Int) /\ fill \in Nat /\ fill <= Len(data)
    BY <1>2 DEF L
  <2> HIDE DEF zero
  <2>2. /\ SubSeq(data, zero + 1, fill) \in Seq(Int) /\ Len(SubSeq(data, zero + 1, fill)) = fill - zero
        /\ \A k \in 1..fill - zero : SubSeq(data, zero + 1, fill)[k] = data[zero + k]
    BY <2>1, <2>4, PartOf, Zenon
  <2>3. \A k \in 1..fill : k \in 1..L /\ zero + k = k
    BY <1>1, <1>2 DEF zero
  <2>. QED
    BY <2>1, <2>2, <2>3 DEF L
<1> HIDE DEF head
<1>4. HoldsFirst(filled, n + fill) /\ filled.size = size + fill
  <2>1. s.size + Len(head) <= sizeof_block
    BY <1>2, <1>3 DEF size
  <2>2. HoldsFirst(Buffered(s, head), n + Len(head)) /\ Buffered(s, head).size = s.size + Len(head)
    BY <1>3, <2>1, BufferedHolds
  <2>. QED
    BY <1>3, <2>2 DEF size
<1> HIDE DEF filled
<1>5. n + fill \in Nat
  BY <1>2
<1>6. HoldsFirst(first, n + fill) /\ first.size = IF filled.size = sizeof_block THEN 0 ELSE filled.size
  <2> DEFINE m == n + fill
  <2>1. m \in Nat /\ HoldsFirst(filled, m)
    BY <1>4, <1>5
  <2> HIDE DEF m
  <2>2. HoldsFirst(Absorb(filled), m) /\ Absorb(filled).size = IF filled.size = sizeof_block THEN 0 ELSE filled.size
    BY <2>1, AbsorbHolds
  <2>. QED
    BY <2>2 DEF m
<1> HIDE DEF first
<1>7. rest \in Seq(Int) /\ M = L - fill /\ \A k \in 1..M : rest[k] = -((n + fill) + k)
  <2>1. /\ rest \in Seq(Int) /\ Len(rest) = L - fill
        /\ \A k \in 1..L - fill : rest[k] = data[fill + k]
    <3>1. data \in Seq(Int) /\ L \in Nat /\ L <= Len(data) /\ fill \in Nat /\ fill <= L
      BY <1>2 DEF L
    <3>. QED
      BY <3>1, PartOf, Zenon DEF rest
  <2>2. \A k \in 1..L - fill : fill + k \in 1..L /\ n + (fill + k) = (n + fill) + k
    BY <1>1, <1>2
  <2>. QED
    BY <2>1, <2>2 DEF L
<1>8. first.size \in Nat /\ first.size < sizeof_block /\ (first.size = 0 \/ M = 0)
  BY <1>1, <1>2, <1>4, <1>6, <1>7
<1> HIDE DEF rest, whole
<1>9. /\ whole \in Nat /\ W \in 0..M /\ M - W < sizeof_block
      /\ HoldsFirst(second, (n + fill) + W) /\ second.size = first.size
  <2> DEFINE m == n + fill
  <2>1. m \in Nat /\ HoldsFirst(first, m) /\ \A k \in 1..Len(rest) : rest[k] = -(m + k)
    BY <1>5, <1>6, <1>7
  <2>2. whole = Len(rest) \div sizeof_block
    BY DEF whole
  <2> HIDE DEF m
  <2>3. first.size = 0 \/ Len(rest) = 0
    BY <1>8
  <2>4. /\ whole \in Nat /\ whole * sizeof_block \in 0..Len(rest) /\ Len(rest) - whole * sizeof_block < sizeof_block
        /\ HoldsFirst(AbsorbBlocks(first, rest), m + whole * sizeof_block)
        /\ AbsorbBlocks(first, rest).size = first.size
    BY <1>7, <2>1, <2>2, <2>3, AbsorbBlocksHolds
  <2>. QED
    BY <2>4 DEF m
<1> HIDE DEF W, second, M
<1>10. M \in Nat /\ W \in Nat /\ W <= M
  BY <1>1, <1>2, <1>7, <1>9
<1>11. tail \in Seq(Int) /\ Len(tail) = M - W /\ \A k \in 1..Len(tail) : tail[k] = -(((n + fill) + W) + k)
  <2>1. /\ tail \in Seq(Int) /\ Len(tail) = M - W
        /\ \A k \in 1..M - W : tail[k] = rest[W + k]
    <3>1. rest \in Seq(Int) /\ M \in Nat /\ M <= Len(rest) /\ W \in Nat /\ W <= M
      BY <1>7, <1>10 DEF M
    <3>. QED
      BY <3>1, PartOf, Zenon DEF tail
  <2>2. \A k \in 1..M - W : W + k \in 1..M /\ (n + fill) + (W + k) = ((n + fill) + W) + k
    BY <1>2, <1>10
  <2>. QED
    BY <1>7, <2>1, <2>2
<1> HIDE DEF tail
<1>12. second.size + Len(tail) < sizeof_block
  BY <1>1, <1>8, <1>9, <1>10, <1>11
<1>13. HoldsFirst(r, ((n + fill) + W) + Len(tail)) /\ r.size = second.size + Len(tail)
  <2> DEFINE m == (n + fill) + W
  <2>1. m \in Nat /\ HoldsFirst(second, m) /\ \A k \in 1..Len(tail) : tail[k] = -(m + k)
    BY <1>5, <1>9, <1>10, <1>11
  <2> HIDE DEF m
  <2>2. second.size + Len(tail) <= sizeof_block
    BY <1>1, <1>8, <1>9, <1>10, <1>11, <1>12
  <2>3. HoldsFirst(Buffered(second, tail), m + Len(tail)) /\ Buffered(second, tail).size = second.size + Len(tail)
    BY <1>11, <2>1, <2>2, BufferedHolds
  <2>. QED
    BY <2>3 DEF m, r
<1>14. ((n + fill) + W) + Len(tail) = n + L
  BY <1>1, <1>2, <1>7, <1>10, <1>11
<1>. QED
  BY <1>0, <1>12, <1>13, <1>14 DEF L

\* sha3 pads the waiting bytes to the last block of the standard, and leaves them waiting.
LEMMA PadsTheLastBlock ==
  ASSUME NEW s, NEW n \in Nat, HoldsFirst(s, n), s.size < sizeof_block
  PROVE  /\ PaddedBuf(s) \in [1..BufBytes -> Int]
         /\ \A k \in 1..s.size : PaddedBuf(s)[k] = s.buf[k]
         /\ block_process(s.absorbed, PaddedBuf(s)) = PaddedBlocks(n)
<1> DEFINE size == s.size
           old == s.absorbed
           len == Len(old)
           B == sizeof_block
           padded == PaddedBuf(s)
           last == BlockOf(padded)
           new == Append(old, last)
           byte(k) == IF k <= n THEN -k ELSE (IF k = n + 1 THEN 6 ELSE 0) + (IF k = (len + 1) * B THEN 128 ELSE 0)
<1>1. /\ B \in Nat /\ B > 0 /\ BufBytes \in Nat /\ B <= BufBytes
      /\ size \in Nat /\ size < B /\ s.num \in Nat
      /\ s.buf \in [1..BufBytes -> Int] /\ old \in Seq([1..B -> Int]) /\ len \in Nat
  BY SpongeAssumption DEF HoldsFirst, Sponges
<1>2. s.num = B * len /\ n = s.num + size
  BY DEF HoldsFirst
<1>3. \A b \in 1..len, k \in 1..B : old[b][k] = -(B * (b - 1) + k)
  BY DEF HoldsFirst
<1>4. \A k \in 1..size : s.buf[k] = -(s.num + k)
  BY DEF HoldsFirst
<1>5. padded = [k \in 1..BufBytes |->
                  (IF k <= size \/ k > B THEN s.buf[k] ELSE IF k = size + 1 THEN 6 ELSE 0)
                  + (IF k = B THEN 128 ELSE 0)]
  <2>1. ASSUME NEW k \in 1..BufBytes, NEW start \in Int
        PROVE (IF k = B THEN start + 128 ELSE start) = start + (IF k = B THEN 128 ELSE 0)
    OBVIOUS
  <2>2. \A k \in 1..BufBytes : (IF k <= size \/ k > B THEN s.buf[k] ELSE IF k = size + 1 THEN 6 ELSE 0) \in Int
    BY <1>1
  <2>. QED
    BY <2>1, <2>2 DEF PaddedBuf
<1>6. padded \in [1..BufBytes -> Int] /\ \A k \in 1..size : padded[k] = s.buf[k]
  <2> HIDE DEF padded, size, B
  <2>0. DOMAIN s.buf = 1..BufBytes /\ \A k \in 1..BufBytes : s.buf[k] \in Int
    BY <1>1
  <2>1. padded \in [1..BufBytes -> Int]
    <3>1. \A k \in 1..BufBytes :
            (IF k <= size \/ k > B THEN s.buf[k] ELSE IF k = size + 1 THEN 6 ELSE 0) + (IF k = B THEN 128 ELSE 0) \in Int
      BY <2>0
    <3>. QED
      BY <1>5, <3>1
  <2>2. \A k \in 1..size : k \in 1..BufBytes /\ k # B
    BY <1>1
  <2>. QED
    BY <1>1, <1>5, <2>1, <2>2
<1>7. n \div B = len
  <2>1. n = B * len + size /\ size \in 0..B - 1 /\ n \in Int /\ len \in Int
    BY <1>1, <1>2
  <2>2. B \in Int /\ B > 0
    BY <1>1
  <2> HIDE DEF size, len, B
  <2>. QED
    BY <2>1, <2>2, DivUnique
<1>8. last = [k \in 1..B |-> padded[k]] /\ last \in [1..B -> Int]
  <2>1. last = [k \in 1..B |-> padded[k]]
    BY DEF BlockOf
  <2> HIDE DEF last, padded, B
  <2>. QED
    BY <1>1, <1>6, <2>1
<1>9. PaddedBlocks(n) = [b \in 1..len + 1 |-> [k \in 1..B |-> byte((b - 1) * B + k)]]
  BY <1>7 DEF PaddedBlocks
<1> HIDE DEF padded, last, size, old, len, B
<1>10. Len(new) = len + 1 /\ new[len + 1] = last /\ (\A b \in 1..len : new[b] = old[b]) /\ new \in Seq([1..B -> Int])
  BY <1>1, <1>8 DEF len
<1>11. (len + 1) * B = B * len + B /\ B * len \in Nat
  BY <1>1
<1>12. ASSUME NEW b \in 1..len + 1 PROVE new[b] = [k \in 1..B |-> byte((b - 1) * B + k)]
  <2>1. new[b] \in [1..B -> Int]
    <3>1. b \in 1..Len(new)
      BY <1>10
    <3>. QED
      BY <1>10, <3>1
  <2>2. ASSUME NEW k \in 1..B PROVE new[b][k] = byte((b - 1) * B + k)
    <3>1. CASE b = len + 1
      <4>1. (b - 1) * B = B * len
        <5>1. b - 1 = len
          BY <1>1, <3>1
        <5>. QED
          BY <1>1, <5>1
      <4> DEFINE j == B * len + k
      <4>2. byte((b - 1) * B + k) = byte(j)
        BY <4>1
      <4>3. k \in 1..BufBytes /\ padded[k] = (IF k <= size \/ k > B THEN s.buf[k] ELSE IF k = size + 1 THEN 6 ELSE 0)
                                       + (IF k = B THEN 128 ELSE 0)
        BY <1>1, <1>5
      <4>4. /\ (j <= n) <=> (k <= size)
            /\ (j = n + 1) <=> (k = size + 1)
            /\ (j = (len + 1) * B) <=> (k = B)
            /\ ~(k > B)
        <5> DEFINE P == B * len
                   Q == (len + 1) * B
        <5>1. P \in Nat /\ Q = P + B /\ n = P + size
          BY <1>2, <1>11
        <5> HIDE DEF P, Q
        <5>2. /\ (P + k <= n) <=> (k <= size)
              /\ (P + k = n + 1) <=> (k = size + 1)
              /\ (P + k = Q) <=> (k = B)
              /\ ~(k > B)
          BY <1>1, <5>1
        <5>. QED
          BY <5>2 DEF P, Q
      <4>5. CASE k <= size
        <5>1. k \in 1..size /\ k # B
          BY <1>1, <4>5
        <5>2. padded[k] = s.buf[k] + 0 /\ s.buf[k] = -j
          BY <1>2, <1>4, <4>3, <4>5, <5>1
        <5>3. byte(j) = -j /\ j \in Int
          BY <1>11, <4>4, <4>5
        <5>4. padded[k] = byte(j)
          BY <5>2, <5>3
        <5>. QED
          BY <1>8, <1>10, <3>1, <4>2, <5>4
      <4>6. CASE ~(k <= size)
        <5>1. byte(j) = padded[k]
          BY <4>3, <4>4, <4>6
        <5>. QED
          BY <1>8, <1>10, <3>1, <4>2, <5>1
      <4>. QED
        BY <4>5, <4>6
    <3>2. CASE b # len + 1
      <4> DEFINE j == (b - 1) * B + k
      <4>1. b \in 1..len
        BY <1>1, <3>2
      <4>2. j = B * (b - 1) + k /\ j \in Int
        BY <1>1, <4>1
      <4>3. B * (b - 1) + B <= B * len
        <5> DEFINE a == b
        <5>1. B * b <= B * len
          <6>1. b \in Int /\ len \in Int /\ b <= len /\ B \in Nat
            BY <1>1, <4>1
          <6>. QED
            BY <6>1, MultiplesGrow
        <5>2. B * (b - 1) + B = B * b
          BY <1>1, <4>1
        <5>. QED
          BY <5>1, <5>2
      <4>4. j <= n
        <5> DEFINE P == B * len
                   Q == B * (b - 1)
        <5>1. P \in Nat /\ Q \in Int /\ Q + B <= P /\ n = P + size /\ j = Q + k
          BY <1>1, <1>2, <1>11, <4>1, <4>2, <4>3
        <5> HIDE DEF P, Q, j
        <5>. QED
          BY <1>1, <5>1
      <4>5. byte(j) = -j
        BY <4>4
      <4>6. new[b][k] = -(B * (b - 1) + k)
        BY <1>3, <1>10, <4>1
      <4>. QED
        BY <4>2, <4>5, <4>6
    <3>. QED
      BY <3>1, <3>2
  <2> HIDE DEF new, byte
  <2>. QED
    BY <2>1, <2>2
<1>13. new = [b \in 1..len + 1 |-> [k \in 1..B |-> byte((b - 1) * B + k)]]
  <2>1. new = [b \in 1..len + 1 |-> new[b]]
    <3> HIDE DEF new
    <3>. QED
      BY <1>10
  <2> HIDE DEF new, byte
  <2>. QED
    BY <1>12, <2>1
<1>14. block_process(s.absorbed, PaddedBuf(s)) = new
  BY DEF block_process, last, padded, old
<1>15. PaddedBlocks(n) = new
  BY <1>9, <1>13
<1>. QED
  BY <1>6, <1>14, <1>15 DEF padded, size

\* The absorbed blocks and the waiting bytes are always all that was added.
THEOREM SpongeInvariance == SpongeSpec => []SpongeInv
<1>0. sizeof_block \in Nat /\ sizeof_block > 0 /\ BufBytes \in Nat /\ MaxAdded \in Nat
  BY SpongeAssumption
<1>1. SpongeInit => SpongeInv
  <2> SUFFICES ASSUME SpongeInit PROVE SpongeInv
    OBVIOUS
  <2>1. sponge = [absorbed |-> <<>>, buf |-> [k \in 1..BufBytes |-> 0], size |-> 0, num |-> 0]
    BY DEF SpongeInit, sponge
  <2>2. sponge \in Sponges
    <3>1. [k \in 1..BufBytes |-> 0] \in [1..BufBytes -> Int]
      OBVIOUS
    <3>. QED
      BY <1>0, <2>1, <3>1 DEF Sponges
  <2>3. Len(sponge.absorbed) = 0 /\ sizeof_block * 0 = 0
    BY <1>0, <2>1
  <2>4. HoldsFirst(sponge, 0)
    BY <2>1, <2>2, <2>3 DEF HoldsFirst
  <2>. QED
    BY <1>0, <2>4 DEF SpongeInit, SpongeInv
<1>2. SpongeInv /\ [SpongeNext]_spongeVars => SpongeInv'
  <2> SUFFICES ASSUME SpongeInv, [SpongeNext]_spongeVars PROVE SpongeInv'
    OBVIOUS
  <2>0. added \in Nat /\ added <= MaxAdded /\ HoldsFirst(sponge, added) /\ sponge.size = sizeof_buffer
        /\ sizeof_buffer < sizeof_block
    BY <1>0 DEF SpongeInv, sponge
  <2>1. CASE \E n \in 0..MaxAdded : Add(n)
    <3>1. PICK n \in 0..MaxAdded : Add(n)
      BY <2>1
    <3> DEFINE data == [k \in 1..n |-> -(added + k)]
               s == sponge_add(sponge, data)
    <3>2. data \in Seq(Int) /\ Len(data) = n /\ \A k \in 1..Len(data) : data[k] = -(added + k)
      <4>1. n \in Nat /\ data \in [1..n -> Int]
        BY <2>0
      <4>. QED
        BY <4>1
    <3> HIDE DEF data
    <3>3. HoldsFirst(s, added + Len(data)) /\ s.size < sizeof_block
      <4> DEFINE t == sponge
      <4>1. HoldsFirst(t, added) /\ t.size < sizeof_block
        BY <2>0
      <4> HIDE DEF t
      <4>2. HoldsFirst(sponge_add(t, data), added + Len(data)) /\ sponge_add(t, data).size < sizeof_block
        BY <2>0, <3>2, <4>1, AddHolds
      <4>. QED
        BY <4>2 DEF t
    <3>4. /\ absorbed' = s.absorbed /\ buf' = s.buf /\ sizeof_buffer' = s.size /\ _num' = s.num
          /\ added' = added + n /\ added + n <= MaxAdded /\ digests' = digests
      BY <3>1 DEF Add, data
    <3> HIDE DEF s
    <3>5. s \in Sponges
      BY <3>3 DEF HoldsFirst
    <3>6. s = [absorbed |-> s.absorbed, buf |-> s.buf, size |-> s.size, num |-> s.num]
      BY <3>5 DEF Sponges
    <3>7. sponge' = s
      BY <3>4, <3>6 DEF sponge
    <3>8. HoldsFirst(sponge, added)'
      BY <3>2, <3>3, <3>4, <3>7 DEF HoldsFirst
    <3>9. added' \in 0..MaxAdded /\ sizeof_buffer' < sizeof_block
      BY <2>0, <3>1, <3>3, <3>4
    <3>. QED
      BY <3>4, <3>8, <3>9 DEF SpongeInv, PaddedBlocks
  <2>2. CASE sha3
    <3>1. /\ buf' = PaddedBuf(sponge) /\ absorbed' = absorbed /\ sizeof_buffer' = sizeof_buffer
          /\ _num' = _num /\ added' = added
          /\ digests' = digests \cup {[bytes |-> added, of |-> block_process(absorbed, PaddedBuf(sponge))]}
      BY <2>2 DEF sha3
    <3>2. /\ PaddedBuf(sponge) \in [1..BufBytes -> Int]
          /\ \A k \in 1..sponge.size : PaddedBuf(sponge)[k] = sponge.buf[k]
          /\ block_process(sponge.absorbed, PaddedBuf(sponge)) = PaddedBlocks(added)
      <4> DEFINE t == sponge
      <4>1. HoldsFirst(t, added) /\ t.size < sizeof_block
        BY <2>0
      <4> HIDE DEF t
      <4>2. /\ PaddedBuf(t) \in [1..BufBytes -> Int]
            /\ \A k \in 1..t.size : PaddedBuf(t)[k] = t.buf[k]
            /\ block_process(t.absorbed, PaddedBuf(t)) = PaddedBlocks(added)
        BY <2>0, <4>1, PadsTheLastBlock
      <4>. QED
        BY <4>2 DEF t
    <3>3. sponge.absorbed = absorbed /\ sponge.buf = buf /\ sponge.num = _num
      BY DEF sponge
    <3>4. \A d \in digests' : d.of = PaddedBlocks(d.bytes)
      BY <3>1, <3>2, <3>3 DEF SpongeInv
    <3>5. HoldsFirst(sponge, added)'
      <4> DEFINE t == [absorbed |-> absorbed, buf |-> PaddedBuf(sponge), size |-> sizeof_buffer, num |-> _num]
      <4>1. sponge' = t
        BY <3>1 DEF sponge
      <4>2. sponge \in Sponges
        BY <2>0 DEF HoldsFirst
      <4>3. absorbed \in Seq([1..sizeof_block -> Int]) /\ sizeof_buffer \in 0..sizeof_block /\ _num \in Nat
        BY <4>2 DEF Sponges, sponge
      <4>4. t \in Sponges
        BY <3>2, <4>3 DEF Sponges
      <4>5. HoldsFirst(t, added)
        BY <2>0, <3>2, <3>3, <4>4 DEF HoldsFirst
      <4> HIDE DEF t
      <4>. QED
        BY <3>1, <4>1, <4>5 DEF HoldsFirst
    <3>. QED
      BY <2>0, <3>1, <3>4, <3>5 DEF SpongeInv, PaddedBlocks
  <2>3. CASE UNCHANGED spongeVars
    BY <2>3 DEF SpongeInv, spongeVars, sponge, HoldsFirst, PaddedBlocks
  <2>. QED
    BY <2>1, <2>2, <2>3 DEF SpongeNext
<1>. QED
  BY <1>1, <1>2, PTL DEF SpongeSpec

\* Every digest is that of the padded bytes (SHA3.cpp: add, sha3), for every size of a block,
\* however the bytes are split into calls and however many digests are taken meanwhile.
THEOREM SpongeDigestsWhatWasAdded == SpongeSpec => []DigestsWhatWasAdded
<1>1. SpongeInv => DigestsWhatWasAdded
  <2> SUFFICES ASSUME SpongeInv PROVE DigestsWhatWasAdded
    OBVIOUS
  <2>1. HoldsFirst(sponge, added) /\ sponge.absorbed = absorbed /\ sponge.num = _num /\ sponge.size = sizeof_buffer
    BY DEF SpongeInv, sponge
  <2>2. _num = sizeof_block * Len(absorbed) /\ added = _num + sizeof_buffer /\ sizeof_buffer \in 0..sizeof_block
        /\ absorbed \in Seq([1..sizeof_block -> Int])
    BY <2>1 DEF HoldsFirst, Sponges
  <2>3. Len(absorbed) * sizeof_block = _num
    BY <2>2, SpongeAssumption
  <2>4. sizeof_buffer \in 0..sizeof_block - 1 /\ added \in 0..MaxAdded
    BY <2>2, SpongeAssumption DEF SpongeInv
  <2>5. SpongeTypeOK
    BY <2>2, <2>3, <2>4 DEF SpongeTypeOK
  <2>. QED
    BY <2>5 DEF DigestsWhatWasAdded, SpongeInv
<1>. QED
  BY <1>1, SpongeInvariance, PTL

-----------------------------------------------------------------------------
(* Digits. *)

Digit(x, j) == (x \div Values(j)) % Byte

\* A number and its digits up to one place more.
LEMMA OneDigitMore ==
  ASSUME Byte \in Nat \ {0}, NEW x \in Nat, NEW j \in Nat
  PROVE  /\ Digit(x, j) \in 0..Byte - 1
         /\ x % Values(j) \in 0..Values(j) - 1
         /\ x % Values(j + 1) = Values(j) * Digit(x, j) + (x % Values(j))
<1> DEFINE p == Values(j)
           q == x \div p
           r == x % p
           a == q \div Byte
           d == q % Byte
<1>1. p \in Int /\ p > 0 /\ Values(j + 1) = Byte * p /\ Byte \in Int /\ Byte > 0
  <2>1. Values(j) \in Nat \ {0} /\ Values(j + 1) = Byte * Values(j)
    BY Powers
  <2>. QED
    BY <2>1
<1> HIDE DEF p
<1>2. q \in Int /\ r \in 0..p - 1 /\ x = p * q + r
  BY <1>1, DivMod
<1> HIDE DEF q, r
<1>3. a \in Int /\ d \in 0..Byte - 1 /\ q = Byte * a + d
  BY <1>1, <1>2, DivMod
<1> HIDE DEF a, d
<1>4. x = (Byte * p) * a + (p * d + r)
  <2>1. p * (Byte * a + d) = (Byte * p) * a + p * d
    BY <1>1, <1>3
  <2>. QED
    BY <1>1, <1>2, <1>3, <2>1
<1>5. p * d \in Nat /\ p * d + p <= p * Byte
  <2>1. p * (d + 1) <= p * Byte
    <3> DEFINE e == d + 1
    <3>1. e \in Int /\ e <= Byte /\ p \in Nat
      BY <1>1, <1>3
    <3> HIDE DEF e
    <3>2. p * e <= p * Byte
      BY <1>1, <3>1, MultiplesGrow
    <3>. QED
      BY <3>2 DEF e
  <2>2. p * (d + 1) = p * d + p
    BY <1>1, <1>3
  <2>3. p * d \in Nat
    BY <1>1, <1>3
  <2>. QED
    BY <2>1, <2>2, <2>3
<1>6. x % (Byte * p) = p * d + r
  <2> DEFINE m == Byte * p
             s == p * d + r
  <2>1. m \in Int /\ m > 0 /\ s \in 0..m - 1 /\ x = m * a + s
    <3>1. m = p * Byte /\ m \in Int
      BY <1>1
    <3>2. s \in Nat /\ s < m
      BY <1>1, <1>2, <1>5, <3>1
    <3>. QED
      BY <1>4, <3>1, <3>2
  <2> HIDE DEF m, s
  <2>2. x % m = s
    BY <1>3, <2>1, DivUnique
  <2>. QED
    BY <2>2 DEF m, s
<1>. QED
  BY <1>1, <1>2, <1>3, <1>6 DEF Digit, p, q, r, d

\* The lower digits are all the highest one before a carry.
LEMMA CarryDigits ==
  ASSUME Byte \in Nat \ {0}, NEW x \in Nat, NEW j \in Nat
  PROVE  (\A i \in Nat : i < j => Digit(x, i) = Byte - 1) <=> x % Values(j) = Values(j) - 1
<1> DEFINE Full(l) == \A i \in Nat : i < l => Digit(x, i) = Byte - 1
           Wrong == {l \in Nat : ~(Full(l) <=> x % Values(l) = Values(l) - 1)}
<1>1. Wrong = {}
  <2> SUFFICES ASSUME Wrong # {} PROVE FALSE
    OBVIOUS
  <2>1. PICK l \in Wrong : \A i \in Wrong : l <= i
    BY LeastNumber
  <2>2. CASE l = 0
    <3>1. Values(0) = 1
      BY Powers
    <3>2. x % 1 = 0
      OBVIOUS
    <3>3. Full(0)
      OBVIOUS
    <3>. QED
      BY <2>1, <2>2, <3>1, <3>2, <3>3
  <2>3. CASE l # 0
    <3> DEFINE k == l - 1
    <3>1. k \in Nat /\ k \notin Wrong /\ l = k + 1
      BY <2>1, <2>3
    <3> HIDE DEF k
    <3>2. Full(k) <=> x % Values(k) = Values(k) - 1
      BY <3>1
    <3>3. Full(l) <=> Full(k) /\ Digit(x, k) = Byte - 1
      BY <3>1
    <3> DEFINE p == Values(k)
               d == Digit(x, k)
               r == x % p
    <3>4. /\ d \in 0..Byte - 1 /\ r \in 0..p - 1 /\ x % Values(l) = p * d + r
          /\ Values(l) = Byte * p /\ p \in Nat /\ p > 0
      <4>1. Values(k) \in Nat \ {0} /\ Values(k + 1) = Byte * Values(k)
        BY <3>1, Powers
      <4>2. /\ Digit(x, k) \in 0..Byte - 1 /\ x % Values(k) \in 0..Values(k) - 1
            /\ x % Values(k + 1) = Values(k) * Digit(x, k) + (x % Values(k))
        BY <3>1, OneDigitMore
      <4>. QED
        BY <3>1, <4>1, <4>2
    <3> HIDE DEF p, d, r
    <3>5. p * d + r = Byte * p - 1 <=> d = Byte - 1 /\ r = p - 1
      <4>1. CASE d = Byte - 1
        <5>1. p * d = Byte * p - p /\ Byte * p \in Int
          BY <3>4, <4>1
        <5>. QED
          BY <3>4, <4>1, <5>1
      <4>2. CASE d # Byte - 1
        <5> DEFINE e == d + 2
        <5>1. e \in Int /\ e <= Byte /\ Byte \in Int
          BY <3>4, <4>2
        <5> HIDE DEF e
        <5>2. p * e <= p * Byte
          BY <3>4, <5>1, MultiplesGrow
        <5>3. p * e = p * d + p + p /\ p * d \in Int /\ p * Byte = Byte * p /\ Byte * p \in Int
          BY <3>4, <5>1 DEF e
        <5>. QED
          BY <3>4, <4>2, <5>2, <5>3
      <4>. QED
        BY <4>1, <4>2
    <3>. QED
      BY <2>1, <3>2, <3>3, <3>4, <3>5 DEF p, d, r
  <2>. QED
    BY <2>2, <2>3
<1>. QED
  BY <1>1

\* Numbers with the same lower digits have the same remainder.
LEMMA SameDigits ==
  ASSUME Byte \in Nat \ {0}, NEW x \in Nat, NEW y \in Nat, NEW j \in Nat,
         \A i \in Nat : i < j => Digit(x, i) = Digit(y, i)
  PROVE  x % Values(j) = y % Values(j)
<1> DEFINE Wrong == {l \in Nat : l <= j /\ x % Values(l) # y % Values(l)}
<1>1. Wrong = {}
  <2> SUFFICES ASSUME Wrong # {} PROVE FALSE
    OBVIOUS
  <2>1. PICK l \in Wrong : \A i \in Wrong : l <= i
    BY LeastNumber
  <2>2. CASE l = 0
    <3>1. Values(0) = 1 /\ x % 1 = 0 /\ y % 1 = 0
      BY Powers
    <3>. QED
      BY <2>1, <2>2, <3>1
  <2>3. CASE l # 0
    <3> DEFINE k == l - 1
    <3>1. k \in Nat /\ k \notin Wrong /\ l = k + 1 /\ k < j
      BY <2>1, <2>3
    <3> HIDE DEF k
    <3>2. x % Values(k) = y % Values(k) /\ Digit(x, k) = Digit(y, k)
      BY <3>1
    <3>3. x % Values(l) = Values(k) * Digit(x, k) + (x % Values(k)) /\ y % Values(l) = Values(k) * Digit(y, k) + (y % Values(k))
      BY <3>1, OneDigitMore
    <3>. QED
      BY <2>1, <3>2, <3>3
  <2>. QED
    BY <2>2, <2>3
<1>. QED
  BY <1>1

\* Adding one changes a digit when there is a carry out of all lower ones, and only then.
LEMMA NextDigits ==
  ASSUME Byte \in Nat \ {0}, NEW x \in Nat, NEW j \in Nat
  PROVE  Digit(x + 1, j) = IF \A i \in Nat : i < j => Digit(x, i) = Byte - 1
                           THEN (Digit(x, j) + 1) % Byte ELSE Digit(x, j)
<1> DEFINE p == Values(j)
           q == x \div p
           r == x % p
<1>1. p \in Int /\ p > 0 /\ Byte \in Int /\ Byte > 0
  BY Powers
<1> HIDE DEF p
<1>2. q \in Int /\ r \in 0..p - 1 /\ x = p * q + r
  BY <1>1, DivMod
<1> HIDE DEF q, r
<1>3. (\A i \in Nat : i < j => Digit(x, i) = Byte - 1) <=> r = p - 1
  BY CarryDigits DEF p, r
<1>4. CASE r = p - 1
  <2> DEFINE next == q + 1
             zero == 0
  <2>1. x + 1 \in Int /\ next \in Int /\ zero \in 0..p - 1 /\ x + 1 = p * next + zero
    BY <1>1, <1>2, <1>4
  <2>2. (x + 1) \div p = next
    <3> DEFINE y == x + 1
    <3> HIDE DEF y, next, zero
    <3>1. y \in Int /\ y = p * next + zero
      BY <2>1 DEF y
    <3>2. y \div p = next
      BY <1>1, <2>1, <3>1, DivUnique
    <3>. QED
      BY <3>2 DEF y
  <2>3. (q + 1) % Byte = ((q % Byte) + 1) % Byte
    <3> DEFINE a == q \div Byte
               d == q % Byte
    <3>1. a \in Int /\ d \in 0..Byte - 1 /\ q = Byte * a + d
      BY <1>1, <1>2, DivMod
    <3> HIDE DEF a, d
    <3> DEFINE e == d + 1
               b == e \div Byte
               f == e % Byte
    <3>2. e \in Int
      BY <3>1
    <3> HIDE DEF e
    <3>3. b \in Int /\ f \in 0..Byte - 1 /\ e = Byte * b + f
      BY <1>1, <3>2, DivMod
    <3> HIDE DEF b, f
    <3> DEFINE c == a + b
               y == q + 1
    <3>4. c \in Int /\ y \in Int /\ y = Byte * c + f
      <4>1. Byte * (a + b) = Byte * a + Byte * b
        BY <1>1, <3>1, <3>3
      <4>2. Byte * a \in Int /\ Byte * b \in Int
        BY <1>1, <3>1, <3>3
      <4>. QED
        BY <1>1, <1>2, <3>1, <3>3, <4>1, <4>2 DEF e
    <3> HIDE DEF c, y
    <3>5. y % Byte = f
      BY <1>1, <3>3, <3>4, DivUnique
    <3>. QED
      BY <3>5 DEF y, f, e, d
  <2>. QED
    BY <1>3, <1>4, <2>2, <2>3 DEF Digit, p, q
<1>5. CASE r # p - 1
  <2> DEFINE y == x + 1
             s == r + 1
  <2>1. y \in Int /\ s \in 0..p - 1 /\ y = p * q + s
    <3>1. p * q \in Int
      BY <1>1, <1>2
    <3>. QED
      BY <1>1, <1>2, <1>5, <3>1
  <2> HIDE DEF y, s
  <2>2. y \div p = q
    BY <1>1, <1>2, <2>1, DivUnique
  <2>. QED
    BY <1>3, <1>5, <2>2 DEF Digit, p, q, y
<1>. QED
  BY <1>4, <1>5

-----------------------------------------------------------------------------
(* AES-GCM. *)

\* The sizes of the code: a byte is more than a bit, so that J0_Incremented needs no carry, and
\* an int cannot count so many bytes that the counter comes back to where it was.
\* The block with an IV and a number behind it.
CounterOf(iv, x) ==
  [k \in Positions |-> IF k <= IvBytes THEN iv[k] ELSE Digit(x, CipherBlock - k)]

NoIv == [k \in 1..IvBytes |-> 0]

PlainBytes(n) == [k \in 1..n |-> Plain(-k)]

SealedAs(iv, n, adLength) ==
  [message |-> Encryption(iv, ZeroBytes(adLength), PlainBytes(n)), plaintext |-> PlainBytes(n)]

\* What was sealed, each message with an IV of its own; and what the last decryption returned.
GcmInv ==
  /\ \A s \in sealed :
       \E iv \in IVs, n \in Lengths, a \in Lengths : n + CipherBlock - 1 <= INT_MAX /\ s = SealedAs(iv, n, a)
  /\ \A s, t \in sealed : s.message.iv = t.message.iv => s = t
  /\ opened.message = <<>> \/ \E m :
       /\ opened.message = <<m>> /\ (\E s \in sealed : s.message.iv = m.iv)
       /\ opened.ok <=> \E s \in sealed : s.message = m
       /\ \A s \in sealed : s.message = m => opened.plaintext = s.plaintext

\* The sizes as facts about numbers.
LEMMA GcmNumbers ==
  /\ Byte \in Nat \ {0} /\ Byte > 2 /\ IvBytes \in Nat /\ CtrBytes \in Nat /\ CtrBytes > 0
  /\ CipherBlock \in Nat /\ CipherBlock > 0 /\ CipherBlock = IvBytes + CtrBytes /\ INT_MAX \in Nat
  /\ Values(CtrBytes) \in Nat \ {0} /\ Positions = 1..CipherBlock
<1>1. Byte \in Nat \ {0} /\ CtrBytes \in Nat /\ CtrBytes > 0 /\ IvBytes \in Nat /\ INT_MAX \in Nat /\ Byte > 2
  BY GcmAssumption
<1>2. Values(CtrBytes) \in Nat \ {0}
  BY <1>1, Powers
<1>. QED
  BY <1>1, <1>2 DEF CipherBlock, Positions

\* A number below the number of bytes is its own last digit.
LEMMA SmallDigits ==
  ASSUME Byte \in Nat \ {0}, NEW x \in 0..Byte - 1
  PROVE  Digit(x, 0) = x /\ \A j \in Nat \ {0} : Digit(x, j) = 0
<1>1. Values(0) = 1 /\ Values(0 + 1) = Byte * Values(0)
  BY Powers
<1>2. x \div 1 = x /\ x % Byte = x
  <2>1. x % Byte = x
    BY SmallQuotient
  <2>. QED
    BY <2>1
<1>3. ASSUME NEW j \in Nat \ {0} PROVE Digit(x, j) = 0
  <2> DEFINE p == Values(j)
             one == 0 + 1
  <2>1. Values(one) = Byte
    BY <1>1
  <2>2. one \in Nat /\ one <= j /\ j \in Nat
    OBVIOUS
  <2> HIDE DEF one
  <2>3. Values(one) <= p
    BY <2>2, PowersGrow
  <2>4. p \in Nat \ {0}
    BY Powers
  <2> HIDE DEF p
  <2>5. p \in Int /\ p > 0 /\ x \in 0..p - 1
    BY <2>1, <2>3, <2>4
  <2>6. x \div p = 0
    BY <2>5, SmallQuotient
  <2>7. 0 % Byte = 0
    OBVIOUS
  <2>. QED
    BY <2>6, <2>7 DEF Digit, p
<1>. QED
  BY <1>1, <1>2, <1>3 DEF Digit

\* J0, the first counter and the block of the GHASH key as numbers behind an IV.
LEMMA FirstCounters ==
  ASSUME NEW iv
  PROVE  /\ J0(iv) = CounterOf(iv, 1) /\ J0_Incremented(iv) = CounterOf(iv, 2)
         /\ [k \in Positions |-> 0] = CounterOf(NoIv, 0)
<1>1. /\ Byte \in Nat \ {0} /\ Byte > 2 /\ IvBytes \in Nat /\ CtrBytes \in Nat /\ CtrBytes > 0
      /\ CipherBlock = IvBytes + CtrBytes /\ Positions = 1..CipherBlock
  BY GcmNumbers
<1>2. \A x \in 0..2 : Digit(x, 0) = x /\ \A j \in Nat \ {0} : Digit(x, j) = 0
  <2> SUFFICES ASSUME NEW x \in 0..2 PROVE Digit(x, 0) = x /\ \A j \in Nat \ {0} : Digit(x, j) = 0
    OBVIOUS
  <2>1. x \in 0..Byte - 1
    BY <1>1
  <2>. QED
    BY <1>1, <2>1, SmallDigits
<1>3. \A k \in Positions : k > IvBytes => /\ k = CipherBlock => CipherBlock - k = 0
                                          /\ k # CipherBlock => CipherBlock - k \in Nat \ {0}
  BY <1>1
<1>4. CipherBlock \in Positions /\ ~(CipherBlock <= IvBytes)
  BY <1>1
<1>5. \A k \in Positions, x \in 0..2 :
        CounterOf(iv, x)[k] = IF k <= IvBytes THEN iv[k] ELSE IF k = CipherBlock THEN x ELSE 0
  BY <1>1, <1>2, <1>3 DEF CounterOf
<1>6. J0(iv) = CounterOf(iv, 1)
  <2>1. \A k \in Positions : J0(iv)[k] = CounterOf(iv, 1)[k]
    BY <1>5 DEF J0
  <2>. QED
    BY <2>1 DEF J0, CounterOf
<1>7. J0_Incremented(iv) = CounterOf(iv, 2)
  <2>1. (1 + 1) % Byte = 2
    <3>1. 2 \in 0..Byte - 1 /\ Byte \in Int /\ Byte > 0
      BY <1>1
    <3>2. \A x \in 0..Byte - 1 : x % Byte = x
      BY <3>1, SmallQuotient
    <3>. QED
      BY <3>1, <3>2
  <2>2. J0(iv)[CipherBlock] = 1
    BY <1>4 DEF J0
  <2>3. J0_Incremented(iv) = [J0(iv) EXCEPT ![CipherBlock] = 2]
    BY <2>1, <2>2 DEF J0_Incremented
  <2>4. \A k \in Positions : J0_Incremented(iv)[k] = CounterOf(iv, 2)[k]
    BY <1>4, <1>5, <2>3 DEF J0
  <2>5. J0_Incremented(iv) = [k \in Positions |-> J0_Incremented(iv)[k]]
    BY <2>3 DEF J0
  <2>6. CounterOf(iv, 2) = [k \in Positions |-> CounterOf(iv, 2)[k]]
    BY DEF CounterOf
  <2> HIDE DEF J0_Incremented, CounterOf
  <2>. QED
    BY <2>4, <2>5, <2>6
<1>8. [k \in Positions |-> 0] = CounterOf(NoIv, 0)
  <2>1. \A k \in Positions : CounterOf(NoIv, 0)[k] = 0
    <3>1. \A k \in Positions : k <= IvBytes => NoIv[k] = 0
      BY <1>1 DEF NoIv
    <3>2. \A k \in Positions : k > IvBytes => Digit(0, CipherBlock - k) = 0
      BY <1>2, <1>3
    <3>. QED
      BY <1>1, <3>1, <3>2 DEF CounterOf
  <2>. QED
    BY <2>1 DEF CounterOf
<1>. QED
  BY <1>6, <1>7, <1>8

\* A counter block is incremented in the counter, and the IV stays as it is.
LEMMA NextCounter ==
  ASSUME NEW iv, NEW x \in Nat, x + 1 < Values(CtrBytes)
  PROVE  Incremented(CounterOf(iv, x)) = CounterOf(iv, x + 1)
<1> DEFINE c == CounterOf(iv, x)
           p == Values(CtrBytes)
<1>1. /\ Byte \in Nat \ {0} /\ Byte > 2 /\ IvBytes \in Nat /\ CtrBytes \in Nat /\ CtrBytes > 0
      /\ CipherBlock = IvBytes + CtrBytes /\ Positions = 1..CipherBlock /\ CipherBlock \in Nat
      /\ p \in Nat \ {0}
  BY GcmNumbers
<1>2. \A k \in Positions : c[k] = IF k <= IvBytes THEN iv[k] ELSE Digit(x, CipherBlock - k)
  BY DEF CounterOf
<1> HIDE DEF c, p
<1>3. ASSUME NEW k \in Positions, k > IvBytes
      PROVE  (\A j \in k + 1..CipherBlock : c[j] = Byte - 1)
             <=> \A i \in Nat : i < CipherBlock - k => Digit(x, i) = Byte - 1
  <2>1. ASSUME \A j \in k + 1..CipherBlock : c[j] = Byte - 1, NEW i \in Nat, i < CipherBlock - k
        PROVE  Digit(x, i) = Byte - 1
    <3>1. CipherBlock - i \in k + 1..CipherBlock /\ CipherBlock - i \in Positions /\ ~(CipherBlock - i <= IvBytes)
          /\ CipherBlock - (CipherBlock - i) = i
      BY <1>1, <1>3, <2>1
    <3>2. c[CipherBlock - i] = Digit(x, i)
      BY <1>2, <3>1
    <3>. QED
      BY <2>1, <3>1, <3>2
  <2>2. ASSUME \A i \in Nat : i < CipherBlock - k => Digit(x, i) = Byte - 1, NEW j \in k + 1..CipherBlock
        PROVE  c[j] = Byte - 1
    <3>1. CipherBlock - j \in Nat /\ CipherBlock - j < CipherBlock - k /\ j \in Positions /\ ~(j <= IvBytes)
      BY <1>1, <1>3
    <3>. QED
      BY <1>2, <2>2, <3>1
  <2>. QED
    BY <2>1, <2>2
<1>4. ASSUME NEW k \in Positions, k <= IvBytes PROVE ~ \A j \in k + 1..CipherBlock : c[j] = Byte - 1
  <2> SUFFICES ASSUME \A j \in k + 1..CipherBlock : c[j] = Byte - 1 PROVE FALSE
    OBVIOUS
  <2>1. \A i \in Nat : i < CtrBytes => Digit(x, i) = Byte - 1
    <3> SUFFICES ASSUME NEW i \in Nat, i < CtrBytes PROVE Digit(x, i) = Byte - 1
      OBVIOUS
    <3>1. CipherBlock - i \in k + 1..CipherBlock /\ CipherBlock - i \in Positions /\ ~(CipherBlock - i <= IvBytes)
          /\ CipherBlock - (CipherBlock - i) = i
      BY <1>1, <1>4
    <3>2. c[CipherBlock - i] = Digit(x, i)
      BY <1>2, <3>1
    <3>. QED
      BY <3>1, <3>2
  <2>2. x % p = p - 1
    BY <1>1, <2>1, CarryDigits DEF p
  <2>3. x % p = x
    <3>1. p \in Int /\ p > 0 /\ x \in 0..p - 1
      BY <1>1 DEF p
    <3>. QED
      BY <3>1, SmallQuotient
  <2>. QED
    BY <1>1, <2>2, <2>3 DEF p
<1>5. ASSUME NEW k \in Positions
      PROVE  (IF \A j \in k + 1..CipherBlock : c[j] = Byte - 1 THEN (c[k] + 1) % Byte ELSE c[k]) = CounterOf(iv, x + 1)[k]
  <2>0. CounterOf(iv, x + 1)[k] = IF k <= IvBytes THEN iv[k] ELSE Digit(x + 1, CipherBlock - k)
    BY DEF CounterOf
  <2>1. CASE k <= IvBytes
    BY <1>2, <1>4, <2>0, <2>1
  <2>2. CASE ~(k <= IvBytes)
    <3> DEFINE l == CipherBlock - k
    <3>1. l \in Nat /\ k > IvBytes
      BY <1>1, <2>2
    <3> HIDE DEF l
    <3>2. Digit(x + 1, l) = IF \A i \in Nat : i < l => Digit(x, i) = Byte - 1 THEN (Digit(x, l) + 1) % Byte ELSE Digit(x, l)
      BY <1>1, <3>1, NextDigits
    <3>3. c[k] = Digit(x, l)
      BY <1>2, <2>2 DEF l
    <3>. QED
      BY <1>3, <2>0, <2>2, <3>1, <3>2, <3>3 DEF l
  <2>. QED
    BY <2>1, <2>2
<1>6. Incremented(c) = [k \in Positions |-> IF \A j \in k + 1..CipherBlock : c[j] = Byte - 1 THEN (c[k] + 1) % Byte ELSE c[k]]
  BY DEF Incremented
<1>7. CounterOf(iv, x + 1) = [k \in Positions |-> CounterOf(iv, x + 1)[k]]
  BY DEF CounterOf
<1> HIDE DEF CounterOf
<1>. QED
  BY <1>5, <1>6, <1>7 DEF c

\* The counter blocks of AES_CTR_Encrypt are consecutive numbers behind the IV.
LEMMA CountersCount ==
  ASSUME NEW iv, NEW n \in Nat, n + CipherBlock - 1 <= INT_MAX,
         NEW N, N = (n + CipherBlock - 1) \div CipherBlock
  PROVE  /\ N \in Nat /\ N + 1 < Values(CtrBytes)
         /\ Counters(J0_Incremented(iv), n) = [b \in 1..N |-> CounterOf(iv, b + 1)]
<1> DEFINE first == J0_Incremented(iv)
           Equation(f) == f = [b \in 1..N |-> IF b = 1 THEN first ELSE Incremented(f[b - 1])]
           h == [b \in 1..N |-> CounterOf(iv, b + 1)]
           counters == Counters(first, n)
           len == n + CipherBlock - 1
           p == Values(CtrBytes)
<1>1. CipherBlock \in Nat /\ CipherBlock > 0 /\ INT_MAX \in Nat /\ p \in Nat
  BY GcmNumbers
<1>2. len \in Nat /\ len <= INT_MAX
  BY <1>1
<1>3. N \in Nat /\ N + 1 < p
  <2> DEFINE most == INT_MAX \div CipherBlock
  <2>1. most + 1 < p
    BY GcmAssumption
  <2>2. N \in Nat /\ most \in Nat /\ N <= most
    <3>0. N = len \div CipherBlock /\ CipherBlock \in Int
      BY <1>1
    <3> HIDE DEF len
    <3>1. N \in Nat
      BY <1>1, <1>2, <3>0, QuotientNat
    <3>2. most \in Nat
      BY <1>1, <3>0, QuotientNat
    <3> DEFINE r == len % CipherBlock
               t == INT_MAX % CipherBlock
    <3>3. r \in 0..CipherBlock - 1 /\ len = CipherBlock * N + r
      BY <1>1, <1>2, <3>0, DivMod
    <3>4. t \in 0..CipherBlock - 1 /\ INT_MAX = CipherBlock * most + t
      BY <1>1, <3>0, DivMod
    <3> HIDE DEF most, r, t
    <3>5. ~(most + 1 <= N)
      <4> SUFFICES ASSUME most + 1 <= N PROVE FALSE
        OBVIOUS
      <4> DEFINE next == most + 1
      <4>1. next \in Int /\ N \in Int /\ next <= N
        BY <3>1, <3>2
      <4> HIDE DEF next
      <4>2. CipherBlock * next <= CipherBlock * N
        BY <1>1, <4>1, MultiplesGrow
      <4>3. CipherBlock * next = CipherBlock * most + CipherBlock /\ CipherBlock * most \in Int /\ CipherBlock * N \in Int
        BY <1>1, <3>1, <3>2 DEF next
      <4>. QED
        BY <1>1, <1>2, <3>3, <3>4, <4>2, <4>3
    <3>. QED
      BY <3>1, <3>2, <3>5
  <2> HIDE DEF most
  <2>. QED
    BY <1>1, <2>1, <2>2
<1> HIDE DEF p
<1>4. Equation(h)
  <2>1. ASSUME NEW b \in 1..N PROVE h[b] = IF b = 1 THEN first ELSE Incremented(h[b - 1])
    <3>1. CASE b = 1
      <4>1. h[b] = CounterOf(iv, 2)
        BY <3>1
      <4>. QED
        BY <3>1, <4>1, FirstCounters
    <3>2. CASE b # 1
      <4>1. b - 1 \in 1..N /\ (b - 1) + 1 = b /\ b \in Nat /\ b + 1 < p
        BY <1>1, <1>3, <3>2
      <4>2. h[b - 1] = CounterOf(iv, b)
        BY <4>1
      <4>3. Incremented(CounterOf(iv, b)) = CounterOf(iv, b + 1)
        BY <4>1, NextCounter DEF p
      <4>. QED
        BY <3>2, <4>2, <4>3
    <3>. QED
      BY <3>1, <3>2
  <2> HIDE DEF first
  <2>. QED
    BY <2>1
<1>5. counters = CHOOSE f : Equation(f)
  BY DEF Counters
<1>6. Equation(counters)
  <2> HIDE DEF Equation, h, counters
  <2>. QED
    BY <1>4, <1>5
<1> HIDE DEF counters, h, first
<1>7. \A b \in 1..N : counters[b] = h[b]
  <2> DEFINE Wrong == {b \in Nat : b \in 1..N /\ counters[b] # h[b]}
  <2>1. Wrong = {}
    <3> SUFFICES ASSUME Wrong # {} PROVE FALSE
      OBVIOUS
    <3>1. PICK b \in Wrong : \A i \in Wrong : b <= i
      <4>1. Wrong \subseteq Nat
        OBVIOUS
      <4> HIDE DEF Wrong
      <4>. QED
        BY <4>1, LeastNumber
    <3>2. counters[b] = (IF b = 1 THEN first ELSE Incremented(counters[b - 1])) /\ h[b] = (IF b = 1 THEN first ELSE Incremented(h[b - 1]))
      BY <1>4, <1>6, <3>1
    <3>3. b # 1
      BY <3>1, <3>2
    <3>4. b - 1 \in Nat /\ b - 1 \in 1..N /\ b - 1 \notin Wrong
      BY <1>3, <3>1, <3>3
    <3>. QED
      BY <3>1, <3>2, <3>3, <3>4
  <2>. QED
    BY <1>3, <2>1
<1>8. counters = h
  <2>1. counters = [b \in 1..N |-> counters[b]] /\ h = [b \in 1..N |-> h[b]]
    BY <1>6 DEF h
  <2>. QED
    BY <1>7, <2>1
<1>. QED
  BY <1>3, <1>8 DEF counters, h, first, p

\* Two of these blocks are the same only if the numbers and the IVs are.
LEMMA CountersDiffer ==
  ASSUME NEW iv, NEW jv, NEW x \in Nat, NEW y \in Nat, x < Values(CtrBytes), y < Values(CtrBytes),
         CounterOf(iv, x) = CounterOf(jv, y)
  PROVE  x = y /\ \A k \in 1..IvBytes : iv[k] = jv[k]
<1> DEFINE p == Values(CtrBytes)
<1>1. /\ Byte \in Nat \ {0} /\ IvBytes \in Nat /\ CtrBytes \in Nat /\ CtrBytes > 0
      /\ CipherBlock = IvBytes + CtrBytes /\ Positions = 1..CipherBlock /\ CipherBlock \in Nat
      /\ p \in Nat \ {0}
  BY GcmNumbers
<1>2. \A k \in Positions : (IF k <= IvBytes THEN iv[k] ELSE Digit(x, CipherBlock - k))
                             = (IF k <= IvBytes THEN jv[k] ELSE Digit(y, CipherBlock - k))
  <2>1. \A k \in Positions : CounterOf(iv, x)[k] = CounterOf(jv, y)[k]
    OBVIOUS
  <2>. QED
    BY <2>1 DEF CounterOf
<1>3. ASSUME NEW i \in Nat, i < CtrBytes PROVE Digit(x, i) = Digit(y, i)
  <2>1. CipherBlock - i \in Positions /\ ~(CipherBlock - i <= IvBytes) /\ CipherBlock - (CipherBlock - i) = i
    BY <1>1, <1>3
  <2>. QED
    BY <1>2, <2>1
<1>4. x % p = y % p
  BY <1>1, <1>3, SameDigits
<1>5. x % p = x /\ y % p = y
  <2>1. p \in Int /\ p > 0 /\ x \in 0..p - 1 /\ y \in 0..p - 1
    BY <1>1
  <2> HIDE DEF p
  <2>. QED
    BY <2>1, SmallQuotient
<1>6. \A k \in 1..IvBytes : k \in Positions /\ k <= IvBytes
  BY <1>1
<1>. QED
  BY <1>2, <1>4, <1>5, <1>6

\* What a message was sealed with.
SealedWith(s, iv, n, adLength) ==
  /\ s.message.iv = iv /\ s.message.ad = ZeroBytes(adLength) /\ s.plaintext = PlainBytes(n)
  /\ s.message.ciphertext = AES_CTR_Encrypt(J0_Incremented(iv), PlainBytes(n))
  /\ s.message.tag = Tag(iv, s.message.ad, s.message.ciphertext)
  /\ s.message = [iv |-> s.message.iv, ad |-> s.message.ad,
                  ciphertext |-> s.message.ciphertext, tag |-> s.message.tag]
  /\ Len(s.message.ciphertext) = n /\ s.message.ciphertext = [k \in 1..n |-> s.message.ciphertext[k]]

\* The parts of a sealed message are the ones it was sealed with.
LEMMA SealedParts ==
  ASSUME NEW iv, NEW n \in Nat, NEW a \in Nat
  PROVE  SealedWith(SealedAs(iv, n, a), iv, n, a)
<1> DEFINE s == SealedAs(iv, n, a)
<1> DEFINE first == J0_Incremented(iv)
           c == AES_CTR_Encrypt(first, PlainBytes(n))
<1>1. Len(PlainBytes(n)) = n
  BY DEF PlainBytes
<1>2. c = [k \in 1..n |-> Xor(PlainBytes(n)[k],
             Cipher(Counters(first, n)[1 + (k - 1) \div CipherBlock], k % CipherBlock))]
  BY <1>1 DEF AES_CTR_Encrypt
<1>3. Len(c) = n /\ c = [k \in 1..n |-> c[k]]
  BY <1>2
<1> HIDE DEF c
<1>4. s = [message |-> [iv |-> iv, ad |-> ZeroBytes(a), ciphertext |-> c, tag |-> Tag(iv, ZeroBytes(a), c)],
           plaintext |-> PlainBytes(n)]
  BY DEF SealedAs, Encryption, c
<1> HIDE DEF s
<1> DEFINE m == s.message
<1>5. m = [iv |-> iv, ad |-> ZeroBytes(a), ciphertext |-> c, tag |-> Tag(iv, ZeroBytes(a), c)] /\ s.plaintext = PlainBytes(n)
  BY <1>4
<1> HIDE DEF m
<1>6. m.iv = iv /\ m.ad = ZeroBytes(a) /\ m.ciphertext = c /\ m.tag = Tag(iv, ZeroBytes(a), c)
  BY <1>5
<1>7. m = [iv |-> m.iv, ad |-> m.ad, ciphertext |-> m.ciphertext, tag |-> m.tag]
  BY <1>5, <1>6
<1>8. /\ Len(m.ciphertext) = n /\ m.ciphertext = [k \in 1..n |-> m.ciphertext[k]]
      /\ m.tag = Tag(iv, m.ad, m.ciphertext) /\ m.ciphertext = AES_CTR_Encrypt(J0_Incremented(iv), PlainBytes(n))
  <2>1. m.tag = Tag(iv, m.ad, m.ciphertext)
    BY <1>6
  <2>2. m.ciphertext = AES_CTR_Encrypt(J0_Incremented(iv), PlainBytes(n))
    BY <1>6 DEF c
  <2>3. Len(m.ciphertext) = n /\ m.ciphertext = [k \in 1..n |-> m.ciphertext[k]]
    BY <1>3, <1>6
  <2>. QED
    BY <2>1, <2>2, <2>3
<1>. QED
  BY <1>1, <1>5, <1>6, <1>7, <1>8 DEF m, s, SealedWith

\* The blocks of a message are the numbers 1, 2, 3 ... behind its IV, and zero.
BlocksFrom(m, iv) ==
  \E N \in Nat :
    /\ N + 1 < Values(CtrBytes)
    /\ Len(CounterBlocks(m)) = N + 2 /\ DOMAIN CounterBlocks(m) = 1..N + 2
    /\ CounterBlocks(m)[1] = CounterOf(NoIv, 0)
    /\ \A j \in 2..N + 2 : CounterBlocks(m)[j] = CounterOf(iv, j - 1)

\* That is so for every message that an int can count.
LEMMA BlocksOfMessage ==
  ASSUME NEW iv, NEW n \in Nat, n + CipherBlock - 1 <= INT_MAX, NEW m,
         m.iv = iv, Len(m.ciphertext) = n
  PROVE  BlocksFrom(m, iv)
<1> DEFINE N == (n + CipherBlock - 1) \div CipherBlock
           counters == Counters(J0_Incremented(iv), n)
           two == <<[k \in Positions |-> 0], J0(iv)>>
           rest == [b \in DOMAIN counters |-> counters[b]]
           blocks == CounterBlocks(m)
<1>1. N \in Nat /\ N + 1 < Values(CtrBytes) /\ counters = [b \in 1..N |-> CounterOf(iv, b + 1)]
  BY CountersCount
<1>2. blocks = two \o rest
  BY DEF CounterBlocks
<1>3. two = <<CounterOf(NoIv, 0), CounterOf(iv, 1)>>
  BY FirstCounters
<1> HIDE DEF N, counters, two, blocks
<1>4. rest = [b \in 1..N |-> CounterOf(iv, b + 1)]
  <2>1. DOMAIN counters = 1..N
    BY <1>1
  <2>. QED
    BY <1>1, <2>1
<1> HIDE DEF rest
<1>5. two = [k \in 1..2 |-> two[k]] /\ two[1] = CounterOf(NoIv, 0) /\ two[2] = CounterOf(iv, 1)
  BY <1>3
<1>6. /\ Len(blocks) = 2 + N /\ blocks = [k \in 1..2 + N |-> blocks[k]]
      /\ \A k \in 1..2 + N : blocks[k] = IF k <= 2 THEN two[k] ELSE rest[k - 2]
  <2> DEFINE l == 2
  <2>1. l \in Nat /\ two = [k \in 1..l |-> two[k]] /\ rest = [k \in 1..N |-> rest[k]]
    BY <1>4, <1>5
  <2> HIDE DEF l
  <2>2. /\ Len(two \o rest) = l + N /\ two \o rest = [k \in 1..l + N |-> (two \o rest)[k]]
        /\ \A k \in 1..l + N : (two \o rest)[k] = IF k <= l THEN two[k] ELSE rest[k - l]
    BY <1>1, <2>1, Joined
  <2>. QED
    BY <1>2, <2>2 DEF l
<1>7. \A j \in 2..N + 2 : blocks[j] = CounterOf(iv, j - 1)
  <2> SUFFICES ASSUME NEW j \in 2..N + 2 PROVE blocks[j] = CounterOf(iv, j - 1)
    OBVIOUS
  <2>1. CASE j = 2
    <3>1. j - 1 = 1 /\ 2 \in 1..2 + N
      BY <1>1, <2>1
    <3>2. blocks[2] = two[2]
      BY <1>6, <3>1
    <3>. QED
      BY <1>5, <2>1, <3>1, <3>2
  <2>2. CASE j # 2
    <3>1. j - 2 \in 1..N /\ (j - 2) + 1 = j - 1 /\ j \in 1..2 + N /\ ~(j <= 2)
      BY <1>1, <2>2
    <3>. QED
      BY <1>4, <1>6, <3>1
  <2>. QED
    BY <2>1, <2>2
<1>8. blocks[1] = CounterOf(NoIv, 0) /\ 2 + N = N + 2
  <2>1. 1 \in 1..2 + N /\ 2 + N = N + 2 /\ 1 <= 2
    BY <1>1
  <2>2. blocks[1] = two[1]
    BY <1>6, <2>1
  <2>. QED
    BY <1>5, <2>1, <2>2
<1>9. DOMAIN blocks = 1..N + 2 /\ Len(blocks) = N + 2
  BY <1>6, <1>8
<1>. QED
  BY <1>1, <1>7, <1>8, <1>9 DEF blocks, BlocksFrom

\* GHASH_input tells lengths and bytes apart.
LEMMA GhashInjective ==
  ASSUME CipherBlock \in Nat, CipherBlock > 0, NEW a \in Nat, NEW b \in Nat, NEW n \in Nat, NEW l \in Nat,
         NEW c, c = [k \in 1..n |-> c[k]], NEW d, d = [k \in 1..l |-> d[k]],
         GHASH_input(ZeroBytes(a), c) = GHASH_input(ZeroBytes(b), d)
  PROVE  a = b /\ c = d
<1> DEFINE Front(x, y) == ZeroBytes(x) \o ZeroBytes((-x) % CipherBlock)
           Middle(x, y) == Front(x, y) \o y
           Back(x, y) == Middle(x, y) \o ZeroBytes((-Len(y)) % CipherBlock)
           Whole(x, y) == Back(x, y) \o <<Plain(8 * x), Plain(8 * Len(y))>>
           Shape(w, x, m, y) ==
             \E p \in Nat : \E q \in Nat :
               /\ p = x + ((-x) % CipherBlock)
               /\ Len(w) = q + 2 /\ q >= p + m
               /\ w[q + 1] = Plain(8 * x) /\ w[q + 2] = Plain(8 * m)
               /\ \A k \in 1..m : w[p + k] = y[k]
<1>0. ASSUME NEW x \in Nat, NEW m \in Nat, NEW y, y = [k \in 1..m |-> y[k]]
      PROVE  Shape(GHASH_input(ZeroBytes(x), y), x, m, y)
  <2> DEFINE zx == ZeroBytes(x)
             px == (-x) % CipherBlock
             py == (-m) % CipherBlock
             zp == ZeroBytes(px)
             zq == ZeroBytes(py)
             p == x + px
             q == p + m + py
             front == zx \o zp
             middle == front \o y
             back == middle \o zq
             lens == <<Plain(8 * x), Plain(8 * m)>>
             whole == back \o lens
  <2>1. Len(y) = m
    BY <1>0
  <2>2. Len(ZeroBytes(x)) = x
    BY DEF ZeroBytes
  <2>3. px \in Nat /\ py \in Nat
    <3>1. \A i \in Int : i % CipherBlock \in 0..CipherBlock - 1
      BY DivMod
    <3>2. -x \in Int /\ -m \in Int
      OBVIOUS
    <3>. QED
      BY <3>1, <3>2
  <2>4. Whole(x, y) = whole /\ GHASH_input(ZeroBytes(x), y) = Whole(x, y)
    BY <2>1, <2>2 DEF GHASH_input
  <2> HIDE DEF px, py
  <2>5. zx = [k \in 1..x |-> zx[k]] /\ zp = [k \in 1..px |-> zp[k]] /\ zq = [k \in 1..py |-> zq[k]]
    BY DEF ZeroBytes
  <2>6. lens = [k \in 1..2 |-> lens[k]] /\ lens[1] = Plain(8 * x) /\ lens[2] = Plain(8 * m)
    OBVIOUS
  <2> HIDE DEF zx, zp, zq, lens
  <2>7. front = [k \in 1..x + px |-> front[k]]
    BY <2>3, <2>5, Joined, SMTT(30)
  <2> HIDE DEF front
  <2>8. p \in Nat /\ front = [k \in 1..p |-> front[k]]
    BY <2>3, <2>7
  <2> HIDE DEF p
  <2>9. middle = [k \in 1..p + m |-> middle[k]] /\ \A k \in 1..p + m : middle[k] = IF k <= p THEN front[k] ELSE y[k - p]
    BY <1>0, <2>8, Joined, SMTT(30)
  <2> DEFINE i == p + m
  <2>10. i \in Nat /\ middle = [k \in 1..i |-> middle[k]]
    BY <2>8, <2>9, SMTT(30)
  <2> HIDE DEF middle, i
  <2>11. back = [k \in 1..i + py |-> back[k]] /\ \A k \in 1..i + py : back[k] = IF k <= i THEN middle[k] ELSE zq[k - i]
    <3> DEFINE left == middle
               right == zq
    <3>1. left = [k \in 1..i |-> left[k]] /\ right = [k \in 1..py |-> right[k]] /\ i \in Nat /\ py \in Nat
      BY <2>3, <2>5, <2>10
    <3>2. back = left \o right
      BY DEF back
    <3> HIDE DEF left, right, back
    <3>3. left \o right = [k \in 1..i + py |-> (left \o right)[k]] /\ \A k \in 1..i + py : (left \o right)[k] = IF k <= i THEN left[k] ELSE right[k - i]
      BY <3>1, Joined, SMTT(30)
    <3>. QED
      BY <3>2, <3>3 DEF left, right
  <2>12. q = i + py /\ q \in Nat
    BY <2>3, <2>8, <2>10 DEF i
  <2>13. back = [k \in 1..q |-> back[k]] /\ \A k \in 1..q : back[k] = IF k <= i THEN middle[k] ELSE zq[k - i]
    BY <2>11, <2>12
  <2> DEFINE two == 2
  <2>14. two \in Nat /\ lens = [k \in 1..two |-> lens[k]]
    BY <2>6
  <2> HIDE DEF back, q, two
  <2>15. Len(whole) = q + two /\ \A k \in 1..q + two : whole[k] = IF k <= q THEN back[k] ELSE lens[k - q]
    BY <2>12, <2>13, <2>14, Joined
  <2> HIDE DEF whole
  <2>16. whole[q + 1] = Plain(8 * x) /\ whole[q + 2] = Plain(8 * m) /\ Len(whole) = q + 2
    <3>1. q + 1 \in 1..q + two /\ q + 2 \in 1..q + two /\ ~(q + 1 <= q) /\ ~(q + 2 <= q)
          /\ (q + 1) - q = 1 /\ (q + 2) - q = 2
      BY <2>12 DEF two
    <3>. QED
      BY <2>6, <2>15, <3>1 DEF two
  <2>17. \A k \in 1..m : whole[p + k] = y[k]
    <3> SUFFICES ASSUME NEW k \in 1..m PROVE whole[p + k] = y[k]
      OBVIOUS
    <3>1. /\ p + k \in 1..p + m /\ ~(p + k <= p) /\ (p + k) - p = k /\ p + k <= i
          /\ p + k \in 1..q /\ p + k <= q /\ p + k \in 1..q + two
      <4>1. p \in Nat /\ py \in Nat /\ q = (p + m) + py /\ i = p + m /\ two = 2
        BY <2>3, <2>8, <2>12 DEF i, two
      <4>. QED
        BY <4>1
    <3>. QED
      BY <2>9, <2>13, <2>15, <3>1
  <2>18. q >= p + m
    BY <2>3, <2>8, <2>12 DEF i
  <2>19. p = x + ((-x) % CipherBlock)
    BY DEF p, px
  <2> HIDE DEF Whole
  <2>20. GHASH_input(ZeroBytes(x), y) = whole
    BY <2>4
  <2>. QED
    BY <2>8, <2>12, <2>16, <2>17, <2>18, <2>19, <2>20
<1> DEFINE x == GHASH_input(ZeroBytes(a), c)
           y == GHASH_input(ZeroBytes(b), d)
<1> HIDE DEF Whole, Shape
<1>1. Shape(x, a, n, c) /\ Shape(y, b, l, d)
  BY <1>0
<1> HIDE DEF x, y
<1>2. PICK p \in Nat, q \in Nat :
        /\ p = a + ((-a) % CipherBlock) /\ Len(x) = q + 2 /\ q >= p + n
        /\ x[q + 1] = Plain(8 * a) /\ x[q + 2] = Plain(8 * n) /\ \A k \in 1..n : x[p + k] = c[k]
  BY <1>1 DEF Shape
<1>3. PICK r \in Nat, s \in Nat :
        /\ r = b + ((-b) % CipherBlock) /\ Len(y) = s + 2 /\ s >= r + l
        /\ y[s + 1] = Plain(8 * b) /\ y[s + 2] = Plain(8 * l) /\ \A k \in 1..l : y[r + k] = d[k]
  BY <1>1 DEF Shape
<1>4. x = y
  BY DEF x, y
<1>5. q = s
  <2>1. q + 2 = s + 2
    BY <1>2, <1>3, <1>4
  <2>. QED
    BY <2>1
<1>6. Plain(8 * a) = Plain(8 * b) /\ Plain(8 * n) = Plain(8 * l)
  BY <1>2, <1>3, <1>4, <1>5
<1>7. a = b /\ n = l
  <2>1. \A v, w : Plain(v) = Plain(w) => v = w
    <3> SUFFICES ASSUME NEW v, NEW w, Plain(v) = Plain(w) PROVE v = w
      OBVIOUS
    <3>1. Plain(v).value = v /\ Plain(w).value = w
      BY DEF Plain
    <3>. QED
      BY <3>1
  <2>2. 8 * a = 8 * b /\ 8 * n = 8 * l
    BY <1>6, <2>1
  <2>. QED
    BY <2>2
<1>8. \A k \in 1..n : c[k] = d[k]
  BY <1>2, <1>3, <1>4, <1>7
<1>9. c = d
  BY <1>7, <1>8
<1>. QED
  BY <1>7, <1>9

\* Every keystream byte goes in and out again.
LEMMA EncryptedTwice ==
  ASSUME NEW first, NEW n \in Nat
  PROVE  AES_CTR_Encrypt(first, AES_CTR_Encrypt(first, PlainBytes(n))) = PlainBytes(n)
<1> DEFINE mask(k) == Cipher(Counters(first, n)[1 + (k - 1) \div CipherBlock], k % CipherBlock)
           once == AES_CTR_Encrypt(first, PlainBytes(n))
           twice == AES_CTR_Encrypt(first, once)
<1>1. PlainBytes(n) = [k \in 1..n |-> Plain(-k)] /\ Len(PlainBytes(n)) = n
  BY DEF PlainBytes
<1>2. once = [k \in 1..n |-> Xor(PlainBytes(n)[k], mask(k))]
  BY <1>1 DEF AES_CTR_Encrypt
<1>3. Len(once) = n
  BY <1>2
<1> HIDE DEF once
<1>4. twice = [k \in 1..n |-> Xor(once[k], mask(k))]
  BY <1>3 DEF AES_CTR_Encrypt
<1>5. ASSUME NEW v, NEW x PROVE Xor(Xor(Plain(v), x), x) = Plain(v)
  <2>1. Plain(v) = [value |-> v, masks |-> {}]
    BY DEF Plain
  <2>2. Xor(Plain(v), x) = [value |-> v, masks |-> {x}]
    <3>1. ({} \ {x}) \cup ({x} \ {}) = {x}
      OBVIOUS
    <3>. QED
      BY <2>1, <3>1 DEF Xor
  <2>3. Xor([value |-> v, masks |-> {x}], x) = [value |-> v, masks |-> {}]
    <3>1. ({x} \ {x}) \cup ({x} \ {x}) = {}
      OBVIOUS
    <3>. QED
      BY <3>1 DEF Xor
  <2>. QED
    BY <2>1, <2>2, <2>3
<1> HIDE DEF mask
<1>6. \A k \in 1..n : Xor(once[k], mask(k)) = Plain(-k)
  <2> SUFFICES ASSUME NEW k \in 1..n PROVE Xor(once[k], mask(k)) = Plain(-k)
    OBVIOUS
  <2>1. once[k] = Xor(Plain(-k), mask(k))
    BY <1>1, <1>2
  <2>. QED
    BY <1>5, <2>1
<1> HIDE DEF twice
<1>7. twice = PlainBytes(n)
  BY <1>1, <1>4, <1>6
<1>. QED
  BY <1>7 DEF twice, once

\* A tag belongs to one IV, one associated data and one ciphertext.
LEMMA TagInjective ==
  ASSUME NEW iv \in [1..IvBytes -> 0..Byte - 1], NEW jv \in [1..IvBytes -> 0..Byte - 1],
         NEW a \in Nat, NEW b \in Nat, NEW n \in Nat, NEW l \in Nat,
         NEW c, Numbered(c, n), NEW d, Numbered(d, l),
         Tag(iv, ZeroBytes(a), c) = Tag(jv, ZeroBytes(b), d)
  PROVE  iv = jv /\ a = b /\ c = d
<1>1. J0(iv) = J0(jv) /\ GHASH_input(ZeroBytes(a), c) = GHASH_input(ZeroBytes(b), d)
  <2>1. \A i, x, y : Tag(i, x, y).E_K_Y0 = J0(i) /\ Tag(i, x, y).S = GHASH_input(x, y)
    BY DEF Tag, GHASH
  <2>. QED
    BY <2>1
<1>2. CipherBlock \in Nat /\ CipherBlock > 0 /\ INT_MAX \in Nat /\ Values(CtrBytes) \in Nat
  BY GcmNumbers
<1>3. a = b /\ c = d
  BY <1>1, <1>2, GhashInjective DEF Numbered
<1>4. iv = jv
  <2> DEFINE x == 1
  <2>1. x < Values(CtrBytes)
    <3>1. INT_MAX \div CipherBlock \in Nat
      BY <1>2, QuotientNat
    <3>. QED
      BY <1>2, <3>1, GcmAssumption
  <2>2. x \in Nat /\ CounterOf(iv, x) = CounterOf(jv, x)
    BY <1>1, FirstCounters
  <2> HIDE DEF x
  <2>3. \A k \in 1..IvBytes : iv[k] = jv[k]
    BY <2>1, <2>2, CountersDiffer
  <2>4. iv = [k \in 1..IvBytes |-> iv[k]] /\ jv = [k \in 1..IvBytes |-> jv[k]]
    OBVIOUS
  <2>. QED
    BY <2>3, <2>4
<1>. QED
  BY <1>3, <1>4

\* What was sealed and what was opened, at any time.
THEOREM GcmInvariance == GcmSpec => []GcmInv
<1>1. GcmInit => GcmInv
  BY DEF GcmInit, GcmInv
<1>2. GcmInv /\ [GcmNext]_gcmVars => GcmInv'
  <2> SUFFICES ASSUME GcmInv, [GcmNext]_gcmVars PROVE GcmInv'
    OBVIOUS
  <2>1. IVs \subseteq [1..IvBytes -> 0..Byte - 1] /\ Lengths \subseteq Nat
    BY GcmAssumption
  <2>2. /\ \A s \in sealed :
             \E iv \in IVs, n \in Lengths, a \in Lengths : n + CipherBlock - 1 <= INT_MAX /\ s = SealedAs(iv, n, a)
        /\ \A s, t \in sealed : s.message.iv = t.message.iv => s = t
    BY DEF GcmInv
  <2>3. ASSUME NEW iv \in IVs, NEW n \in Lengths, NEW a \in Lengths, Encrypt(iv, n, a)
        PROVE  GcmInv'
    <3> DEFINE new == SealedAs(iv, n, a)
    <3>1. /\ sealed' = sealed \cup {new} /\ opened' = opened /\ n + CipherBlock - 1 <= INT_MAX
          /\ \A s \in sealed : s.message.iv # iv
      BY <2>3 DEF Encrypt, SealedAs, PlainBytes
    <3>2. new.message.iv = iv
      <4>1. n \in Nat /\ a \in Nat
        BY <2>1
      <4>2. SealedWith(SealedAs(iv, n, a), iv, n, a)
        BY <4>1, SealedParts
      <4>. QED
        BY <4>2 DEF SealedWith
    <3> HIDE DEF new
    <3>3. \A s \in sealed' : \E jv \in IVs, l \in Lengths, b \in Lengths :
            l + CipherBlock - 1 <= INT_MAX /\ s = SealedAs(jv, l, b)
      BY <2>2, <3>1 DEF new
    <3>4. \A s, t \in sealed' : s.message.iv = t.message.iv => s = t
      BY <2>2, <3>1, <3>2
    <3>5. opened'.message = <<>> \/ \E m :
            /\ opened'.message = <<m>> /\ (\E s \in sealed' : s.message.iv = m.iv)
            /\ opened'.ok <=> \E s \in sealed' : s.message = m
            /\ \A s \in sealed' : s.message = m => opened'.plaintext = s.plaintext
      <4> SUFFICES ASSUME opened.message # <<>>
                   PROVE  \E m : /\ opened'.message = <<m>> /\ (\E s \in sealed' : s.message.iv = m.iv)
                                 /\ opened'.ok <=> \E s \in sealed' : s.message = m
                                 /\ \A s \in sealed' : s.message = m => opened'.plaintext = s.plaintext
        BY <3>1
      <4>1. PICK m : /\ opened.message = <<m>> /\ (\E s \in sealed : s.message.iv = m.iv)
                     /\ opened.ok <=> \E s \in sealed : s.message = m
                     /\ \A s \in sealed : s.message = m => opened.plaintext = s.plaintext
        BY DEF GcmInv
      <4>2. m.iv # iv
        BY <3>1, <4>1
      <4>3. new.message # m
        BY <3>2, <4>2
      <4>4. \A s : s \in sealed' /\ s.message = m => s \in sealed
        BY <3>1, <4>3
      <4>5. (\E s \in sealed' : s.message = m) <=> (\E s \in sealed : s.message = m)
        BY <3>1, <4>4
      <4>6. opened'.ok <=> \E s \in sealed' : s.message = m
        BY <3>1, <4>1, <4>5
      <4>7. \E s \in sealed' : s.message.iv = m.iv
        BY <3>1, <4>1
      <4>8. \A s \in sealed' : s.message = m => opened'.plaintext = s.plaintext
        BY <3>1, <4>1, <4>4
      <4>. QED
        BY <3>1, <4>1, <4>6, <4>7, <4>8
    <3>. QED
      BY <3>3, <3>4, <3>5 DEF GcmInv
  <2>4. ASSUME NEW a \in sealed, NEW b \in sealed, NEW c \in sealed, NEW d \in sealed, Decrypt(a, b, c, d)
        PROVE  GcmInv'
    <3> DEFINE m == [iv |-> a.message.iv, ad |-> b.message.ad,
                     ciphertext |-> c.message.ciphertext, tag |-> d.message.tag]
    <3>1. /\ sealed' = sealed
          /\ opened' = [ok |-> Decryption(m).ok, plaintext |-> Decryption(m).plaintext, message |-> <<m>>]
      BY <2>4 DEF Decrypt
    <3>2. /\ Decryption(m).ok <=> m.tag = Tag(m.iv, m.ad, m.ciphertext)
          /\ Decryption(m).plaintext = AES_CTR_Encrypt(J0_Incremented(m.iv), m.ciphertext)
      BY DEF Decryption
    <3>3. m.iv = a.message.iv /\ m.ad = b.message.ad /\ m.ciphertext = c.message.ciphertext /\ m.tag = d.message.tag
      OBVIOUS
    <3>4. ASSUME NEW s \in sealed
          PROVE  \E iv \in [1..IvBytes -> 0..Byte - 1], n \in Nat, l \in Nat : SealedWith(s, iv, n, l)
      <4>1. PICK iv \in IVs, n \in Lengths, l \in Lengths : s = SealedAs(iv, n, l)
        BY <2>2
      <4>2. n \in Nat /\ l \in Nat /\ iv \in [1..IvBytes -> 0..Byte - 1]
        BY <2>1
      <4>3. SealedWith(s, iv, n, l)
        BY <4>1, <4>2, SealedParts
      <4>. QED
        BY <4>2, <4>3
    <3> HIDE DEF m
    <3>5. ASSUME m.tag = Tag(m.iv, m.ad, m.ciphertext) PROVE d.message = m
      <4>1. PICK iv \in [1..IvBytes -> 0..Byte - 1] : a.message.iv = iv
        BY <3>4 DEF SealedWith
      <4>2. PICK x \in Nat : b.message.ad = ZeroBytes(x)
        BY <3>4 DEF SealedWith
      <4>3. PICK n \in Nat : c.message.ciphertext = [k \in 1..n |-> c.message.ciphertext[k]]
        BY <3>4 DEF SealedWith
      <4>4. PICK jv \in [1..IvBytes -> 0..Byte - 1], l \in Nat, y \in Nat : SealedWith(d, jv, l, y)
        BY <3>4
      <4> DEFINE e == c.message.ciphertext
                 f == d.message.ciphertext
      <4>5. Tag(iv, ZeroBytes(x), e) = Tag(jv, ZeroBytes(y), f)
        BY <3>3, <3>5, <4>1, <4>2, <4>4 DEF SealedWith
      <4>6. Numbered(e, n) /\ Numbered(f, l)
        BY <4>3, <4>4 DEF SealedWith, Numbered
      <4> HIDE DEF e, f
      <4>7. iv = jv /\ x = y /\ e = f
        BY <4>1, <4>2, <4>3, <4>4, <4>5, <4>6, TagInjective
      <4>8. d.message.iv = a.message.iv /\ d.message.ad = b.message.ad /\ d.message.ciphertext = c.message.ciphertext
        BY <4>1, <4>2, <4>4, <4>7 DEF e, f, SealedWith
      <4>9. d.message = [iv |-> d.message.iv, ad |-> d.message.ad,
                         ciphertext |-> d.message.ciphertext, tag |-> d.message.tag]
        BY <4>4 DEF SealedWith
      <4>. QED
        BY <4>8, <4>9 DEF m
    <3>6. ASSUME NEW s \in sealed, s.message = m
          PROVE  m.tag = Tag(m.iv, m.ad, m.ciphertext) /\ Decryption(m).plaintext = s.plaintext
      <4>1. PICK iv \in [1..IvBytes -> 0..Byte - 1], n \in Nat :
              /\ s.message.iv = iv /\ s.plaintext = PlainBytes(n)
              /\ s.message.ciphertext = AES_CTR_Encrypt(J0_Incremented(iv), PlainBytes(n))
              /\ s.message.tag = Tag(iv, s.message.ad, s.message.ciphertext)
        BY <3>4 DEF SealedWith
      <4>2. m.tag = Tag(m.iv, m.ad, m.ciphertext)
        BY <3>6, <4>1
      <4>3. Decryption(m).plaintext = AES_CTR_Encrypt(J0_Incremented(iv), AES_CTR_Encrypt(J0_Incremented(iv), PlainBytes(n)))
        BY <3>2, <3>6, <4>1
      <4>. QED
        BY <4>1, <4>2, <4>3, EncryptedTwice
    <3>7. opened'.message = <<m>> /\ opened'.plaintext = Decryption(m).plaintext /\ opened'.ok = Decryption(m).ok
      BY <3>1
    <3>8. opened'.ok <=> \E s \in sealed : s.message = m
      BY <3>2, <3>5, <3>6, <3>7
    <3>9. (\E s \in sealed : s.message.iv = m.iv) /\ \A s \in sealed : s.message = m => opened'.plaintext = s.plaintext
      BY <3>3, <3>6, <3>7
    <3>10. opened'.message = <<>> \/ \E w :
             /\ opened'.message = <<w>> /\ (\E s \in sealed' : s.message.iv = w.iv)
             /\ opened'.ok <=> \E s \in sealed' : s.message = w
             /\ \A s \in sealed' : s.message = w => opened'.plaintext = s.plaintext
      BY <3>1, <3>7, <3>8, <3>9
    <3>. QED
      BY <2>2, <3>1, <3>10 DEF GcmInv
  <2>5. CASE UNCHANGED gcmVars
    BY <2>5 DEF GcmInv, gcmVars
  <2>. QED
    BY <2>3, <2>4, <2>5 DEF GcmNext
<1>. QED
  BY <1>1, <1>2, PTL DEF GcmSpec

\* Exactly what was sealed is opened (aes-gcm.cpp): for all lengths and IVs.
THEOREM GcmOpensOnlyWhatWasSealed == GcmSpec => []OpensOnlyWhatWasSealed
<1>1. GcmInv => OpensOnlyWhatWasSealed
  <2> SUFFICES ASSUME GcmInv, opened.message # <<>>
               PROVE  /\ opened.ok <=> \E s \in sealed : s.message = Head(opened.message)
                      /\ \A s \in sealed : s.message = Head(opened.message) => opened.plaintext = s.plaintext
    BY DEF OpensOnlyWhatWasSealed
  <2>1. PICK m : /\ opened.message = <<m>>
                 /\ opened.ok <=> \E s \in sealed : s.message = m
                 /\ \A s \in sealed : s.message = m => opened.plaintext = s.plaintext
    BY DEF GcmInv
  <2>2. Head(opened.message) = m
    BY <2>1
  <2>. QED
    BY <2>1, <2>2
<1>. QED
  BY <1>1, GcmInvariance, PTL

\* No counter block is used twice (aes-ctr.cpp, aes-gcm.cpp): for all lengths that an int
\* can count and all IVs, the ones from which a carry would be seen included.
THEOREM GcmCounterBlocksDiffer == GcmSpec => []CounterBlocksDiffer
<1>1. GcmInv => CounterBlocksDiffer
  <2> SUFFICES ASSUME GcmInv PROVE CounterBlocksDiffer
    OBVIOUS
  <2>1. IVs \subseteq [1..IvBytes -> 0..Byte - 1] /\ Lengths \subseteq Nat
    BY GcmAssumption
  <2>2. ASSUME NEW s \in sealed
        PROVE  BlocksFrom(s.message, s.message.iv)
    <3>1. PICK iv \in IVs, n \in Lengths, a \in Lengths :
            n + CipherBlock - 1 <= INT_MAX /\ s = SealedAs(iv, n, a)
      BY DEF GcmInv
    <3>2. n \in Nat /\ a \in Nat
      BY <2>1
    <3>3. s.message.iv = iv /\ Len(s.message.ciphertext) = n
      <4>1. SealedWith(s, iv, n, a)
        BY <3>1, <3>2, SealedParts
      <4>. QED
        BY <4>1 DEF SealedWith
    <3> DEFINE m == s.message
    <3>4. m.iv = iv /\ Len(m.ciphertext) = n
      BY <3>3
    <3> HIDE DEF m
    <3>5. BlocksFrom(m, iv)
      BY <3>1, <3>2, <3>4, BlocksOfMessage
    <3>. QED
      BY <3>3, <3>5 DEF m
  <2>3. ASSUME NEW iv, NEW jv, NEW x \in Nat, NEW y \in Nat, x < Values(CtrBytes), y < Values(CtrBytes),
               CounterOf(iv, x) = CounterOf(jv, y)
        PROVE  x = y /\ \A k \in 1..IvBytes : iv[k] = jv[k]
    BY <2>3, CountersDiffer
  <2>4. Values(CtrBytes) \in Nat
    BY GcmNumbers
  <2>5. ASSUME NEW s \in sealed, NEW j \in DOMAIN CounterBlocks(s.message), NEW k \in DOMAIN CounterBlocks(s.message),
               CounterBlocks(s.message)[j] = CounterBlocks(s.message)[k]
        PROVE  j = k
    <3> DEFINE blocks == CounterBlocks(s.message)
               iv == s.message.iv
    <3>1. PICK N \in Nat :
            /\ N + 1 < Values(CtrBytes) /\ DOMAIN blocks = 1..N + 2 /\ blocks[1] = CounterOf(NoIv, 0)
            /\ \A i \in 2..N + 2 : blocks[i] = CounterOf(iv, i - 1)
      BY <2>2 DEF BlocksFrom
    <3>2. j \in 1..N + 2 /\ k \in 1..N + 2 /\ blocks[j] = blocks[k]
      BY <2>5, <3>1
    <3> HIDE DEF blocks, iv
    <3>3. ASSUME NEW i \in 2..N + 2 PROVE i - 1 \in Nat /\ i - 1 < Values(CtrBytes) /\ i - 1 # 0
      BY <2>4, <3>1
    <3>4. 0 \in Nat /\ 0 < Values(CtrBytes)
      BY <2>4, <3>1
    <3>5. CASE j = 1 /\ k # 1
      <4>1. k \in 2..N + 2
        BY <3>2, <3>5
      <4>2. CounterOf(NoIv, 0) = CounterOf(iv, k - 1)
        BY <3>1, <3>2, <3>5, <4>1
      <4>3. 0 = k - 1
        <5> DEFINE x == 0
                   y == k - 1
        <5>1. x \in Nat /\ y \in Nat /\ x < Values(CtrBytes) /\ y < Values(CtrBytes) /\ CounterOf(NoIv, x) = CounterOf(iv, y)
          BY <3>3, <3>4, <4>1, <4>2
        <5> HIDE DEF x, y
        <5>2. x = y
          BY <2>3, <5>1
        <5>. QED
          BY <5>2 DEF x, y
      <4>. QED
        BY <3>3, <4>1, <4>3
    <3>6. CASE j # 1 /\ k = 1
      <4>1. j \in 2..N + 2
        BY <3>2, <3>6
      <4>2. CounterOf(NoIv, 0) = CounterOf(iv, j - 1)
        BY <3>1, <3>2, <3>6, <4>1
      <4>3. 0 = j - 1
        <5> DEFINE x == 0
                   y == j - 1
        <5>1. x \in Nat /\ y \in Nat /\ x < Values(CtrBytes) /\ y < Values(CtrBytes) /\ CounterOf(NoIv, x) = CounterOf(iv, y)
          BY <3>3, <3>4, <4>1, <4>2
        <5> HIDE DEF x, y
        <5>2. x = y
          BY <2>3, <5>1
        <5>. QED
          BY <5>2 DEF x, y
      <4>. QED
        BY <3>3, <4>1, <4>3
    <3>7. CASE j # 1 /\ k # 1
      <4>1. j \in 2..N + 2 /\ k \in 2..N + 2
        BY <3>2, <3>7
      <4> DEFINE x == j - 1
                 y == k - 1
      <4>2. x \in Nat /\ y \in Nat /\ x < Values(CtrBytes) /\ y < Values(CtrBytes) /\ CounterOf(iv, x) = CounterOf(iv, y)
        BY <3>1, <3>2, <3>3, <4>1
      <4> HIDE DEF x, y
      <4>3. x = y
        BY <2>3, <4>2
      <4>. QED
        BY <4>1, <4>3 DEF x, y
    <3>. QED
      BY <3>5, <3>6, <3>7
  <2>6. ASSUME NEW s \in sealed, NEW t \in sealed, s # t,
               NEW j \in 2..Len(CounterBlocks(s.message)), NEW k \in 2..Len(CounterBlocks(t.message))
        PROVE  CounterBlocks(s.message)[j] # CounterBlocks(t.message)[k]
    <3> SUFFICES ASSUME CounterBlocks(s.message)[j] = CounterBlocks(t.message)[k] PROVE FALSE
      OBVIOUS
    <3> DEFINE iv == s.message.iv
               jv == t.message.iv
    <3>1. PICK N \in Nat :
            /\ N + 1 < Values(CtrBytes) /\ Len(CounterBlocks(s.message)) = N + 2
            /\ \A i \in 2..N + 2 : CounterBlocks(s.message)[i] = CounterOf(iv, i - 1)
      BY <2>2 DEF BlocksFrom
    <3>2. PICK M \in Nat :
            /\ M + 1 < Values(CtrBytes) /\ Len(CounterBlocks(t.message)) = M + 2
            /\ \A i \in 2..M + 2 : CounterBlocks(t.message)[i] = CounterOf(jv, i - 1)
      BY <2>2 DEF BlocksFrom
    <3>3. iv \in [1..IvBytes -> 0..Byte - 1] /\ jv \in [1..IvBytes -> 0..Byte - 1] /\ iv # jv
      <4>1. \A u \in sealed : u.message.iv \in IVs
        <5> SUFFICES ASSUME NEW u \in sealed PROVE u.message.iv \in IVs
          OBVIOUS
        <5>1. PICK v \in IVs, n \in Lengths, a \in Lengths : u = SealedAs(v, n, a)
          BY DEF GcmInv
        <5>2. n \in Nat /\ a \in Nat
          BY <2>1
        <5>3. u.message.iv = v
          BY <5>1, <5>2, SealedParts, ZenonT(30) DEF SealedWith
        <5>. QED
          BY <5>3
      <4>2. iv # jv
        BY <2>6 DEF GcmInv
      <4>. QED
        BY <2>1, <4>1, <4>2
    <3> HIDE DEF iv, jv
    <3> DEFINE x == j - 1
               y == k - 1
    <3>4. x \in Nat /\ y \in Nat /\ x < Values(CtrBytes) /\ y < Values(CtrBytes) /\ CounterOf(iv, x) = CounterOf(jv, y)
      <4>1. j \in 2..N + 2 /\ k \in 2..M + 2
        BY <3>1, <3>2
      <4>2. x \in Nat /\ y \in Nat /\ x < Values(CtrBytes) /\ y < Values(CtrBytes)
        BY <2>4, <3>1, <3>2, <4>1
      <4>. QED
        BY <3>1, <3>2, <4>1, <4>2
    <3> HIDE DEF x, y
    <3>5. \A i \in 1..IvBytes : iv[i] = jv[i]
      BY <2>3, <3>4
    <3>6. iv = [i \in 1..IvBytes |-> iv[i]] /\ jv = [i \in 1..IvBytes |-> jv[i]]
      BY <3>3
    <3>7. iv = jv
      BY <3>5, <3>6
    <3>. QED
      BY <3>3, <3>7
  <2>. QED
    BY <2>5, <2>6 DEF CounterBlocksDiffer
<1>. QED
  BY <1>1, GcmInvariance, PTL

-----------------------------------------------------------------------------
(* HKDF. *)

\* The sizes for which this is proved: a hash is at most a block.
\* The sizes that HKDF depends on.
LEMMA HkdfSizes ==
  /\ Block \in Nat /\ HashBytes \in Nat \ {0} /\ HashBytes <= Block
  /\ Byte \in Nat \ {0} /\ MaxOkm \in Nat /\ SaltLengths \subseteq Nat
  BY ShaAssumption, HkdfAssumption

\* C[1], C[2], ..., C[n] are the blocks that HKDF_Expand chains.
IsChain(C, key, info, n) ==
  /\ C = [i \in 0..n |-> C[i]]
  /\ C[0] = <<>>
  /\ \A i \in 1..n : C[i] = hmac_sha256(key, C[i - 1] \o Append(info, <<"byte", i % Byte>>))

\* The first n bytes of okm are those of the blocks C[1], C[2], ...
BytesOf(C, n) ==
  \A k \in 1..n : okm[k] = C[1 + ((k - 1) \div HashBytes)][1 + ((k - 1) % HashBytes)]

\* The last block is kept for the next one.
KeepsTheLast(C) ==
  IF iteration = 0 THEN len_t = 0 ELSE len_t = HashBytes /\ previous = C[iteration]

Expanded ==
  /\ parameters.L_bytes \in Nat /\ \E j \in Nat : Numbered(parameters.info, j)
  /\ Numbered(prk, HashBytes) /\ Numbered(okm, parameters.L_bytes)
  /\ iteration \in 0..HashesFor(parameters.L_bytes)
  /\ offset_okm = IF HashBytes * iteration <= parameters.L_bytes THEN HashBytes * iteration ELSE parameters.L_bytes
  /\ \E C : /\ IsChain(C, prk, parameters.info, iteration)
            /\ KeepsTheLast(C) /\ BytesOf(C, offset_okm)

\* The invariant: what is in okm are the blocks of a chain, and its last block is in previous.
HkdfInv ==
  /\ Numbered(previous, HashBytes)
  /\ hkdfPhase = "idle" => len_t = 0 /\ offset_okm = 0 /\ iteration = 0
  /\ hkdfPhase # "idle" => Expanded
  /\ hkdfPhase = "returned" => iteration = HashesFor(parameters.L_bytes)

\* The hash is ideal: different bytes, different digests.
LEMMA DigestInjective ==
  ASSUME NEW x, NEW y, NEW k \in 1..HashBytes, NEW l \in 1..HashBytes, Digest(x)[k] = Digest(y)[l]
  PROVE  x = y /\ k = l
  BY HkdfSizes DEF Digest

LEMMA DigestNumbered ==
  ASSUME NEW x PROVE Numbered(Digest(x), HashBytes)
  BY DEF Digest, Numbered

\* The key of hmac_sha256 fills a block.
LEMMA KeyFillsABlock ==
  ASSUME NEW key, NEW n \in Nat, Numbered(key, n), NEW pad
  PROVE  Numbered(Masked(KeyBlock(key), pad), Block)
<1> DEFINE short == IF Len(key) > Block THEN Digest(key) ELSE key
           m == IF n > Block THEN HashBytes ELSE n
           l == Block - m
           zeros == Zeros(l)
<1>1. Len(key) = n
  BY DEF Numbered
<1>2. Numbered(Digest(key), HashBytes)
  BY DigestNumbered, Zenon
<1>3. Numbered(short, m)
  BY <1>1, <1>2
<1>4. m \in Nat /\ l \in Nat /\ m + l = Block
  BY HkdfSizes
<1>5. Len(short) = m
  <2> HIDE DEF short, m
  <2>. QED
    BY <1>3, <1>4 DEF Numbered
<1>6. Numbered(zeros, l)
  BY DEF Zeros, Numbered
<1>7. KeyBlock(key) = short \o zeros
  BY <1>5 DEF KeyBlock
<1> HIDE DEF short, m, l, zeros
<1>8. OneAfterTheOther(short \o zeros, short, zeros, m, l)
  BY <1>3, <1>4, <1>6, Concatenation, Zenon
<1> DEFINE block == KeyBlock(key)
<1> HIDE DEF block
<1>9. Numbered(block, Block)
  BY <1>4, <1>7, <1>8 DEF block, OneAfterTheOther
<1>10. Numbered(Masked(block, pad), Block)
  BY <1>9 DEF Numbered, Masked
<1>. QED
  BY <1>10 DEF block

\* Under one key, different bytes have different HMACs.
LEMMA HmacInjective ==
  ASSUME NEW key, NEW n \in Nat, Numbered(key, n),
         NEW l \in Nat, NEW m \in Nat, NEW x, NEW y, Numbered(x, l), Numbered(y, m),
         hmac_sha256(key, x) = hmac_sha256(key, y)
  PROVE  l = m /\ x = y
<1> DEFINE outer == Masked(KeyBlock(key), "opad")
           inner == Masked(KeyBlock(key), "ipad")
           left == Digest(inner \o x)
           right == Digest(inner \o y)
<1>1. Numbered(outer, Block) /\ Numbered(inner, Block)
  BY KeyFillsABlock
<1>2. Numbered(left, HashBytes) /\ Numbered(right, HashBytes)
  BY DigestNumbered, Zenon
<1>3. Block \in Nat /\ HashBytes \in Nat /\ 1 \in 1..HashBytes
  BY HkdfSizes
<1>4. Digest(outer \o left) = Digest(outer \o right)
  BY DEF hmac_sha256
<1> HIDE DEF outer, inner, left, right
<1> DEFINE one == 1
<1>5. one \in 1..HashBytes
  BY <1>3
<1> HIDE DEF one
<1>6. outer \o left = outer \o right
  <2>1. Digest(outer \o left)[one] = Digest(outer \o right)[one]
    BY <1>4
  <2>. QED
    BY <1>5, <2>1, DigestInjective, Zenon
<1> DEFINE w == outer \o left
           v == inner \o x
<1>7. left = right
  <2>1. OneAfterTheOther(w, outer, left, Block, HashBytes)
    BY <1>1, <1>2, <1>3, Concatenation, Zenon
  <2>2. OneAfterTheOther(w, outer, right, Block, HashBytes)
    BY <1>1, <1>2, <1>3, <1>6, Concatenation, Zenon
  <2> HIDE DEF w
  <2>. QED
    BY <1>2, <1>3, <2>1, <2>2, SameRest
<1>8. inner \o x = inner \o y
  <2>1. Digest(inner \o x)[one] = Digest(inner \o y)[one]
    BY <1>7 DEF left, right
  <2>. QED
    BY <1>5, <2>1, DigestInjective, Zenon
<1>9. OneAfterTheOther(v, inner, x, Block, l)
  BY <1>1, <1>3, Concatenation, Zenon
<1>10. OneAfterTheOther(v, inner, y, Block, m)
  BY <1>1, <1>3, <1>8, Concatenation, Zenon
<1> HIDE DEF v
<1>. QED
  BY <1>3, <1>9, <1>10, SameRest

\* What a block of the chain is a hash of.
LEMMA BlockOfChain ==
  ASSUME NEW C, NEW key, NEW info, NEW n \in Nat, IsChain(C, key, info, n),
         NEW i \in 1..n
  PROVE  Numbered(C[i], HashBytes) /\ \E x : C[i] = Digest(x)
<1>1. \E x : C[i] = Digest(x)
  BY Zenon DEF IsChain, hmac_sha256
<1>. QED
  BY <1>1, DigestNumbered, Zenon

\* No block of a chain is there twice.
LEMMA ChainDiffers ==
  ASSUME NEW C, NEW key, NEW info, NEW n \in Nat, IsChain(C, key, info, n),
         NEW j \in Nat, Numbered(info, j), NEW l \in Nat, Numbered(key, l),
         NEW a \in 1..n, NEW b \in 1..n, C[a] = C[b]
  PROVE  a = b
<1> DEFINE S == {i \in 1..n : \E k \in 1..n : i < k /\ C[i] = C[k]}
<1>1. SUFFICES S = {}
  <2>1. ~(a < b) /\ ~(b < a)
    BY <1>1
  <2>. QED
    BY <2>1
<1>2. SUFFICES ASSUME S # {} PROVE FALSE
  OBVIOUS
<1>3. S \subseteq Nat
  OBVIOUS
<1> HIDE DEF S
<1>4. PICK i \in S : \A k \in S : i <= k
  BY <1>2, <1>3, LeastNumber, Zenon
<1>5. PICK k \in 1..n : i < k /\ C[i] = C[k]
  BY <1>4 DEF S
<1>6. i \in 1..n /\ i \in Nat
  BY <1>4 DEF S
<1> DEFINE rest(h) == Append(info, <<"byte", h % Byte>>)
           len == j + 1
           p == i - 1
           q == k - 1
<1>7. \A h : Numbered(rest(h), len)
  <2> TAKE h
  <2> DEFINE x == <<"byte", h % Byte>>
             empty == <<>>
             zero == 0
  <2>1. Numbered(empty, zero) /\ zero \in Nat
    BY DEF Numbered
  <2> HIDE DEF x, empty, zero
  <2>2. Numbered(Append(info, x), j + 1)
    BY <2>1, LastOfThree, Zenon
  <2>. QED
    BY <2>2 DEF x
<1>8. C[i] = hmac_sha256(key, C[p] \o rest(i)) /\ C[k] = hmac_sha256(key, C[q] \o rest(k))
  BY <1>5, <1>6 DEF IsChain
<1>9. len \in Nat /\ q \in 1..n
  BY <1>5, <1>6
<1>10. Numbered(C[q], HashBytes)
  BY <1>9, BlockOfChain, Zenon
<1> DEFINE ri == rest(i)
           rk == rest(k)
<1>11. Numbered(ri, len) /\ Numbered(rk, len)
  BY <1>7
<1>12. HashBytes \in Nat /\ HashBytes > 0
  BY HkdfSizes
<1> HIDE DEF ri, rk, rest, len
<1>13. OneAfterTheOther(C[q] \o rk, C[q], rk, HashBytes, len)
  BY <1>9, <1>10, <1>11, <1>12, Concatenation, Zenon
<1>14. hmac_sha256(key, C[p] \o ri) = hmac_sha256(key, C[q] \o rk)
  BY <1>5, <1>8 DEF ri, rk
<1>15. HashBytes + len \in Nat /\ Numbered(C[q] \o rk, HashBytes + len)
  BY <1>9, <1>12, <1>13 DEF OneAfterTheOther
<1>16. CASE p = 0
  <2> DEFINE zero == 0
  <2>1. zero \in Nat /\ Numbered(C[p], zero)
    BY <1>16 DEF IsChain, Numbered
  <2>2. zero + len \in Nat /\ zero + len # HashBytes + len
    BY <1>9, <1>12
  <2> HIDE DEF zero, p, q
  <2>3. OneAfterTheOther(C[p] \o ri, C[p], ri, zero, len)
    BY <1>9, <1>11, <2>1, Concatenation, Zenon
  <2>4. Numbered(C[p] \o ri, zero + len)
    BY <2>3 DEF OneAfterTheOther
  <2>5. zero + len = HashBytes + len
    BY <1>14, <1>15, <2>2, <2>4, HmacInjective, Zenon
  <2>. QED
    BY <2>2, <2>5
<1>17. CASE p # 0
  <2>1. p \in 1..n
    BY <1>6, <1>17
  <2>2. Numbered(C[p], HashBytes)
    BY <2>1, BlockOfChain, Zenon
  <2> HIDE DEF p, q
  <2>3. OneAfterTheOther(C[p] \o ri, C[p], ri, HashBytes, len)
    BY <1>9, <1>11, <1>12, <2>2, Concatenation, Zenon
  <2>4. Numbered(C[p] \o ri, HashBytes + len)
    BY <2>3 DEF OneAfterTheOther
  <2>5. C[p] \o ri = C[q] \o rk
    BY <1>14, <1>15, <2>4, HmacInjective, Zenon
  <2>6. C[p] = C[q]
    BY <1>9, <1>10, <1>11, <1>12, <2>2, <2>5, SameFirst, Zenon
  <2>7. p \in S
    BY <1>5, <1>6, <1>9, <2>1, <2>6 DEF S, p, q
  <2>8. i <= p
    BY <1>4, <2>7
  <2>. QED
    BY <1>6, <2>8 DEF p
<1>. QED
  BY <1>16, <1>17

\* The number of blocks is the least that has room for n bytes.
LEMMA NumberOfBlocks ==
  ASSUME NEW n \in Nat
  PROVE  /\ HashesFor(n) \in Nat /\ n <= HashBytes * HashesFor(n)
         /\ \A i \in Nat : i < HashesFor(n) => HashBytes * i < n
<1> DEFINE x == n + HashBytes - 1
           q == x \div HashBytes
<1>1. HashBytes \in Nat /\ HashBytes > 0 /\ x \in Nat /\ x \in Int
  BY HkdfSizes
<1> HIDE DEF x
<1>2. /\ x \div HashBytes \in Int /\ x % HashBytes \in 0..HashBytes - 1
      /\ x = HashBytes * (x \div HashBytes) + (x % HashBytes)
  BY <1>1, DivMod
<1>3. x \div HashBytes >= 0
  <2> SUFFICES ASSUME x \div HashBytes <= -1 PROVE FALSE
    BY <1>2
  <2>1. -1 \in Int /\ HashBytes * (x \div HashBytes) <= HashBytes * (-1)
    BY <1>1, <1>2, MultiplesGrow
  <2>. QED
    BY <1>1, <1>2, <2>1
<1>4. HashesFor(n) = q /\ q \in Nat
  BY <1>2, <1>3 DEF HashesFor, x
<1> DEFINE r == x % HashBytes
<1>5. x = HashBytes * q + r /\ r \in 0..HashBytes - 1
  BY <1>2
<1> HIDE DEF q, r
<1>6. HashBytes * q \in Int
  BY <1>1, <1>4
<1>7. n <= HashBytes * q
  BY <1>1, <1>5, <1>6 DEF x
<1>8. ASSUME NEW i \in Nat, i < q PROVE HashBytes * i < n
  <2>1. q - 1 \in Int /\ i <= q - 1
    BY <1>4, <1>8
  <2>2. HashBytes * i \in Int /\ HashBytes * i <= HashBytes * (q - 1)
    BY <1>1, <2>1, MultiplesGrow
  <2>3. HashBytes * (q - 1) = HashBytes * q - HashBytes
    BY <1>1, <1>4
  <2>. QED
    BY <1>1, <1>5, <1>6, <2>2, <2>3 DEF x
<1>. QED
  BY <1>4, <1>7, <1>8

\* Byte o + c of the output, when o is a multiple of the size of a hash.
LEMMA BlockOfByte ==
  ASSUME NEW i \in Nat, NEW c \in 1..HashBytes
  PROVE  ((HashBytes * i + c) - 1) \div HashBytes = i /\ ((HashBytes * i + c) - 1) % HashBytes = c - 1
<1> DEFINE x == (HashBytes * i + c) - 1
           r == c - 1
<1>1. HashBytes \in Int /\ HashBytes > 0 /\ HashBytes * i \in Int
  BY HkdfSizes
<1>2. x \in Int /\ r \in 0..HashBytes - 1 /\ x = HashBytes * i + r
  BY <1>1
<1> HIDE DEF x, r
<1>3. x \div HashBytes = i /\ x % HashBytes = r
  BY <1>1, <1>2, DivUnique
<1>. QED
  BY <1>3 DEF x, r

\* Byte k of the output is in the first i blocks if k is at most HashBytes * i.
LEMMA ByteOfBlock ==
  ASSUME NEW i \in Nat, NEW k \in 1..HashBytes * i
  PROVE  1 + ((k - 1) \div HashBytes) \in 1..i /\ 1 + ((k - 1) % HashBytes) \in 1..HashBytes
<1> DEFINE x == k - 1
           q == x \div HashBytes
           r == x % HashBytes
<1>1. HashBytes \in Nat /\ HashBytes > 0 /\ x \in Int /\ x >= 0 /\ HashBytes * i \in Int /\ x < HashBytes * i
  BY HkdfSizes
<1> HIDE DEF x
<1>2. q \in Int /\ r \in 0..HashBytes - 1 /\ x = HashBytes * q + r
  BY <1>1, DivMod
<1> HIDE DEF q, r
<1>3. q >= 0
  <2> SUFFICES ASSUME q <= -1 PROVE FALSE
    BY <1>2
  <2>1. -1 \in Int /\ HashBytes * q <= HashBytes * (-1)
    BY <1>1, <1>2, MultiplesGrow
  <2>. QED
    BY <1>1, <1>2, <2>1
<1>4. q < i
  <2> SUFFICES ASSUME i <= q PROVE FALSE
    BY <1>2
  <2>1. i \in Int /\ HashBytes * i <= HashBytes * q
    BY <1>1, <1>2, MultiplesGrow
  <2>2. HashBytes * q \in Int
    BY <1>1, <1>2
  <2>. QED
    BY <1>1, <1>2, <2>1, <2>2
<1>5. 1 + q \in 1..i /\ 1 + r \in 1..HashBytes
  BY <1>1, <1>2, <1>3, <1>4
<1>. QED
  BY <1>5 DEF x, q, r

\* A call starts with a chain without blocks.
LEMMA HkdfStarts ==
  ASSUME HkdfInv, NEW salted, NEW s, NEW j \in Nat, NEW n \in Nat,
         HKDF(salted, s, j, n)
  PROVE  HkdfInv'
<1>1. HashBytes \in Nat /\ HashBytes > 0
  BY HkdfSizes
<1>2. /\ hkdfPhase' = "expanding" /\ parameters'.L_bytes = n /\ parameters'.info = Input("info", j)
      /\ previous' = previous /\ len_t' = 0 /\ offset_okm' = 0 /\ iteration' = 0
      /\ okm' = Uninitialised(n) /\ prk' = HKDF_Extract(salted, parameters'.salt, parameters'.ikm)
  BY DEF HKDF, HkdfInv
<1>3. Numbered(parameters'.info, j)
  BY <1>2 DEF Input, Numbered
<1>4. Numbered(prk', HashBytes)
  BY <1>2, DigestNumbered, Zenon DEF HKDF_Extract, hmac_sha256
<1>5. Numbered(okm', n)
  BY <1>2 DEF Uninitialised, Numbered
<1>6. HashesFor(n) \in Nat
  BY NumberOfBlocks
<1> DEFINE C == [i \in 0..0 |-> <<>>]
<1>7. IsChain(C, prk', parameters'.info, 0)
  BY DEF IsChain
<1>8. Expanded'
  <2>1. \E D : /\ IsChain(D, prk', parameters'.info, iteration')
               /\ KeepsTheLast(D)' /\ BytesOf(D, offset_okm)'
    <3> HIDE DEF C
    <3>1. KeepsTheLast(C)' /\ BytesOf(C, offset_okm)'
      BY <1>2 DEF KeepsTheLast, BytesOf
    <3>. QED
      BY <1>2, <1>7, <3>1
  <2>2. offset_okm' = IF HashBytes * iteration' <= parameters.L_bytes' THEN HashBytes * iteration' ELSE parameters.L_bytes'
    BY <1>1, <1>2
  <2>3. parameters.L_bytes' = n /\ iteration' \in 0..HashesFor(n)
    BY <1>2, <1>6
  <2>. QED
    BY <1>3, <1>4, <1>5, <2>1, <2>2, <2>3 DEF Expanded, IsChain
<1>9. Numbered(previous', HashBytes)
  BY <1>2 DEF HkdfInv
<1>. QED
  BY <1>2, <1>8, <1>9 DEF HkdfInv

\* An iteration makes the next block of the chain and copies it, or its part that was asked for.
LEMMA HkdfExpands ==
  ASSUME HkdfInv, HKDF_Expand
  PROVE  HkdfInv'
<1> DEFINE L == parameters.L_bytes
           T == hmac_sha256(prk, data_con)
           copy == IF offset_okm + HashBytes <= L THEN HashBytes ELSE L - offset_okm
           next == iteration + 1
<1>1. HashBytes \in Nat /\ HashBytes > 0
  BY HkdfSizes
<1>2. /\ Numbered(previous, HashBytes) /\ L \in Nat
      /\ Numbered(prk, HashBytes) /\ Numbered(okm, L)
      /\ iteration \in 0..HashesFor(L)
      /\ offset_okm = IF HashBytes * iteration <= L THEN HashBytes * iteration ELSE L
  BY DEF HKDF_Expand, HkdfInv, Expanded
<1>3. PICK j \in Nat : Numbered(parameters.info, j)
  BY DEF HKDF_Expand, HkdfInv, Expanded
<1>4. PICK C : /\ IsChain(C, prk, parameters.info, iteration)
               /\ KeepsTheLast(C) /\ BytesOf(C, offset_okm)
  BY DEF HKDF_Expand, HkdfInv, Expanded
<1>5. iteration < HashesFor(L) /\ HashesFor(L) \in Nat /\ iteration \in Nat
  BY <1>2, NumberOfBlocks DEF HKDF_Expand
<1>6. Len(okm) = L
  BY <1>2 DEF Numbered
<1>7. /\ hkdfPhase = "expanding" /\ hkdfPhase' = hkdfPhase
      /\ okm' = SubSeq(okm, 1, offset_okm) \o SubSeq(T, 1, copy) \o SubSeq(okm, offset_okm + copy + 1, L)
      /\ previous' = T /\ len_t' = HashBytes /\ offset_okm' = offset_okm + copy /\ iteration' = next
      /\ parameters' = parameters /\ prk' = prk
  BY <1>6 DEF HKDF_Expand, ChainedBytes
<1>8. Numbered(T, HashBytes)
  BY DigestNumbered, Zenon DEF hmac_sha256
<1>9. HashBytes * iteration < L /\ HashBytes * iteration \in Nat
  BY <1>1, <1>2, <1>5, NumberOfBlocks
<1>10. offset_okm = HashBytes * iteration
  BY <1>2, <1>9
<1>11. T = hmac_sha256(prk, C[iteration] \o Append(parameters.info, <<"byte", next % Byte>>))
  <2> DEFINE part == SubSeq(previous, 1, len_t)
  <2>1. SUFFICES part = C[iteration]
    BY DEF data_con, Counter
  <2>2. CASE iteration = 0
    <3>1. len_t = 0 /\ C[iteration] = <<>>
      BY <1>4, <2>2 DEF KeepsTheLast, IsChain
    <3>. QED
      BY <3>1
  <2>3. CASE iteration # 0
    <3>1. len_t = HashBytes /\ C[iteration] = previous
      BY <1>4, <2>3 DEF KeepsTheLast
    <3> DEFINE zero == 0
    <3>2. zero \in Nat /\ zero <= HashBytes /\ HashBytes <= HashBytes /\ HashBytes - zero = HashBytes
      BY <1>1
    <3> HIDE DEF zero
    <3>3. PartAfter(SubSeq(previous, zero + 1, HashBytes), previous, zero, HashBytes - zero)
      BY <1>1, <1>2, <3>2, Cut, Zenon
    <3>4. PartAfter(part, previous, 0, HashBytes)
      BY <3>1, <3>2, <3>3 DEF zero
    <3> HIDE DEF part
    <3>5. Numbered(part, HashBytes)
      BY <3>4 DEF PartAfter
    <3>6. \A k \in 1..HashBytes : part[k] = previous[k]
      <4> TAKE k \in 1..HashBytes
      <4>1. 0 + k = k
        OBVIOUS
      <4>. QED
        BY <3>4, <4>1 DEF PartAfter
    <3>. QED
      BY <1>2, <3>1, <3>5, <3>6 DEF Numbered
  <2>. QED
    BY <2>2, <2>3
<1> DEFINE D == [i \in 0..next |-> IF i = next THEN T ELSE C[i]]
<1> HIDE DEF T
<1>12. IsChain(D, prk, parameters.info, next)
  <2>1. D = [i \in 0..next |-> D[i]]
    OBVIOUS
  <2>2. D[0] = <<>>
    BY <1>4, <1>5 DEF IsChain
  <2>3. ASSUME NEW i \in 1..next
        PROVE  D[i] = hmac_sha256(prk, D[i - 1] \o Append(parameters.info, <<"byte", i % Byte>>))
    <3>1. i - 1 \in 0..next /\ i - 1 # next /\ D[i - 1] = C[i - 1]
      BY <1>5
    <3>2. CASE i = next
      <4>1. D[i] = T /\ i - 1 = iteration
        BY <1>5, <3>2
      <4>. QED
        BY <1>11, <3>1, <3>2, <4>1
    <3>3. CASE i # next
      <4>1. D[i] = C[i] /\ i \in 1..iteration
        BY <1>5, <3>3
      <4>. QED
        BY <1>4, <3>1, <4>1 DEF IsChain
    <3>. QED
      BY <3>2, <3>3
  <2> HIDE DEF D
  <2>. QED
    BY <2>1, <2>2, <2>3 DEF IsChain
<1>13. /\ copy \in 0..HashBytes /\ copy \in Nat /\ offset_okm + copy <= L
       /\ offset_okm \in Nat /\ offset_okm + copy = IF HashBytes * next <= L THEN HashBytes * next ELSE L
  <2>1. HashBytes * next = HashBytes * iteration + HashBytes
    BY <1>1, <1>5
  <2>. QED
    BY <1>1, <1>2, <1>9, <1>10, <2>1
<1> HIDE DEF copy, L
<1>14. /\ Numbered(okm', L)
       /\ \A k \in 1..offset_okm : okm'[k] = okm[k]
       /\ \A k \in 1..copy : okm'[offset_okm + k] = T[k]
  <2> DEFINE r == okm'
             o == offset_okm
  <2>1. /\ o \in Nat /\ copy \in Nat /\ o + copy <= L /\ copy <= HashBytes
        /\ r = SubSeq(okm, 1, o) \o SubSeq(T, 1, copy) \o SubSeq(okm, o + copy + 1, L)
    BY <1>7, <1>13
  <2> HIDE DEF r, o
  <2>2. WithReplaced(r, okm, T, L, o, copy)
    <3>1. L \in Nat
      BY <1>2 DEF L
    <3>2. Numbered(okm, L)
      BY <1>2 DEF L
    <3>. QED
      BY <1>1, <1>8, <2>1, <3>1, <3>2, Replaced, Zenon
  <2>. QED
    BY <2>2 DEF r, o, WithReplaced
<1>15. \A k \in 1..offset_okm + copy : okm'[k] = D[1 + ((k - 1) \div HashBytes)][1 + ((k - 1) % HashBytes)]
  <2> TAKE k \in 1..offset_okm + copy
  <2>1. CASE k \in 1..offset_okm
    <3>1. okm'[k] = C[1 + ((k - 1) \div HashBytes)][1 + ((k - 1) % HashBytes)]
      BY <1>4, <1>14, <2>1 DEF BytesOf
    <3>2. 1 + ((k - 1) \div HashBytes) \in 1..iteration
      BY <1>5, <1>10, <2>1, ByteOfBlock
    <3> DEFINE b == 1 + ((k - 1) \div HashBytes)
    <3> HIDE DEF b
    <3>3. b \in 1..iteration
      BY <3>2 DEF b
    <3>4. D[b] = C[b]
      BY <1>5, <3>3
    <3>. QED
      BY <3>1, <3>4 DEF b
  <2>2. CASE k \notin 1..offset_okm
    <3> DEFINE c == k - offset_okm
    <3>0. copy \in 0..HashBytes /\ offset_okm \in Nat
      BY <1>13
    <3>1. c \in 1..copy /\ c \in 1..HashBytes /\ offset_okm + c = k /\ k = HashBytes * iteration + c
      <4>1. copy \in Nat /\ copy <= HashBytes /\ k \in Int /\ k > offset_okm /\ k <= offset_okm + copy
        BY <1>1, <2>2, <3>0
      <4>2. c \in 1..copy /\ c \in 1..HashBytes /\ offset_okm + c = k
        BY <1>1, <3>0, <4>1
      <4>. QED
        BY <1>10, <4>2
    <3> HIDE DEF c
    <3>2. (k - 1) \div HashBytes = iteration /\ (k - 1) % HashBytes = c - 1
      BY <1>5, <3>1, BlockOfByte
    <3>3. okm'[k] = T[c]
      BY <1>14, <3>1
    <3>4. 1 + iteration = next /\ 1 + (c - 1) = c /\ D[next] = T
      BY <1>5, <3>1
    <3> HIDE DEF D, next
    <3>. QED
      BY <3>2, <3>3, <3>4
  <2>. QED
    BY <2>1, <2>2
<1>16. Expanded'
  <2>1. iteration' \in 0..HashesFor(parameters.L_bytes)'
    BY <1>5, <1>7 DEF HashesFor, L
  <2>0. PICK E : E = D
    OBVIOUS
  <2>2. KeepsTheLast(E)'
    <3>1. next # 0 /\ D[next] = T
      BY <1>5
    <3> HIDE DEF D
    <3>. QED
      BY <1>7, <2>0, <3>1 DEF KeepsTheLast
  <2> HIDE DEF D
  <2>3. BytesOf(E, offset_okm)'
    BY <1>7, <1>15, <2>0 DEF BytesOf
  <2>4. /\ IsChain(E, prk', parameters.info', iteration')
        /\ KeepsTheLast(E)' /\ BytesOf(E, offset_okm)'
    BY <1>7, <1>12, <2>0, <2>2, <2>3
  <2>5. parameters.L_bytes' = L /\ parameters.info' = parameters.info
    BY <1>7 DEF L
  <2>6. /\ L \in Nat /\ \E i \in Nat : Numbered(parameters.info', i)
        /\ Numbered(prk', HashBytes) /\ Numbered(okm', L)
    BY <1>2, <1>3, <1>7, <1>14, <2>5 DEF L
  <2>7. offset_okm' = IF HashBytes * iteration' <= L THEN HashBytes * iteration' ELSE L
    BY <1>7, <1>13
  <2>. QED
    BY <2>1, <2>4, <2>5, <2>6, <2>7 DEF Expanded, IsChain
<1>17. Numbered(previous', HashBytes)
  BY <1>7, <1>8
<1>. QED
  BY <1>7, <1>16, <1>17 DEF HkdfInv

\* The call returns with all blocks.
LEMMA HkdfReturns ==
  ASSUME HkdfInv, HkdfReturn
  PROVE  HkdfInv'
<1>1. /\ Expanded /\ parameters' = parameters /\ prk' = prk /\ previous' = previous /\ len_t' = len_t
      /\ offset_okm' = offset_okm /\ iteration' = iteration /\ okm' = okm
  BY DEF HkdfReturn, HkdfInv
<1>2. hkdfPhase = "expanding" /\ hkdfPhase' = "returned" /\ iteration >= HashesFor(parameters.L_bytes)
  BY DEF HkdfReturn
<1>3. PICK C : /\ IsChain(C, prk, parameters.info, iteration)
               /\ KeepsTheLast(C) /\ BytesOf(C, offset_okm)
  BY <1>1 DEF Expanded
<1>4. /\ IsChain(C, prk', parameters.info', iteration') /\ KeepsTheLast(C)' /\ BytesOf(C, offset_okm)'
  BY <1>1, <1>3 DEF KeepsTheLast, BytesOf
<1>5. HashesFor(parameters.L_bytes) \in Nat /\ iteration = HashesFor(parameters.L_bytes)
  <2>1. parameters.L_bytes \in Nat /\ iteration \in 0..HashesFor(parameters.L_bytes)
    BY <1>1 DEF Expanded
  <2>2. HashesFor(parameters.L_bytes) \in Nat
    BY <2>1, NumberOfBlocks
  <2>. QED
    BY <1>2, <2>1, <2>2
<1>6. Expanded'
  BY <1>1, <1>4 DEF Expanded, IsChain, HashesFor
<1>. QED
  BY <1>1, <1>2, <1>5, <1>6 DEF HkdfInv, HashesFor

\* hkdf.cpp: what HKDF_Expand has copied into the output buffer is always the beginning of
\* one chain of HMACs, and the last block of the chain is what the next one is made from.
THEOREM HkdfInvariance == HkdfSpec => []HkdfInv
<1>1. HkdfInit => HkdfInv
  BY DEF HkdfInit, HkdfInv, Uninitialised, Numbered
<1>2. HkdfInv /\ [HkdfNext]_hkdfVars => HkdfInv'
  <2> SUFFICES ASSUME HkdfInv, [HkdfNext]_hkdfVars PROVE HkdfInv'
    OBVIOUS
  <2>1. ASSUME NEW salted \in BOOLEAN, NEW s \in SaltLengths, NEW j \in 0..1, NEW n \in 1..MaxOkm,
               HKDF(salted, s, j, n)
        PROVE  HkdfInv'
    <3>1. j \in Nat /\ n \in Nat
      BY HkdfSizes
    <3>. QED
      BY <2>1, <3>1, HkdfStarts
  <2>2. CASE HKDF_Expand
    BY <2>2, HkdfExpands
  <2>3. CASE HkdfReturn
    BY <2>3, HkdfReturns
  <2>4. CASE UNCHANGED hkdfVars
    <3>1. /\ parameters' = parameters /\ prk' = prk /\ previous' = previous /\ len_t' = len_t
          /\ offset_okm' = offset_okm /\ iteration' = iteration /\ okm' = okm /\ hkdfPhase' = hkdfPhase
      BY <2>4 DEF hkdfVars
    <3>2. ASSUME Expanded PROVE Expanded'
      <4>1. PICK C : /\ IsChain(C, prk, parameters.info, iteration)
                     /\ KeepsTheLast(C) /\ BytesOf(C, offset_okm)
        BY <3>2 DEF Expanded
      <4>2. /\ IsChain(C, prk', parameters.info', iteration') /\ KeepsTheLast(C)' /\ BytesOf(C, offset_okm)'
        BY <3>1, <4>1 DEF KeepsTheLast, BytesOf
      <4>. QED
        BY <3>1, <3>2, <4>2 DEF Expanded, IsChain, HashesFor
    <3>. QED
      BY <3>1, <3>2 DEF HkdfInv, HashesFor
  <2>. QED
    BY <2>1, <2>2, <2>3, <2>4 DEF HkdfNext
<1>. QED
  BY <1>1, <1>2, PTL DEF HkdfSpec

\* All of the output is of the chain once the call has returned.
LEMMA Returned ==
  ASSUME HkdfInv, hkdfPhase = "returned"
  PROVE  /\ parameters.L_bytes \in Nat /\ HashesFor(parameters.L_bytes) \in Nat
         /\ parameters.L_bytes <= HashBytes * HashesFor(parameters.L_bytes)
         /\ Numbered(okm, parameters.L_bytes) /\ Numbered(prk, HashBytes)
         /\ \E j \in Nat : Numbered(parameters.info, j)
         /\ \E C : IsChain(C, prk, parameters.info, HashesFor(parameters.L_bytes)) /\ BytesOf(C, parameters.L_bytes)
<1>1. Expanded /\ iteration = HashesFor(parameters.L_bytes)
  BY DEF HkdfInv
<1>2. parameters.L_bytes \in Nat
  BY <1>1 DEF Expanded
<1>3. /\ HashesFor(parameters.L_bytes) \in Nat
      /\ parameters.L_bytes <= HashBytes * HashesFor(parameters.L_bytes)
  BY <1>2, NumberOfBlocks
<1>4. HashBytes * HashesFor(parameters.L_bytes) \in Int
  BY <1>3, HkdfSizes
<1>5. offset_okm = parameters.L_bytes
  BY <1>1, <1>2, <1>3, <1>4 DEF Expanded
<1>. QED
  BY <1>1, <1>2, <1>3, <1>5 DEF Expanded

\* hkdf.cpp: no byte of the output is there twice or left uninitialised, however often the
\* counter of one byte is back at zero.
THEOREM HkdfOkmNeverRepeats == HkdfSpec => []OkmNeverRepeats
<1>1. HkdfInv => OkmNeverRepeats
  <2> SUFFICES ASSUME HkdfInv, hkdfPhase = "returned", NEW j \in 1..parameters.L_bytes, NEW k \in 1..parameters.L_bytes
               PROVE  okm[j][1] = "hash" /\ (okm[j] = okm[k] => j = k)
    BY DEF OkmNeverRepeats
  <2> DEFINE L == parameters.L_bytes
             n == HashesFor(L)
             block(i) == 1 + ((i - 1) \div HashBytes)
             byte(i) == 1 + ((i - 1) % HashBytes)
  <2>1. L \in Nat /\ n \in Nat /\ L <= HashBytes * n /\ Numbered(prk, HashBytes)
    BY Returned
  <2>2. PICK C : IsChain(C, prk, parameters.info, n) /\ BytesOf(C, L)
    BY Returned
  <2>3. PICK l \in Nat : Numbered(parameters.info, l)
    BY Returned
  <2> HIDE DEF n
  <2>4. HashBytes \in Nat /\ HashBytes > 0 /\ HashBytes * n \in Int
    BY <2>1, HkdfSizes
  <2>5. \A i \in 1..L : block(i) \in 1..n /\ byte(i) \in 1..HashBytes
    <3> TAKE i \in 1..L
    <3>1. i \in 1..HashBytes * n
      BY <2>1, <2>4
    <3>. QED
      BY <2>1, <3>1, ByteOfBlock
  <2>6. \A i \in 1..L : okm[i] = C[block(i)][byte(i)]
    BY <2>2 DEF BytesOf
  <2>7. \A i \in 1..L : i = HashBytes * (block(i) - 1) + byte(i)
    <3> TAKE i \in 1..L
    <3> DEFINE x == i - 1
    <3>1. x \in Int /\ HashBytes \in Int /\ HashBytes > 0
      BY <2>1, <2>4
    <3> HIDE DEF x
    <3>2. x = HashBytes * (x \div HashBytes) + (x % HashBytes) /\ x \div HashBytes \in Int /\ x % HashBytes \in Int
      BY <3>1, DivMod
    <3> DEFINE q == x \div HashBytes
               r == x % HashBytes
    <3>3. block(i) = 1 + q /\ byte(i) = 1 + r
      BY DEF x
    <3>4. q \in Int /\ r \in Int /\ x = HashBytes * q + r
      BY <3>2
    <3> HIDE DEF q, r, block, byte
    <3>5. HashBytes * q \in Int /\ (1 + q) - 1 = q
      BY <2>4, <3>4
    <3>6. i = HashBytes * q + (1 + r)
      BY <3>1, <3>4, <3>5 DEF x
    <3>. QED
      BY <3>3, <3>5, <3>6
  <2>8. block(j) \in 1..n /\ block(k) \in 1..n /\ byte(j) \in 1..HashBytes /\ byte(k) \in 1..HashBytes
    BY <2>5
  <2>9. /\ okm[j] = C[block(j)][byte(j)] /\ okm[k] = C[block(k)][byte(k)]
        /\ j = HashBytes * (block(j) - 1) + byte(j) /\ k = HashBytes * (block(k) - 1) + byte(k)
    BY <2>6, <2>7
  <2> DEFINE a == block(j)
             b == block(k)
             c == byte(j)
             d == byte(k)
  <2> HIDE DEF block, byte
  <2>10. /\ a \in 1..n /\ b \in 1..n /\ c \in 1..HashBytes /\ d \in 1..HashBytes
         /\ okm[j] = C[a][c] /\ okm[k] = C[b][d]
         /\ j = HashBytes * (a - 1) + c /\ k = HashBytes * (b - 1) + d
    BY <2>8, <2>9
  <2> HIDE DEF a, b, c, d
  <2>11. PICK x : C[a] = Digest(x)
    BY <2>1, <2>2, <2>10, BlockOfChain, Zenon
  <2>12. PICK y : C[b] = Digest(y)
    BY <2>1, <2>2, <2>10, BlockOfChain, Zenon
  <2>13. okm[j][1] = "hash"
    BY <2>10, <2>11 DEF Digest
  <2>14. ASSUME okm[j] = okm[k] PROVE j = k
    <3>1. Digest(x)[c] = Digest(y)[d]
      BY <2>10, <2>11, <2>12, <2>14
    <3>2. x = y /\ c = d
      BY <2>10, <3>1, DigestInjective
    <3>3. C[a] = C[b]
      BY <2>11, <2>12, <3>2
    <3>4. a = b
      BY <2>1, <2>2, <2>3, <2>4, <2>10, <3>3, ChainDiffers
    <3>. QED
      BY <2>10, <3>2, <3>4
  <2>. QED
    BY <2>13, <2>14
<1>. QED
  BY <1>1, HkdfInvariance, PTL

\* T is the standard's sequence of blocks.
IsStandard(T, key, info, n) ==
  T = [i \in 0..n |-> IF i = 0 THEN <<>> ELSE hmac_sha256(key, T[i - 1] \o info \o <<<<"byte", i>>>>)]

\* The recursive definition of the standard's blocks has a solution if there is one.
LEMMA ChosenStandard ==
  ASSUME NEW key, NEW info, NEW n, NEW C, IsStandard(C, key, info, n)
  PROVE  IsStandard(StandardBlocks(key, info, n), key, info, n)
  BY DEF StandardBlocks, IsStandard

\* While the counter fits in its byte, the chain is the standard's.
LEMMA StandardChain ==
  ASSUME NEW n \in Nat, n < Byte, NEW key, NEW l \in Nat, NEW info, Numbered(info, l),
         NEW C, IsChain(C, key, info, n)
  PROVE  IsStandard(C, key, info, n)
<1> DEFINE F(i) == IF i = 0 THEN <<>> ELSE hmac_sha256(key, C[i - 1] \o info \o <<<<"byte", i>>>>)
<1>1. ASSUME NEW i \in 0..n PROVE C[i] = F(i)
  <2>1. CASE i = 0
    BY <2>1 DEF IsChain
  <2>2. CASE i # 0
    <3> DEFINE before == C[i - 1]
               x == <<"byte", i>>
               m == IF i = 1 THEN 0 ELSE HashBytes
    <3>1. i \in 1..n /\ C[i] = hmac_sha256(key, before \o Append(info, <<"byte", i % Byte>>))
      <4>1. i \in 1..n
        BY <2>2
      <4>. QED
        BY <4>1 DEF IsChain
    <3>2. i % Byte = i
      <4>1. Byte \in Int /\ Byte > 0 /\ i \in 0..Byte - 1
        BY HkdfSizes
      <4>. QED
        BY <4>1, SmallQuotient
    <3>3. m \in Nat /\ Numbered(before, m)
      <4>1. CASE i = 1
        BY <4>1 DEF IsChain, Numbered
      <4>2. CASE i # 1
        <5> DEFINE p == i - 1
        <5>1. p \in 1..n /\ HashBytes \in Nat
          BY <3>1, <4>2, HkdfSizes
        <5> HIDE DEF p
        <5>2. Numbered(C[p], HashBytes)
          BY <5>1, BlockOfChain, Zenon
        <5>. QED
          BY <4>2, <5>1, <5>2 DEF p
      <4>. QED
        BY <4>1, <4>2
    <3> HIDE DEF before, x, m
    <3>4. (before \o info) \o <<x>> = before \o Append(info, x)
      BY <3>3, LastOfThree
    <3>5. C[i] = hmac_sha256(key, before \o info \o <<x>>)
      BY <3>1, <3>2, <3>4 DEF x
    <3>. QED
      BY <2>2, <3>5 DEF x, before
  <2>. QED
    BY <2>1, <2>2
<1>2. C = [i \in 0..n |-> C[i]]
  BY DEF IsChain
<1>3. C = [i \in 0..n |-> F(i)]
  <2> HIDE DEF F
  <2>. QED
    BY <1>1, <1>2
<1>. QED
  BY <1>3 DEF IsStandard

\* The standard's blocks are unique.
LEMMA StandardUnique ==
  ASSUME NEW n \in Nat, NEW key, NEW info, NEW C, NEW T,
         IsStandard(C, key, info, n), IsStandard(T, key, info, n)
  PROVE  C = T
<1> DEFINE S == {i \in 0..n : C[i] # T[i]}
<1>1. S = {}
  <2> SUFFICES ASSUME S # {} PROVE FALSE
    OBVIOUS
  <2>1. S \subseteq Nat
    OBVIOUS
  <2> HIDE DEF S
  <2>2. PICK i \in S : \A k \in S : i <= k
    BY <2>1, LeastNumber, Zenon
  <2>3. i \in 0..n /\ C[i] # T[i]
    BY <2>2 DEF S
  <2>4. CASE i = 0
    <3>1. C[0] = <<>> /\ T[0] = <<>>
      BY <2>3, <2>4 DEF IsStandard
    <3>. QED
      BY <2>3, <2>4, <3>1
  <2>5. CASE i # 0
    <3>1. i - 1 \in 0..n /\ ~(i <= i - 1)
      BY <2>3, <2>5
    <3>2. C[i - 1] = T[i - 1]
      BY <2>2, <3>1 DEF S
    <3>3. C[i] = hmac_sha256(key, C[i - 1] \o info \o <<<<"byte", i>>>>)
      BY <2>3, <2>5 DEF IsStandard
    <3>4. T[i] = hmac_sha256(key, T[i - 1] \o info \o <<<<"byte", i>>>>)
      BY <2>3, <2>5 DEF IsStandard
    <3>. QED
      BY <2>3, <3>2, <3>3, <3>4
  <2>. QED
    BY <2>4, <2>5
<1>2. \A i \in 0..n : C[i] = T[i]
  BY <1>1
<1>3. C = [i \in 0..n |-> C[i]] /\ T = [i \in 0..n |-> T[i]]
  BY DEF IsStandard
<1>. QED
  BY <1>2, <1>3

\* hkdf.cpp: up to the largest output for which RFC 5869 says anything, HKDF returns what it
\* says: the first bytes of T(1), T(2), ..., with T(i) the HMAC of T(i - 1), the info and i.
THEOREM HkdfReturnsStandardOkm == HkdfSpec => []ReturnsStandardOkm
<1>1. HkdfInv => ReturnsStandardOkm
  <2> SUFFICES ASSUME HkdfInv, hkdfPhase = "returned", HashesFor(parameters.L_bytes) < Byte
               PROVE  okm = StandardOkm(prk, parameters.info, parameters.L_bytes)
    BY DEF ReturnsStandardOkm
  <2> DEFINE L == parameters.L_bytes
             n == HashesFor(L)
             info == parameters.info
             T == StandardBlocks(prk, info, n)
             size == HashBytes * n
             blocks == [k \in 1..size |->
                          T[1 + ((k - 1) \div HashBytes)][1 + ((k - 1) % HashBytes)]]
  <2>1. L \in Nat /\ n \in Nat /\ n < Byte /\ L <= size /\ Numbered(prk, HashBytes) /\ Numbered(okm, L)
    BY Returned
  <2>2. PICK C : IsChain(C, prk, info, n) /\ BytesOf(C, L)
    BY Returned
  <2>3. PICK l \in Nat : Numbered(info, l)
    BY Returned
  <2>4. StandardOkm(prk, info, L) = SubSeq(blocks, 1, L)
    BY DEF StandardOkm
  <2> HIDE DEF n, info
  <2>5. IsStandard(C, prk, info, n)
    BY <2>1, <2>2, <2>3, StandardChain
  <2>6. T = C
    <3>1. IsStandard(T, prk, info, n)
      BY <2>5, ChosenStandard, Zenon
    <3> HIDE DEF T
    <3>. QED
      BY <2>1, <2>5, <3>1, StandardUnique
  <2> HIDE DEF T
  <2>7. size \in Nat
    <3>1. HashBytes \in Nat
      BY HkdfSizes
    <3>. QED
      BY <2>1, <3>1
  <2>8. Numbered(blocks, size)
    BY DEF Numbered
  <2>9. \A k \in 1..L : blocks[k] = okm[k]
    <3> TAKE k \in 1..L
    <3>1. k \in 1..size
      BY <2>1, <2>7
    <3> HIDE DEF size, L
    <3>2. blocks[k] = C[1 + ((k - 1) \div HashBytes)][1 + ((k - 1) % HashBytes)]
      BY <2>6, <3>1
    <3> HIDE DEF blocks
    <3>. QED
      BY <2>2, <3>2 DEF BytesOf
  <2> DEFINE zero == 0
             part == SubSeq(blocks, zero + 1, L)
  <2>10. zero \in Nat /\ zero <= L /\ L - zero = L
    BY <2>1
  <2> HIDE DEF blocks, size, zero, L
  <2>11. PartAfter(part, blocks, zero, L - zero)
    BY <2>1, <2>7, <2>8, <2>10, Cut, Zenon
  <2>12. part = SubSeq(blocks, 1, L)
    BY DEF zero
  <2> HIDE DEF part
  <2>13. Numbered(part, L)
    BY <2>10, <2>11 DEF PartAfter
  <2>14. \A k \in 1..L : part[k] = okm[k]
    <3> TAKE k \in 1..L
    <3>1. part[k] = blocks[zero + k] /\ zero + k = k
      BY <2>1, <2>10, <2>11 DEF PartAfter, zero
    <3>. QED
      BY <2>9, <3>1
  <2>15. part = okm
    BY <2>1, <2>13, <2>14 DEF Numbered
  <2>. QED
    BY <2>4, <2>12, <2>15 DEF info, L
<1>. QED
  BY <1>1, HkdfInvariance, PTL

\* hkdf.cpp: both halves of what the runs check of HKDF's output.
THEOREM HkdfReturnsOkm == HkdfSpec => []ReturnsOkm
  BY HkdfReturnsStandardOkm, HkdfOkmNeverRepeats, PTL DEF ReturnsOkm

-----------------------------------------------------------------------------
(* The texts of hexadecimal digits. *)

\* The text of n digits.
TextOf(n) == [k \in 1..n |-> k]

\* The byte behind the last one of part p, when the text has N bytes.
EndOfPart(p, N) == Lower(N, PartBytes * (p + 1))

\* The sizes as facts about numbers.
LEMMA HexNumbers ==
  /\ PartBytes \in Nat /\ PartBytes > 0 /\ PartDigits = 2 * PartBytes /\ PartDigits \in Nat /\ PartDigits > 0
  /\ MaxText \in Nat /\ INT_MAX \in Nat /\ Values(PartBytes) \in Nat \ {0} /\ Byte \in Nat \ {0}
<1>1. PartBytes \in Nat \ {0} /\ MaxText \in Nat /\ Byte \in Nat \ {0} /\ INT_MAX \in Nat
  BY HexAssumption, ShaAssumption
<1>. QED
  BY <1>1, Powers DEF PartDigits

\* The bytes of a text of N bytes.
LEMMA BytesOfText ==
  ASSUME NEW N \in Nat, 2 * N <= MaxText
  PROVE  /\ TextOf(2 * N) \in Seq(Int) /\ Len(TextOf(2 * N)) = 2 * N /\ (2 * N) \div 2 = N
         /\ TextBytes(TextOf(2 * N)) \in Seq(Int) /\ Len(TextBytes(TextOf(2 * N))) = N
         /\ \A k \in 1..N : TextBytes(TextOf(2 * N))[k] = ByteFrom(2 * k - 1, 2 * k)
         /\ 8 * N <= INT_MAX
<1> DEFINE t == TextOf(2 * N)
           m == [k \in 1..N |-> ByteFrom(2 * k - 1, 2 * k)]
<1>1. MaxText \in Nat /\ 4 * MaxText <= INT_MAX /\ INT_MAX \in Nat
  BY HexAssumption, HexNumbers
<1>2. t \in Seq(Int) /\ Len(t) = 2 * N /\ (2 * N) \div 2 = N /\ \A k \in 1..2 * N : t[k] = k
  BY DEF TextOf
<1> HIDE DEF t
<1>3. \A k \in 1..N : t[2 * k - 1] = 2 * k - 1 /\ t[2 * k] = 2 * k
  BY <1>2
<1>4. \A k \in 1..N : ByteFrom(2 * k - 1, 2 * k) \in Int
  BY <1>1 DEF ByteFrom
<1>5. m \in Seq(Int) /\ Len(m) = N /\ \A k \in 1..N : m[k] = ByteFrom(2 * k - 1, 2 * k)
  BY <1>4
<1>6. TextBytes(t) = m
  BY <1>2, <1>3 DEF TextBytes
<1>7. 8 * N <= INT_MAX
  BY <1>1
<1>. QED
  BY <1>2, <1>5, <1>6, <1>7 DEF t

\* The end of a part that the text reaches.
LEMMA PartEnds ==
  ASSUME NEW N \in Nat, NEW p \in Nat, PartBytes * p < N
  PROVE  /\ EndOfPart(p, N) \in Nat /\ PartBytes * p \in Nat /\ PartBytes * (p + 1) = PartBytes * p + PartBytes
         /\ PartBytes * p < EndOfPart(p, N) /\ EndOfPart(p, N) <= N
         /\ EndOfPart(p, N) <= PartBytes * p + PartBytes
         /\ EndOfPart(p, N) = N \/ EndOfPart(p, N) = PartBytes * p + PartBytes
<1> DEFINE S == PartBytes * p
<1>1. PartBytes \in Nat /\ PartBytes > 0 /\ S \in Nat /\ PartBytes * (p + 1) = S + PartBytes
  BY HexNumbers
<1> HIDE DEF S
<1>2. EndOfPart(p, N) = IF N < S + PartBytes THEN N ELSE S + PartBytes
  BY <1>1 DEF EndOfPart, Lower
<1>3. S < N
  BY DEF S
<1>. QED
  BY <1>1, <1>2, <1>3 DEF S

\* exchange: the digits of a part are those of the text, at the low end of the integer.
LEMMA ExchangedDigits ==
  ASSUME NEW N \in Nat, NEW p \in Nat, PartBytes * p < N,
         NEW short, short = PartBytes * p + PartBytes - EndOfPart(p, N)
  PROVE  /\ Missing(TextOf(2 * N), p) = 2 * short
         /\ \A k \in 1..PartDigits : k > 2 * short =>
              exchange(TextOf(2 * N), p)[k] = 2 * EndOfPart(p, N) - PartDigits + k
<1> DEFINE t == TextOf(2 * N)
           S == PartBytes * p
           E == EndOfPart(p, N)
<1>1. /\ PartBytes \in Nat /\ PartBytes > 0 /\ PartDigits = 2 * PartBytes /\ PartDigits \in Nat
  BY HexNumbers
<1>2. p * PartDigits = 2 * S /\ (p + 1) * PartDigits = 2 * S + 2 * PartBytes /\ S \in Nat
  BY <1>1
<1>3. /\ E \in Nat /\ S < E /\ E <= N /\ E <= S + PartBytes /\ short = S + PartBytes - E
      /\ E = N \/ E = S + PartBytes
  BY PartEnds
<1>4. Len(t) = 2 * N /\ \A k \in 1..2 * N : t[k] = k
  BY DEF TextOf
<1>5. S \in Nat
  BY <1>2
<1> HIDE DEF t, S, E
<1>6. Missing(t, p) = 2 * short
  <2> DEFINE next == (p + 1) * PartDigits
  <2>1. Missing(t, p) = IF next > 2 * N THEN next - 2 * N ELSE 0
    BY <1>4 DEF Missing
  <2>2. next = 2 * S + 2 * PartBytes
    BY <1>2
  <2> HIDE DEF next
  <2>. QED
    BY <1>1, <1>3, <1>5, <2>1, <2>2
<1>7. ASSUME NEW k \in 1..PartDigits, k > 2 * short
      PROVE  exchange(t, p)[k] = 2 * E - PartDigits + k
  <2> DEFINE j == k - 2 * short
  <2>1. j \in 1..PartDigits /\ 2 * S + j <= 2 * N /\ 2 * S + j \in 1..2 * N /\ 2 * S + j = 2 * E - PartDigits + k
    BY <1>1, <1>3, <1>7, <1>5
  <2>2. exchange(t, p)[k] = Filled(t, p)[j]
    BY <1>1, <1>3, <1>6, <1>7 DEF exchange, Shifted
  <2> HIDE DEF j
  <2>3. Filled(t, p)[j] = t[2 * S + j]
    BY <1>2, <1>4, <2>1 DEF Filled
  <2>. QED
    BY <1>4, <2>1, <2>2, <2>3
<1>. QED
  BY <1>6, <1>7 DEF t, E

\* The byte at an address of a part is that many bytes before its end.
LEMMA ByteAt ==
  ASSUME NEW N \in Nat, 2 * N <= MaxText, NEW p \in Nat, PartBytes * p < N,
         NEW a \in Nat, a < EndOfPart(p, N) - PartBytes * p
  PROVE  /\ EndOfPart(p, N) - a \in 1..N
         /\ At(exchange(TextOf(2 * N), p), a) = TextBytes(TextOf(2 * N))[EndOfPart(p, N) - a]
<1> DEFINE S == PartBytes * p
           E == EndOfPart(p, N)
           t == TextOf(2 * N)
           x == exchange(t, p)
           short == S + PartBytes - E
<1>1. PartBytes \in Nat /\ PartBytes > 0 /\ PartDigits = 2 * PartBytes /\ PartDigits \in Nat
  BY HexNumbers
<1>2. E \in Nat /\ S \in Nat /\ S < E /\ E <= N /\ E <= S + PartBytes
  BY PartEnds
<1>3. \A k \in 1..PartDigits : k > 2 * short => x[k] = 2 * E - PartDigits + k
  BY ExchangedDigits
<1>4. \A k \in 1..N : TextBytes(t)[k] = ByteFrom(2 * k - 1, 2 * k)
  BY BytesOfText
<1>5. a < E - S
  OBVIOUS
<1> HIDE DEF S, E, t, x
<1>6. E - a \in 1..N
  BY <1>2, <1>5
<1> DEFINE low == PartDigits - 2 * a
<1>7. low \in 1..PartDigits /\ low - 1 \in 1..PartDigits /\ low - 1 > 2 * short /\ low > 2 * short
  BY <1>1, <1>2, <1>5
<1>8. x[low] = 2 * (E - a) /\ x[low - 1] = 2 * (E - a) - 1
  <2>1. x[low] = 2 * E - PartDigits + low /\ x[low - 1] = 2 * E - PartDigits + (low - 1)
    BY <1>3, <1>7
  <2>. QED
    BY <1>1, <1>2, <2>1
<1>9. At(x, a) = ByteFrom(x[low - 1], x[low])
  BY DEF At
<1>10. At(x, a) = TextBytes(t)[E - a]
  BY <1>4, <1>6, <1>8, <1>9
<1>. QED
  BY <1>6, <1>10 DEF E, t, x

\* The bytes of a part that is not full, and of a full one.
LEMMA ByteOfPart ==
  ASSUME NEW N \in Nat, 2 * N <= MaxText, contents = TextOf(2 * N), NEW p \in Nat, PartBytes * p < N,
         NEW a \in Nat, a < EndOfPart(p, N) - PartBytes * p
  PROVE  /\ Data(PartBytes * p + a) = TextBytes(contents)[EndOfPart(p, N) - a]
         /\ EndOfPart(p, N) - a \in 1..N
<1> DEFINE i == PartBytes * p + a
<1>1. PartBytes \in Int /\ PartBytes > 0
  BY HexNumbers
<1>2. a \in 0..PartBytes - 1 /\ i \in Int /\ i = PartBytes * p + a
  <2> DEFINE S == PartBytes * p
             E == EndOfPart(p, N)
  <2>1. S \in Nat /\ E \in Nat /\ E <= S + PartBytes /\ a < E - S
    BY PartEnds
  <2> HIDE DEF S, E
  <2>2. a \in 0..PartBytes - 1 /\ S + a \in Int
    BY <1>1, <2>1
  <2>. QED
    BY <2>2 DEF S
<1> HIDE DEF i
<1>3. i \div PartBytes = p /\ i % PartBytes = a
  BY <1>1, <1>2, DivUnique
<1>4. Data(i) = At(exchange(contents, p), a)
  BY <1>3 DEF Data
<1>5. At(exchange(TextOf(2 * N), p), a) = TextBytes(TextOf(2 * N))[EndOfPart(p, N) - a] /\ EndOfPart(p, N) - a \in 1..N
  BY ByteAt
<1>. QED
  BY <1>4, <1>5 DEF i

\* The inner loop of sha256 takes the bytes of a full part in their order.
LEMMA TakesPart ==
  ASSUME NEW N \in Nat, 2 * N <= MaxText, contents = TextOf(2 * N), NEW p \in Nat,
         PartBytes * p + PartBytes <= N, HoldsWhatWasRead(globals, PartBytes * p, TextBytes(contents))
  PROVE  HoldsWhatWasRead(TakenPart(PartBytes * p), PartBytes * p + PartBytes, TextBytes(contents))
<1> DEFINE m == TextBytes(contents)
           S == PartBytes * p
           part == FullPart(S)
           Upto(n, f) == f = [k \in 0..n |-> IF k = 0 THEN globals ELSE Taken(f[k - 1], part[k])]
           taken == CHOOSE f : Upto(PartBytes, f)
<1>1. PartBytes \in Nat /\ PartBytes > 0 /\ S \in Nat
  BY HexNumbers
<1>2. m \in Seq(Int) /\ Len(m) = N /\ 8 * Len(m) <= INT_MAX
  BY BytesOfText
<1>3. S + PartBytes <= N /\ HoldsWhatWasRead(globals, S, m)
  OBVIOUS
<1>4. \A k \in 1..PartBytes : part[k] = m[S + k]
  <2> SUFFICES ASSUME NEW k \in 1..PartBytes PROVE part[k] = m[S + k]
    OBVIOUS
  <2> DEFINE a == PartBytes - k
             E == EndOfPart(p, N)
  <2>1. S < N
    BY <1>1, <1>3
  <2>2. E = S + PartBytes
    <3>1. E = N \/ E = S + PartBytes
      BY <2>1, PartEnds
    <3>2. E \in Nat /\ E <= N /\ E <= S + PartBytes
      BY <2>1, PartEnds
    <3>3. E = IF N < PartBytes * (p + 1) THEN N ELSE PartBytes * (p + 1)
      BY DEF EndOfPart, Lower
    <3>4. PartBytes * (p + 1) = S + PartBytes
      BY <2>1, PartEnds
    <3> HIDE DEF E, S
    <3>. QED
      BY <1>1, <1>3, <3>3, <3>4
  <2> HIDE DEF E
  <2>3. a \in Nat /\ a < E - S /\ E - a = S + k /\ S + PartBytes - k = S + a
    <3> HIDE DEF S
    <3>. QED
      BY <1>1, <2>2
  <2>4. Data(S + a) = m[E - a]
    <3> HIDE DEF a, m
    <3>. QED
      BY <2>1, <2>3, ByteOfPart DEF m, E
  <2>5. part[k] = Data(S + PartBytes - k)
    BY DEF FullPart
  <2>. QED
    BY <2>3, <2>4, <2>5
<1>5. TakenPart(S) = taken[PartBytes]
  BY DEF TakenPart
<1> HIDE DEF m, S, part
<1>6. \E f : Upto(PartBytes, f)
  <2> DEFINE Without == {n \in Nat : ~ \E f : Upto(n, f)}
  <2> SUFFICES Without = {}
    BY <1>1
  <2> SUFFICES ASSUME Without # {} PROVE FALSE
    OBVIOUS
  <2>1. PICK n \in Without : \A l \in Without : n <= l
    BY LeastNumber
  <2>2. CASE n = 0
    <3>1. Upto(0, [k \in 0..0 |-> globals])
      OBVIOUS
    <3>. QED
      BY <2>1, <2>2, <3>1
  <2>3. CASE n # 0
    <3>1. n - 1 \in Nat /\ n - 1 \notin Without
      <4> HIDE DEF Upto
      <4>. QED
        BY <2>1, <2>3
    <3>2. PICK f : Upto(n - 1, f)
      BY <3>1
    <3> DEFINE h == [k \in 0..n |-> IF k = n THEN Taken(f[n - 1], part[n]) ELSE f[k]]
    <3>3. ASSUME NEW k \in 0..n PROVE h[k] = IF k = 0 THEN globals ELSE Taken(h[k - 1], part[k])
      <4>1. CASE k = 0
        BY <2>1, <2>3, <3>1, <3>2, <4>1
      <4>2. CASE k # 0
        <5>1. k - 1 \in 0..n - 1 /\ k - 1 # n /\ k - 1 \in 0..n
          BY <2>1, <4>2
        <5>2. h[k - 1] = f[k - 1]
          BY <5>1
        <5>3. CASE k = n
          BY <4>2, <5>2, <5>3
        <5>4. CASE k # n
          <6>1. k \in 0..n - 1 /\ h[k] = f[k]
            BY <2>1, <5>4
          <6>2. f[k] = Taken(f[k - 1], part[k])
            BY <3>2, <4>2, <6>1
          <6>. QED
            BY <4>2, <5>2, <6>1, <6>2
        <5>. QED
          BY <5>3, <5>4
      <4>. QED
        BY <4>1, <4>2
    <3>4. h = [k \in 0..n |-> h[k]]
      OBVIOUS
    <3> HIDE DEF h
    <3>5. Upto(n, h)
      BY <3>3, <3>4
    <3>. QED
      BY <2>1, <3>5
  <2>. QED
    BY <2>2, <2>3
<1>7. Upto(PartBytes, taken)
  BY <1>6
<1> HIDE DEF taken
<1>8. \A k \in 0..PartBytes : taken[k] = IF k = 0 THEN globals ELSE Taken(taken[k - 1], part[k])
  BY <1>7
<1> HIDE DEF Upto
<1>9. \A k \in 0..PartBytes : HoldsWhatWasRead(taken[k], S + k, m)
  <2> DEFINE Wrong == {k \in Nat : k <= PartBytes /\ ~HoldsWhatWasRead(taken[k], S + k, m)}
  <2> SUFFICES Wrong = {}
    BY <1>1
  <2> SUFFICES ASSUME Wrong # {} PROVE FALSE
    OBVIOUS
  <2>1. PICK k \in Wrong : \A l \in Wrong : k <= l
    BY LeastNumber
  <2>2. CASE k = 0
    <3>1. taken[0] = globals /\ S + 0 = S
      BY <1>1, <1>8
    <3>. QED
      BY <1>3, <2>1, <2>2, <3>1
  <2>3. CASE k # 0
    <3> DEFINE n == S + (k - 1)
    <3>1. k - 1 \in Nat /\ k - 1 \notin Wrong /\ k \in 1..PartBytes /\ k \in 0..PartBytes
      BY <1>1, <2>1, <2>3
    <3>2. HoldsWhatWasRead(taken[k - 1], n, m)
      BY <1>1, <2>1, <3>1
    <3>3. n \in Nat /\ n < Len(m) /\ n + 1 = S + k
      BY <1>1, <1>2, <1>3, <3>1
    <3> HIDE DEF n
    <3>4. HoldsWhatWasRead(Taken(taken[k - 1], m[n + 1]), n + 1, m)
      BY <1>2, <3>2, <3>3, TakesByte
    <3>5. taken[k] = Taken(taken[k - 1], part[k]) /\ part[k] = m[S + k]
      BY <1>4, <1>8, <2>3, <3>1
    <3>. QED
      BY <2>1, <3>3, <3>4, <3>5
  <2>. QED
    BY <2>2, <2>3
<1>10. HoldsWhatWasRead(taken[PartBytes], S + PartBytes, m)
  BY <1>1, <1>9
<1>. QED
  BY <1>5, <1>10 DEF S, m

\* myreverse: the bytes of a part lie in the order of the text.
LEMMA ReversedPart ==
  ASSUME NEW N \in Nat, 2 * N <= MaxText, NEW p \in Nat, PartBytes * p < N,
         NEW x, x = myreverse(exchange(TextOf(2 * N), p), Missing(TextOf(2 * N), p))
  PROVE  /\ (PartDigits - Missing(TextOf(2 * N), p)) \div 2 = EndOfPart(p, N) - PartBytes * p
         /\ \A j \in 1..EndOfPart(p, N) - PartBytes * p :
              At(x, j - 1) = TextBytes(TextOf(2 * N))[PartBytes * p + j]
<1> DEFINE S == PartBytes * p
           E == EndOfPart(p, N)
           t == TextOf(2 * N)
           part == exchange(t, p)
           short == S + PartBytes - E
           turned == [k \in 1..PartDigits |-> part[IF k % 2 = 1 THEN PartDigits - k ELSE PartDigits - k + 2]]
<1>1. PartBytes \in Nat /\ PartBytes > 0 /\ PartDigits = 2 * PartBytes /\ PartDigits \in Nat
  BY HexNumbers
<1>2. E \in Nat /\ S \in Nat /\ S < E /\ E <= N /\ E <= S + PartBytes
  BY PartEnds
<1>3. Missing(t, p) = 2 * short /\ \A k \in 1..PartDigits : k > 2 * short => part[k] = 2 * E - PartDigits + k
  BY ExchangedDigits
<1>4. \A k \in 1..N : TextBytes(t)[k] = ByteFrom(2 * k - 1, 2 * k)
  BY BytesOfText
<1>5. x = Shifted(turned, 2 * short)
  <2> HIDE DEF short, part, t
  <2>1. x = myreverse(part, Missing(t, p))
    BY DEF part, t
  <2>2. x = myreverse(part, 2 * short)
    BY <1>3, <2>1
  <2>. QED
    BY <2>2 DEF myreverse
<1> HIDE DEF S, E, t, part, turned
<1>6. short \in Nat /\ short < PartBytes /\ E - S = PartBytes - short
  BY <1>1, <1>2
<1> HIDE DEF short
<1>7. \A k \in 1..PartDigits : k > 2 * short => x[k] = turned[k - 2 * short]
  BY <1>1, <1>5, <1>6 DEF Shifted
<1>8. (PartDigits - 2 * short) \div 2 = E - S
  BY <1>1, <1>6
<1>9. ASSUME NEW j \in 1..E - S PROVE At(x, j - 1) = TextBytes(t)[S + j]
  <2> DEFINE low == PartDigits - 2 * (j - 1)
             k == low - 2 * short
  <2>1. k \in 1..PartDigits /\ k - 1 \in 1..PartDigits /\ low \in 1..PartDigits /\ low - 1 \in 1..PartDigits
        /\ low > 2 * short /\ low - 1 > 2 * short /\ (low - 1) - 2 * short = k - 1
    BY <1>1, <1>2, <1>6
  <2>2. x[low] = turned[k] /\ x[low - 1] = turned[k - 1]
    BY <1>7, <2>1
  <2>3. k % 2 = 0 /\ (k - 1) % 2 = 1
    BY <1>1, <1>2, <1>6
  <2>4. turned[k] = part[PartDigits - k + 2] /\ turned[k - 1] = part[PartDigits - (k - 1)]
    BY <2>1, <2>3 DEF turned
  <2>5. PartDigits - k + 2 = 2 * j + 2 * short /\ PartDigits - (k - 1) = 2 * j - 1 + 2 * short
    BY <1>1, <1>2, <1>6
  <2>6. /\ 2 * j + 2 * short \in 1..PartDigits /\ 2 * j - 1 + 2 * short \in 1..PartDigits
        /\ 2 * j + 2 * short > 2 * short /\ 2 * j - 1 + 2 * short > 2 * short
        /\ 2 * E - PartDigits + (2 * j + 2 * short) = 2 * (S + j)
        /\ 2 * E - PartDigits + (2 * j - 1 + 2 * short) = 2 * (S + j) - 1
        /\ S + j \in 1..N
    BY <1>1, <1>2, <1>6
  <2>7. x[low] = 2 * (S + j) /\ x[low - 1] = 2 * (S + j) - 1
    BY <1>3, <2>2, <2>4, <2>5, <2>6
  <2>8. At(x, j - 1) = ByteFrom(x[PartDigits - 2 * (j - 1) - 1], x[PartDigits - 2 * (j - 1)])
    BY DEF At
  <2>. QED
    BY <1>4, <2>6, <2>7, <2>8
<1>. QED
  BY <1>3, <1>8, <1>9 DEF E, S, t

\* A counter block is the low digits of the first one's number and the number of its part.
LEMMA CounterDigits ==
  \E V \in Nat : \A b \in Nat : CounterAfter(b) = [k \in 1..PartBytes |-> Digit(V + b, PartBytes - k)]
<1> DEFINE Upto(n, f) == f = [k \in 0..n |-> IF k = 0 THEN 0 ELSE Byte * f[k - 1] + ctr[k]]
           value == CHOOSE f : Upto(PartBytes, f)
<1>1. PartBytes \in Nat /\ PartBytes > 0 /\ Byte \in Nat /\ Byte > 0 /\ \A k \in 1..PartBytes : ctr[k] \in Nat
  BY HexNumbers, HexAssumption
<1>2. \A b : CounterAfter(b) = [k \in 1..PartBytes |-> ((value[PartBytes] + b) \div Values(PartBytes - k)) % Byte]
  BY DEF CounterAfter
<1>3. \E f : Upto(PartBytes, f)
  <2> DEFINE Without == {n \in Nat : ~ \E f : Upto(n, f)}
  <2> SUFFICES Without = {}
    BY <1>1
  <2> SUFFICES ASSUME Without # {} PROVE FALSE
    OBVIOUS
  <2>1. PICK n \in Without : \A l \in Without : n <= l
    BY LeastNumber
  <2>2. CASE n = 0
    <3>1. Upto(0, [k \in 0..0 |-> 0])
      OBVIOUS
    <3>. QED
      BY <2>1, <2>2, <3>1
  <2>3. CASE n # 0
    <3>1. n - 1 \in Nat /\ n - 1 \notin Without
      <4> HIDE DEF Upto
      <4>. QED
        BY <2>1, <2>3
    <3>2. PICK f : Upto(n - 1, f)
      BY <3>1
    <3> DEFINE h == [k \in 0..n |-> IF k = n THEN Byte * f[n - 1] + ctr[n] ELSE f[k]]
    <3>3. ASSUME NEW k \in 0..n PROVE h[k] = IF k = 0 THEN 0 ELSE Byte * h[k - 1] + ctr[k]
      <4>1. CASE k = 0
        BY <2>1, <2>3, <3>1, <3>2, <4>1
      <4>2. CASE k # 0
        <5>1. k - 1 \in 0..n - 1 /\ k - 1 # n /\ k - 1 \in 0..n
          BY <2>1, <4>2
        <5>2. h[k - 1] = f[k - 1]
          BY <5>1
        <5>3. CASE k = n
          BY <4>2, <5>2, <5>3
        <5>4. CASE k # n
          <6>1. k \in 0..n - 1 /\ h[k] = f[k]
            BY <2>1, <5>4
          <6>2. f[k] = Byte * f[k - 1] + ctr[k]
            BY <3>2, <4>2, <6>1
          <6>. QED
            BY <4>2, <5>2, <6>1, <6>2
        <5>. QED
          BY <5>3, <5>4
      <4>. QED
        BY <4>1, <4>2
    <3>4. h = [k \in 0..n |-> h[k]]
      OBVIOUS
    <3> HIDE DEF h
    <3>5. Upto(n, h)
      BY <3>3, <3>4
    <3>. QED
      BY <2>1, <3>5
  <2>. QED
    BY <2>2, <2>3
<1>4. Upto(PartBytes, value)
  BY <1>3
<1> HIDE DEF value
<1>5. \A k \in 0..PartBytes : value[k] = IF k = 0 THEN 0 ELSE Byte * value[k - 1] + ctr[k]
  BY <1>4
<1> HIDE DEF Upto
<1>6. value[PartBytes] \in Nat
  <2> DEFINE Wrong == {k \in Nat : k <= PartBytes /\ value[k] \notin Nat}
  <2> SUFFICES Wrong = {}
    BY <1>1
  <2> SUFFICES ASSUME Wrong # {} PROVE FALSE
    OBVIOUS
  <2>1. PICK k \in Wrong : \A l \in Wrong : k <= l
    BY LeastNumber
  <2>2. k # 0
    BY <1>1, <1>5, <2>1
  <2>3. k - 1 \in Nat /\ k - 1 \notin Wrong /\ k \in 0..PartBytes /\ k \in 1..PartBytes
    BY <1>1, <2>1, <2>2
  <2>4. value[k - 1] \in Nat
    BY <1>1, <2>1, <2>3
  <2>5. value[k] = Byte * value[k - 1] + ctr[k]
    BY <1>5, <2>2, <2>3
  <2>6. Byte * value[k - 1] \in Nat /\ ctr[k] \in Nat
    BY <1>1, <2>3, <2>4
  <2>. QED
    BY <2>1, <2>5, <2>6
<1>. QED
  BY <1>2, <1>6 DEF Digit

\* The counter blocks of different parts differ.
LEMMA PartCountersDiffer ==
  ASSUME NEW a \in Nat, NEW b \in Nat, a < Values(PartBytes), b < Values(PartBytes),
         CounterAfter(a) = CounterAfter(b)
  PROVE  a = b
<1> DEFINE P == Values(PartBytes)
<1>1. PartBytes \in Nat /\ PartBytes > 0 /\ Byte \in Nat \ {0} /\ P \in Int /\ P > 0 /\ a < P /\ b < P
  BY HexNumbers
<1>2. PICK V \in Nat : \A c \in Nat : CounterAfter(c) = [k \in 1..PartBytes |-> Digit(V + c, PartBytes - k)]
  BY CounterDigits
<1> DEFINE x == V + a
           y == V + b
<1>3. x \in Nat /\ y \in Nat
  OBVIOUS
<1> HIDE DEF P, x, y
<1>4. \A k \in 1..PartBytes : Digit(x, PartBytes - k) = Digit(y, PartBytes - k)
  <2>1. [k \in 1..PartBytes |-> Digit(x, PartBytes - k)] = [k \in 1..PartBytes |-> Digit(y, PartBytes - k)]
    BY <1>2 DEF x, y
  <2> SUFFICES ASSUME NEW k \in 1..PartBytes PROVE Digit(x, PartBytes - k) = Digit(y, PartBytes - k)
    OBVIOUS
  <2>2. [l \in 1..PartBytes |-> Digit(x, PartBytes - l)][k] = [l \in 1..PartBytes |-> Digit(y, PartBytes - l)][k]
    BY <2>1
  <2>. QED
    BY <2>2
<1>5. \A i \in Nat : i < PartBytes => Digit(x, i) = Digit(y, i)
  <2> SUFFICES ASSUME NEW i \in Nat, i < PartBytes PROVE Digit(x, i) = Digit(y, i)
    OBVIOUS
  <2>1. PartBytes - i \in 1..PartBytes /\ PartBytes - (PartBytes - i) = i
    BY <1>1
  <2>. QED
    BY <1>4, <2>1
<1>6. x % P = y % P
  BY <1>1, <1>3, <1>5, SameDigits DEF P
<1> DEFINE q == x \div P
           r == y \div P
           s == x % P
<1>7. q \in Int /\ r \in Int /\ s \in 0..P - 1 /\ x = P * q + s /\ y = P * r + s
  BY <1>1, <1>3, <1>6, DivMod
<1> HIDE DEF q, r, s
<1>8. P * (q - r) = a - b /\ P * (r - q) = b - a
  <2>1. P * (q - r) = P * q - P * r /\ P * (r - q) = P * r - P * q /\ P * q \in Int /\ P * r \in Int
    BY <1>1, <1>7
  <2>. QED
    BY <1>1, <1>7, <2>1 DEF x, y
<1>9. ~(q - r >= 1) /\ ~(r - q >= 1)
  BY <1>1, <1>7, <1>8, ProductAtLeast
<1>10. q = r
  BY <1>7, <1>9
<1>11. P * (q - r) = 0
  BY <1>1, <1>7, <1>10
<1>. QED
  BY <1>8, <1>11

\* The first l bytes of the ciphertext: byte k of the text, the counter block of its part,
\* and its place in the block.
CipherOf(m, l) ==
  [k \in 1..l |-> [byte |-> m[k], counter |-> CounterAfter((k - 1) \div PartBytes),
                   at |-> 1 + ((k - 1) % PartBytes)]]

\* AES-CTR.cpp encrypts one part more.
LEMMA EncryptsOnePart ==
  ASSUME NEW N \in Nat, 2 * N <= MaxText, contents = TextOf(2 * N), NEW p \in Nat, PartBytes * p < N,
         done = PartDigits * p, encrypted = CipherOf(TextBytes(contents), PartBytes * p), EncryptPart
  PROVE  encrypted' = CipherOf(TextBytes(contents), EndOfPart(p, N)) /\ done' = PartDigits * (p + 1)
<1> DEFINE m == TextBytes(contents)
           S == PartBytes * p
           E == EndOfPart(p, N)
           leng == E - S
           x == myreverse(exchange(contents, p), Missing(contents, p))
           g == [j \in 1..leng |-> [byte |-> At(x, j - 1), counter |-> CounterAfter(p), at |-> j]]
<1>1. PartBytes \in Int /\ PartBytes > 0 /\ PartDigits \in Int /\ PartDigits > 0
  BY HexNumbers
<1>2. done \div PartDigits = p
  <2>1. done = PartDigits * p + 0 /\ done \in Int /\ 0 \in 0..PartDigits - 1
    BY <1>1
  <2> DEFINE zero == 0
  <2> HIDE DEF zero
  <2>2. done = PartDigits * p + zero /\ done \in Int /\ zero \in 0..PartDigits - 1
    BY <2>1 DEF zero
  <2>. QED
    BY <1>1, <2>2, DivUnique
<1>3. S \in Nat /\ E \in Nat /\ S < E /\ E <= S + PartBytes
  BY PartEnds
<1>4. (PartDigits - Missing(contents, p)) \div 2 = leng /\ \A j \in 1..leng : At(x, j - 1) = m[S + j]
  BY ReversedPart
<1>5. encrypted' = encrypted \o g /\ done' = done + PartDigits
  <2>1. encrypted' = encrypted \o
          [j \in 1..(PartDigits - Missing(contents, p)) \div 2 |-> [byte |-> At(x, j - 1), counter |-> CounterAfter(p), at |-> j]]
    BY <1>2 DEF EncryptPart
  <2>. QED
    BY <1>4, <2>1 DEF EncryptPart
<1>6. done' = PartDigits * (p + 1)
  BY <1>1, <1>5
<1>7. encrypted = CipherOf(m, S)
  OBVIOUS
<1> HIDE DEF m, S, E, x
<1> DEFINE f == encrypted
           c == CipherOf(m, E)
<1>8. Numbered(f, S) /\ Numbered(g, leng)
  <2>1. Numbered(f, S)
    BY <1>7 DEF Numbered, CipherOf
  <2>2. Numbered(g, leng)
    BY DEF Numbered
  <2>. QED
    BY <2>1, <2>2
<1>9. \A k \in 1..S : c[k] = f[k]
  <2>1. \A k \in 1..S : k \in 1..E
    BY <1>3
  <2>. QED
    BY <1>7, <2>1 DEF CipherOf
<1>10. \A j \in 1..leng : c[S + j] = g[j]
  <2> SUFFICES ASSUME NEW j \in 1..leng PROVE c[S + j] = g[j]
    OBVIOUS
  <2> DEFINE i == (S + j) - 1
             r == j - 1
  <2>1. i \in Int /\ r \in 0..PartBytes - 1 /\ i = PartBytes * p + r /\ S + j \in 1..E /\ 1 + r = j
    <3>1. r \in 0..PartBytes - 1 /\ S + j \in 1..E /\ 1 + r = j
      BY <1>1, <1>3
    <3>2. i = S + r
      BY <1>3
    <3>. QED
      BY <1>3, <3>1, <3>2 DEF S
  <2>2. c[S + j] = [byte |-> m[S + j], counter |-> CounterAfter(i \div PartBytes), at |-> 1 + (i % PartBytes)]
    <3>1. \A k \in 1..E : c[k] = [byte |-> m[k], counter |-> CounterAfter((k - 1) \div PartBytes), at |-> 1 + ((k - 1) % PartBytes)]
      BY DEF CipherOf
    <3> HIDE DEF c
    <3>. QED
      BY <2>1, <3>1
  <2> HIDE DEF i, r, c
  <2>3. i \div PartBytes = p /\ i % PartBytes = r
    BY <1>1, <2>1, DivUnique
  <2>. QED
    BY <1>4, <2>1, <2>2, <2>3
<1>11. Numbered(c, E)
  BY DEF Numbered, CipherOf
<1> HIDE DEF f, g, c
<1>12. S + leng = E /\ leng \in Nat
  BY <1>3
<1> HIDE DEF leng
<1>13. OneAfterTheOther(f \o g, f, g, S, leng)
  BY <1>3, <1>8, <1>12, Concatenation
<1>14. \A k \in 1..E : (f \o g)[k] = c[k]
  <2> SUFFICES ASSUME NEW k \in 1..E PROVE (f \o g)[k] = c[k]
    OBVIOUS
  <2>1. CASE k <= S
    <3>1. k \in 1..S
      BY <1>3, <2>1
    <3>. QED
      BY <1>9, <1>13, <3>1 DEF OneAfterTheOther
  <2>2. CASE ~(k <= S)
    <3> DEFINE j == k - S
    <3>1. j \in 1..leng /\ S + j = k
      BY <1>3, <1>12, <2>2
    <3> HIDE DEF j
    <3>. QED
      BY <1>10, <1>13, <3>1 DEF OneAfterTheOther
  <2>. QED
    BY <2>1, <2>2
<1>15. f \o g = c
  BY <1>11, <1>12, <1>13, <1>14 DEF OneAfterTheOther, Numbered
<1>. QED
  BY <1>5, <1>6, <1>15 DEF f, c, m, E

\* SHA-256.cpp has taken the first bytes of the text, and knows where the rest of its last
\* part lies; AES-CTR.cpp has encrypted all bytes of the parts so far.
HexInv ==
  \E N \in Nat :
    /\ 2 * N <= MaxText /\ contents = TextOf(2 * N)
    /\ stage \in {"idle", "hashing", "hashed", "encrypting"}
    /\ stage # "encrypting" => encrypted = <<>>
    /\ stage = "idle" => globals = FreshText /\ done = 0
    /\ stage = "hashing" =>
         /\ done \in 0..N /\ HoldsWhatWasRead(globals, done, TextBytes(contents))
         /\ \E p \in Nat :
              /\ PartBytes * p <= done /\ idx = N - 1 - (done - PartBytes * p)
              /\ done = PartBytes * p \/ N <= PartBytes * p + PartBytes
    /\ stage = "hashed" => Absorbed(globals.hash) = Padded(TextBytes(contents))
    /\ stage = "encrypting" =>
         \E p \in Nat :
           done = PartDigits * p /\ encrypted = CipherOf(TextBytes(contents), Lower(N, PartBytes * p))

\* What the programs read, hash and encrypt is the text.
THEOREM HexInvariance == HexSpec => []HexInv
<1>1. HexInit => HexInv
  <2> SUFFICES ASSUME HexInit PROVE HexInv
    OBVIOUS
  <2>1. TextOf(2 * 0) = <<>> /\ 2 * 0 <= MaxText
    BY HexNumbers DEF TextOf
  <2>. QED
    BY <2>1 DEF HexInit, HexInv
<1>2. HexInv /\ [HexNext]_hexVars => HexInv'
  <2> SUFFICES ASSUME HexInv, [HexNext]_hexVars PROVE HexInv'
    OBVIOUS
  <2>1. CASE \E n \in 0..MaxText : n % 2 = 0 /\ (ReadText(n) \/ ReadPlaintext(n))
    <3>0. MaxText \in Nat /\ PartBytes \in Nat /\ PartDigits \in Nat
      BY HexNumbers
    <3>1. PICK n \in 0..MaxText : n % 2 = 0 /\ (ReadText(n) \/ ReadPlaintext(n))
      BY <2>1
    <3> DEFINE N == n \div 2
    <3>2. N \in Nat /\ 2 * N = n /\ 2 * N <= MaxText
      BY <3>0, <3>1
    <3> HIDE DEF N
    <3>3. contents' = TextOf(2 * N)
      BY <3>1, <3>2 DEF ReadText, ReadPlaintext, TextOf
    <3>4. globals = FreshText /\ done = 0 /\ encrypted = <<>>
      BY <3>1 DEF ReadText, ReadPlaintext, HexInv
    <3>5. CASE ReadText(n)
      <4>1. stage' = "hashing" /\ globals' = FreshText /\ done' = 0 /\ encrypted' = <<>> /\ idx' = N - 1
        BY <3>4, <3>5 DEF ReadText, N
      <4>2. HoldsWhatWasRead(globals', done', TextBytes(contents'))
        BY <4>1, FreshHoldsNothing
      <4>3. PartBytes * 0 <= done' /\ idx' = N - 1 - (done' - PartBytes * 0) /\ done' = PartBytes * 0 /\ done' \in 0..N
        BY <3>0, <3>2, <4>1
      <4>. QED
        BY <3>2, <3>3, <4>1, <4>2, <4>3 DEF HexInv
    <3>6. CASE ReadPlaintext(n)
      <4>1. stage' = "encrypting" /\ done' = 0 /\ encrypted' = <<>>
        BY <3>4, <3>6 DEF ReadPlaintext
      <4>2. done' = PartDigits * 0 /\ Lower(N, PartBytes * 0) = 0
        BY <3>0, <3>2, <4>1 DEF Lower
      <4>3. CipherOf(TextBytes(contents'), 0) = <<>>
        BY DEF CipherOf
      <4>. QED
        BY <3>2, <3>3, <4>1, <4>2, <4>3 DEF HexInv
    <3>. QED
      BY <3>1, <3>5, <3>6
  <2>2. PICK N \in Nat :
    /\ 2 * N <= MaxText /\ contents = TextOf(2 * N)
    /\ stage \in {"idle", "hashing", "hashed", "encrypting"}
    /\ stage # "encrypting" => encrypted = <<>>
    /\ stage = "idle" => globals = FreshText /\ done = 0
    /\ stage = "hashing" =>
         /\ done \in 0..N /\ HoldsWhatWasRead(globals, done, TextBytes(contents))
         /\ \E p \in Nat :
              /\ PartBytes * p <= done /\ idx = N - 1 - (done - PartBytes * p)
              /\ done = PartBytes * p \/ N <= PartBytes * p + PartBytes
    /\ stage = "hashed" => Absorbed(globals.hash) = Padded(TextBytes(contents))
    /\ stage = "encrypting" =>
         \E p \in Nat :
           done = PartDigits * p /\ encrypted = CipherOf(TextBytes(contents), Lower(N, PartBytes * p))
    BY DEF HexInv
  <2>3. /\ Len(contents) = 2 * N /\ (2 * N) \div 2 = N /\ TextBytes(contents) \in Seq(Int)
        /\ Len(TextBytes(contents)) = N /\ 8 * N <= INT_MAX
    BY <2>2, BytesOfText
  <2>4. CASE sha256
    <3> DEFINE m == TextBytes(contents)
    <3>0. PartBytes \in Nat /\ PartBytes > 0
      BY HexNumbers
    <3>1. /\ stage = "hashing" /\ done \in Nat /\ done < N /\ HoldsWhatWasRead(globals, done, m)
          /\ contents' = contents /\ encrypted' = encrypted /\ stage' = stage /\ encrypted = <<>>
      BY <2>2, <2>3, <2>4 DEF sha256
    <3>2. PICK p \in Nat : /\ PartBytes * p <= done /\ idx = N - 1 - (done - PartBytes * p)
                           /\ done = PartBytes * p \/ N <= PartBytes * p + PartBytes
      BY <2>2, <3>1
    <3> DEFINE S == PartBytes * p
    <3>3. S \in Nat /\ S <= done /\ PartBytes * (p + 1) = S + PartBytes
      BY <3>0, <3>2
    <3>4. CASE N - done <= PartBytes
      <4>1. globals' = Taken(globals, Data(idx)) /\ idx' = idx - 1 /\ done' = done + 1
        BY <2>3, <2>4, <3>4 DEF sha256
      <4> DEFINE a == N - 1 - done
                 E == EndOfPart(p, N)
      <4>2. N <= S + PartBytes
        <5>1. done = S \/ N <= S + PartBytes
          BY <3>2
        <5> HIDE DEF S
        <5>. QED
          BY <3>0, <3>1, <3>3, <3>4, <5>1
      <4>3. E = N
        <5>1. E \in Nat /\ E <= N /\ (E = N \/ E = S + PartBytes)
          BY <3>1, <3>3, PartEnds
        <5> HIDE DEF E, S
        <5>. QED
          BY <3>0, <3>3, <4>2, <5>1
      <4>4. a \in Nat /\ a < E - S /\ idx = S + a /\ E - a = done + 1
        <5>1. idx = N - 1 - (done - S)
          BY <3>2
        <5> HIDE DEF E, S
        <5>. QED
          BY <3>1, <3>3, <4>3, <5>1
      <4>5. Data(idx) = m[done + 1]
        <5>0. S < N
          <6> HIDE DEF S
          <6>. QED
            BY <3>1, <3>3
        <5> HIDE DEF a, m
        <5>1. 2 * N <= MaxText /\ contents = TextOf(2 * N) /\ PartBytes * p < N /\ a \in Nat /\ a < EndOfPart(p, N) - PartBytes * p
          BY <2>2, <4>4, <5>0
        <5>2. Data(PartBytes * p + a) = TextBytes(contents)[EndOfPart(p, N) - a]
          BY <5>1, ByteOfPart
        <5>. QED
          BY <4>4, <5>2 DEF m
      <4>6. HoldsWhatWasRead(Taken(globals, m[done + 1]), done + 1, m)
        <5> HIDE DEF m
        <5>1. m \in Seq(Int) /\ Len(m) = N /\ 8 * Len(m) <= INT_MAX
          BY <2>3 DEF m
        <5>. QED
          BY <3>1, <5>1, TakesByte
      <4>7. /\ done' \in 0..N /\ PartBytes * p <= done' /\ idx' = N - 1 - (done' - PartBytes * p)
            /\ N <= PartBytes * p + PartBytes
        <5>1. idx = N - 1 - (done - S)
          BY <3>2
        <5>2. done' \in 0..N /\ S <= done' /\ idx' = N - 1 - (done' - S)
          <6> HIDE DEF S
          <6>. QED
            BY <3>1, <3>3, <4>1, <5>1
        <5>. QED
          BY <4>2, <5>2
      <4>. QED
        BY <2>2, <3>1, <4>1, <4>5, <4>6, <4>7 DEF HexInv
    <3>5. CASE ~(N - done <= PartBytes)
      <4>1. globals' = TakenPart(done) /\ done' = done + PartBytes /\ idx' = idx
        BY <2>3, <2>4, <3>5 DEF sha256
      <4>2. done = S /\ S + PartBytes <= N
        <5>1. done = S \/ N <= S + PartBytes
          BY <3>2
        <5> HIDE DEF S
        <5>. QED
          BY <3>0, <3>1, <3>3, <3>5, <5>1
      <4>3. HoldsWhatWasRead(TakenPart(S), S + PartBytes, m)
        BY <2>2, <3>1, <4>2, TakesPart
      <4>4. idx = N - 1
        <5>1. idx = N - 1 - (done - S)
          BY <3>2
        <5> HIDE DEF S
        <5>. QED
          BY <3>3, <4>2, <5>1
      <4>5. done' = PartBytes * (p + 1) /\ done' \in 0..N /\ HoldsWhatWasRead(globals', done', m)
        BY <3>0, <3>3, <4>1, <4>2, <4>3
      <4>6. PartBytes * (p + 1) <= done' /\ idx' = N - 1 - (done' - PartBytes * (p + 1)) /\ p + 1 \in Nat
        <5> DEFINE T == PartBytes * (p + 1)
        <5>1. T \in Nat /\ done' = T
          BY <3>0, <3>3, <4>5
        <5> HIDE DEF T
        <5>2. T <= done' /\ idx' = N - 1 - (done' - T)
          BY <4>1, <4>4, <5>1
        <5>. QED
          BY <5>2 DEF T
      <4>. QED
        BY <2>2, <3>1, <4>5, <4>6 DEF HexInv
    <3>. QED
      BY <3>4, <3>5
  <2>5. CASE Hashed
    <3>1. /\ stage = "hashing" /\ done = N /\ HoldsWhatWasRead(globals, N, TextBytes(contents))
          /\ contents' = contents /\ encrypted' = encrypted /\ stage' = "hashed" /\ globals' = main_hash(globals)
      BY <2>2, <2>3, <2>5 DEF Hashed
    <3>2. Absorbed(globals'.hash) = Padded(TextBytes(contents))
      <4> DEFINE m == TextBytes(contents)
      <4>1. m \in Seq(Int) /\ 8 * Len(m) <= INT_MAX /\ HoldsWhatWasRead(globals, Len(m), m)
        BY <2>3, <3>1
      <4> HIDE DEF m
      <4>2. Absorbed(main_hash(globals).hash) = Padded(m)
        BY <4>1, MainHashPads
      <4>. QED
        BY <3>1, <4>2 DEF m
    <3>. QED
      BY <2>2, <3>1, <3>2 DEF HexInv
  <2>6. CASE EncryptPart
    <3>1. /\ stage = "encrypting" /\ done < 2 * N /\ contents' = contents /\ stage' = stage
      BY <2>2, <2>3, <2>6 DEF EncryptPart
    <3>2. PICK p \in Nat : done = PartDigits * p /\ encrypted = CipherOf(TextBytes(contents), Lower(N, PartBytes * p))
      BY <2>2, <3>1
    <3>3. PartBytes * p < N
      <4> DEFINE S == PartBytes * p
      <4>1. S \in Nat /\ done = 2 * S
        BY <3>2, HexNumbers
      <4> HIDE DEF S
      <4>2. S < N
        BY <3>1, <4>1
      <4>. QED
        BY <4>2 DEF S
    <3>4. Lower(N, PartBytes * p) = PartBytes * p
      <4> DEFINE S == PartBytes * p
      <4>1. S \in Nat
        BY HexNumbers
      <4>2. S < N
        BY <3>3
      <4> HIDE DEF S
      <4>3. Lower(N, S) = S
        BY <4>1, <4>2 DEF Lower
      <4>. QED
        BY <4>3 DEF S
    <3>5. encrypted' = CipherOf(TextBytes(contents), EndOfPart(p, N)) /\ done' = PartDigits * (p + 1)
      BY <2>2, <2>6, <3>2, <3>3, <3>4, EncryptsOnePart
    <3>. QED
      BY <2>2, <3>1, <3>5 DEF HexInv, EndOfPart
  <2>7. CASE UNCHANGED hexVars
    BY <2>7 DEF hexVars, HexInv, HoldsWhatWasRead, Absorbed
  <2>. QED
    BY <2>1, <2>4, <2>5, <2>6, <2>7 DEF HexNext
<1>. QED
  BY <1>1, <1>2, PTL DEF HexSpec

\* SHA-256.cpp hashes the padded text and AES-CTR.cpp encrypts its bytes in their order, each
\* with its own byte of the keystream (SHA-256.cpp: exchange, sha256; AES-CTR.cpp: exchange,
\* myreverse, add, main): for every size of an integer and every length of a text.
THEOREM HexWorksOnTheBytesOfTheText == HexSpec => []BytesOfTheText
<1>1. HexInv => BytesOfTheText
  <2> SUFFICES ASSUME HexInv PROVE BytesOfTheText
    OBVIOUS
  <2> DEFINE m == TextBytes(contents)
  <2>1. PICK N \in Nat :
    /\ 2 * N <= MaxText /\ contents = TextOf(2 * N)
    /\ stage \in {"idle", "hashing", "hashed", "encrypting"}
    /\ stage # "encrypting" => encrypted = <<>>
    /\ stage = "hashed" => Absorbed(globals.hash) = Padded(m)
    /\ stage = "encrypting" =>
         \E p \in Nat : done = PartDigits * p /\ encrypted = CipherOf(m, Lower(N, PartBytes * p))
    BY DEF HexInv
  <2>2. Len(contents) = 2 * N /\ (2 * N) \div 2 = N
    BY <2>1, BytesOfText
  <2>3. CASE stage # "encrypting"
    <3>1. DOMAIN encrypted = {}
      BY <2>1, <2>3
    <3>. QED
      BY <2>1, <2>3, <3>1 DEF BytesOfTheText
  <2>4. CASE stage = "encrypting"
    <3>1. PICK p \in Nat : done = PartDigits * p /\ encrypted = CipherOf(m, Lower(N, PartBytes * p))
      BY <2>1, <2>4
    <3> DEFINE S == PartBytes * p
               l == Lower(N, S)
    <3>2. PartBytes \in Nat /\ PartBytes > 0 /\ S \in Nat /\ done = 2 * S
      BY <3>1, HexNumbers
    <3> HIDE DEF S
    <3>3. l \in Nat /\ l <= N /\ (2 * S >= 2 * N => l = N)
      BY <3>2 DEF Lower
    <3> HIDE DEF l, m
    <3>4. /\ encrypted = CipherOf(m, l) /\ DOMAIN encrypted = 1..l /\ Len(encrypted) = l
          /\ \A k \in 1..l :
               /\ encrypted[k].byte = m[k] /\ encrypted[k].at = 1 + ((k - 1) % PartBytes)
               /\ encrypted[k].counter = CounterAfter((k - 1) \div PartBytes)
      <4>1. encrypted = CipherOf(m, l)
        BY <3>1 DEF l, S
      <4>2. CipherOf(m, l) \in Seq({CipherOf(m, l)[k] : k \in 1..l}) /\ Len(CipherOf(m, l)) = l
        BY <3>3 DEF CipherOf
      <4>. QED
        BY <4>1, <4>2 DEF CipherOf
    <3>5. ASSUME NEW k \in 1..l
          PROVE  (k - 1) \div PartBytes \in Nat /\ (k - 1) \div PartBytes < Values(PartBytes)
      <4> DEFINE q == (k - 1) \div PartBytes
                 r == (k - 1) % PartBytes
                 P == Values(PartBytes)
                 x == k - 1
      <4>1. x \in Nat /\ P \in Nat /\ MaxText < PartDigits * P /\ PartDigits = 2 * PartBytes /\ MaxText \in Nat
        BY <3>3, HexNumbers, HexAssumption
      <4> HIDE DEF P
      <4>2. q \in Nat
        <5> HIDE DEF x
        <5>1. x \div PartBytes \in Nat
          BY <3>2, <4>1, QuotientNat
        <5>. QED
          BY <5>1 DEF x
      <4>3. x = PartBytes * q + r /\ r \in 0..PartBytes - 1
        <5> HIDE DEF x
        <5>1. x = PartBytes * (x \div PartBytes) + (x % PartBytes) /\ x % PartBytes \in 0..PartBytes - 1
          BY <3>2, <4>1, DivMod
        <5>. QED
          BY <5>1 DEF x
      <4>4. x < N
        BY <3>3
      <4>5. N < PartBytes * P
        <5> DEFINE C == PartBytes * P
        <5>1. C \in Nat /\ PartDigits * P = 2 * C
          BY <3>2, <4>1
        <5> HIDE DEF C
        <5>2. N < C
          BY <2>1, <4>1, <5>1
        <5>. QED
          BY <5>2 DEF C
      <4> HIDE DEF q, r, x
      <4>6. ~(P <= q)
        <5> SUFFICES ASSUME P <= q PROVE FALSE
          OBVIOUS
        <5>1. PartBytes * P <= PartBytes * q
          BY <3>2, <4>1, <4>2, MultiplesGrow
        <5> DEFINE C == PartBytes * P
                   D == PartBytes * q
        <5>2. C \in Nat /\ D \in Nat /\ C <= D /\ x = D + r /\ N < C
          BY <3>2, <4>1, <4>2, <4>3, <4>5, <5>1
        <5> HIDE DEF C, D
        <5>. QED
          BY <4>3, <4>4, <5>2
      <4>. QED
        BY <4>1, <4>2, <4>6 DEF q, P
    <3>6. ASSUME NEW j \in 1..l, NEW k \in 1..l
          PROVE  encrypted[j].counter = encrypted[k].counter
                   <=> (j - 1) \div PartBytes = (k - 1) \div PartBytes
      BY <3>4, <3>5, PartCountersDiffer
    <3>7. done >= Len(contents) => Len(encrypted) = Len(contents) \div 2
      BY <2>2, <3>2, <3>3, <3>4
    <3>. QED
      BY <2>4, <3>4, <3>6, <3>7 DEF BytesOfTheText, m
  <2>. QED
    BY <2>3, <2>4
<1>. QED
  BY <1>1, HexInvariance, PTL
=============================================================================

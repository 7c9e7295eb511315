------------------------- MODULE BigUnsigned_proofs --------------------------
(***************************************************************************)
(* Proofs about the natural numbers of bigint, for blocks of any number of  *)
(* bits and numbers of any length.  A loop over blocks is a recursive       *)
(* function, and what it computes is shown by a set of numbers of blocks    *)
(* that has 0 and with k also k + 1 (Inductive, in Division).  For each     *)
(* operation of BigUnsigned a lemma named after it (SumVal, DivisionVal ..) *)
(* says what it does to the number that the blocks stand for; then come     *)
(* the calls, and at the end the theorems.                                  *)
(***************************************************************************)
EXTENDS BigUnsigned, Division, FiniteSetTheorems

-----------------------------------------------------------------------------
(* Places. *)

\* What a one in block k stands for.
Weight(k) == Power(Radix, k)

\* The weights.
LEMMA Weights ==
  /\ N \in Nat /\ N > 0 /\ Radix \in Nat /\ Radix > 1
  /\ \A k \in Nat : Weight(k) \in Nat /\ Weight(k) > 0 /\ Weight(k + 1) = Radix * Weight(k)
  /\ Weight(0) = 1
<1>1. N \in Nat /\ N > 0 /\ 2 \in Int
  BY BlockAssumption
<1>2. \A e \in Nat : Power(2, e) \in Int /\ Power(2, e) > 0
  BY PowerPositive
<1>3. \A e \in Nat : Power(2, e + 1) = 2 * Power(2, e)
  BY <1>1, PowerStep
<1>4. N - 1 \in Nat /\ (N - 1) + 1 = N
  BY <1>1
<1>5. Radix = 2 * Power(2, N - 1) /\ Power(2, N - 1) \in Int /\ Power(2, N - 1) > 0
  BY <1>2, <1>3, <1>4 DEF Radix
<1>6. Radix \in Int /\ Radix > 1
  BY <1>5
<1>7. \A k \in Nat : Power(Radix, k) \in Int /\ Power(Radix, k) > 0
  BY <1>6, PowerPositive
<1>8. Power(Radix, 0) = 1 /\ \A k \in Nat : Power(Radix, k + 1) = Radix * Power(Radix, k)
  BY <1>6, PowerStep
<1>. QED
  BY <1>1, <1>6, <1>7, <1>8 DEF Weight

LEMMA WeightNat ==
  ASSUME NEW k \in Nat
  PROVE  Weight(k) \in Nat /\ Weight(k) \in Int /\ Weight(k) > 0
  BY Weights

LEMMA RadixNat == Radix \in Nat /\ Radix \in Int /\ Radix > 1 /\ Radix > 0
  BY Weights

\* The sum over the places, one place more.
LEMMA PlacesStep ==
  ASSUME NEW w
  PROVE  Places(w, 0) = 0 /\ \A n \in Nat : Places(w, n + 1) = Places(w, n) + w[n] * Weight(n)
<1> DEFINE term(k) == w[k] * Weight(k)
           Equation(n, f) == f = [k \in 0..n |-> IF k = 0 THEN 0 ELSE f[k - 1] + term(k - 1)]
           Of(n) == CHOOSE f : Equation(n, f)
           Without == {n \in Nat : ~ \E f : Equation(n, f)}
<1>1. \A n \in Nat : Places(w, n) = Of(n)[n]
  BY DEF Places, Weight
<1> HIDE DEF term
<1>2. Without = {}
  <2> SUFFICES ASSUME Without # {} PROVE FALSE
    OBVIOUS
  <2>1. PICK n \in Without : \A l \in Without : n <= l
    BY LeastNumber
  <2>2. CASE n = 0
    <3>1. Equation(0, [k \in 0..0 |-> 0])
      OBVIOUS
    <3>. QED
      BY <2>1, <2>2, <3>1
  <2>3. CASE n # 0
    <3>1. n - 1 \in Nat /\ n - 1 \notin Without
      <4> HIDE DEF Equation
      <4>. QED
        BY <2>1, <2>3
    <3>2. PICK f : Equation(n - 1, f)
      BY <3>1
    <3> DEFINE h == [k \in 0..n |-> IF k = n THEN f[n - 1] + term(n - 1) ELSE f[k]]
    <3>3. ASSUME NEW k \in 0..n PROVE h[k] = IF k = 0 THEN 0 ELSE h[k - 1] + term(k - 1)
      <4>1. CASE k = 0
        BY <2>1, <2>3, <3>1, <3>2, <4>1
      <4>2. CASE k # 0
        <5>1. k - 1 \in 0..n - 1 /\ k - 1 # n /\ k - 1 \in 0..n
          BY <2>1, <4>2
        <5>2. h[k - 1] = f[k - 1]
          BY <5>1
        <5>3. CASE k = n
          BY <4>2, <5>2, <5>3
        <5>4. CASE k # n
          <6>1. k \in 0..n - 1 /\ h[k] = f[k]
            BY <2>1, <5>4
          <6>2. f[k] = f[k - 1] + term(k - 1)
            BY <3>2, <4>2, <6>1
          <6>. QED
            BY <4>2, <5>2, <6>1, <6>2
        <5>. QED
          BY <5>3, <5>4
      <4>. QED
        BY <4>1, <4>2
    <3>4. h = [k \in 0..n |-> h[k]]
      OBVIOUS
    <3> HIDE DEF h
    <3>5. Equation(n, h)
      BY <3>3, <3>4
    <3>. QED
      BY <2>1, <3>5
  <2>. QED
    BY <2>2, <2>3
<1>3. \A n \in Nat : Equation(n, Of(n))
  BY <1>2
<1> HIDE DEF Of
<1>4. ASSUME NEW n \in Nat, NEW k \in 0..n
      PROVE  Of(n)[k] = IF k = 0 THEN 0 ELSE Of(n)[k - 1] + term(k - 1)
  BY <1>3
<1> HIDE DEF Equation
<1>5. ASSUME NEW n \in Nat PROVE \A k \in 0..n : Of(n + 1)[k] = Of(n)[k]
  <2> DEFINE Differ == {k \in Nat : k <= n /\ Of(n + 1)[k] # Of(n)[k]}
  <2>1. Differ = {}
    <3> SUFFICES ASSUME Differ # {} PROVE FALSE
      OBVIOUS
    <3>1. PICK k \in Differ : \A j \in Differ : k <= j
      BY LeastNumber
    <3>2. k \in 0..n /\ k \in 0..n + 1 /\ n + 1 \in Nat
      BY <3>1
    <3>3. k # 0
      BY <1>4, <3>1, <3>2
    <3>4. k - 1 \in Nat /\ k - 1 \notin Differ /\ k - 1 <= n
      BY <3>1, <3>3
    <3>5. Of(n + 1)[k - 1] = Of(n)[k - 1]
      BY <3>4
    <3>. QED
      BY <1>4, <3>1, <3>2, <3>3, <3>5
  <2>. QED
    BY <2>1
<1>6. Places(w, 0) = 0
  BY <1>1, <1>4
<1>7. ASSUME NEW n \in Nat PROVE Places(w, n + 1) = Places(w, n) + w[n] * Weight(n)
  <2>1. n + 1 \in Nat /\ n + 1 \in 0..n + 1 /\ n + 1 # 0 /\ (n + 1) - 1 = n /\ n \in 0..n
    OBVIOUS
  <2>2. Of(n + 1)[n + 1] = Of(n + 1)[n] + term(n)
    BY <1>4, <2>1
  <2>3. Of(n + 1)[n] = Of(n)[n]
    BY <1>5, <2>1
  <2>. QED
    BY <1>1, <2>1, <2>2, <2>3 DEF term
<1>. QED
  BY <1>6, <1>7

\* The blocks below n are worth less than one in block n.
LEMMA PlacesBound ==
  ASSUME NEW w, NEW n \in Nat, \A k \in 0..n - 1 : w[k] \in Blk
  PROVE  Places(w, n) \in Nat /\ Places(w, n) < Weight(n)
<1> DEFINE Wrong == {l \in Nat : l <= n /\ ~(Places(w, l) \in Nat /\ Places(w, l) < Weight(l))}
<1> SUFFICES ASSUME Wrong # {} PROVE FALSE
  OBVIOUS
<1>1. PICK l \in Wrong : \A j \in Wrong : l <= j
  BY LeastNumber
<1>2. l # 0
  BY <1>1, PlacesStep, Weights
<1> DEFINE k == l - 1
<1>3. k \in Nat /\ k \notin Wrong /\ l = k + 1 /\ k \in 0..n - 1
  BY <1>1, <1>2
<1> HIDE DEF k
<1> DEFINE p == Weight(k)
           v == w[k]
           s == Places(w, k)
<1>4. s \in Nat /\ s < p /\ p \in Nat /\ p > 0 /\ Weight(l) = Radix * p /\ Places(w, l) = s + v * p /\ v \in 0..Radix - 1
  BY <1>1, <1>3, PlacesStep, Weights DEF Blk
<1> HIDE DEF p, v, s
<1>5. Radix \in Nat
  BY Weights
<1>6. p * (v + 1) <= p * Radix /\ p * (v + 1) = v * p + p /\ p * Radix = Radix * p /\ v * p \in Nat /\ Radix * p \in Nat
  <2> DEFINE u == v + 1
  <2>1. u \in Int /\ u <= Radix /\ Radix \in Int /\ v \in Nat
    BY <1>4, <1>5
  <2>2. p * (v + 1) = v * p + p /\ p * Radix = Radix * p /\ v * p \in Nat /\ Radix * p \in Nat
    BY <1>4, <1>5, <2>1
  <2> HIDE DEF u
  <2>3. p * u <= p * Radix
    BY <1>4, <2>1, MultiplesGrow
  <2>. QED
    BY <2>2, <2>3 DEF u
<1>7. Places(w, l) \in Nat /\ Places(w, l) < Weight(l)
  <2> DEFINE a == v * p
             b == Radix * p
             c == p * (v + 1)
             d == p * Radix
  <2>1. a \in Nat /\ b \in Nat /\ c <= d /\ c = a + p /\ d = b
    BY <1>6
  <2>2. Places(w, l) = s + a /\ Weight(l) = b
    BY <1>4
  <2> HIDE DEF a, b, c, d
  <2>. QED
    BY <1>4, <2>1, <2>2
<1>. QED
  BY <1>1, <1>7

\* Equal blocks are worth the same, and zeros above them nothing.
LEMMA PlacesAgree ==
  ASSUME NEW v, NEW w, NEW n \in Nat, \A k \in 0..n - 1 : v[k] = w[k]
  PROVE  Places(v, n) = Places(w, n)
<1> DEFINE Wrong == {l \in Nat : l <= n /\ Places(v, l) # Places(w, l)}
<1> SUFFICES ASSUME Wrong # {} PROVE FALSE
  OBVIOUS
<1>1. PICK l \in Wrong : \A j \in Wrong : l <= j
  BY LeastNumber
<1>2. l # 0
  BY <1>1, PlacesStep
<1> DEFINE k == l - 1
<1>3. k \in Nat /\ k \notin Wrong /\ l = k + 1 /\ k \in 0..n - 1
  BY <1>1, <1>2
<1> HIDE DEF k
<1>4. Places(v, l) = Places(v, k) + v[k] * Weight(k) /\ Places(w, l) = Places(w, k) + w[k] * Weight(k)
  BY <1>3, PlacesStep
<1>. QED
  BY <1>1, <1>3, <1>4

LEMMA PlacesZero ==
  ASSUME NEW w, NEW m \in Nat, NEW n \in Nat, m <= n, Places(w, m) \in Int,
         \A k \in Nat : m <= k /\ k < n => w[k] = 0
  PROVE  Places(w, n) = Places(w, m)
<1> DEFINE Wrong == {l \in Nat : m <= l /\ l <= n /\ Places(w, l) # Places(w, m)}
<1> SUFFICES ASSUME Wrong # {} PROVE FALSE
  OBVIOUS
<1>1. PICK l \in Wrong : \A j \in Wrong : l <= j
  BY LeastNumber
<1>2. l # m
  BY <1>1
<1> DEFINE k == l - 1
<1>3. k \in Nat /\ k \notin Wrong /\ l = k + 1 /\ m <= k /\ k < n
  BY <1>1, <1>2
<1> HIDE DEF k
<1>4. Places(w, l) = Places(w, k) + w[k] * Weight(k) /\ w[k] = 0
  BY <1>3, PlacesStep
<1>5. Weight(k) \in Nat /\ Places(w, k) = Places(w, m)
  BY <1>1, <1>3, Weights
<1>. QED
  BY <1>1, <1>4, <1>5

\* More blocks are worth no less.
LEMMA PlacesGrow ==
  ASSUME NEW w, NEW m \in Nat, NEW n \in Nat, m <= n, \A k \in 0..n - 1 : w[k] \in Blk
  PROVE  Places(w, m) <= Places(w, n) /\ Places(w, m) \in Nat /\ Places(w, n) \in Nat
<1>0. \A l \in Nat : l <= n => Places(w, l) \in Nat
  <2> SUFFICES ASSUME NEW l \in Nat, l <= n PROVE Places(w, l) \in Nat
    OBVIOUS
  <2>1. \A k \in 0..l - 1 : w[k] \in Blk
    OBVIOUS
  <2>. QED
    BY <2>1, PlacesBound
<1> DEFINE Wrong == {l \in Nat : m <= l /\ l <= n /\ ~(Places(w, m) <= Places(w, l))}
<1> SUFFICES Wrong = {}
  BY <1>0
<1> SUFFICES ASSUME Wrong # {} PROVE FALSE
  OBVIOUS
<1>1. PICK l \in Wrong : \A j \in Wrong : l <= j
  BY LeastNumber
<1>2. l # m
  BY <1>0, <1>1
<1> DEFINE k == l - 1
<1>3. k \in Nat /\ k \notin Wrong /\ l = k + 1 /\ m <= k /\ k < n /\ k \in 0..n - 1 /\ k <= n
  BY <1>1, <1>2
<1> HIDE DEF k
<1>4. Places(w, l) = Places(w, k) + w[k] * Weight(k) /\ w[k] \in Nat
  BY <1>3, PlacesStep, Weights DEF Blk
<1>5. Weight(k) \in Nat /\ Places(w, m) <= Places(w, k) /\ w[k] * Weight(k) \in Nat
  BY <1>3, <1>4, Weights
<1>. QED
  BY <1>0, <1>1, <1>3, <1>4, <1>5

\* The weights grow, and those of sums are products.
LEMMA WeightsGrow ==
  ASSUME NEW j \in Nat, NEW k \in Nat
  PROVE  /\ j <= k => Weight(j) <= Weight(k)
         /\ Weight(j + k) = Weight(j) * Weight(k)
<1>1. \A l \in Nat : Weight(j + l) = Weight(j) * Weight(l)
  BY PowerSum, Weights DEF Weight
<1>2. ASSUME j <= k PROVE Weight(j) <= Weight(k)
  <2> DEFINE l == k - j
             a == Weight(j)
             b == Weight(l)
  <2>1. l \in Nat /\ j + l = k
    BY <1>2
  <2>2. Weight(k) = a * b /\ a \in Int /\ a > 0 /\ b \in Int /\ b >= 1
    BY <1>1, <2>1, Weights
  <2> HIDE DEF a, b
  <2>3. a * b >= a
    BY <2>2, ProductAtLeast
  <2>. QED
    BY <2>2, <2>3 DEF a
<1>. QED
  BY <1>1, <1>2

\* The length of an array.
LEMMA Length ==
  ASSUME NEW n \in Nat, NEW x, DOMAIN x = 0..n - 1
  PROVE  len(x) = n
<1>1. Cardinality(0..n - 1) = IF 0 > n - 1 THEN 0 ELSE (n - 1) - 0 + 1
  <2> DEFINE a == 0
             b == n - 1
  <2>1. a \in Int /\ b \in Int
    OBVIOUS
  <2> HIDE DEF a, b
  <2>2. Cardinality(a..b) = IF a > b THEN 0 ELSE b - a + 1
    BY <2>1, FS_Interval
  <2>. QED
    BY <2>2 DEF a, b
<1>. QED
  BY <1>1 DEF len

\* The largest element of a set of numbers that is bounded.
LEMMA LargestNumber ==
  ASSUME NEW S, S \subseteq Nat, S # {}, NEW m \in Nat, \A x \in S : x <= m
  PROVE  Max(S) \in S /\ \A x \in S : x <= Max(S)
<1> DEFINE T == {m - x : x \in S}
<1>0. \A x \in S : x \in Nat /\ m - x \in T
  OBVIOUS
<1>1. T \subseteq Nat /\ T # {}
  <2>1. \A t \in T : \E x \in S : t = m - x
    OBVIOUS
  <2>2. ASSUME NEW t \in T PROVE t \in Nat
    <3>1. PICK x \in S : t = m - x
      BY <2>1
    <3>. QED
      BY <1>0, <3>1
  <2>. QED
    BY <1>0, <2>2
<1>2. PICK t \in T : \A y \in T : t <= y
  <2> HIDE DEF T
  <2>. QED
    BY <1>1, LeastNumber
<1>3. PICK x \in S : t = m - x
  BY <1>2
<1>4. ASSUME NEW y \in S PROVE x >= y
  <2>1. t <= m - y
    BY <1>0, <1>2
  <2>2. x \in Nat /\ y \in Nat
    BY <1>0
  <2>. QED
    BY <1>3, <2>1, <2>2
<1>5. Max(S) = CHOOSE z \in S : \A y \in S : z >= y
  BY DEF Max
<1>6. Max(S) \in S /\ \A y \in S : Max(S) >= y
  BY <1>3, <1>4, <1>5
<1>. QED
  BY <1>0, <1>6

-----------------------------------------------------------------------------
(* Numbers: arrays of blocks without a leading zero. *)

Natural ==
  {x \in UNION {[0..n - 1 -> Blk] : n \in Nat} : len(x) > 0 => x[len(x) - 1] # 0}

LEMMA BlkNat == \A b : b \in Blk <=> b \in Nat /\ b < Radix
  BY Weights DEF Blk

LEMMA SmallBlk == 0 \in Blk /\ 1 \in Blk
  BY BlkNat, Weights

\* What an array of n blocks is worth.
LEMMA ArrayVal ==
  ASSUME NEW n \in Nat, NEW x \in [0..n - 1 -> Blk]
  PROVE  /\ len(x) = n /\ Val(x) = Places(x, n)
         /\ Places(x, n) \in Nat /\ Places(x, n) < Weight(n)
         /\ \A k \in 0..n - 1 : x[k] \in Nat /\ x[k] < Radix
<1>1. len(x) = n
  BY Length
<1>2. Val(x) = Places(x, n)
  BY <1>1 DEF Val
<1>3. \A k \in 0..n - 1 : x[k] \in Blk
  OBVIOUS
<1>4. Places(x, n) \in Nat /\ Places(x, n) < Weight(n)
  BY <1>3, PlacesBound
<1>5. \A k \in 0..n - 1 : x[k] \in Nat /\ x[k] < Radix
  BY <1>3, BlkNat
<1>. QED
  BY <1>1, <1>2, <1>4, <1>5

\* A block that is not zero makes an array worth at least its weight.
LEMMA AtLeastWeight ==
  ASSUME NEW n \in Nat, NEW x \in [0..n -> Blk], x[n] # 0
  PROVE  Weight(n) <= Places(x, n + 1)
<1>1. /\ n + 1 \in Nat /\ (n + 1) - 1 = n /\ n \in 0..n
      /\ Places(x, n + 1) = Places(x, n) + x[n] * Weight(n)
  BY PlacesStep
<1>2. \A k \in 0..n - 1 : x[k] \in Blk
  OBVIOUS
<1>3. Places(x, n) \in Nat
  BY <1>2, PlacesBound
<1> DEFINE w == Weight(n)
           v == x[n]
<1>4. w \in Int /\ w > 0 /\ v \in Int /\ v >= 1
  <2>1. x[n] \in Blk
    BY <1>1
  <2>2. x[n] \in Nat
    BY <2>1, BlkNat
  <2>. QED
    BY <2>2, Weights
<1> HIDE DEF w, v
<1>5. w * v >= w /\ w * v = v * w /\ w * v \in Int
  BY <1>4, ProductAtLeast
<1> DEFINE p == w * v
<1> HIDE DEF p
<1>6. Places(x, n + 1) = Places(x, n) + p /\ p >= w /\ p \in Int
  BY <1>1, <1>5 DEF p, w, v
<1>. QED
  BY <1>3, <1>4, <1>6 DEF w

LEMMA InNatural ==
  ASSUME NEW n \in Nat, NEW x \in [0..n - 1 -> Blk], n > 0 => x[n - 1] # 0
  PROVE  x \in Natural
<1>1. len(x) = n
  BY ArrayVal
<1>. QED
  BY <1>1 DEF Natural

\* A number is worth at least its leading weight, and only the number without blocks
\* is worth nothing.
LEMMA OfNatural ==
  ASSUME NEW x \in Natural
  PROVE  /\ len(x) \in Nat /\ x \in [0..len(x) - 1 -> Blk]
         /\ len(x) > 0 => x[len(x) - 1] # 0 /\ Weight(len(x) - 1) <= Val(x)
         /\ Val(x) \in Nat /\ Val(x) < Weight(len(x)) /\ Val(x) = Places(x, len(x))
         /\ Val(x) = 0 <=> len(x) = 0
<1>1. PICK n \in Nat : x \in [0..n - 1 -> Blk]
  BY DEF Natural
<1>2. len(x) = n /\ Val(x) = Places(x, n) /\ Places(x, n) \in Nat /\ Places(x, n) < Weight(n)
  BY <1>1, ArrayVal
<1>3. n > 0 => x[n - 1] # 0
  BY <1>2 DEF Natural
<1>4. ASSUME n > 0 PROVE Weight(n - 1) <= Val(x) /\ Weight(n - 1) > 0 /\ Weight(n - 1) \in Nat
  <2> DEFINE m == n - 1
  <2>1. m \in Nat /\ n = m + 1 /\ x \in [0..m -> Blk] /\ x[m] # 0
    BY <1>1, <1>3, <1>4
  <2> HIDE DEF m
  <2>2. Weight(m) <= Places(x, m + 1)
    BY <2>1, AtLeastWeight
  <2>3. Weight(m) > 0 /\ Weight(m) \in Nat
    BY <2>1, Weights
  <2>. QED
    BY <1>2, <2>1, <2>2, <2>3 DEF m
<1>5. n = 0 => Places(x, n) = 0
  BY PlacesStep
<1>. QED
  BY <1>1, <1>2, <1>3, <1>4, <1>5

\* Only zeros are cut off.
LEMMA CutVal ==
  ASSUME NEW n \in Nat, NEW x \in [0..n - 1 -> Blk], NEW m \in Nat, m <= n,
         \A k \in Nat : m <= k /\ k < n => x[k] = 0
  PROVE  /\ Cut(x, m) \in [0..m - 1 -> Blk]
         /\ \A k \in 0..m - 1 : Cut(x, m)[k] = x[k]
         /\ Val(Cut(x, m)) = Places(x, n)
<1>1. Cut(x, m) \in [0..m - 1 -> Blk] /\ \A k \in 0..m - 1 : Cut(x, m)[k] = x[k]
  BY DEF Cut
<1> DEFINE y == Cut(x, m)
<1> HIDE DEF y
<1>2. y \in [0..m - 1 -> Blk] /\ \A k \in 0..m - 1 : y[k] = x[k]
  BY <1>1 DEF y
<1>3. Val(y) = Places(y, m)
  BY <1>2, ArrayVal
<1>4. Places(y, m) = Places(x, m)
  BY <1>2, PlacesAgree
<1>5. \A k \in 0..m - 1 : x[k] \in Blk
  OBVIOUS
<1>6. Places(x, m) \in Int
  BY <1>5, PlacesBound
<1>7. Places(x, n) = Places(x, m)
  BY <1>6, PlacesZero
<1>. QED
  BY <1>1, <1>3, <1>4, <1>7 DEF y

\* Without its leading zeros, an array is a number that is worth the same.
LEMMA ZapsLeadingZeros ==
  ASSUME NEW n \in Nat, NEW x \in [0..n - 1 -> Blk]
  PROVE  zapLeadingZeros(x) \in Natural /\ Val(zapLeadingZeros(x)) = Places(x, n)
<1> DEFINE S == {0} \union {i + 1 : i \in {j \in DOMAIN x : x[j] # 0}}
           m == Max(S)
<1>1. \A s \in S : s = 0 \/ \E i \in 0..n - 1 : x[i] # 0 /\ s = i + 1
  OBVIOUS
<1>2. S \subseteq Nat /\ S # {} /\ \A s \in S : s <= n
  <2>1. \A s \in S : s \in Nat /\ s <= n
    <3> HIDE DEF S
    <3>. QED
      BY <1>1
  <2>2. 0 \in S
    OBVIOUS
  <2>. QED
    BY <2>1, <2>2
<1>3. m \in S /\ \A s \in S : s <= m
  <2> HIDE DEF S
  <2>. QED
    BY <1>2, LargestNumber
<1>4. ASSUME NEW k \in Nat, m <= k, k < n PROVE x[k] = 0
  <2> SUFFICES ASSUME x[k] # 0 PROVE FALSE
    OBVIOUS
  <2>1. k \in DOMAIN x /\ k + 1 \in S
    BY <1>4
  <2>2. m \in Nat
    BY <1>2, <1>3
  <2> HIDE DEF S, m
  <2>. QED
    BY <1>3, <1>4, <2>1, <2>2
<1>5. m \in Nat /\ m <= n
  BY <1>2, <1>3
<1>6. zapLeadingZeros(x) = Cut(x, m)
  BY DEF zapLeadingZeros
<1>7. m > 0 => x[m - 1] # 0
  <2>1. m = 0 \/ \E i \in 0..n - 1 : x[i] # 0 /\ m = i + 1
    BY <1>1, <1>3
  <2> HIDE DEF m
  <2>2. ASSUME NEW i \in 0..n - 1, x[i] # 0, m = i + 1 PROVE x[m - 1] # 0
    <3>1. m - 1 = i
      BY <2>2
    <3>. QED
      BY <2>2, <3>1
  <2>. QED
    BY <2>1, <2>2
<1> HIDE DEF m, S
<1>8. /\ Cut(x, m) \in [0..m - 1 -> Blk] /\ Val(Cut(x, m)) = Places(x, n)
      /\ \A k \in 0..m - 1 : Cut(x, m)[k] = x[k]
  BY <1>4, <1>5, CutVal
<1>9. m > 0 => Cut(x, m)[m - 1] # 0
  BY <1>5, <1>7, <1>8
<1>. QED
  BY <1>5, <1>6, <1>8, <1>9, InNatural

\* To zap one leading zero is enough if an array is worth the weight of its last block
\* but one.
LEMMA ZapsOne ==
  ASSUME NEW n \in Nat, NEW x \in [0..n -> Blk], n > 0 => Weight(n - 1) <= Places(x, n + 1)
  PROVE  Zap(x) \in Natural /\ Val(Zap(x)) = Places(x, n + 1)
<1>1. n + 1 \in Nat /\ (n + 1) - 1 = n /\ x \in [0..(n + 1) - 1 -> Blk]
  OBVIOUS
<1>2. len(x) = n + 1 /\ Val(x) = Places(x, n + 1)
  BY <1>1, ArrayVal
<1>3. CASE x[n] # 0
  <2>1. Zap(x) = x
    BY <1>1, <1>2, <1>3 DEF Zap
  <2>2. x \in Natural
    BY <1>1, <1>3, InNatural
  <2>. QED
    BY <1>2, <2>1, <2>2
<1>4. CASE x[n] = 0
  <2>1. Zap(x) = Cut(x, n)
    BY <1>1, <1>2, <1>4 DEF Zap
  <2>2. \A k \in Nat : n <= k /\ k < n + 1 => x[k] = 0
    BY <1>4
  <2>3. /\ Cut(x, n) \in [0..n - 1 -> Blk] /\ \A k \in 0..n - 1 : Cut(x, n)[k] = x[k]
        /\ Val(Cut(x, n)) = Places(x, n + 1)
    BY <1>1, <2>2, CutVal
  <2>4. ASSUME n > 0 PROVE x[n - 1] # 0
    <3> SUFFICES ASSUME x[n - 1] = 0 PROVE FALSE
      OBVIOUS
    <3> DEFINE m == n - 1
    <3>1. m \in Nat /\ n = m + 1 /\ x[m] = 0 /\ \A k \in 0..m - 1 : x[k] \in Blk
      BY <2>4
    <3>2. Places(x, m) \in Nat /\ Places(x, m) < Weight(m)
      <4> HIDE DEF m
      <4>. QED
        BY <3>1, PlacesBound
    <3>3. \A k \in Nat : m <= k /\ k < n + 1 => x[k] = 0
      <4> SUFFICES ASSUME NEW k \in Nat, m <= k, k < n + 1 PROVE x[k] = 0
        OBVIOUS
      <4>1. k = m \/ k = n
        BY <3>1
      <4>. QED
        BY <1>4, <3>1, <4>1
    <3>4. m <= n + 1 /\ Places(x, m) \in Int
      BY <3>1, <3>2
    <3> HIDE DEF m
    <3>5. Places(x, n + 1) = Places(x, m)
      BY <1>1, <3>1, <3>3, <3>4, PlacesZero
    <3>6. Weight(m) <= Places(x, n + 1)
      BY <2>4 DEF m
    <3>7. Weight(m) \in Nat
      BY <3>1, Weights
    <3>. QED
      BY <3>2, <3>5, <3>6, <3>7
  <2>5. n > 0 => Cut(x, n)[n - 1] # 0
    BY <2>3, <2>4
  <2>. QED
    BY <2>1, <2>3, <2>5, InNatural
<1>. QED
  BY <1>3, <1>4

-----------------------------------------------------------------------------
(* Stages: a block, and the carry to the next one. *)

Unit(c) == IF c THEN 1 ELSE 0
StageState == [blk : Blk, carry : BOOLEAN]

\* What rolls over.
LEMMA RollsOver ==
  ASSUME NEW z \in Int
  PROVE  /\ 0 <= z /\ z < Radix => z % Radix = z
         /\ Radix <= z /\ z < 2 * Radix => z % Radix = z - Radix
         /\ -Radix <= z /\ z < 0 => z % Radix = z + Radix
<1> DEFINE R == Radix
<1>1. R \in Int /\ R > 0
  BY Weights
<1> HIDE DEF R
<1>2. ASSUME 0 <= z, z < R PROVE z % R = z
  <2>1. z \in 0..R - 1 /\ z = R * 0 + z
    BY <1>1, <1>2
  <2>. QED
    BY <1>1, <2>1, DivUnique
<1>3. ASSUME R <= z, z < 2 * R PROVE z % R = z - R
  <2>1. z - R \in 0..R - 1 /\ z = R * 1 + (z - R)
    BY <1>1, <1>3
  <2>. QED
    BY <1>1, <2>1, DivUnique
<1>4. ASSUME -R <= z, z < 0 PROVE z % R = z + R
  <2>1. z + R \in 0..R - 1 /\ z = R * (-1) + (z + R)
    BY <1>1, <1>4
  <2>. QED
    BY <1>1, <2>1, DivUnique
<1>. QED
  BY <1>2, <1>3, <1>4 DEF R

\* A stage adds or subtracts its blocks and the carry before it.
LEMMA AddStageVal ==
  ASSUME NEW x \in Blk, NEW y \in Blk, NEW c \in BOOLEAN
  PROVE  /\ AddStage(x, y, c) \in StageState
         /\ AddStage(x, y, c).blk + Unit(AddStage(x, y, c).carry) * Radix = x + y + Unit(c)
<1> DEFINE R == Radix
           sum == (x + y) % R
           temp == IF c THEN (sum + 1) % R ELSE sum
           carry == sum < x \/ (c /\ temp = 0)
<1>1. R \in Int /\ R > 1 /\ x \in Int /\ y \in Int /\ x >= 0 /\ x < R /\ y >= 0 /\ y < R
  BY BlkNat, Weights
<1>2. AddStage(x, y, c) = [blk |-> temp, carry |-> carry]
  BY DEF AddStage
<1>3. IF x + y < R THEN sum = x + y ELSE sum = x + y - R
  <2>1. x + y \in Int /\ 0 <= x + y /\ x + y < 2 * R
    BY <1>1
  <2>. QED
    BY <2>1, <1>1, RollsOver
<1>4. sum \in Int /\ 0 <= sum /\ sum < R /\ (sum < x <=> x + y >= R)
  <2> HIDE DEF sum, R
  <2>. QED
    BY <1>1, <1>3
<1>5. c => IF sum + 1 < R THEN temp = sum + 1 ELSE temp = sum + 1 - R
  <2>1. sum + 1 \in Int /\ 0 <= sum + 1 /\ sum + 1 < 2 * R
    BY <1>1, <1>4
  <2>. QED
    BY <2>1, <1>1, <1>4, RollsOver
<1>6. ~c => temp = sum
  OBVIOUS
<1> HIDE DEF sum, temp, R
<1>7. temp \in Int /\ 0 <= temp /\ temp < R /\ carry \in BOOLEAN
  BY <1>1, <1>4, <1>5, <1>6
<1>8. temp \in Blk
  BY <1>7, BlkNat DEF R
<1>9. ASSUME c PROVE temp + Unit(carry) * R = x + y + 1
  <2>1. CASE sum + 1 < R
    <3>1. temp = sum + 1 /\ temp # 0
      BY <1>4, <1>5, <1>9, <2>1
    <3>. QED
      BY <1>1, <1>3, <1>4, <1>9, <2>1, <3>1 DEF Unit
  <2>2. CASE ~(sum + 1 < R)
    <3>1. temp = 0 /\ sum = R - 1
      BY <1>1, <1>4, <1>5, <1>9, <2>2
    <3>2. x + y < R
      BY <1>1, <1>3, <3>1
    <3>. QED
      BY <1>1, <1>3, <1>4, <1>9, <3>1, <3>2 DEF Unit
  <2>. QED
    BY <2>1, <2>2
<1>10. ASSUME ~c PROVE temp + Unit(carry) * R = x + y
  BY <1>1, <1>3, <1>4, <1>6, <1>10 DEF Unit
<1> HIDE DEF carry
<1>11. temp + Unit(carry) * R = x + y + Unit(c)
  BY <1>1, <1>9, <1>10 DEF Unit
<1>. QED
  BY <1>2, <1>7, <1>8, <1>11 DEF StageState, R

LEMMA SubtractStageVal ==
  ASSUME NEW x \in Blk, NEW y \in Blk, NEW c \in BOOLEAN
  PROVE  /\ SubtractStage(x, y, c) \in StageState
         /\ SubtractStage(x, y, c).blk + (y + Unit(c)) = x + Unit(SubtractStage(x, y, c).carry) * Radix
<1> DEFINE R == Radix
           diff == (x - y) % R
           temp == IF c THEN (diff - 1) % R ELSE diff
           carry == diff > x \/ (c /\ diff = 0)
<1>1. R \in Int /\ R > 1 /\ x \in Int /\ y \in Int /\ x >= 0 /\ x < R /\ y >= 0 /\ y < R
  BY BlkNat, Weights
<1>2. SubtractStage(x, y, c) = [blk |-> temp, carry |-> carry]
  BY DEF SubtractStage
<1>3. IF x < y THEN diff = x - y + R ELSE diff = x - y
  <2>1. x - y \in Int /\ -R <= x - y /\ x - y < R
    BY <1>1
  <2>. QED
    BY <2>1, <1>1, RollsOver
<1>4. diff \in Int /\ 0 <= diff /\ diff < R /\ (diff > x <=> x < y)
  <2> HIDE DEF diff, R
  <2>. QED
    BY <1>1, <1>3
<1>5. c => IF diff = 0 THEN temp = R - 1 ELSE temp = diff - 1
  <2>1. diff - 1 \in Int /\ -R <= diff - 1 /\ diff - 1 < R
    BY <1>1, <1>4
  <2>. QED
    BY <2>1, <1>1, <1>4, RollsOver
<1>6. ~c => temp = diff
  OBVIOUS
<1> HIDE DEF diff, temp, R
<1>7. temp \in Int /\ 0 <= temp /\ temp < R /\ carry \in BOOLEAN
  BY <1>1, <1>4, <1>5, <1>6
<1>8. temp \in Blk
  BY <1>7, BlkNat DEF R
<1>9. ASSUME c PROVE temp + (y + 1) = x + Unit(carry) * R
  <2>1. CASE diff # 0
    BY <1>1, <1>3, <1>4, <1>5, <1>9, <2>1 DEF Unit
  <2>2. CASE diff = 0
    <3>1. temp = R - 1 /\ x = y
      BY <1>1, <1>3, <1>5, <1>9, <2>2
    <3>. QED
      BY <1>1, <1>9, <2>2, <3>1 DEF Unit
  <2>. QED
    BY <2>1, <2>2
<1>10. ASSUME ~c PROVE temp + y = x + Unit(carry) * R
  BY <1>1, <1>3, <1>4, <1>6, <1>10 DEF Unit
<1> HIDE DEF carry
<1>11. temp + (y + Unit(c)) = x + Unit(carry) * R
  BY <1>1, <1>7, <1>9, <1>10 DEF Unit
<1>. QED
  BY <1>2, <1>7, <1>8, <1>11 DEF StageState, R

-----------------------------------------------------------------------------
(* Stages for a row of blocks. *)

\* What the blocks i .. l - 1 of e are worth.
Above(e, i, l) == Places([k \in Nat |-> IF k >= i THEN e[k] ELSE 0], l)

\* Arrays that agree from block m upwards.
LEMMA PlacesRest ==
  ASSUME NEW v, NEW w, NEW m \in Nat, NEW n \in Nat, m <= n,
         \A k \in 0..n - 1 : v[k] \in Blk /\ w[k] \in Blk,
         \A k \in Nat : m <= k /\ k < n => v[k] = w[k]
  PROVE  Places(v, n) - Places(v, m) = Places(w, n) - Places(w, m)
<1>1. ASSUME NEW k \in Nat, k <= n PROVE Places(v, k) \in Int /\ Places(w, k) \in Int
  <2>1. \A j \in 0..k - 1 : v[j] \in Blk /\ w[j] \in Blk
    BY <1>1
  <2>. QED
    BY <1>1, <2>1, PlacesBound
<1> DEFINE S == {k \in Nat : m <= k /\ k <= n => Places(v, k) - Places(v, m) = Places(w, k) - Places(w, m)}
<1>2. 0 \in S
  <2> SUFFICES ASSUME m <= 0 PROVE Places(v, 0) - Places(v, m) = Places(w, 0) - Places(w, m)
    OBVIOUS
  <2>1. m = 0
    OBVIOUS
  <2>. QED
    BY <1>1, <2>1
<1>3. ASSUME NEW k \in Nat, k \in S PROVE k + 1 \in S
  <2> SUFFICES ASSUME m <= k + 1, k + 1 <= n
               PROVE  Places(v, k + 1) - Places(v, m) = Places(w, k + 1) - Places(w, m)
    OBVIOUS
  <2>1. CASE m = k + 1
    BY <1>1, <2>1
  <2>2. CASE m # k + 1
    <3>1. m <= k /\ k < n /\ k \in 0..n - 1
      BY <2>2
    <3>2. /\ Places(v, k + 1) = Places(v, k) + v[k] * Weight(k)
          /\ Places(w, k + 1) = Places(w, k) + w[k] * Weight(k)
          /\ v[k] = w[k] /\ w[k] \in Nat /\ Weight(k) \in Nat
      BY <3>1, PlacesStep, BlkNat, Weights
    <3> DEFINE p == w[k] * Weight(k)
    <3>3. p \in Int
      BY <3>2
    <3>4. Places(v, k + 1) = Places(v, k) + p /\ Places(w, k + 1) = Places(w, k) + p
      BY <3>2
    <3>5. Places(v, k) - Places(v, m) = Places(w, k) - Places(w, m)
      BY <1>3, <3>1
    <3> HIDE DEF p
    <3>. QED
      BY <1>1, <3>1, <3>3, <3>4, <3>5
  <2>. QED
    BY <2>1, <2>2
<1> HIDE DEF S
<1>4. \A k \in Nat : k \in S
  BY <1>2, <1>3, Inductive
<1>. QED
  BY <1>4 DEF S

\* The states of the stages for the blocks i .. l - 1.
Rippled(op, d, e, i, l, c, stage) ==
  /\ stage \in [i - 1..l - 1 -> StageState]
  /\ stage[i - 1].carry = c
  /\ \A k \in i..l - 1 : stage[k] = Stage(op, d[k], e[k], stage[k - 1].carry)

RippledBlocks(n, d, i, l, stage) ==
  [blk |-> [k \in 0..n - 1 |-> IF k \in i..l - 1 THEN stage[k].blk ELSE d[k]],
   carry |-> stage[l - 1].carry]

HasStages(op, n, d, e, i, l, c) ==
  \E stage : /\ Rippled(op, d, e, i, l, c, stage)
             /\ Ripple(op, d, e, i, l, c) = RippledBlocks(n, d, i, l, stage)

LEMMA RippleStages ==
  ASSUME NEW op \in {"add", "subtract"}, NEW n \in Nat, NEW d \in [0..n - 1 -> Blk],
         NEW i \in Nat, NEW l \in Nat, i <= l, l <= n, NEW e, NEW c \in BOOLEAN,
         \A k \in i..l - 1 : e[k] \in Blk
  PROVE  HasStages(op, n, d, e, i, l, c)
<1> DEFINE first == [blk |-> 0, carry |-> c]
           Equation(s) == s = [k \in i - 1..l - 1 |->
                                 IF k < i THEN first ELSE Stage(op, d[k], e[k], s[k - 1].carry)]
           stage == CHOOSE s : Equation(s)
           m == l - i
           G == [p \in (0..m - 1) \X StageState |-> Stage(op, d[i + p[1]], e[i + p[1]], p[2].carry)]
<1>1. Ripple(op, d, e, i, l, c) = RippledBlocks(n, d, i, l, stage)
  BY DEF Ripple, RippledBlocks
<1>2. m \in Nat
  OBVIOUS
<1>3. first \in StageState
  BY BlkNat, Weights DEF StageState
<1>4. ASSUME NEW x \in Blk, NEW y \in Blk, NEW b \in BOOLEAN PROVE Stage(op, x, y, b) \in StageState
  BY AddStageVal, SubtractStageVal DEF Stage
<1>5. ASSUME NEW k \in i..l - 1, NEW s \in StageState PROVE Stage(op, d[k], e[k], s.carry) \in StageState
  <2>1. s.carry \in BOOLEAN /\ d[k] \in Blk /\ e[k] \in Blk
    BY DEF StageState
  <2>. QED
    BY <1>4, <2>1
<1>6. G \in [(0..m - 1) \X StageState -> StageState]
  <2>1. ASSUME NEW p \in (0..m - 1) \X StageState
        PROVE  Stage(op, d[i + p[1]], e[i + p[1]], p[2].carry) \in StageState
    <3>1. i + p[1] \in i..l - 1 /\ p[2] \in StageState
      OBVIOUS
    <3>. QED
      BY <1>5, <3>1
  <2>. QED
    BY <2>1
<1> HIDE DEF first, G
<1>7. PICK f : f \in [0..m -> StageState] /\ f[0] = first /\ \A k \in 0..m - 1 : f[k + 1] = G[<<k, f[k]>>]
  <2> HIDE DEF m
  <2>1. first \in StageState /\ m \in Nat /\ Steps(StageState, m, G)
    BY <1>2, <1>3, <1>6 DEF Steps
  <2>2. \E f : Iterates(StageState, first, m, G, f)
    BY <2>1, IteratesIndexed
  <2>. QED
    BY <2>2 DEF Iterates
<1> DEFINE s == [k \in i - 1..l - 1 |-> f[k - (i - 1)]]
<1>8. ASSUME NEW k \in i - 1..l - 1
      PROVE  s[k] = IF k < i THEN first ELSE Stage(op, d[k], e[k], s[k - 1].carry)
  <2>1. CASE k < i
    <3>1. k - (i - 1) = 0
      BY <2>1
    <3>. QED
      BY <1>7, <2>1, <3>1
  <2>2. CASE ~(k < i)
    <3> DEFINE j == k - i
    <3>1. j \in 0..m - 1 /\ j + 1 = k - (i - 1) /\ i + j = k /\ k - 1 \in i - 1..l - 1 /\ (k - 1) - (i - 1) = j /\ j \in 0..m
      BY <2>2
    <3>2. s[k] = f[j + 1] /\ s[k - 1] = f[j] /\ f[j] \in StageState
      BY <1>7, <3>1
    <3>3. f[j + 1] = G[<<j, f[j]>>]
      BY <1>7, <3>1
    <3> HIDE DEF j, m, s
    <3>4. G[<<j, f[j]>>] = Stage(op, d[i + j], e[i + j], f[j].carry)
      BY <3>1, <3>2 DEF G
    <3>. QED
      BY <2>2, <3>1, <3>2, <3>3, <3>4
  <2>. QED
    BY <2>1, <2>2
<1>9. Equation(s)
  <2>1. s = [k \in i - 1..l - 1 |-> s[k]]
    OBVIOUS
  <2> HIDE DEF s
  <2>. QED
    BY <1>8, <2>1
<1>10. Equation(stage)
  BY <1>9
<1> HIDE DEF stage
<1>11. /\ DOMAIN stage = i - 1..l - 1 /\ stage = [k \in i - 1..l - 1 |-> stage[k]]
       /\ \A k \in i - 1..l - 1 : stage[k] = IF k < i THEN first ELSE Stage(op, d[k], e[k], stage[k - 1].carry)
  BY <1>10
<1> HIDE DEF Equation
<1>14. stage[i - 1] = first /\ i - 1 + 0 = i - 1 /\ i - 1 \in Int
  <2>1. i - 1 \in i - 1..l - 1 /\ i - 1 < i
    OBVIOUS
  <2>. QED
    BY <1>11, <2>1
<1>12. \A k \in i - 1..l - 1 : stage[k] \in StageState
  <2> DEFINE S == {k \in Nat : i - 1 + k <= l - 1 => stage[i - 1 + k] \in StageState}
  <2>1. 0 \in S
    BY <1>3, <1>14
  <2>2. ASSUME NEW k \in Nat, k \in S PROVE k + 1 \in S
    <3> SUFFICES ASSUME i - 1 + (k + 1) <= l - 1 PROVE stage[i - 1 + (k + 1)] \in StageState
      OBVIOUS
    <3>1. stage[i - 1 + k] \in StageState
      BY <2>2
    <3> DEFINE j == i - 1 + (k + 1)
    <3>2. j \in i - 1..l - 1 /\ j \in i..l - 1 /\ ~(j < i) /\ j - 1 = i - 1 + k
      OBVIOUS
    <3> HIDE DEF j
    <3>3. stage[j] = Stage(op, d[j], e[j], stage[j - 1].carry)
      BY <1>11, <3>2
    <3>4. stage[j - 1] \in StageState
      BY <3>1, <3>2
    <3>. QED
      BY <1>5, <3>2, <3>3, <3>4 DEF j
  <2> HIDE DEF S
  <2>3. \A k \in Nat : k \in S
    BY <2>1, <2>2, Inductive
  <2>4. ASSUME NEW k \in i - 1..l - 1 PROVE stage[k] \in StageState
    <3> DEFINE j == k - (i - 1)
    <3>1. j \in Nat /\ i - 1 + j = k /\ k <= l - 1
      OBVIOUS
    <3> HIDE DEF j
    <3>2. i - 1 + j <= l - 1 => stage[i - 1 + j] \in StageState
      BY <2>3, <3>1 DEF S
    <3>. QED
      BY <3>1, <3>2
  <2>. QED
    BY <2>4
<1>13. Rippled(op, d, e, i, l, c, stage)
  <2>1. stage[i - 1].carry = c
    BY <1>14 DEF first
  <2>2. ASSUME NEW k \in i..l - 1 PROVE stage[k] = Stage(op, d[k], e[k], stage[k - 1].carry)
    <3>1. k \in i - 1..l - 1 /\ ~(k < i)
      OBVIOUS
    <3>. QED
      BY <1>11, <3>1
  <2>. QED
    BY <1>11, <1>12, <2>1, <2>2 DEF Rippled
<1>. QED
  BY <1>1, <1>13 DEF HasStages

\* What the blocks of e from i upwards are worth, one block at a time.
LEMMA AboveStep ==
  ASSUME NEW e, NEW i \in Nat, NEW l \in Nat, i <= l, \A k \in i..l - 1 : e[k] \in Blk
  PROVE  /\ Above(e, i, i) = 0 /\ Above(e, i, l) \in Nat
         /\ \A k \in i..l - 1 : Above(e, i, k + 1) = Above(e, i, k) + e[k] * Weight(k)
         /\ \A k \in i..l : Above(e, i, k) \in Nat
<1> DEFINE E == [k \in Nat |-> IF k >= i THEN e[k] ELSE 0]
<1>1. \A k : Above(e, i, k) = Places(E, k)
  BY DEF Above
<1>2. ASSUME NEW k \in Nat PROVE /\ k < i => E[k] = 0
                                 /\ k >= i => E[k] = e[k]
  OBVIOUS
<1> HIDE DEF E
<1>3. ASSUME NEW k \in i..l PROVE Places(E, k) \in Nat
  <2>1. k \in Nat
    OBVIOUS
  <2>2. ASSUME NEW j \in 0..k - 1 PROVE E[j] \in Blk
    <3>1. j \in Nat /\ (j < i \/ j \in i..l - 1)
      OBVIOUS
    <3>. QED
      BY <1>2, <3>1, BlkNat, Weights
  <2>. QED
    BY <2>1, <2>2, PlacesBound
<1>4. Places(E, i) = 0
  <2>1. Places(E, 0) = 0
    BY PlacesStep
  <2>2. \A k \in Nat : 0 <= k /\ k < i => E[k] = 0
    BY <1>2
  <2>3. Places(E, i) = Places(E, 0)
    BY <2>1, <2>2, PlacesZero
  <2>. QED
    BY <2>1, <2>3
<1>5. ASSUME NEW k \in i..l - 1 PROVE Places(E, k + 1) = Places(E, k) + e[k] * Weight(k)
  <2>1. k \in Nat /\ k >= i
    OBVIOUS
  <2>. QED
    BY <1>2, <2>1, PlacesStep
<1>6. l \in i..l
  OBVIOUS
<1>. QED
  BY <1>1, <1>3, <1>4, <1>5, <1>6

LEMMA UnitInt ==
  ASSUME NEW c \in BOOLEAN, NEW k \in Nat
  PROVE  Unit(c) * Weight(k) \in Nat /\ Unit(c) * Weight(k) = (IF c THEN Weight(k) ELSE 0)
<1>1. Weight(k) \in Nat
  BY Weights
<1>2. CASE c
  BY <1>1, <1>2 DEF Unit
<1>3. CASE ~c
  BY <1>1, <1>3 DEF Unit
<1>. QED
  BY <1>2, <1>3

\* One stage more: a and b are worth g and h so far, with the carry u.
LEMMA CarriesOn ==
  ASSUME NEW w \in Int, NEW r \in Int, NEW x \in Int, NEW y \in Int, NEW z \in Int,
         NEW u \in Int, NEW v \in Int, x + v * r = y + z + u,
         NEW a \in Int, NEW b \in Int, NEW c \in Int, NEW f \in Int, a + u * w = b + c + f
  PROVE  (a + x * w) + v * (r * w) = (b + y * w) + (c + z * w) + f
<1>1. (x + v * r) * w = x * w + v * (r * w)
  OBVIOUS
<1>2. (y + z + u) * w = y * w + z * w + u * w
  OBVIOUS
<1>3. x * w \in Int /\ v * (r * w) \in Int /\ y * w \in Int /\ z * w \in Int /\ u * w \in Int
  OBVIOUS
<1> DEFINE xw == x * w
           vrw == v * (r * w)
           yw == y * w
           zw == z * w
           uw == u * w
<1>4. xw + vrw = yw + zw + uw /\ a + uw = b + c + f
  BY <1>1, <1>2
<1>5. xw \in Int /\ vrw \in Int /\ yw \in Int /\ zw \in Int /\ uw \in Int
  BY <1>3
<1> HIDE DEF xw, vrw, yw, zw, uw
<1>6. (a + xw) + vrw = (b + yw) + (c + zw) + f
  BY <1>4, <1>5
<1>. QED
  BY <1>6 DEF xw, vrw, yw, zw

\* The stages add or subtract what their blocks are worth.
RippleMeans(op, n, d, i, l, e, c, R) ==
  /\ R.blk \in [0..n - 1 -> Blk] /\ R.carry \in BOOLEAN
  /\ \A k \in 0..n - 1 : k < i \/ k >= l => R.blk[k] = d[k]
  /\ op = "add" => Places(R.blk, n) + Unit(R.carry) * Weight(l)
                     = Places(d, n) + Above(e, i, l) + Unit(c) * Weight(i)
  /\ op = "subtract" => Places(d, n) + Unit(R.carry) * Weight(l)
                          = Places(R.blk, n) + Above(e, i, l) + Unit(c) * Weight(i)

LEMMA RippleVal ==
  ASSUME NEW op \in {"add", "subtract"}, NEW n \in Nat, NEW d \in [0..n - 1 -> Blk],
         NEW i \in Nat, NEW l \in Nat, i <= l, l <= n, NEW e, NEW c \in BOOLEAN,
         \A k \in i..l - 1 : e[k] \in Blk
  PROVE  RippleMeans(op, n, d, i, l, e, c, Ripple(op, d, e, i, l, c))
<1>1. PICK stage : /\ Rippled(op, d, e, i, l, c, stage)
                   /\ Ripple(op, d, e, i, l, c) = RippledBlocks(n, d, i, l, stage)
  <2>1. HasStages(op, n, d, e, i, l, c)
    BY RippleStages
  <2>. QED
    BY <2>1 DEF HasStages
<1> DEFINE r == [k \in 0..n - 1 |-> IF k \in i..l - 1 THEN stage[k].blk ELSE d[k]]
           carry(k) == stage[k - 1].carry
<1>2. ASSUME NEW k \in i..l PROVE carry(k) \in BOOLEAN
  <2>1. k - 1 \in i - 1..l - 1
    OBVIOUS
  <2>2. stage[k - 1] \in StageState
    BY <1>1, <2>1 DEF Rippled
  <2>. QED
    BY <2>2 DEF StageState
<1>3. ASSUME NEW k \in i..l - 1
      PROVE  /\ stage[k].blk \in Blk /\ d[k] \in Blk /\ e[k] \in Blk /\ k \in Nat
             /\ op = "add" => stage[k].blk + Unit(carry(k + 1)) * Radix = d[k] + e[k] + Unit(carry(k))
             /\ op = "subtract" => d[k] + Unit(carry(k + 1)) * Radix = stage[k].blk + e[k] + Unit(carry(k))
  <2>1. d[k] \in Blk /\ e[k] \in Blk /\ k \in Nat /\ k \in i..l /\ (k + 1) - 1 = k /\ k \in i - 1..l - 1
    OBVIOUS
  <2>2. carry(k) \in BOOLEAN /\ carry(k + 1) = stage[k].carry
    BY <1>2, <2>1
  <2>3. stage[k] = Stage(op, d[k], e[k], carry(k)) /\ stage[k] \in StageState
    BY <1>1, <2>1 DEF Rippled
  <2> HIDE DEF carry
  <2>4. op = "add" => stage[k].blk + Unit(stage[k].carry) * Radix = d[k] + e[k] + Unit(carry(k))
    BY <2>1, <2>2, <2>3, AddStageVal DEF Stage
  <2>5. op = "subtract" => stage[k].blk + (e[k] + Unit(carry(k))) = d[k] + Unit(stage[k].carry) * Radix
    BY <2>1, <2>2, <2>3, SubtractStageVal DEF Stage
  <2>6. stage[k].blk \in Nat /\ d[k] \in Nat /\ e[k] \in Nat /\ Unit(carry(k)) \in Nat /\ stage[k].blk \in Blk
    BY <2>1, <2>3, BlkNat DEF StageState, Unit
  <2>7. op = "subtract" => d[k] + Unit(stage[k].carry) * Radix = stage[k].blk + e[k] + Unit(carry(k))
    BY <2>5, <2>6
  <2>. QED
    BY <2>1, <2>2, <2>4, <2>6, <2>7
<1>4. /\ \A k \in i..l - 1 : r[k] = stage[k].blk
      /\ \A k \in 0..n - 1 : k < i \/ k >= l => r[k] = d[k]
  OBVIOUS
<1>5. r \in [0..n - 1 -> Blk]
  <2>1. ASSUME NEW k \in 0..n - 1 PROVE r[k] \in Blk
    BY <1>3
  <2>. QED
    BY <2>1
<1>6. carry(i) = c /\ carry(l) = Ripple(op, d, e, i, l, c).carry /\ r = Ripple(op, d, e, i, l, c).blk
  BY <1>1 DEF Rippled, RippledBlocks
<1> HIDE DEF r, carry
<1>7. ASSUME NEW k \in Nat, k <= n PROVE Places(r, k) \in Int /\ Places(d, k) \in Int
  <2>1. \A j \in 0..k - 1 : r[j] \in Blk /\ d[j] \in Blk
    BY <1>5, <1>7
  <2>. QED
    BY <2>1, PlacesBound
<1>8. Places(r, i) = Places(d, i)
  <2>1. \A k \in 0..i - 1 : r[k] = d[k]
    BY <1>4
  <2>. QED
    BY <2>1, PlacesAgree
<1>9. Places(r, n) - Places(r, l) = Places(d, n) - Places(d, l)
  <2>1. \A k \in 0..n - 1 : r[k] \in Blk /\ d[k] \in Blk
    BY <1>5
  <2>2. \A k \in Nat : l <= k /\ k < n => r[k] = d[k]
    BY <1>4
  <2>. QED
    BY <2>1, <2>2, PlacesRest
<1> DEFINE f == Unit(c) * Weight(i)
<1>10. f \in Int
  BY UnitInt
<1> HIDE DEF f
<1> DEFINE Right(k) ==
      /\ op = "add" => Places(r, k) + Unit(carry(k)) * Weight(k) = Places(d, k) + Above(e, i, k) + f
      /\ op = "subtract" => Places(d, k) + Unit(carry(k)) * Weight(k) = Places(r, k) + Above(e, i, k) + f
<1>11. Right(i)
  <2>1. Above(e, i, i) = 0 /\ carry(i) = c /\ Places(r, i) \in Int /\ Places(d, i) \in Int
    BY <1>6, <1>7, AboveStep
  <2>. QED
    BY <1>8, <1>10, <2>1 DEF f
<1>12. ASSUME NEW k \in i..l - 1, Right(k) PROVE Right(k + 1)
  <2> DEFINE w == Weight(k)
             u == Unit(carry(k))
             v == Unit(carry(k + 1))
             a == Places(r, k)
             b == Places(d, k)
             g == Above(e, i, k)
             x == stage[k].blk
             y == d[k]
             z == e[k]
  <2>1. /\ k \in Nat /\ k \in i..l /\ k + 1 \in i..l /\ k <= n
        /\ w \in Int /\ Weight(k + 1) = Radix * w /\ Radix \in Int
    <3>1. k \in Nat /\ k \in i..l /\ k + 1 \in i..l /\ k <= n
      OBVIOUS
    <3>2. Weight(k) \in Nat /\ Weight(k + 1) = Radix * Weight(k) /\ Radix \in Nat
      BY <3>1, Weights
    <3>. QED
      BY <3>1, <3>2
  <2>2. u \in Int /\ v \in Int
    BY <1>2, <2>1 DEF Unit
  <2>3. a \in Int /\ b \in Int /\ g \in Int
    <3>1. \A j \in i..l : Above(e, i, j) \in Nat
      BY AboveStep
    <3>. QED
      BY <1>7, <2>1, <3>1
  <2>4. x \in Int /\ y \in Int /\ z \in Int
    BY <1>3, BlkNat
  <2>5. Places(r, k + 1) = a + x * w /\ Places(d, k + 1) = b + y * w
    BY <1>4, <2>1, PlacesStep
  <2>6. Above(e, i, k + 1) = g + z * w
    BY AboveStep
  <2>7. ASSUME op = "add" PROVE (a + x * w) + v * (Radix * w) = (b + y * w) + (g + z * w) + f
    <3>1. x + v * Radix = y + z + u
      BY <1>3, <2>7
    <3>2. a + u * w = b + g + f
      BY <1>12, <2>7
    <3> HIDE DEF a, b, g, x, y, z, u, v, w
    <3>. QED
      BY <1>10, <2>1, <2>2, <2>3, <2>4, <3>1, <3>2, CarriesOn
  <2>8. ASSUME op = "subtract" PROVE (b + y * w) + v * (Radix * w) = (a + x * w) + (g + z * w) + f
    <3>1. y + v * Radix = x + z + u
      BY <1>3, <2>8
    <3>2. b + u * w = a + g + f
      BY <1>12, <2>8
    <3> HIDE DEF a, b, g, x, y, z, u, v, w
    <3>. QED
      BY <1>10, <2>1, <2>2, <2>3, <2>4, <3>1, <3>2, CarriesOn
  <2>. QED
    BY <2>1, <2>5, <2>6, <2>7, <2>8
<1>13. Right(l)
  <2> DEFINE S == {k \in Nat : i + k <= l => Right(i + k)}
  <2> HIDE DEF Right
  <2>1. 0 \in S
    <3>1. i + 0 = i
      OBVIOUS
    <3>. QED
      BY <1>11, <3>1
  <2>2. ASSUME NEW k \in Nat, k \in S PROVE k + 1 \in S
    <3> SUFFICES ASSUME i + (k + 1) <= l PROVE Right(i + (k + 1))
      OBVIOUS
    <3> DEFINE j == i + k
    <3>1. j \in i..l - 1 /\ i + (k + 1) = j + 1 /\ Right(j)
      BY <2>2
    <3> HIDE DEF j
    <3>. QED
      BY <1>12, <3>1
  <2> HIDE DEF S
  <2>3. \A k \in Nat : k \in S
    BY <2>1, <2>2, Inductive
  <2>4. l - i \in Nat /\ i + (l - i) = l /\ l <= l
    OBVIOUS
  <2> DEFINE m == l - i
  <2>5. m \in Nat /\ i + m = l /\ m \in S
    BY <2>3, <2>4
  <2> HIDE DEF m
  <2>. QED
    BY <2>4, <2>5 DEF S
<1>14. /\ Unit(carry(l)) * Weight(l) \in Int /\ Above(e, i, l) \in Int
       /\ Places(r, l) \in Int /\ Places(r, n) \in Int /\ Places(d, l) \in Int /\ Places(d, n) \in Int
  <2>1. l \in i..l /\ n <= n
    OBVIOUS
  <2>2. Above(e, i, l) \in Nat
    BY AboveStep
  <2>3. carry(l) \in BOOLEAN
    BY <1>2, <2>1
  <2>4. Unit(carry(l)) * Weight(l) \in Nat
    BY <2>3, UnitInt
  <2>. QED
    BY <1>7, <2>1, <2>2, <2>4
<1> DEFINE o == Unit(carry(l)) * Weight(l)
<1>15. /\ op = "add" => Places(r, n) + o = Places(d, n) + Above(e, i, l) + f
       /\ op = "subtract" => Places(d, n) + o = Places(r, n) + Above(e, i, l) + f
  <2>1. o \in Int
    BY <1>14
  <2> DEFINE p == Places(r, l)
             q == Places(d, l)
             p2 == Places(r, n)
             q2 == Places(d, n)
             g == Above(e, i, l)
  <2>2. /\ op = "add" => Places(r, l) + o = Places(d, l) + Above(e, i, l) + f
        /\ op = "subtract" => Places(d, l) + o = Places(r, l) + Above(e, i, l) + f
    BY <1>13
  <2>3. /\ op = "add" => p + o = q + g + f
        /\ op = "subtract" => q + o = p + g + f
    BY <2>2
  <2>4. p \in Int /\ q \in Int /\ p2 \in Int /\ q2 \in Int /\ g \in Int /\ p2 - p = q2 - q
    BY <1>9, <1>14
  <2> HIDE DEF o, Right, p, q, p2, q2, g
  <2>5. /\ op = "add" => p2 + o = q2 + g + f
        /\ op = "subtract" => q2 + o = p2 + g + f
    BY <1>10, <2>1, <2>3, <2>4
  <2>. QED
    BY <2>5 DEF p2, q2, g
<1>16. l \in i..l
  OBVIOUS
<1> HIDE DEF Right
<1>. QED
  BY <1>2, <1>4, <1>5, <1>6, <1>15, <1>16 DEF f, RippleMeans

-----------------------------------------------------------------------------
(* Sums and differences. *)

\* A number padded with zeros is worth the same.
LEMMA PaddedVal ==
  ASSUME NEW m \in Nat, NEW n \in Nat, m <= n, NEW b \in [0..m - 1 -> Blk]
  PROVE  LET e == [k \in 0..n - 1 |-> getBlock(b, k)]
         IN  Above(e, 0, n) = Places(b, m) /\ \A k \in 0..n - 1 : e[k] \in Blk
<1> DEFINE e == [k \in 0..n - 1 |-> getBlock(b, k)]
           E == [k \in Nat |-> IF k >= 0 THEN e[k] ELSE 0]
<1>1. len(b) = m
  BY ArrayVal
<1>2. ASSUME NEW k \in 0..n - 1 PROVE e[k] = (IF k < m THEN b[k] ELSE 0) /\ e[k] \in Blk
  <2>1. e[k] = IF k >= m THEN 0 ELSE b[k]
    BY <1>1 DEF getBlock
  <2>2. 0 \in Blk
    BY SmallBlk
  <2>. QED
    BY <2>1, <2>2
<1>3. Above(e, 0, n) = Places(E, n)
  BY DEF Above
<1>4. \A k \in 0..n - 1 : E[k] = (IF k < m THEN b[k] ELSE 0)
  BY <1>2
<1> HIDE DEF E, e
<1>5. Places(E, m) = Places(b, m)
  <2>1. \A k \in 0..m - 1 : E[k] = b[k]
    BY <1>4
  <2>. QED
    BY <2>1, PlacesAgree
<1>6. Places(b, m) \in Int
  BY ArrayVal
<1>7. \A k \in Nat : m <= k /\ k < n => E[k] = 0
  BY <1>4
<1>8. Places(E, n) = Places(E, m)
  BY <1>5, <1>6, <1>7, PlacesZero
<1>. QED
  BY <1>2, <1>3, <1>5, <1>8 DEF e

\* The leading block of an array that is worth its weight is not zero.
LEMMA LeadingBlock ==
  ASSUME NEW n \in Nat, NEW x \in [0..n -> Blk], Weight(n) <= Places(x, n + 1)
  PROVE  x[n] # 0
<1> SUFFICES ASSUME x[n] = 0 PROVE FALSE
  OBVIOUS
<1>1. \A k \in 0..n - 1 : x[k] \in Blk
  OBVIOUS
<1>2. Places(x, n) \in Nat /\ Places(x, n) < Weight(n) /\ Weight(n) \in Nat
  BY <1>1, PlacesBound, Weights
<1>3. Places(x, n + 1) = Places(x, n) + 0 * Weight(n)
  BY PlacesStep
<1>. QED
  BY <1>2, <1>3

\* One block more.
LEMMA ExtendedVal ==
  ASSUME NEW n \in Nat, NEW x \in [0..n - 1 -> Blk], NEW d \in Blk
  PROVE  /\ Extended(x, d) \in [0..n -> Blk] /\ Extended(x, d)[n] = d
         /\ Places(Extended(x, d), n + 1) = Places(x, n) + d * Weight(n)
         /\ \A k \in 0..n - 1 : Extended(x, d)[k] = x[k]
<1> DEFINE y == Extended(x, d)
<1>1. len(x) = n
  BY ArrayVal
<1>2. y = [i \in 0..n |-> IF i = n THEN d ELSE x[i]]
  BY <1>1 DEF Extended
<1> HIDE DEF y
<1>3. y[n] = d /\ \A k \in 0..n - 1 : y[k] = x[k]
  BY <1>2
<1>4. y \in [0..n -> Blk]
  <2>1. \A i \in 0..n : i = n \/ i \in 0..n - 1
    OBVIOUS
  <2>. QED
    BY <1>2, <2>1
<1>5. Places(y, n) = Places(x, n)
  BY <1>3, PlacesAgree
<1>6. Places(y, n + 1) = Places(y, n) + y[n] * Weight(n)
  BY PlacesStep
<1>. QED
  BY <1>3, <1>4, <1>5, <1>6 DEF y

\* A sum of blocks, with its last carry as a block of its own.
LEMMA CarriedVal ==
  ASSUME NEW n \in Nat, NEW x \in [0..n - 1 -> Blk], NEW c \in BOOLEAN, NEW v \in Nat,
         Places(x, n) + Unit(c) * Weight(n) = v, n > 0 => Weight(n - 1) <= v
  PROVE  /\ (IF c THEN Extended(x, 1) ELSE x) \in Natural
         /\ Val(IF c THEN Extended(x, 1) ELSE x) = v
<1>1. Places(x, n) \in Nat /\ Weight(n) \in Nat
  BY ArrayVal, Weights
<1>2. CASE c
  <2>1. 1 \in Blk
    BY SmallBlk
  <2> DEFINE y == Extended(x, 1)
  <2>2. y \in [0..n -> Blk] /\ y[n] = 1 /\ Places(y, n + 1) = Places(x, n) + 1 * Weight(n)
    BY <2>1, ExtendedVal
  <2> HIDE DEF y
  <2>3. n + 1 \in Nat /\ (n + 1) - 1 = n /\ y \in [0..(n + 1) - 1 -> Blk] /\ y[(n + 1) - 1] # 0
    BY <2>2
  <2>4. y \in Natural /\ Val(y) = Places(y, n + 1)
    <3> DEFINE m == n + 1
    <3>1. m \in Nat /\ y \in [0..m - 1 -> Blk] /\ y[m - 1] # 0
      BY <2>3
    <3> HIDE DEF m
    <3>2. y \in Natural /\ Val(y) = Places(y, m)
      BY <3>1, InNatural, ArrayVal
    <3>. QED
      BY <3>2 DEF m
  <2>. QED
    BY <1>1, <1>2, <2>2, <2>4 DEF y, Unit
<1>3. CASE ~c
  <2>1. Places(x, n) = v
    BY <1>1, <1>3 DEF Unit
  <2>2. ASSUME n > 0 PROVE x[n - 1] # 0
    <3> DEFINE m == n - 1
    <3>1. m \in Nat /\ n = m + 1 /\ x \in [0..m -> Blk] /\ Weight(m) <= Places(x, m + 1)
      BY <2>1, <2>2
    <3> HIDE DEF m
    <3>2. x[m] # 0
      BY <3>1, LeadingBlock
    <3>. QED
      BY <3>2 DEF m
  <2>. QED
    BY <1>3, <2>1, <2>2, InNatural, ArrayVal
<1>. QED
  BY <1>2, <1>3

\* The sum of two numbers.
LEMMA SumVal ==
  ASSUME NEW a \in Natural, NEW b \in Natural
  PROVE  Sum(a, b) \in Natural /\ Val(Sum(a, b)) = Val(a) + Val(b)
<1>1. /\ len(a) \in Nat /\ len(b) \in Nat /\ Val(a) \in Nat /\ Val(b) \in Nat
      /\ (Val(a) = 0 <=> len(a) = 0) /\ (Val(b) = 0 <=> len(b) = 0)
  BY OfNatural
<1>2. CASE len(a) = 0
  BY <1>1, <1>2 DEF Sum
<1>3. CASE len(a) # 0 /\ len(b) = 0
  BY <1>1, <1>3 DEF Sum
<1>4. CASE len(a) # 0 /\ len(b) # 0
  <2> DEFINE a2 == Longer(a, b)
             b2 == Shorter(a, b)
             n == len(a2)
             e == [k \in DOMAIN a2 |-> getBlock(b2, k)]
             R == Ripple("add", a2, e, 0, n, FALSE)
  <2>1. /\ a2 \in Natural /\ b2 \in Natural /\ len(b2) <= len(a2)
        /\ Val(a2) + Val(b2) = Val(a) + Val(b) /\ len(a2) # 0
    BY <1>1, <1>4 DEF Longer, Shorter
  <2>2. Sum(a, b) = IF R.carry THEN Extended(R.blk, 1) ELSE R.blk
    BY <1>4 DEF Sum
  <2> HIDE DEF a2, b2
  <2>3. /\ n \in Nat /\ n > 0 /\ a2 \in [0..n - 1 -> Blk] /\ Weight(n - 1) <= Val(a2) /\ Val(a2) = Places(a2, n)
        /\ len(b2) \in Nat /\ b2 \in [0..len(b2) - 1 -> Blk] /\ Val(b2) = Places(b2, len(b2))
        /\ Val(a2) \in Nat /\ Val(b2) \in Nat
    BY <2>1, OfNatural
  <2>4. Above(e, 0, n) = Val(b2) /\ \A k \in 0..n - 1 : e[k] \in Blk
    <3>1. e = [k \in 0..n - 1 |-> getBlock(b2, k)]
      BY <2>3
    <3> HIDE DEF e, n
    <3>. QED
      BY <2>1, <2>3, <3>1, PaddedVal DEF n
  <2> HIDE DEF n, e
  <2>5. /\ R.blk \in [0..n - 1 -> Blk] /\ R.carry \in BOOLEAN
        /\ Places(R.blk, n) + Unit(R.carry) * Weight(n) = Places(a2, n) + Above(e, 0, n) + Unit(FALSE) * Weight(0)
    <3>1. "add" \in {"add", "subtract"} /\ 0 \in Nat /\ 0 <= n /\ n <= n /\ FALSE \in BOOLEAN
      BY <2>3
    <3>2. RippleMeans("add", n, a2, 0, n, e, FALSE, R)
      BY <2>3, <2>4, <3>1, RippleVal
    <3> HIDE DEF R
    <3>. QED
      BY <3>2 DEF RippleMeans
  <2> HIDE DEF R
  <2>6. Unit(FALSE) * Weight(0) = 0
    BY Weights DEF Unit
  <2>7. Places(R.blk, n) + Unit(R.carry) * Weight(n) = Val(a2) + Val(b2)
    <3> DEFINE o == Unit(FALSE) * Weight(0)
               g == Above(e, 0, n)
               p == Places(a2, n)
    <3>1. o = 0 /\ g = Val(b2) /\ p = Val(a2) /\ Places(R.blk, n) + Unit(R.carry) * Weight(n) = p + g + o
      BY <2>3, <2>4, <2>5, <2>6
    <3> HIDE DEF o, g, p
    <3>. QED
      BY <2>3, <3>1
  <2> DEFINE v == Val(a2) + Val(b2)
  <2>8. v \in Nat /\ Weight(n - 1) <= v
    <3>1. n - 1 \in Nat
      BY <2>3
    <3>2. Weight(n - 1) \in Nat
      BY <3>1, Weights
    <3>. QED
      BY <2>3, <3>2
  <2>9. /\ (IF R.carry THEN Extended(R.blk, 1) ELSE R.blk) \in Natural
        /\ Val(IF R.carry THEN Extended(R.blk, 1) ELSE R.blk) = v
    <3> HIDE DEF v
    <3>1. Places(R.blk, n) + Unit(R.carry) * Weight(n) = v
      BY <2>7 DEF v
    <3>. QED
      BY <2>3, <2>5, <2>8, <3>1, CarriedVal
  <2>. QED
    BY <2>1, <2>2, <2>9 DEF R
<1>. QED
  BY <1>2, <1>3, <1>4

\* A number with fewer blocks is less.
LEMMA ShorterIsLess ==
  ASSUME NEW a \in Natural, NEW b \in Natural, len(a) < len(b)
  PROVE  Val(a) < Val(b)
<1>1. /\ len(a) \in Nat /\ len(b) \in Nat /\ Val(a) \in Nat /\ Val(b) \in Nat
      /\ Val(a) < Weight(len(a)) /\ Weight(len(b) - 1) <= Val(b)
  BY OfNatural
<1>2. len(b) - 1 \in Nat /\ len(a) <= len(b) - 1
  BY <1>1
<1>3. Weight(len(a)) <= Weight(len(b) - 1) /\ Weight(len(a)) \in Nat /\ Weight(len(b) - 1) \in Nat
  BY <1>1, <1>2, WeightsGrow, Weights
<1>. QED
  BY <1>1, <1>3

\* The difference of two numbers: a borrow is left over if it is negative.
LEMMA DifferenceVal ==
  ASSUME NEW a \in Natural, NEW b \in Natural, len(b) <= len(a)
  PROVE  LET R == Difference(a, b)
         IN  /\ R.blk \in [0..len(a) - 1 -> Blk] /\ R.carry \in BOOLEAN
             /\ R.carry <=> Val(a) < Val(b)
             /\ ~R.carry => Places(R.blk, len(a)) = Val(a) - Val(b)
<1> DEFINE n == len(a)
           e == [k \in DOMAIN a |-> getBlock(b, k)]
           R == Ripple("subtract", a, e, 0, n, FALSE)
<1>1. Difference(a, b) = R
  BY DEF Difference
<1>2. /\ n \in Nat /\ a \in [0..n - 1 -> Blk] /\ Val(a) = Places(a, n)
      /\ len(b) \in Nat /\ b \in [0..len(b) - 1 -> Blk] /\ Val(b) = Places(b, len(b))
      /\ Val(a) \in Nat /\ Val(b) \in Nat
  BY OfNatural
<1>3. Above(e, 0, n) = Val(b) /\ \A k \in 0..n - 1 : e[k] \in Blk
  <2>1. e = [k \in 0..n - 1 |-> getBlock(b, k)]
    BY <1>2
  <2> HIDE DEF e, n
  <2>. QED
    BY <1>2, <2>1, PaddedVal DEF n
<1> HIDE DEF e, n
<1>4. /\ R.blk \in [0..n - 1 -> Blk] /\ R.carry \in BOOLEAN
      /\ Places(a, n) + Unit(R.carry) * Weight(n) = Places(R.blk, n) + Above(e, 0, n) + Unit(FALSE) * Weight(0)
  <2>1. "subtract" \in {"add", "subtract"} /\ 0 \in Nat /\ 0 <= n /\ n <= n /\ FALSE \in BOOLEAN
    BY <1>2
  <2>2. RippleMeans("subtract", n, a, 0, n, e, FALSE, R)
    BY <1>2, <1>3, <2>1, RippleVal
  <2> HIDE DEF R
  <2>. QED
    BY <2>2 DEF RippleMeans
<1> HIDE DEF R
<1>5. Unit(FALSE) * Weight(0) = 0
  BY Weights DEF Unit
<1>6. Places(R.blk, n) \in Nat /\ Places(R.blk, n) < Weight(n) /\ Weight(n) \in Nat
  BY <1>2, <1>4, ArrayVal, Weights
<1>7. CASE R.carry
  <2>1. Val(a) + Weight(n) = Places(R.blk, n) + Val(b)
    BY <1>2, <1>3, <1>4, <1>5, <1>6, <1>7 DEF Unit
  <2>2. Val(a) < Val(b)
    BY <1>2, <1>6, <2>1
  <2>. QED
    BY <1>1, <1>4, <1>7, <2>2 DEF n
<1>8. CASE ~R.carry
  <2>1. Val(a) = Places(R.blk, n) + Val(b)
    BY <1>2, <1>3, <1>4, <1>5, <1>6, <1>8 DEF Unit
  <2>2. ~(Val(a) < Val(b)) /\ Places(R.blk, n) = Val(a) - Val(b)
    BY <1>2, <1>6, <2>1
  <2>. QED
    BY <1>1, <1>4, <1>8, <2>2 DEF n
<1>. QED
  BY <1>7, <1>8

\* Zeros are worth nothing.
LEMMA ZerosVal ==
  ASSUME NEW n \in Nat
  PROVE  /\ Zeros(n) \in [0..n - 1 -> Blk] /\ Places(Zeros(n), n) = 0 /\ Above(Zeros(n), 0, n) = 0
         /\ \A k \in 0..n - 1 : Zeros(n)[k] = 0
<1>1. Zeros(n) \in [0..n - 1 -> Blk] /\ \A k \in 0..n - 1 : Zeros(n)[k] = 0
  BY BlkNat, Weights DEF Zeros
<1>2. ASSUME NEW w, \A k \in 0..n - 1 : w[k] = 0 PROVE Places(w, n) = 0
  <2>1. Places(w, 0) = 0
    BY PlacesStep
  <2>2. \A k \in Nat : 0 <= k /\ k < n => w[k] = 0
    BY <1>2
  <2>3. Places(w, n) = Places(w, 0)
    BY <2>1, <2>2, PlacesZero
  <2>. QED
    BY <2>1, <2>3
<1>3. Places(Zeros(n), n) = 0
  BY <1>1, <1>2
<1> DEFINE E == [k \in Nat |-> IF k >= 0 THEN Zeros(n)[k] ELSE 0]
<1>4. \A k \in 0..n - 1 : E[k] = 0
  BY <1>1
<1>5. Above(Zeros(n), 0, n) = Places(E, n)
  BY DEF Above
<1>6. Places(E, n) = 0
  <2> HIDE DEF E
  <2>. QED
    BY <1>2, <1>4
<1>. QED
  BY <1>1, <1>3, <1>5, <1>6

\* One more.
LEMMA IncrementVal ==
  ASSUME NEW a \in Natural
  PROVE  LET sum == Ripple("add", a, Zeros(len(a)), 0, len(a), TRUE)
             x == IF sum.carry THEN Extended(sum.blk, 1) ELSE sum.blk
         IN  x \in Natural /\ Val(x) = Val(a) + 1
<1> DEFINE n == len(a)
           e == Zeros(n)
           R == Ripple("add", a, e, 0, n, TRUE)
<1>1. /\ n \in Nat /\ a \in [0..n - 1 -> Blk] /\ Val(a) = Places(a, n) /\ Val(a) \in Nat
      /\ n > 0 => Weight(n - 1) <= Val(a)
  BY OfNatural
<1> HIDE DEF n
<1>2. Above(e, 0, n) = 0 /\ \A k \in 0..n - 1 : e[k] \in Blk
  BY <1>1, ZerosVal
<1> HIDE DEF e
<1>3. /\ R.blk \in [0..n - 1 -> Blk] /\ R.carry \in BOOLEAN
      /\ Places(R.blk, n) + Unit(R.carry) * Weight(n) = Places(a, n) + Above(e, 0, n) + Unit(TRUE) * Weight(0)
  <2>1. "add" \in {"add", "subtract"} /\ 0 \in Nat /\ 0 <= n /\ n <= n /\ TRUE \in BOOLEAN
    BY <1>1
  <2>2. RippleMeans("add", n, a, 0, n, e, TRUE, R)
    BY <1>1, <1>2, <2>1, RippleVal
  <2> HIDE DEF R
  <2>. QED
    BY <2>2 DEF RippleMeans
<1> HIDE DEF R
<1>4. Unit(TRUE) * Weight(0) = 1
  BY Weights DEF Unit
<1> DEFINE v == Val(a) + 1
<1>5. Places(R.blk, n) + Unit(R.carry) * Weight(n) = v
  <2> DEFINE o == Unit(TRUE) * Weight(0)
             g == Above(e, 0, n)
             p == Places(a, n)
  <2>1. o = 1 /\ g = 0 /\ p = Val(a) /\ Places(R.blk, n) + Unit(R.carry) * Weight(n) = p + g + o
    BY <1>1, <1>2, <1>3, <1>4
  <2> HIDE DEF o, g, p
  <2>. QED
    BY <1>1, <2>1
<1>6. v \in Nat /\ (n > 0 => Weight(n - 1) <= v)
  <2>1. n > 0 => n - 1 \in Nat /\ Weight(n - 1) \in Nat
    BY <1>1, Weights
  <2>. QED
    BY <1>1, <2>1
<1>7. /\ (IF R.carry THEN Extended(R.blk, 1) ELSE R.blk) \in Natural
      /\ Val(IF R.carry THEN Extended(R.blk, 1) ELSE R.blk) = v
  <2> HIDE DEF v
  <2>. QED
    BY <1>1, <1>3, <1>5, <1>6, CarriedVal
<1>. QED
  BY <1>7 DEF R, e, n

\* One less.
LEMMA DecrementVal ==
  ASSUME NEW a \in Natural, len(a) > 0
  PROVE  LET x == Zap(Ripple("subtract", a, Zeros(len(a)), 0, len(a), TRUE).blk)
         IN  x \in Natural /\ Val(x) = Val(a) - 1
<1> DEFINE n == len(a)
           m == n - 1
           e == Zeros(n)
           R == Ripple("subtract", a, e, 0, n, TRUE)
<1>1. /\ n \in Nat /\ a \in [0..n - 1 -> Blk] /\ Val(a) = Places(a, n) /\ Val(a) \in Nat
      /\ Weight(n - 1) <= Val(a) /\ n > 0
  BY OfNatural
<1> HIDE DEF n
<1>2. Above(e, 0, n) = 0 /\ \A k \in 0..n - 1 : e[k] \in Blk
  BY <1>1, ZerosVal
<1> HIDE DEF e
<1>3. /\ R.blk \in [0..n - 1 -> Blk] /\ R.carry \in BOOLEAN
      /\ Places(a, n) + Unit(R.carry) * Weight(n) = Places(R.blk, n) + Above(e, 0, n) + Unit(TRUE) * Weight(0)
  <2>1. "subtract" \in {"add", "subtract"} /\ 0 \in Nat /\ 0 <= n /\ n <= n /\ TRUE \in BOOLEAN
    BY <1>1
  <2>2. RippleMeans("subtract", n, a, 0, n, e, TRUE, R)
    BY <1>1, <1>2, <2>1, RippleVal
  <2> HIDE DEF R
  <2>. QED
    BY <2>2 DEF RippleMeans
<1> HIDE DEF R
<1>4. Unit(TRUE) * Weight(0) = 1
  BY Weights DEF Unit
<1>5. m \in Nat /\ n = m + 1 /\ Weight(m) \in Nat /\ Weight(m) > 0 /\ Weight(n) \in Nat
  <2>1. m \in Nat /\ n = m + 1
    BY <1>1
  <2>. QED
    BY <1>1, <2>1, Weights
<1>6. Places(R.blk, n) \in Nat /\ Places(R.blk, n) < Weight(n)
  BY <1>1, <1>3, ArrayVal
<1>7. ~R.carry
  <2> SUFFICES ASSUME R.carry PROVE FALSE
    OBVIOUS
  <2>1. Val(a) + Weight(n) = Places(R.blk, n) + 1
    BY <1>1, <1>2, <1>3, <1>4, <1>5, <1>6 DEF Unit
  <2>2. Val(a) >= 1
    BY <1>1, <1>5
  <2>. QED
    BY <1>1, <1>5, <1>6, <2>1, <2>2
<1>8. Places(R.blk, n) = Val(a) - 1
  BY <1>1, <1>2, <1>3, <1>4, <1>5, <1>6, <1>7 DEF Unit
<1>9. m > 0 => Weight(m - 1) <= Places(R.blk, m + 1)
  <2> SUFFICES ASSUME m > 0 PROVE Weight(m - 1) <= Places(R.blk, n)
    BY <1>5
  <2> DEFINE l == m - 1
             w == Weight(l)
             r == Radix
  <2>1. l \in Nat /\ m = l + 1
    BY <1>5
  <2>2. w \in Int /\ w > 0 /\ r \in Int /\ r > 1 /\ Weight(m) = r * w
    BY <2>1, Weights
  <2> HIDE DEF w, r
  <2>3. r * w >= w + 1
    <3>1. r - 1 >= 1 /\ r - 1 \in Int
      BY <2>2
    <3>2. w * (r - 1) >= w /\ w * (r - 1) = r * w - w
      BY <2>2, <3>1, ProductAtLeast
    <3>. QED
      BY <2>2, <3>2
  <2>4. Weight(m) <= Val(a)
    BY <1>1
  <2>. QED
    BY <1>1, <1>5, <1>8, <2>2, <2>3, <2>4 DEF w
<1>10. Zap(R.blk) \in Natural /\ Val(Zap(R.blk)) = Places(R.blk, m + 1)
  <2>1. R.blk \in [0..m -> Blk]
    BY <1>3
  <2> HIDE DEF m
  <2>. QED
    BY <1>5, <1>9, <2>1, ZapsOne
<1>. QED
  BY <1>5, <1>8, <1>10 DEF R, e, n

-----------------------------------------------------------------------------
(* Comparisons. *)

\* The highest block in which two arrays differ decides.
LEMMA HigherBlock ==
  ASSUME NEW n \in Nat, NEW x \in [0..n - 1 -> Blk], NEW y \in [0..n - 1 -> Blk],
         NEW m \in 0..n - 1, x[m] > y[m], \A k \in 0..n - 1 : k > m => x[k] = y[k]
  PROVE  Places(y, n) < Places(x, n)
<1> DEFINE w == Weight(m)
           a == x[m]
           b == y[m]
           p == Places(x, m)
           q == Places(y, m)
<1>1. m \in Nat /\ m + 1 \in Nat /\ m + 1 <= n /\ w \in Int /\ w > 0
  <2>1. m \in Nat /\ m + 1 \in Nat /\ m + 1 <= n
    OBVIOUS
  <2>. QED
    BY <2>1, Weights
<1>2. \A k \in 0..n - 1 : x[k] \in Blk /\ y[k] \in Blk
  OBVIOUS
<1>3. \A k \in Nat : m + 1 <= k /\ k < n => x[k] = y[k]
  OBVIOUS
<1>4. Places(x, n) - Places(x, m + 1) = Places(y, n) - Places(y, m + 1)
  BY <1>1, <1>2, <1>3, PlacesRest
<1>5. /\ Places(x, m + 1) = p + a * w /\ Places(y, m + 1) = q + b * w
  BY <1>1, PlacesStep
<1>6. p \in Int /\ p >= 0 /\ q \in Int /\ q < w
  <2>1. \A k \in 0..m - 1 : x[k] \in Blk /\ y[k] \in Blk
    BY <1>2
  <2>. QED
    BY <1>1, <2>1, PlacesBound
<1>7. a \in Int /\ b \in Int /\ a > b
  BY <1>2, BlkNat
<1>8. Places(x, n) \in Int /\ Places(y, n) \in Int
  BY ArrayVal
<1> HIDE DEF w, a, b, p, q
<1>9. q + b * w < p + a * w /\ b * w \in Int /\ a * w \in Int
  <2>1. a - b >= 1 /\ a - b \in Int
    BY <1>7
  <2>2. w * (a - b) >= w
    BY <1>1, <2>1, ProductAtLeast
  <2>3. w * (a - b) = a * w - b * w /\ b * w \in Int /\ a * w \in Int
    BY <1>1, <1>7
  <2> DEFINE aw == a * w
             bw == b * w
  <2>4. aw - bw >= w /\ aw \in Int /\ bw \in Int
    BY <2>2, <2>3
  <2> HIDE DEF aw, bw
  <2>5. q + bw < p + aw
    BY <1>1, <1>6, <2>4
  <2>. QED
    BY <2>3, <2>5 DEF aw, bw
<1> DEFINE g == Places(x, m + 1)
           h == Places(y, m + 1)
<1>10. h < g /\ g \in Int /\ h \in Int /\ Places(x, n) - g = Places(y, n) - h
  BY <1>4, <1>5, <1>6, <1>9
<1> HIDE DEF g, h
<1>. QED
  BY <1>8, <1>10

\* compareTo has the sign of the difference, and equal numbers are the same arrays.
LEMMA CompareVal ==
  ASSUME NEW a \in Natural, NEW b \in Natural
  PROVE  /\ Val(a) < Val(b) => compareTo(a, b) = -1
         /\ Val(a) > Val(b) => compareTo(a, b) = 1
         /\ Val(a) = Val(b) => compareTo(a, b) = 0 /\ a = b
<1> DEFINE Differ == {i \in DOMAIN a : a[i] # b[i]}
           c == compareTo(a, b)
<1>1. c = IF len(a) < len(b) THEN -1
          ELSE IF len(a) > len(b) THEN 1
          ELSE IF Differ = {} THEN 0
          ELSE IF a[Max(Differ)] > b[Max(Differ)] THEN 1 ELSE -1
  BY DEF compareTo
<1>2. /\ len(a) \in Nat /\ len(b) \in Nat /\ Val(a) \in Nat /\ Val(b) \in Nat
      /\ a \in [0..len(a) - 1 -> Blk] /\ b \in [0..len(b) - 1 -> Blk]
      /\ Val(a) = Places(a, len(a)) /\ Val(b) = Places(b, len(b))
  BY OfNatural
<1>3. CASE len(a) < len(b)
  BY <1>1, <1>2, <1>3, ShorterIsLess
<1>4. CASE len(b) < len(a)
  BY <1>1, <1>2, <1>4, ShorterIsLess
<1>5. CASE len(a) = len(b)
  <2> DEFINE n == len(a)
  <2>1. n \in Nat /\ a \in [0..n - 1 -> Blk] /\ b \in [0..n - 1 -> Blk] /\ Val(a) = Places(a, n) /\ Val(b) = Places(b, n)
    BY <1>2, <1>5
  <2>2. CASE Differ = {}
    <3>1. \A k \in 0..n - 1 : a[k] = b[k]
      BY <2>1, <2>2
    <3>2. a = b
      BY <2>1, <3>1
    <3>. QED
      BY <1>1, <1>2, <1>5, <2>2, <3>2
  <2>3. CASE Differ # {}
    <3> DEFINE m == Max(Differ)
    <3>1. Differ \subseteq Nat /\ \A k \in Differ : k <= n
      BY <2>1
    <3>2. m \in Differ /\ \A k \in Differ : k <= m
      <4> HIDE DEF Differ
      <4>. QED
        BY <2>1, <2>3, <3>1, LargestNumber
    <3>3. m \in 0..n - 1 /\ a[m] # b[m]
      BY <2>1, <3>2
    <3>4. \A k \in 0..n - 1 : k > m => a[k] = b[k]
      <4> SUFFICES ASSUME NEW k \in 0..n - 1, k > m, a[k] # b[k] PROVE FALSE
        OBVIOUS
      <4>1. k \in Differ
        BY <2>1
      <4>2. k <= m /\ m \in Int
        BY <3>2, <3>3, <4>1
      <4>. QED
        BY <4>2
    <3>5. a[m] \in Nat /\ b[m] \in Nat
      <4>1. a[m] \in Blk /\ b[m] \in Blk
        BY <2>1, <3>3
      <4>. QED
        BY <4>1, BlkNat
    <3>6. c = IF a[m] > b[m] THEN 1 ELSE -1
      BY <1>1, <1>2, <1>5, <2>3
    <3> HIDE DEF m, n, Differ, c
    <3>7. CASE a[m] > b[m]
      <4>1. Places(b, n) < Places(a, n)
        BY <2>1, <3>3, <3>4, <3>7, HigherBlock
      <4>. QED
        BY <1>2, <2>1, <3>6, <3>7, <4>1 DEF c
    <3>8. CASE b[m] > a[m]
      <4>1. \A k \in 0..n - 1 : k > m => b[k] = a[k]
        BY <3>4
      <4>2. Places(a, n) < Places(b, n)
        BY <2>1, <3>3, <3>8, <4>1, HigherBlock
      <4>. QED
        BY <1>2, <2>1, <3>5, <3>6, <3>8, <4>2 DEF c
    <3>. QED
      BY <3>3, <3>5, <3>7, <3>8
  <2>. QED
    BY <2>2, <2>3
<1>. QED
  BY <1>2, <1>3, <1>4, <1>5

-----------------------------------------------------------------------------
(* Shifts. *)

\* Bits and blocks.
LEMMA TwoPower ==
  /\ \A k \in Nat : Power(2, k) \in Nat /\ Power(2, k) > 0 /\ Power(2, k + 1) = 2 * Power(2, k)
  /\ Power(2, 0) = 1
  /\ \A j, k \in Nat : Power(2, j + k) = Power(2, j) * Power(2, k)
  /\ \A k \in Nat : N * k \in Nat /\ Power(2, N * k) = Weight(k)
<1>0. 2 \in Int
  OBVIOUS
<1>1. \A k \in Nat : Power(2, k) \in Nat /\ Power(2, k) > 0
  <2>1. \A k \in Nat : Power(2, k) \in Int /\ Power(2, k) > 0
    BY <1>0, PowerPositive
  <2>. QED
    BY <2>1
<1>2. Power(2, 0) = 1 /\ \A k \in Nat : Power(2, k + 1) = 2 * Power(2, k)
  BY <1>0, PowerStep
<1>3. \A j, k \in Nat : Power(2, j + k) = Power(2, j) * Power(2, k)
  BY <1>0, PowerSum
<1>4. \A k \in Nat : N * k \in Nat
  BY Weights
<1>5. \A k \in Nat : Power(2, N * k) = Weight(k)
  <2> DEFINE S == {k \in Nat : Power(2, N * k) = Weight(k)}
  <2>1. 0 \in S
    <3>1. N * 0 = 0
      BY Weights
    <3>. QED
      BY <1>2, <3>1, Weights
  <2>2. ASSUME NEW k \in Nat, k \in S PROVE k + 1 \in S
    <3>1. N * (k + 1) = N + N * k /\ N * k \in Nat /\ N \in Nat
      BY Weights
    <3>2. Power(2, N + N * k) = Power(2, N) * Power(2, N * k)
      BY <1>3, <3>1
    <3>3. Weight(k + 1) = Radix * Weight(k)
      BY Weights
    <3>. QED
      BY <2>2, <3>1, <3>2, <3>3 DEF Radix
  <2> HIDE DEF S
  <2>3. \A k \in Nat : k \in S
    BY <2>1, <2>2, Inductive
  <2>. QED
    BY <2>3 DEF S
<1>. QED
  BY <1>1, <1>2, <1>3, <1>4, <1>5

\* The two parts of a block that is shifted left.
LEMMA ShiftedParts ==
  ASSUME NEW p \in Int, p > 0, NEW q \in Int, q > 0, Radix = p * q, NEW b \in Blk
  PROVE  /\ b \div q \in Nat /\ b \div q < p
         /\ (b * p) % Radix \in Nat /\ (b * p) % Radix <= Radix - p
         /\ b * p = (b \div q) * Radix + ((b * p) % Radix)
<1> DEFINE u == b \div q
           v == b % q
           r == Radix
<1>1. b \in Nat /\ b < r /\ r \in Int /\ r > 0 /\ r = p * q
  BY BlkNat, Weights
<1>2. u \in Nat /\ v \in 0..q - 1 /\ b = q * u + v
  BY <1>1, DivMod, QuotientNat
<1> HIDE DEF u, v, r
<1>3. u < p
  <2> SUFFICES ASSUME p <= u PROVE FALSE
    BY <1>2
  <2>1. q * p <= q * u /\ q * u \in Int
    BY <1>2, MultiplesGrow
  <2>2. q * p = p * q
    OBVIOUS
  <2> DEFINE qu == q * u
  <2>3. r <= qu /\ qu \in Int /\ b = qu + v
    BY <1>1, <1>2, <2>1, <2>2
  <2> HIDE DEF qu
  <2>. QED
    BY <1>1, <1>2, <2>3
<1>4. b * p = r * u + p * v
  <2>1. (q * u + v) * p = (p * q) * u + p * v
    BY <1>2
  <2>. QED
    BY <1>1, <1>2, <2>1
<1>5. p * v \in Int /\ 0 <= p * v /\ p * v <= r - p
  <2>1. v \in Int /\ v >= 0 /\ v <= q - 1 /\ p \in Nat /\ q - 1 \in Int /\ 0 \in Int
    BY <1>2
  <2>2. p * v <= p * (q - 1) /\ p * v \in Int
    BY <2>1, MultiplesGrow
  <2>3. p * 0 <= p * v
    BY <2>1, MultiplesGrow
  <2>4. p * (q - 1) = p * q - p /\ p * 0 = 0
    OBVIOUS
  <2>. QED
    BY <1>1, <2>2, <2>3, <2>4
<1>6. p * v \in 0..r - 1
  BY <1>1, <1>5
<1>7. (b * p) % r = p * v
  <2> DEFINE z == b * p
             v2 == p * v
  <2>1. z \in Int /\ z = r * u + v2 /\ v2 \in 0..r - 1 /\ u \in Int
    BY <1>1, <1>2, <1>4, <1>6
  <2> HIDE DEF z, v2
  <2>2. z % r = v2
    BY <1>1, <2>1, DivUnique
  <2>. QED
    BY <2>2 DEF z, v2
<1>8. r * u = u * r /\ r * u \in Int
  BY <1>1, <1>2
<1> DEFINE c == (b * p) % r
           d == p * v
           g == u * r
<1>9. c = d /\ d \in Int /\ 0 <= d /\ d <= r - p /\ g \in Int /\ b * p = g + d
  BY <1>4, <1>5, <1>7, <1>8
<1>10. c \in Nat /\ c <= r - p /\ b * p = g + c
  <2> HIDE DEF c, d, g
  <2>. QED
    BY <1>9
<1>. QED
  BY <1>2, <1>3, <1>10 DEF u, r

\* The blocks of x shifted left by y bits.
LEMMA ShiftedVal ==
  ASSUME NEW n \in Nat, NEW x \in [0..n - 1 -> Blk], NEW y \in 0..N - 1
  PROVE  LET s == [k \in 0..n |-> getShiftedBlock(x, k, y)]
         IN  s \in [0..n -> Blk] /\ Places(s, n + 1) = Places(x, n) * Power(2, y)
<1> DEFINE s == [k \in 0..n |-> getShiftedBlock(x, k, y)]
           p == Power(2, y)
           q == Power(2, N - y)
           high(k) == IF k = 0 THEN 0 ELSE x[k - 1] \div q
           low(k) == IF k = n THEN 0 ELSE (x[k] * p) % Radix
<1>1. p \in Int /\ p > 0 /\ q \in Int /\ q > 0 /\ Radix = p * q /\ Radix \in Int /\ Radix > 0
  <2>1. y \in Nat /\ N - y \in Nat /\ y + (N - y) = N
    BY Weights
  <2>2. Power(2, y + (N - y)) = p * q /\ p \in Nat /\ q \in Nat /\ p > 0 /\ q > 0
    BY <2>1, TwoPower
  <2>. QED
    BY <2>1, <2>2, Weights DEF Radix
<1>2. len(x) = n
  BY ArrayVal
<1>3. ASSUME NEW k \in 0..n - 1
      PROVE  /\ x[k] \in Nat /\ x[k] \div q \in Nat /\ x[k] \div q < p
             /\ low(k) \in Nat /\ low(k) <= Radix - p
             /\ x[k] * p = (x[k] \div q) * Radix + low(k)
  <2>1. x[k] \in Blk /\ k # n
    OBVIOUS
  <2>2. low(k) = (x[k] * p) % Radix
    BY <2>1
  <2> DEFINE b == x[k]
  <2>3. b \in Blk /\ low(k) = (b * p) % Radix
    BY <2>1, <2>2
  <2> HIDE DEF low, p, q, b
  <2>4. /\ b \div q \in Nat /\ b \div q < p
        /\ (b * p) % Radix \in Nat /\ (b * p) % Radix <= Radix - p
        /\ b * p = (b \div q) * Radix + ((b * p) % Radix)
    BY <1>1, <2>3, ShiftedParts
  <2>5. b \in Nat
    BY <2>3, BlkNat
  <2>6. /\ b \in Nat /\ b \div q \in Nat /\ b \div q < p
        /\ low(k) \in Nat /\ low(k) <= Radix - p
        /\ b * p = (b \div q) * Radix + low(k)
    BY <2>3, <2>4, <2>5
  <2>. QED
    BY <2>6 DEF b
<1>4. ASSUME NEW k \in 0..n PROVE s[k] = high(k) + low(k)
  <2>1. s[k] = (IF k = 0 \/ y = 0 THEN 0 ELSE x[k - 1] \div q) + low(k)
    BY <1>2 DEF getShiftedBlock
  <2>2. ASSUME k # 0, y = 0 PROVE x[k - 1] \div q = 0
    <3>1. p = 1
      BY <2>2, TwoPower
    <3>2. k - 1 \in 0..n - 1
      BY <2>2
    <3>3. x[k - 1] \div q \in Nat /\ x[k - 1] \div q < 1
      BY <1>3, <3>1, <3>2
    <3>. QED
      BY <3>3
  <2>. QED
    BY <2>1, <2>2
<1>5. ASSUME NEW k \in 0..n PROVE high(k) \in Nat /\ high(k) < p /\ low(k) \in Nat /\ low(k) <= Radix - p
  <2>1. high(k) \in Nat /\ high(k) < p
    <3>1. CASE k = 0
      BY <1>1, <3>1
    <3>2. CASE k # 0
      <4>1. k - 1 \in 0..n - 1 /\ high(k) = x[k - 1] \div q
        BY <3>2
      <4> HIDE DEF high
      <4>. QED
        BY <1>3, <4>1
    <3>. QED
      BY <3>1, <3>2
  <2>2. low(k) \in Nat /\ low(k) <= Radix - p
    <3>1. CASE k = n
      <4>1. low(k) = 0
        BY <3>1
      <4>2. p * q >= p
        BY <1>1, ProductAtLeast
      <4> HIDE DEF low
      <4>. QED
        BY <1>1, <4>1, <4>2
    <3>2. CASE k # n
      <4>1. k \in 0..n - 1
        BY <3>2
      <4> HIDE DEF low
      <4>. QED
        BY <1>3, <4>1
    <3>. QED
      BY <3>1, <3>2
  <2>. QED
    BY <2>1, <2>2
<1>6. s \in [0..n -> Blk]
  <2>1. ASSUME NEW k \in 0..n PROVE s[k] \in Blk
    <3> HIDE DEF s, high, low
    <3>1. s[k] \in Nat /\ s[k] < Radix
      BY <1>1, <1>4, <1>5
    <3>. QED
      BY <3>1, BlkNat
  <2>2. s = [k \in 0..n |-> s[k]]
    OBVIOUS
  <2> HIDE DEF s
  <2>. QED
    BY <2>1, <2>2
<1>7. high(0) = 0 /\ low(n) = 0 /\ \A k \in 0..n - 1 : high(k + 1) = x[k] \div q
  <2>1. \A k \in 0..n - 1 : k + 1 # 0 /\ (k + 1) - 1 = k
    OBVIOUS
  <2>. QED
    BY <2>1
<1> HIDE DEF s, high, low, q
<1>8. ASSUME NEW k \in Nat, k <= n + 1 PROVE Places(s, k) \in Int /\ (k <= n => Places(x, k) \in Int)
  <2>1. \A j \in 0..k - 1 : s[j] \in Blk
    BY <1>6, <1>8
  <2>2. k <= n => \A j \in 0..k - 1 : x[j] \in Blk
    OBVIOUS
  <2>. QED
    BY <2>1, <2>2, PlacesBound
<1> DEFINE Right(k) == Places(s, k) + high(k) * Weight(k) = Places(x, k) * p
           S == {k \in Nat : k <= n => Right(k)}
<1>9. 0 \in S
  <2>1. Places(s, 0) = 0 /\ Places(x, 0) = 0 /\ Weight(0) = 1 /\ high(0) = 0
    BY <1>7, PlacesStep, Weights
  <2>. QED
    BY <1>1, <2>1
<1>10. ASSUME NEW k \in Nat, k \in S PROVE k + 1 \in S
  <2> SUFFICES ASSUME k + 1 <= n PROVE Right(k + 1)
    OBVIOUS
  <2>1. k \in 0..n - 1 /\ k \in 0..n /\ k + 1 \in 0..n /\ k <= n + 1 /\ k <= n
    OBVIOUS
  <2> DEFINE w == Weight(k)
             a == Places(s, k)
             b == Places(x, k)
             h == high(k)
             g == high(k + 1)
             l == low(k)
             v == x[k]
             r == Radix
  <2>2. w \in Int /\ a \in Int /\ b \in Int /\ h \in Int /\ g \in Int /\ l \in Int /\ v \in Int /\ r \in Int
    <3>1. w \in Int /\ r \in Int
      BY <1>1, Weights
    <3>3. a \in Int /\ b \in Int
      BY <1>8, <2>1
    <3>2. h \in Int /\ g \in Int /\ l \in Int /\ v \in Int
      BY <1>3, <1>5, <2>1
    <3>. QED
      BY <3>1, <3>2, <3>3
  <2>3. a + h * w = b * p
    BY <1>10, <2>1
  <2>4. Places(s, k + 1) = a + (h + l) * w /\ Places(x, k + 1) = b + v * w /\ Weight(k + 1) = r * w
    <3>1. s[k] = h + l
      BY <1>4, <2>1
    <3>2. Places(s, k + 1) = a + s[k] * w
      BY PlacesStep
    <3>3. Places(x, k + 1) = b + v * w
      BY PlacesStep
    <3>4. Weight(k + 1) = r * w
      BY Weights
    <3>. QED
      BY <3>1, <3>2, <3>3, <3>4
  <2>5. v * p = g * r + l
    BY <1>3, <1>7, <2>1
  <2> HIDE DEF w, a, b, h, g, l, v, r, p
  <2>6. (a + (h + l) * w) + g * (r * w) = (b + v * w) * p
    <3>1. (b + v * w) * p = b * p + (v * p) * w
      BY <1>1, <2>2
    <3>2. (g * r + l) * w = g * (r * w) + l * w
      BY <2>2
    <3>3. (h + l) * w = h * w + l * w
      BY <2>2
    <3> DEFINE hw == h * w
               lw == l * w
               grw == g * (r * w)
               bp == b * p
    <3>4. hw \in Int /\ lw \in Int /\ grw \in Int /\ bp \in Int
      BY <1>1, <2>2
    <3>5. (b + v * w) * p = bp + (grw + lw) /\ (h + l) * w = hw + lw /\ a + hw = bp
      BY <2>3, <2>5, <3>1, <3>2, <3>3
    <3> HIDE DEF hw, lw, grw, bp
    <3>6. (a + (hw + lw)) + grw = bp + (grw + lw)
      BY <2>2, <3>4, <3>5
    <3>. QED
      BY <3>5, <3>6 DEF grw
  <2>. QED
    BY <2>4, <2>6 DEF g, p
<1> HIDE DEF S
<1>11. \A k \in Nat : k \in S
  BY <1>9, <1>10, Inductive
<1>12. Right(n)
  BY <1>11 DEF S
<1>13. Places(s, n + 1) = Places(s, n) + s[n] * Weight(n) /\ s[n] = high(n) /\ high(n) \in Nat
  <2>1. n \in 0..n
    OBVIOUS
  <2>2. s[n] = high(n) + low(n) /\ high(n) \in Nat /\ low(n) = 0
    BY <1>4, <1>5, <1>7, <2>1
  <2>3. s[n] = high(n)
    BY <2>2
  <2>. QED
    BY <2>2, <2>3, PlacesStep
<1>. QED
  BY <1>6, <1>12, <1>13 DEF s

\* The block and the bit in it that bit t of a number is.
LEMMA BitPlace ==
  ASSUME NEW t \in Nat
  PROVE  /\ t \div N \in Nat /\ t % N \in 0..N - 1 /\ t = N * (t \div N) + (t % N)
         /\ Power(2, t) = Weight(t \div N) * Power(2, t % N)
<1> DEFINE i == t \div N
           y == t % N
<1>1. N \in Int /\ N > 0
  BY Weights
<1>2. i \in Nat /\ y \in 0..N - 1 /\ t = N * i + y
  BY <1>1, DivMod, QuotientNat
<1> HIDE DEF i, y
<1>3. y \in Nat /\ N * i \in Nat /\ Power(2, N * i) = Weight(i)
  BY <1>1, <1>2, TwoPower
<1>4. Power(2, N * i + y) = Power(2, N * i) * Power(2, y)
  BY <1>3, TwoPower
<1>. QED
  BY <1>2, <1>3, <1>4 DEF i, y

\* The operand that a multiplication adds and a division subtracts: b shifted left by t bits.
LEMMA OperandVal ==
  ASSUME NEW b \in Natural, NEW t \in Nat, NEW l \in Nat, t \div N + len(b) < l
  PROVE  /\ \A k \in t \div N..l - 1 : Operand(b, t, l)[k] \in Blk
         /\ Above(Operand(b, t, l), t \div N, l) = Val(b) * Power(2, t)
<1> DEFINE i == t \div N
           y == t % N
           n == len(b)
           e == Operand(b, t, l)
           s == [k \in 0..n |-> getShiftedBlock(b, k, y)]
<1>1. i \in Nat /\ y \in 0..N - 1 /\ Power(2, t) = Weight(i) * Power(2, y)
  BY BitPlace
<1>2. n \in Nat /\ b \in [0..n - 1 -> Blk] /\ Val(b) = Places(b, n) /\ Val(b) \in Nat /\ i + n < l
  BY OfNatural
<1>3. \A k \in i..l - 1 : e[k] = IF k > i + n THEN 0 ELSE getShiftedBlock(b, k - i, y)
  BY DEF Operand
<1> HIDE DEF i, y, n, e
<1>4. s \in [0..n -> Blk] /\ Places(s, n + 1) = Val(b) * Power(2, y)
  BY <1>1, <1>2, ShiftedVal
<1>5. ASSUME NEW k \in i..l - 1 PROVE /\ k > i + n => e[k] = 0
                                      /\ k <= i + n => k - i \in 0..n /\ e[k] = s[k - i]
  <2>1. k \in Int /\ (k <= i + n => k - i \in 0..n)
    BY <1>1, <1>2
  <2>. QED
    BY <1>1, <1>2, <1>3, <2>1
<1> HIDE DEF s
<1>6. ASSUME NEW k \in i..l - 1 PROVE e[k] \in Blk
  <2>1. CASE k > i + n
    BY <1>5, <2>1, SmallBlk
  <2>2. CASE k <= i + n
    BY <1>4, <1>5, <2>2
  <2>. QED
    BY <1>1, <1>2, <2>1, <2>2
<1> DEFINE w == Weight(i)
<1>7. w \in Nat /\ i \in Nat /\ i <= l
  BY <1>1, <1>2, Weights
<1>8. /\ Above(e, i, i) = 0
      /\ \A k \in i..l - 1 : Above(e, i, k + 1) = Above(e, i, k) + e[k] * Weight(k)
      /\ \A k \in i..l : Above(e, i, k) \in Nat
  BY <1>6, <1>7, AboveStep
<1> DEFINE S == {j \in Nat : j <= n + 1 => Above(e, i, i + j) = Places(s, j) * w}
<1>9. 0 \in S
  <2>1. i + 0 = i /\ Places(s, 0) = 0 /\ 0 * w = 0
    BY <1>7, PlacesStep
  <2>. QED
    BY <1>8, <2>1
<1>10. ASSUME NEW j \in Nat, j \in S PROVE j + 1 \in S
  <2> SUFFICES ASSUME j + 1 <= n + 1 PROVE Above(e, i, i + (j + 1)) = Places(s, j + 1) * w
    OBVIOUS
  <2> DEFINE k == i + j
  <2>1. j <= n /\ j \in 0..n /\ k \in i..l - 1 /\ k <= i + n /\ k - i = j /\ k + 1 = i + (j + 1) /\ j <= n + 1
    BY <1>1, <1>2
  <2>2. e[k] = s[j]
    BY <1>5, <2>1
  <2>3. Weight(k) = w * Weight(j) /\ Weight(j) \in Nat
    BY <1>1, WeightsGrow, Weights
  <2> HIDE DEF k
  <2>4. Above(e, i, k + 1) = Above(e, i, k) + s[j] * Weight(k)
    BY <1>8, <2>1, <2>2
  <2>5. Above(e, i, k) = Places(s, j) * w
    BY <1>10, <2>1 DEF k
  <2>6. Places(s, j + 1) = Places(s, j) + s[j] * Weight(j)
    BY PlacesStep
  <2> DEFINE a == Places(s, j)
             c == s[j]
             v == Weight(j)
  <2>7. a \in Int /\ c \in Int /\ v \in Int
    <3>1. \A m \in 0..j - 1 : s[m] \in Blk
      <4>1. \A m \in 0..j - 1 : m \in 0..n
        BY <1>2, <2>1
      <4>. QED
        BY <1>4, <4>1
    <3>2. a \in Int
      BY <3>1, PlacesBound
    <3>3. s[j] \in Blk
      BY <1>4, <2>1
    <3>. QED
      BY <2>3, <3>2, <3>3, BlkNat
  <2>8. a * w + c * (w * v) = (a + c * v) * w
    <3> HIDE DEF a, c, v, w
    <3>. QED
      BY <1>7, <2>7
  <2>. QED
    BY <2>1, <2>3, <2>4, <2>5, <2>6, <2>8
<1> HIDE DEF S
<1>11. \A j \in Nat : j \in S
  BY <1>9, <1>10, Inductive
<1>12. Above(e, i, i + (n + 1)) = Places(s, n + 1) * w
  <2>1. n + 1 \in S /\ n + 1 <= n + 1
    BY <1>2, <1>11
  <2>. QED
    BY <2>1 DEF S
<1>13. Above(e, i, l) = Above(e, i, i + (n + 1))
  <2> DEFINE E == [k \in Nat |-> IF k >= i THEN e[k] ELSE 0]
             m == i + (n + 1)
  <2>1. \A k : Above(e, i, k) = Places(E, k)
    BY DEF Above
  <2>2. m \in Nat /\ m <= l /\ m \in i..l
    BY <1>1, <1>2
  <2>3. Places(E, m) \in Int
    BY <1>8, <2>1, <2>2
  <2>4. ASSUME NEW k \in Nat, m <= k, k < l PROVE E[k] = 0
    <3>1. k \in i..l - 1 /\ k > i + n
      BY <1>1, <1>2, <2>4
    <3>. QED
      BY <1>5, <3>1
  <2> HIDE DEF E, m
  <2>5. Places(E, l) = Places(E, m)
    BY <2>2, <2>3, <2>4, PlacesZero
  <2>. QED
    BY <2>1, <2>5 DEF m
<1>14. (Val(b) * Power(2, y)) * w = Val(b) * Power(2, t)
  <2> DEFINE p == Power(2, y)
             v == Val(b)
  <2>1. y \in Nat
    BY <1>1
  <2>2. p \in Int /\ v \in Int /\ Power(2, t) = w * p
    BY <1>1, <1>2, <2>1, TwoPower
  <2> HIDE DEF p, v, w
  <2>3. (v * p) * w = v * (w * p)
    BY <1>7, <2>2
  <2>. QED
    BY <2>2, <2>3 DEF p, v
<1>. QED
  BY <1>4, <1>6, <1>12, <1>13, <1>14 DEF i, e

-----------------------------------------------------------------------------
(* Bits. *)

\* The blocks from m upwards are worth a multiple of the weight of m.
LEMMA HighPart ==
  ASSUME NEW n \in Nat, NEW x \in [0..n - 1 -> Blk], NEW m \in Nat, m <= n
  PROVE  \E h \in Nat : Places(x, n) = Places(x, m) + h * Weight(m)
<1> DEFINE S == {k \in Nat : m + k <= n => \E h \in Nat : Places(x, m + k) = Places(x, m) + h * Weight(m)}
<1>1. ASSUME NEW k \in Nat, k <= n PROVE Places(x, k) \in Nat
  <2>1. \A j \in 0..k - 1 : x[j] \in Blk
    BY <1>1
  <2>. QED
    BY <2>1, PlacesBound
<1>2. 0 \in S
  <2>1. m + 0 = m /\ Places(x, m) \in Nat /\ Weight(m) \in Nat
    BY <1>1, WeightNat
  <2>2. Places(x, m + 0) = Places(x, m) + 0 * Weight(m)
    BY <2>1
  <2>. QED
    BY <2>2
<1>3. ASSUME NEW k \in Nat, k \in S PROVE k + 1 \in S
  <2> SUFFICES ASSUME m + (k + 1) <= n
               PROVE  \E h \in Nat : Places(x, m + (k + 1)) = Places(x, m) + h * Weight(m)
    OBVIOUS
  <2>1. PICK h \in Nat : Places(x, m + k) = Places(x, m) + h * Weight(m)
    BY <1>3
  <2> DEFINE j == m + k
             w == Weight(m)
             v == Weight(k)
             a == x[j]
             p == Places(x, m)
  <2>2. j \in Nat /\ j \in 0..n - 1 /\ m + (k + 1) = j + 1 /\ m <= n
    OBVIOUS
  <2>3. w \in Nat /\ v \in Nat /\ p \in Nat /\ Weight(j) = w * v
    BY <1>1, WeightsGrow, Weights
  <2>4. a \in Nat
    <3>1. a \in Blk
      BY <2>2
    <3>. QED
      BY <3>1, BlkNat
  <2>5. Places(x, j + 1) = (p + h * w) + a * (w * v)
    BY <2>1, <2>2, <2>3, PlacesStep
  <2> HIDE DEF j, w, v, a, p
  <2>6. (p + h * w) + a * (w * v) = p + (h + a * v) * w /\ h + a * v \in Nat
    <3>1. (h + a * v) * w = h * w + a * (w * v)
      BY <2>3, <2>4
    <3>2. h * w \in Int /\ a * (w * v) \in Int /\ a * v \in Nat
      BY <2>3, <2>4
    <3>. QED
      BY <2>3, <3>1, <3>2
  <2>7. Places(x, j + 1) = p + (h + a * v) * w /\ h + a * v \in Nat
    BY <2>5, <2>6
  <2> DEFINE g == h + a * v
  <2>8. g \in Nat /\ Places(x, m + (k + 1)) = Places(x, m) + g * Weight(m)
    BY <2>2, <2>7 DEF p, w
  <2>. QED
    BY <2>8
<1> HIDE DEF S
<1>4. \A k \in Nat : k \in S
  BY <1>2, <1>3, Inductive
<1> DEFINE k == n - m
<1>5. k \in Nat /\ m + k = n /\ k \in S /\ m + k <= n
  BY <1>4
<1> HIDE DEF k
<1>. QED
  BY <1>5 DEF S

\* A block is a digit of the number, to the base Radix.
LEMMA BlockOf ==
  ASSUME NEW n \in Nat, NEW x \in [0..n - 1 -> Blk], NEW i \in Nat
  PROVE  /\ getBlock(x, i) \in Blk
         /\ (Places(x, n) \div Weight(i)) % Radix = getBlock(x, i)
<1>1. len(x) = n /\ Places(x, n) \in Nat /\ Places(x, n) < Weight(n)
  BY ArrayVal
<1>2. getBlock(x, i) = IF i >= n THEN 0 ELSE x[i]
  BY <1>1 DEF getBlock
<1> DEFINE w == Weight(i)
           r == Radix
           v == Places(x, n)
<1>3. w \in Int /\ w > 0 /\ r \in Int /\ r > 0
  BY WeightNat, RadixNat
<1>4. CASE i >= n
  <2>1. Weight(n) <= w /\ Weight(n) \in Nat
    BY <1>4, WeightsGrow, Weights
  <2>2. v \in 0..w - 1
    BY <1>1, <1>3, <2>1
  <2> HIDE DEF w, v, r
  <2>3. v \div w = 0
    BY <1>3, <2>2, SmallQuotient
  <2>4. 0 % r = 0
    <3>1. 0 \in 0..r - 1
      BY <1>3
    <3>. QED
      BY <1>3, <3>1, SmallQuotient
  <2>. QED
    BY <1>2, <1>4, <2>3, <2>4, SmallBlk DEF w, v, r
<1>5. CASE i < n
  <2> DEFINE a == x[i]
             p == Places(x, i)
             m == i + 1
  <2>1. PICK h \in Nat : v = Places(x, m) + h * Weight(m)
    <3>1. m \in Nat /\ m <= n
      BY <1>5
    <3> HIDE DEF m
    <3>. QED
      BY <3>1, HighPart
  <2>2. Places(x, m) = p + a * w /\ Weight(m) = r * w
    BY PlacesStep, Weights
  <2>3. i \in 0..n - 1 /\ a \in Blk
    BY <1>5
  <2>4. a \in 0..r - 1 /\ a \in Int
    <3>1. a \in Nat /\ a < Radix
      BY <2>3, BlkNat
    <3>. QED
      BY <3>1, RadixNat
  <2>5. p \in 0..w - 1
    <3>1. \A k \in 0..i - 1 : x[k] \in Blk
      BY <1>5
    <3>2. p \in Nat /\ p < w
      BY <3>1, PlacesBound
    <3>. QED
      BY <1>3, <3>2
  <2> HIDE DEF a, p, w, r, v, m
  <2>6. v = w * (r * h + a) + p
    <3>1. w * (r * h + a) = a * w + h * (r * w) /\ a * w \in Int /\ h * (r * w) \in Int
      BY <1>3, <2>4
    <3>2. v = (p + a * w) + h * (r * w)
      BY <2>1, <2>2
    <3> DEFINE aw == a * w
               hrw == h * (r * w)
    <3>3. v = (p + aw) + hrw /\ aw \in Int /\ hrw \in Int /\ w * (r * h + a) = aw + hrw
      BY <3>1, <3>2
    <3> HIDE DEF aw, hrw
    <3>. QED
      BY <2>5, <3>3
  <2>7. v \div w = r * h + a
    <3>1. v \in Int /\ r * h + a \in Int
      BY <1>1, <1>3, <2>4 DEF v
    <3>. QED
      BY <1>3, <2>5, <2>6, <3>1, DivUnique
  <2>8. (r * h + a) % r = a
    <3> DEFINE z == r * h + a
    <3>1. z \in Int /\ z = r * h + a /\ h \in Int
      BY <1>3, <2>4
    <3> HIDE DEF z
    <3>2. z % r = a
      BY <1>3, <2>4, <3>1, DivUnique
    <3>. QED
      BY <3>2 DEF z
  <2>. QED
    BY <1>2, <1>5, <2>3, <2>7, <2>8 DEF a, v, w, r
<1>. QED
  BY <1>4, <1>5

\* Bit y of a digit is a bit of the number.
LEMMA QuotientOfQuotient ==
  ASSUME NEW v \in Nat, NEW w \in Int, w > 0, NEW p \in Int, p > 0
  PROVE  v \div (w * p) = (v \div w) \div p
<1> DEFINE a == v \div w
           b == v % w
           c == a \div p
           d == a % p
<1>1. a \in Nat /\ b \in 0..w - 1 /\ v = w * a + b
  BY DivMod, QuotientNat
<1> HIDE DEF a, b
<1>2. c \in Nat /\ d \in 0..p - 1 /\ a = p * c + d
  BY <1>1, DivMod, QuotientNat
<1> HIDE DEF c, d
<1> DEFINE e == w * d + b
           wp == w * p
<1>3. v = wp * c + e
  <2>1. w * (p * c + d) = (w * p) * c + w * d
    BY <1>2
  <2>2. w * d \in Int /\ (w * p) * c \in Int
    BY <1>2
  <2> DEFINE wd == w * d
             wpc == (w * p) * c
  <2>3. v = (wpc + wd) + b /\ wd \in Int /\ wpc \in Int
    BY <1>1, <1>2, <2>1, <2>2
  <2> HIDE DEF wd, wpc
  <2>4. v = wpc + (wd + b)
    BY <1>1, <2>3
  <2>. QED
    BY <2>4 DEF wd, wpc
<1>4. e \in 0..wp - 1 /\ wp \in Int /\ wp > 0
  <2>1. w \in Nat /\ d \in Int /\ p - 1 \in Int /\ d <= p - 1 /\ 0 <= d /\ 0 \in Int
    BY <1>2
  <2>2. w * d \in Int /\ w * d <= w * (p - 1) /\ w * 0 <= w * d
    BY <2>1, MultiplesGrow
  <2>3. w * (p - 1) = w * p - w /\ w * 0 = 0 /\ w * p \in Int
    OBVIOUS
  <2>4. w * p >= w
    BY ProductAtLeast
  <2> DEFINE wd == w * d
  <2>5. wd \in Int /\ 0 <= wd /\ wd <= wp - w /\ wp \in Int /\ wp >= w
    BY <2>2, <2>3, <2>4
  <2> HIDE DEF wd, wp
  <2>6. wd + b \in 0..wp - 1 /\ wp > 0
    BY <1>1, <2>5
  <2>. QED
    BY <2>5, <2>6 DEF wd
<1> HIDE DEF e, wp
<1>5. v \div wp = c
  BY <1>2, <1>3, <1>4, DivUnique
<1>. QED
  BY <1>5 DEF wp, c, a

LEMMA BitOf ==
  ASSUME NEW n \in Nat, NEW x \in [0..n - 1 -> Blk], NEW t \in Nat
  PROVE  getBit(x, t) = (Places(x, n) \div Power(2, t)) % 2 /\ getBit(x, t) \in 0..1
<1> DEFINE i == t \div N
           y == t % N
           w == Weight(i)
           p == Power(2, y)
           q == Power(2, N - y - 1)
           v == Places(x, n)
           u == v \div w
           a == getBlock(x, i)
           r == Radix
<1>1. i \in Nat /\ y \in 0..N - 1 /\ Power(2, t) = w * p
  BY BitPlace
<1>2. w \in Int /\ w > 0 /\ r \in Int /\ r > 0
  <2>1. w \in Int /\ w > 0
    <3> HIDE DEF i
    <3>. QED
      BY <1>1, WeightNat
  <2>. QED
    BY <2>1, RadixNat
<1>3. y \in Nat /\ N - y - 1 \in Nat /\ N = y + ((N - y - 1) + 1)
  BY <1>1, Weights
<1>4. p \in Int /\ p > 0 /\ q \in Int /\ q > 0 /\ r = p * (2 * q)
  <2> DEFINE m == N - y - 1
  <2>1. m \in Nat /\ N = y + (m + 1) /\ m + 1 \in Nat
    <3> HIDE DEF y
    <3>1. m \in Nat /\ N = y + (m + 1)
      BY <1>3
    <3>. QED
      BY <3>1
  <2> HIDE DEF m
  <2>2. Power(2, N) = Power(2, y) * Power(2, m + 1) /\ Power(2, m + 1) = 2 * Power(2, m)
    <3> HIDE DEF y
    <3>1. \A j, k \in Nat : Power(2, j + k) = Power(2, j) * Power(2, k)
      BY TwoPower
    <3>2. Power(2, y + (m + 1)) = Power(2, y) * Power(2, m + 1)
      BY <1>3, <2>1, <3>1
    <3>3. Power(2, m + 1) = 2 * Power(2, m)
      BY <2>1, TwoPower
    <3>. QED
      BY <2>1, <3>2, <3>3
  <2>3. Power(2, y) \in Nat /\ Power(2, y) > 0 /\ Power(2, m) \in Nat /\ Power(2, m) > 0
    BY <1>3, <2>1, TwoPower
  <2>. QED
    BY <2>1, <2>2, <2>3 DEF Radix, m
<1>5. v \in Nat /\ u \in Nat /\ a \in Blk /\ u % r = a
  <2>1. v \in Nat
    BY ArrayVal
  <2>. QED
    BY <1>1, <1>2, <2>1, BlockOf, QuotientNat
<1>6. getBit(x, t) = (a \div p) % 2
  BY DEF getBit
<1>7. v \div Power(2, t) = u \div p
  <2> HIDE DEF v, w, p
  <2>1. v \in Nat
    BY <1>5
  <2>2. v \div (w * p) = (v \div w) \div p
    BY <1>2, <1>4, <2>1, QuotientOfQuotient
  <2>. QED
    BY <1>1, <2>2
<1> HIDE DEF i, y, w, p, q, a, r, u, v
<1> DEFINE h == u \div r
           c == a \div p
           d == a % p
<1>8. h \in Int /\ u = r * h + a
  BY <1>2, <1>5, DivMod
<1> HIDE DEF h
<1>9. a \in Nat
  BY <1>5, BlkNat
<1>10. c \in Nat /\ d \in 0..p - 1 /\ a = p * c + d
  BY <1>4, <1>9, DivMod, QuotientNat
<1> HIDE DEF c, d
<1>11. u \div p = (2 * q) * h + c
  <2>1. p * ((2 * q) * h + c) = (p * (2 * q)) * h + p * c
    BY <1>4, <1>8, <1>10
  <2>2. p * c \in Int /\ (p * (2 * q)) * h \in Int /\ (2 * q) * h + c \in Int
    BY <1>4, <1>8, <1>10
  <2> DEFINE z == (2 * q) * h + c
             pc == p * c
             prh == (p * (2 * q)) * h
  <2>3. u = prh + (pc + d) /\ p * z = prh + pc /\ z \in Int /\ pc \in Int /\ prh \in Int
    BY <1>4, <1>8, <1>10, <2>1, <2>2
  <2> HIDE DEF z, pc, prh
  <2>4. u = p * z + d
    BY <1>10, <2>3
  <2>5. u \div p = z
    BY <1>4, <1>5, <1>10, <2>3, <2>4, DivUnique
  <2>. QED
    BY <2>5 DEF z
<1>12. ((2 * q) * h + c) % 2 = c % 2 /\ c % 2 \in 0..1
  <2> DEFINE k == c \div 2
             b == c % 2
             g == q * h + k
             z == (2 * q) * h + c
  <2>1. k \in Int /\ b \in 0..1 /\ c = 2 * k + b
    BY <1>10, DivMod
  <2> HIDE DEF k, b
  <2>2. z = 2 * g + b /\ g \in Int /\ z \in Int
    BY <1>4, <1>8, <1>10, <2>1
  <2> HIDE DEF g, z
  <2>3. z % 2 = b
    <3>1. b \in 0..2 - 1 /\ 2 \in Int /\ 2 > 0
      BY <2>1
    <3>. QED
      BY <2>2, <3>1, DivUnique
  <2>. QED
    BY <2>1, <2>3 DEF z, b
<1>. QED
  BY <1>6, <1>7, <1>11, <1>12 DEF c, v

LEMMA TwoPowerNat ==
  ASSUME NEW k \in Nat
  PROVE  /\ Power(2, k) \in Nat /\ Power(2, k) \in Int /\ Power(2, k) > 0
         /\ Power(2, k + 1) = 2 * Power(2, k) /\ Power(2, 0) = 1
<1>1. Power(2, k) \in Nat /\ Power(2, k) > 0 /\ Power(2, k + 1) = 2 * Power(2, k)
  BY TwoPower
<1>2. Power(2, 0) = 1
  BY TwoPower
<1>. QED
  BY <1>1, <1>2

\* A bit of the first m blocks is in one of them.
LEMMA BlockBelow ==
  ASSUME NEW m \in Nat, NEW t \in Nat, t < m * N
  PROVE  t \div N \in Nat /\ t \div N < m
<1> DEFINE i == t \div N
           o == t % N
<1>1. i \in Nat /\ o \in Nat /\ t = N * i + o /\ N \in Nat /\ N > 0
  <2>1. t \div N \in Nat /\ t % N \in 0..N - 1 /\ t = N * (t \div N) + (t % N)
    BY BitPlace
  <2>2. N \in Nat /\ N > 0
    BY Weights
  <2>. QED
    BY <2>1, <2>2
<1> HIDE DEF i, o
<1>2. SUFFICES ASSUME m <= i PROVE FALSE
  BY <1>1 DEF i
<1>3. N * m <= N * i /\ N * m \in Int /\ N * i \in Int
  <2>1. m \in Int /\ i \in Int
    BY <1>1
  <2>. QED
    BY <1>1, <1>2, <2>1, MultiplesGrow
<1>4. N * m = m * N
  BY <1>1
<1> DEFINE g == N * i
           h == N * m
<1>5. h <= g /\ h \in Int /\ g \in Int /\ t < h /\ t = g + o
  BY <1>1, <1>3, <1>4
<1> HIDE DEF g, h
<1>. QED
  BY <1>1, <1>5

\* The low bits of a number, one bit more.
LEMMA LowBits ==
  ASSUME NEW v \in Nat, NEW t \in Nat
  PROVE  /\ v % Power(2, t) \in Nat /\ v % Power(2, t) <= v /\ v % Power(2, t) < Power(2, t)
         /\ v % Power(2, 0) = 0
         /\ v < Power(2, t) => v % Power(2, t) = v
         /\ (v \div Power(2, t)) % 2 \in 0..1
         /\ v % Power(2, t + 1) = (v % Power(2, t)) + ((v \div Power(2, t)) % 2) * Power(2, t)
<1> DEFINE p == Power(2, t)
           a == v \div p
           b == v % p
           c == a \div 2
           d == a % 2
<1>1. p \in Int /\ p > 0 /\ Power(2, t + 1) = 2 * p /\ Power(2, 0) = 1
  BY TwoPowerNat
<1> HIDE DEF p
<1>2. a \in Nat /\ b \in 0..p - 1 /\ v = p * a + b
  BY <1>1, DivMod, QuotientNat
<1>3. v < p => b = v
  BY <1>1, SmallQuotient
<1>4. v % 1 = 0
  <2>1. v % 1 \in 0..1 - 1
    <3>1. 1 \in Int /\ 1 > 0
      OBVIOUS
    <3>. QED
      BY <3>1, DivMod
  <2>. QED
    BY <2>1
<1> HIDE DEF a, b
<1>5. c \in Nat /\ d \in 0..1 /\ a = 2 * c + d
  <2>1. 2 \in Int /\ 2 > 0
    OBVIOUS
  <2>2. c \in Nat /\ d \in 0..2 - 1 /\ a = 2 * c + d
    BY <1>2, <2>1, DivMod, QuotientNat
  <2>. QED
    BY <2>2
<1> HIDE DEF c, d
<1>6. v % (2 * p) = b + d * p
  <2> DEFINE z == b + d * p
             m == 2 * p
  <2>1. p * (2 * c + d) = (2 * p) * c + d * p /\ d * p \in Int /\ (2 * p) * c \in Int /\ 2 * p \in Int
    BY <1>1, <1>5
  <2>2. d * p = 0 \/ d * p = p
    BY <1>1, <1>5
  <2> DEFINE dp == d * p
             mc == m * c
  <2>3. v = (mc + dp) + b /\ mc \in Int /\ dp \in Int /\ (dp = 0 \/ dp = p) /\ z = b + dp /\ m = 2 * p
    BY <1>2, <1>5, <2>1, <2>2
  <2> HIDE DEF dp, mc, z, m
  <2>4. v = mc + z /\ z \in 0..m - 1 /\ m \in Int /\ m > 0
    BY <1>1, <1>2, <2>3
  <2>5. v % m = z
    <3>1. v \in Int /\ c \in Int
      BY <1>5
    <3>. QED
      BY <2>4, <3>1, DivUnique DEF mc
  <2>. QED
    BY <2>5 DEF m, z
<1>7. b <= v
  <2>1. p * a \in Nat
    <3>1. p \in Nat
      BY <1>1
    <3>. QED
      BY <1>2, <3>1
  <2> DEFINE pa == p * a
  <2>2. pa \in Nat /\ v = pa + b
    BY <1>2, <2>1
  <2> HIDE DEF pa
  <2>. QED
    BY <1>2, <2>2
<1>8. b \in Nat /\ b < p
  BY <1>1, <1>2
<1>9. v % Power(2, t) = b /\ (v \div Power(2, t)) % 2 = d /\ Power(2, t) = p
  BY DEF p, a, b, d
<1>10. v % Power(2, t + 1) = b + d * p
  BY <1>1, <1>6
<1>11. v % Power(2, 0) = 0
  BY <1>1, <1>4
<1>. QED
  BY <1>3, <1>5, <1>7, <1>8, <1>9, <1>10, <1>11

-----------------------------------------------------------------------------
(* Products. *)

\* Products of numbers below and above the weights of their lengths.
LEMMA ProductBounds ==
  ASSUME NEW m \in Nat, NEW n \in Nat, NEW x \in Nat, NEW y \in Nat
  PROVE  /\ x < Weight(m) /\ y < Weight(n) => x * y < Weight(m + n)
         /\ Weight(m) <= x /\ Weight(n) <= y => Weight(m + n) <= x * y
<1> DEFINE a == Weight(m)
           b == Weight(n)
<1>1. a \in Nat /\ a > 0 /\ b \in Nat /\ b > 0 /\ Weight(m + n) = a * b
  BY WeightNat, WeightsGrow
<1> HIDE DEF a, b
<1>2. ASSUME x < a, y < b PROVE x * y < a * b
  <2>1. x * y <= x * b /\ x * y \in Int /\ x * b \in Int
    <3>1. y \in Int /\ b \in Int /\ y <= b
      BY <1>1, <1>2
    <3>. QED
      BY <3>1, MultiplesGrow
  <2>2. b * (x + 1) <= b * a /\ b * (x + 1) = x * b + b /\ b * a = a * b /\ a * b \in Int
    <3>1. x + 1 \in Int /\ a \in Int /\ x + 1 <= a
      BY <1>1, <1>2
    <3>2. b * (x + 1) <= b * a
      BY <1>1, <3>1, MultiplesGrow
    <3>3. b * (x + 1) = x * b + b /\ b * a = a * b /\ a * b \in Int
      BY <1>1
    <3>. QED
      BY <3>2, <3>3
  <2> DEFINE xy == x * y
             xb == x * b
             ab == a * b
  <2>3. xy <= xb /\ xy \in Int /\ xb \in Int /\ xb + b <= ab /\ ab \in Int
    BY <2>1, <2>2
  <2> HIDE DEF xy, xb, ab
  <2>4. xy < ab
    BY <1>1, <2>3
  <2>. QED
    BY <2>4 DEF xy, ab
<1>3. ASSUME a <= x, b <= y PROVE a * b <= x * y
  <2>1. a * b <= a * y /\ a * b \in Int /\ a * y \in Int
    <3>1. y \in Int /\ b \in Int
      BY <1>1
    <3>. QED
      BY <1>1, <1>3, <3>1, MultiplesGrow
  <2>2. y * a <= y * x /\ y * a = a * y /\ y * x = x * y /\ x * y \in Int
    <3>1. x \in Int /\ a \in Int
      BY <1>1
    <3>2. y * a <= y * x
      BY <1>3, <3>1, MultiplesGrow
    <3>3. y * a = a * y /\ y * x = x * y /\ x * y \in Int
      BY <1>1
    <3>. QED
      BY <3>2, <3>3
  <2> DEFINE xy == x * y
             ay == a * y
             ab == a * b
  <2>3. ab <= ay /\ ay <= xy /\ xy \in Int /\ ay \in Int /\ ab \in Int
    BY <2>1, <2>2
  <2> HIDE DEF xy, ay, ab
  <2>4. ab <= xy
    BY <2>3
  <2>. QED
    BY <2>4 DEF ab, xy
<1>. QED
  BY <1>1, <1>2, <1>3 DEF a, b

\* What a multiplication of a and b does for bit t of a to the sum x.
Adds(a, b, t, x) ==
  IF getBit(a, t) = 0 THEN x
  ELSE Ripple("add", x, Operand(b, t, len(a) + len(b)), t \div N, len(a) + len(b), FALSE).blk

\* x, of n blocks, is the product of b and the bits of a below t.
IsProductOf(x, n, a, b, t) ==
  x \in [0..n - 1 -> Blk] /\ Places(x, n) = (Val(a) % Power(2, t)) * Val(b)

\* Adding b, shifted by t bits, to what the bits of a below t have added.
LEMMA ProductStep ==
  ASSUME NEW a \in Natural, NEW b \in Natural, NEW t \in Nat, t < len(a) * N,
         NEW l \in Nat, l = len(a) + len(b), NEW x, IsProductOf(x, l, a, b, t)
  PROVE  IsProductOf(Adds(a, b, t, x), l, a, b, t + 1)
<1> DEFINE m == len(a)
           n == len(b)
           i == t \div N
           A == Val(a)
           B == Val(b)
           p == Power(2, t)
           bit == (A \div p) % 2
           y == Adds(a, b, t, x)
<1>1. /\ m \in Nat /\ n \in Nat /\ a \in [0..m - 1 -> Blk] /\ A = Places(a, m)
      /\ A \in Nat /\ A < Weight(m) /\ B \in Nat /\ B < Weight(n)
  BY OfNatural
<1>2. getBit(a, t) = bit
  BY <1>1, BitOf
<1>3. i \in Nat /\ i < m
  BY <1>1, BlockBelow
<1>4. p \in Nat /\ p > 0
  BY TwoPowerNat
<1>7. Places(x, l) = (A % p) * B /\ x \in [0..l - 1 -> Blk] /\ l = m + n
  BY DEF IsProductOf
<1>a. y = IF bit = 0 THEN x ELSE Ripple("add", x, Operand(b, t, l), i, l, FALSE).blk
  BY <1>2 DEF Adds
<1>b. IsProductOf(y, l, a, b, t + 1) <=> y \in [0..l - 1 -> Blk] /\ Places(y, l) = (A % Power(2, t + 1)) * B
  BY DEF IsProductOf
<1> HIDE DEF m, n, i, A, B, p, y
<1>5. /\ A % p \in Nat /\ bit \in 0..1 /\ A % Power(2, t + 1) = (A % p) + bit * p
      /\ A % Power(2, t + 1) \in Nat /\ A % Power(2, t + 1) <= A
  <2>1. t + 1 \in Nat
    OBVIOUS
  <2>. QED
    BY <1>1, <2>1, LowBits DEF p
<1>6. l \in Nat /\ i + n < l /\ i <= l
  BY <1>1, <1>3, <1>7
<1> DEFINE c == A % p
           C == A % Power(2, t + 1)
<1>8. c \in Nat /\ C \in Nat /\ C <= A /\ C = c + bit * p /\ bit \in 0..1 /\ Places(x, l) = c * B
  BY <1>5, <1>7
<1> HIDE DEF c, C, bit
<1>9. ASSUME bit = 0 PROVE y \in [0..l - 1 -> Blk] /\ Places(y, l) = C * B
  <2>1. C = c
    BY <1>4, <1>8, <1>9
  <2>. QED
    BY <1>7, <1>8, <1>9, <1>a, <2>1
<1>10. ASSUME bit = 1 PROVE y \in [0..l - 1 -> Blk] /\ Places(y, l) = C * B
  <2> DEFINE e == Operand(b, t, l)
             R == Ripple("add", x, e, i, l, FALSE)
  <2>1. (\A k \in i..l - 1 : e[k] \in Blk) /\ Above(e, i, l) = B * p
    BY <1>6, OperandVal DEF i, n, B, p
  <2> HIDE DEF e
  <2>2. RippleMeans("add", l, x, i, l, e, FALSE, R)
    <3>1. "add" \in {"add", "subtract"} /\ l <= l /\ FALSE \in BOOLEAN
      BY <1>6
    <3>. QED
      BY <1>3, <1>6, <1>7, <2>1, <3>1, RippleVal
  <2> HIDE DEF R
  <2>3. /\ R.blk \in [0..l - 1 -> Blk] /\ R.carry \in BOOLEAN
        /\ Places(R.blk, l) + Unit(R.carry) * Weight(l) = Places(x, l) + Above(e, i, l) + Unit(FALSE) * Weight(i)
    BY <2>2 DEF RippleMeans
  <2>4. Unit(FALSE) * Weight(i) = 0
    <3>1. Weight(i) \in Int
      BY <1>3, WeightNat
    <3>. QED
      BY <3>1 DEF Unit
  <2>5. C * B = c * B + B * p /\ c * B \in Int /\ B * p \in Int
    <3>1. C = c + p
      BY <1>4, <1>8, <1>10
    <3>2. (c + p) * B = c * B + B * p /\ c * B \in Int /\ B * p \in Int
      BY <1>1, <1>4, <1>8
    <3>. QED
      BY <3>1, <3>2
  <2>6. C * B < Weight(l)
    <3>1. C < Weight(m) /\ B < Weight(n) /\ C \in Nat /\ B \in Nat
      <4>1. Weight(m) \in Int
        BY <1>1, WeightNat
      <4>. QED
        BY <1>1, <1>8, <4>1
    <3>. QED
      BY <1>1, <1>7, <3>1, ProductBounds
  <2>7. Places(R.blk, l) \in Nat /\ Weight(l) \in Nat
    BY <1>6, <2>3, ArrayVal, WeightNat
  <2>8. Places(R.blk, l) = C * B
    <3> DEFINE CB == C * B
               cB == c * B
               Bp == B * p
               o == Unit(FALSE) * Weight(i)
               u == Unit(R.carry) * Weight(l)
               P == Places(R.blk, l)
               W == Weight(l)
    <3>1. P + u = cB + Bp + o /\ o = 0 /\ CB = cB + Bp /\ cB \in Int /\ Bp \in Int /\ CB < W
      BY <1>8, <2>1, <2>3, <2>4, <2>5, <2>6
    <3>2. P \in Nat /\ W \in Nat
      BY <2>7
    <3>3. u = 0 \/ u = W
      BY <1>6, <2>3, UnitInt
    <3> HIDE DEF CB, cB, Bp, o, u, P, W
    <3>4. P = CB
      BY <3>1, <3>2, <3>3
    <3>. QED
      BY <3>4 DEF P, CB
  <2>9. y = R.blk
    BY <1>10, <1>a DEF R, e
  <2>. QED
    BY <2>3, <2>8, <2>9
<1>11. y \in [0..l - 1 -> Blk] /\ Places(y, l) = C * B
  BY <1>8, <1>9, <1>10
<1>12. IsProductOf(y, l, a, b, t + 1)
  BY <1>11, <1>b DEF C
<1>. QED
  BY <1>12 DEF y

\* What a multiplication does for a bit leaves an array of blocks.
LEMMA AddsBlocks ==
  ASSUME NEW a \in Natural, NEW b \in Natural, NEW t \in Nat, t < len(a) * N,
         NEW l \in Nat, l = len(a) + len(b), NEW x \in [0..l - 1 -> Blk]
  PROVE  Adds(a, b, t, x) \in [0..l - 1 -> Blk]
<1> DEFINE i == t \div N
           n == len(b)
           e == Operand(b, t, l)
<1>1. len(a) \in Nat /\ n \in Nat
  BY OfNatural
<1>2. i \in Nat /\ i < len(a)
  BY <1>1, BlockBelow
<1>3. i + n < l /\ i <= l
  BY <1>1, <1>2
<1>4. \A k \in i..l - 1 : e[k] \in Blk
  BY <1>3, OperandVal
<1>5. Adds(a, b, t, x) = IF getBit(a, t) = 0 THEN x ELSE Ripple("add", x, e, i, l, FALSE).blk
  BY DEF Adds
<1> HIDE DEF i, e
<1>6. RippleMeans("add", l, x, i, l, e, FALSE, Ripple("add", x, e, i, l, FALSE))
  <2>1. "add" \in {"add", "subtract"} /\ l <= l /\ FALSE \in BOOLEAN
    OBVIOUS
  <2>. QED
    BY <1>2, <1>3, <1>4, <2>1, RippleVal
<1>. QED
  BY <1>5, <1>6 DEF RippleMeans

\* The sums of a multiplication, for the first L bits of a.
IsProductSums(a, b, l, L, sum) ==
  sum = [t \in 0..L |-> IF t = 0 THEN Zeros(l) ELSE Adds(a, b, t - 1, sum[t - 1])]

LEMMA ProductSumsExist ==
  ASSUME NEW a \in Natural, NEW b \in Natural, NEW l \in Nat, l = len(a) + len(b),
         NEW L \in Nat, L = len(a) * N
  PROVE  \E sum : IsProductSums(a, b, l, L, sum)
<1> DEFINE Arrays == [0..l - 1 -> Blk]
           G == [p \in (0..L - 1) \X Arrays |-> Adds(a, b, p[1], p[2])]
<1>1. ASSUME NEW p \in (0..L - 1) \X Arrays PROVE Adds(a, b, p[1], p[2]) \in Arrays
  <2> DEFINE t == p[1]
             x == p[2]
  <2>1. t \in 0..L - 1 /\ x \in Arrays
    OBVIOUS
  <2> HIDE DEF t, x
  <2>2. t \in Nat /\ t < len(a) * N
    BY <2>1
  <2>3. Adds(a, b, t, x) \in Arrays
    BY <2>1, <2>2, AddsBlocks
  <2>. QED
    BY <2>3 DEF t, x
<1>2. Zeros(l) \in Arrays
  BY ZerosVal
<1> HIDE DEF Arrays
<1>3. Steps(Arrays, L, G)
  BY <1>1 DEF Steps
<1>4. \A t \in 0..L - 1, x \in Arrays : G[<<t, x>>] = Adds(a, b, t, x)
  OBVIOUS
<1> HIDE DEF G
<1>5. \E f : Iterates(Arrays, Zeros(l), L, G, f)
  BY <1>2, <1>3, IteratesIndexed
<1>6. PICK f : f \in [0..L -> Arrays] /\ f[0] = Zeros(l) /\ \A t \in 0..L - 1 : f[t + 1] = G[<<t, f[t]>>]
  BY <1>5 DEF Iterates
<1>7. ASSUME NEW t \in 0..L PROVE f[t] = IF t = 0 THEN Zeros(l) ELSE Adds(a, b, t - 1, f[t - 1])
  <2>1. CASE t = 0
    BY <1>6, <2>1
  <2>2. CASE t # 0
    <3> DEFINE j == t - 1
    <3>1. j \in 0..L - 1 /\ t = j + 1 /\ j \in 0..L
      BY <2>2
    <3> HIDE DEF j
    <3>2. f[j + 1] = G[<<j, f[j]>>] /\ f[j] \in Arrays
      BY <1>6, <3>1
    <3>3. f[j + 1] = Adds(a, b, j, f[j])
      BY <1>4, <3>1, <3>2
    <3>. QED
      BY <2>2, <3>1, <3>3 DEF j
  <2>. QED
    BY <2>1, <2>2
<1>8. f = [t \in 0..L |-> f[t]]
  BY <1>6
<1>. QED
  BY <1>7, <1>8 DEF IsProductSums

\* The sums of a multiplication are the products with the low bits of a.
LEMMA ProductSums ==
  ASSUME NEW a \in Natural, NEW b \in Natural, NEW l \in Nat, l = len(a) + len(b),
         NEW L \in Nat, L = len(a) * N, NEW sum, IsProductSums(a, b, l, L, sum)
  PROVE  IsProductOf(sum[L], l, a, b, L)
<1>1. \A t \in 0..L : sum[t] = IF t = 0 THEN Zeros(l) ELSE Adds(a, b, t - 1, sum[t - 1])
  BY DEF IsProductSums
<1> DEFINE S == {t \in Nat : t <= L => IsProductOf(sum[t], l, a, b, t)}
<1>2. 0 \in S
  <2>1. sum[0] = Zeros(l)
    BY <1>1
  <2>2. Zeros(l) \in [0..l - 1 -> Blk] /\ Places(Zeros(l), l) = 0
    BY ZerosVal
  <2>3. Val(a) \in Nat /\ Val(b) \in Nat
    BY OfNatural
  <2> DEFINE z == 0
             c == Val(a) % Power(2, z)
             B == Val(b)
  <2>4. c = 0
    BY <2>3, LowBits
  <2>5. IsProductOf(Zeros(l), l, a, b, z) <=> Zeros(l) \in [0..l - 1 -> Blk] /\ Places(Zeros(l), l) = c * B
    BY DEF IsProductOf
  <2> HIDE DEF c, B
  <2>6. c * B = 0
    BY <2>3, <2>4 DEF B
  <2>. QED
    BY <2>1, <2>2, <2>5, <2>6
<1>3. ASSUME NEW t \in Nat, t \in S PROVE t + 1 \in S
  <2> SUFFICES ASSUME t + 1 <= L PROVE IsProductOf(sum[t + 1], l, a, b, t + 1)
    OBVIOUS
  <2>1. IsProductOf(sum[t], l, a, b, t) /\ t < len(a) * N
    BY <1>3
  <2>2. sum[t + 1] = Adds(a, b, t, sum[t])
    <3>1. t + 1 \in 0..L /\ t + 1 # 0 /\ (t + 1) - 1 = t
      OBVIOUS
    <3>. QED
      BY <1>1, <3>1
  <2>3. IsProductOf(Adds(a, b, t, sum[t]), l, a, b, t + 1)
    BY <2>1, ProductStep
  <2>. QED
    BY <2>2, <2>3
<1> HIDE DEF S
<1>4. L \in S
  BY <1>2, <1>3, Inductive
<1>. QED
  BY <1>4 DEF S

\* The product of two numbers.
LEMMA ProductVal ==
  ASSUME NEW a \in Natural, NEW b \in Natural
  PROVE  Product(a, b) \in Natural /\ Val(Product(a, b)) = Val(a) * Val(b)
<1> DEFINE m == len(a)
           n == len(b)
           l == m + n
           L == m * N
           A == Val(a)
           B == Val(b)
<1>1. /\ m \in Nat /\ n \in Nat /\ l \in Nat /\ a \in [0..m - 1 -> Blk] /\ A = Places(a, m)
      /\ A \in Nat /\ A < Weight(m) /\ B \in Nat /\ B < Weight(n)
      /\ (m > 0 => Weight(m - 1) <= A) /\ (n > 0 => Weight(n - 1) <= B)
      /\ (A = 0 <=> m = 0) /\ (B = 0 <=> n = 0)
  BY OfNatural
<1>2. CASE m = 0 \/ n = 0
  <2>1. Product(a, b) = Zero
    BY <1>2 DEF Product
  <2> DEFINE z == 0
  <2>2. z \in Nat /\ Zero \in [0..z - 1 -> Blk] /\ ~(z > 0)
    BY DEF Zero
  <2> HIDE DEF z
  <2>3. Zero \in Natural /\ Val(Zero) = Places(Zero, z)
    BY <2>2, InNatural, ArrayVal
  <2>4. Places(Zero, 0) = 0
    BY PlacesStep
  <2> HIDE DEF A, B
  <2>5. A * B = 0
    BY <1>1, <1>2
  <2>. QED
    BY <2>1, <2>3, <2>4, <2>5 DEF z, A, B
<1>3. CASE m # 0 /\ n # 0
  <2>1. L \in Nat /\ N * m = L
    <3>1. N \in Nat
      BY Weights
    <3> HIDE DEF m
    <3>. QED
      BY <1>1, <3>1
  <2> DEFINE sum == CHOOSE s : IsProductSums(a, b, l, L, s)
             y == sum[L]
  <2>2. Product(a, b) = Zap(y)
    BY <1>3 DEF Product, IsProductSums, Adds
  <2>3. \E s : IsProductSums(a, b, l, L, s)
    BY <1>1, <2>1, ProductSumsExist
  <2>4. IsProductSums(a, b, l, L, sum)
    BY <2>3
  <2> HIDE DEF sum
  <2>5. IsProductOf(y, l, a, b, L)
    BY <1>1, <2>1, <2>4, ProductSums
  <2>6. y \in [0..l - 1 -> Blk] /\ Places(y, l) = (A % Power(2, L)) * B
    BY <2>5 DEF IsProductOf
  <2> HIDE DEF m, n, L, A, B, y
  <2>7. A % Power(2, L) = A
    <3>1. Power(2, N * m) = Weight(m)
      BY <1>1, TwoPower
    <3>2. A < Power(2, L)
      BY <1>1, <2>1, <3>1
    <3>. QED
      BY <1>1, <2>1, <3>2, LowBits
  <2> DEFINE k == l - 1
  <2>8. k \in Nat /\ l = k + 1 /\ k > 0
    BY <1>1, <1>3
  <2>9. y \in [0..k -> Blk] /\ Places(y, k + 1) = A * B
    BY <2>6, <2>7, <2>8
  <2>10. Weight(k - 1) <= A * B
    <3> DEFINE g == m - 1
               h == n - 1
    <3>1. g \in Nat /\ h \in Nat /\ k - 1 = g + h /\ Weight(g) <= A /\ Weight(h) <= B
      BY <1>1, <1>3
    <3> HIDE DEF g, h
    <3>. QED
      BY <1>1, <3>1, ProductBounds
  <2> HIDE DEF k, l
  <2>11. Zap(y) \in Natural /\ Val(Zap(y)) = A * B
    BY <2>8, <2>9, <2>10, ZapsOne
  <2>. QED
    BY <2>2, <2>11 DEF A, B
<1>. QED
  BY <1>1, <1>2, <1>3

-----------------------------------------------------------------------------
(* Divisions. *)

\* One block replaced.
LEMMA ReplacedVal ==
  ASSUME NEW n \in Nat, NEW x \in [0..n - 1 -> Blk], NEW i \in 0..n - 1, NEW d \in Blk,
         NEW y \in [0..n - 1 -> Blk], y[i] = d, \A k \in 0..n - 1 : k # i => y[k] = x[k]
  PROVE  Places(y, n) + x[i] * Weight(i) = Places(x, n) + d * Weight(i)
<1>1. y \in [0..n - 1 -> Blk] /\ y[i] = d /\ \A k \in 0..n - 1 : k # i => y[k] = x[k]
  OBVIOUS
<1>2. i \in Nat /\ i + 1 \in Nat /\ i + 1 <= n /\ i <= n
  OBVIOUS
<1>3. Places(y, n) - Places(y, i + 1) = Places(x, n) - Places(x, i + 1)
  <2>1. \A k \in 0..n - 1 : y[k] \in Blk /\ x[k] \in Blk
    BY <1>1
  <2>2. \A k \in Nat : i + 1 <= k /\ k < n => y[k] = x[k]
    <3> SUFFICES ASSUME NEW k \in Nat, i + 1 <= k, k < n PROVE y[k] = x[k]
      OBVIOUS
    <3>1. k \in 0..n - 1 /\ k # i
      BY <1>2
    <3>. QED
      BY <1>1, <3>1
  <2> DEFINE j == i + 1
  <2>3. j \in Nat /\ j <= n /\ \A k \in Nat : j <= k /\ k < n => y[k] = x[k]
    BY <1>2, <2>2
  <2> HIDE DEF j
  <2>4. Places(y, n) - Places(y, j) = Places(x, n) - Places(x, j)
    BY <2>1, <2>3, PlacesRest
  <2>. QED
    BY <2>4 DEF j
<1>4. Places(y, i) = Places(x, i)
  <2>1. \A k \in 0..i - 1 : y[k] = x[k]
    BY <1>1, <1>2
  <2>. QED
    BY <1>2, <2>1, PlacesAgree
<1>5. Places(y, i + 1) = Places(y, i) + d * Weight(i) /\ Places(x, i + 1) = Places(x, i) + x[i] * Weight(i)
  <2>1. Places(y, i + 1) = Places(y, i) + y[i] * Weight(i) /\ Places(x, i + 1) = Places(x, i) + x[i] * Weight(i)
    BY <1>2, PlacesStep
  <2>. QED
    BY <1>1, <2>1
<1>6. /\ Places(y, n) \in Nat /\ Places(x, n) \in Nat /\ Places(x, i) \in Nat
  <2>1. \A k \in 0..n - 1 : y[k] \in Blk /\ x[k] \in Blk
    BY <1>1
  <2>2. \A k \in 0..i - 1 : x[k] \in Blk
    BY <1>2, <2>1
  <2>. QED
    BY <1>2, <2>1, <2>2, PlacesBound
<1> DEFINE W == Weight(i)
           u == d * W
           v == x[i] * W
<1>7. u \in Int /\ v \in Int
  <2>1. W \in Int /\ d \in Int /\ x[i] \in Int
    BY <1>1, <1>2, WeightNat, BlkNat
  <2>. QED
    BY <2>1
<1> HIDE DEF u, v
<1>8. Places(y, i + 1) = Places(x, i) + u /\ Places(x, i + 1) = Places(x, i) + v
  BY <1>4, <1>5 DEF u, v
<1>9. Places(y, n) + v = Places(x, n) + u
  BY SMTT(30), <1>3, <1>6, <1>7, <1>8
<1>. QED
  BY <1>9 DEF u, v

\* What the division of a by b subtracts from x for a shift by t bits.
Tries(a, b, x, t) ==
  LET i == t \div N
      k == IF i + len(b) >= len(a) THEN len(a) + 1 ELSE len(a)
  IN  Ripple("subtract", x, Operand(b, t, k), i, k, FALSE)

\* The stages that it goes through: their blocks.
LEMMA TriesBlocks ==
  ASSUME NEW a \in Natural, NEW b \in Natural, NEW m \in Nat, m = len(a), NEW n \in Nat, n = len(b),
         n <= m, NEW t \in Nat, t < (m - n + 1) * N, NEW x \in [0..m -> Blk]
  PROVE  \E i \in Nat, k \in Nat : \E e :
           /\ i <= m - n /\ i = t \div N
           /\ k = (IF i + n >= m THEN m + 1 ELSE m)
           /\ Above(e, i, k) = Val(b) * Power(2, t)
           /\ RippleMeans("subtract", m + 1, x, i, k, e, FALSE, Tries(a, b, x, t))
<1> DEFINE i == t \div N
           k == IF i + n >= m THEN m + 1 ELSE m
           e == Operand(b, t, k)
           R == Ripple("subtract", x, e, i, k, FALSE)
<1>1. i \in Nat /\ i < m - n + 1
  <2>1. m - n + 1 \in Nat
    OBVIOUS
  <2>. QED
    BY <2>1, BlockBelow
<1>2. i <= m - n
  BY <1>1
<1>3. k \in Nat /\ i + n < k /\ i <= k /\ k <= m + 1
  BY <1>1
<1>4. (\A j \in i..k - 1 : e[j] \in Blk) /\ Above(e, i, k) = Val(b) * Power(2, t)
  BY <1>3, OperandVal
<1>5. Tries(a, b, x, t) = R
  BY DEF Tries
<1>6. x \in [0..(m + 1) - 1 -> Blk] /\ m + 1 \in Nat
  <2>1. (m + 1) - 1 = m
    OBVIOUS
  <2>. QED
    BY <2>1
<1>7. k = (IF i + n >= m THEN m + 1 ELSE m) /\ i = t \div N
  OBVIOUS
<1> HIDE DEF i, k, e
<1>8. RippleMeans("subtract", m + 1, x, i, k, e, FALSE, R)
  <2>1. "subtract" \in {"add", "subtract"} /\ FALSE \in BOOLEAN
    OBVIOUS
  <2>. QED
    BY <1>1, <1>3, <1>4, <1>6, <2>1, RippleVal
<1>. QED
  BY <1>1, <1>2, <1>3, <1>4, <1>5, <1>7, <1>8

\* A product with a power of two, one bit more.
LEMMA DoubleShift ==
  ASSUME NEW B \in Nat, NEW t \in Nat
  PROVE  /\ B * Power(2, t) \in Nat /\ B * Power(2, t + 1) = 2 * (B * Power(2, t))
         /\ \A j \in Nat : t <= j => B * Power(2, t) <= B * Power(2, j)
<1> DEFINE p == Power(2, t)
<1>1. p \in Nat /\ Power(2, t + 1) = 2 * p
  BY TwoPowerNat
<1> HIDE DEF p
<1>2. B * p \in Nat /\ B * (2 * p) = 2 * (B * p)
  BY <1>1
<1>3. ASSUME NEW j \in Nat, t <= j PROVE B * p <= B * Power(2, j)
  <2> DEFINE r == Power(2, j - t)
  <2>1. j - t \in Nat /\ t + (j - t) = j
    BY <1>3
  <2>2. Power(2, j) = p * r /\ r \in Nat /\ r > 0
    <3>1. Power(2, t + (j - t)) = p * r
      BY <2>1, TwoPower DEF p
    <3>. QED
      BY <2>1, <3>1, TwoPowerNat
  <2> HIDE DEF r
  <2>3. p * 1 <= p * r
    <3>1. 1 \in Int /\ r \in Int /\ 1 <= r
      BY <2>2
    <3>. QED
      BY <1>1, <3>1, MultiplesGrow
  <2>4. p <= p * r /\ p * r \in Int
    BY <1>1, <2>2, <2>3
  <2> DEFINE pr == p * r
  <2>5. B * p <= B * pr
    <3>1. p \in Int /\ pr \in Int /\ p <= pr
      BY <1>1, <2>4
    <3> HIDE DEF pr
    <3>. QED
      BY <3>1, MultiplesGrow
  <2>. QED
    BY <2>2, <2>5
<1>. QED
  BY <1>1, <1>2, <1>3 DEF p

\* R is x, of m + 1 blocks, less b shifted by t bits; a borrow is left over if that is more than x.
TriesMeans(b, m, x, t, R) ==
  /\ R.blk \in [0..m -> Blk] /\ R.carry \in BOOLEAN
  /\ R.carry <=> Places(x, m + 1) < Val(b) * Power(2, t)
  /\ ~R.carry => Places(R.blk, m + 1) = Places(x, m + 1) - Val(b) * Power(2, t)

LEMMA TriesVal ==
  ASSUME NEW a \in Natural, NEW b \in Natural, NEW m \in Nat, m = len(a), NEW n \in Nat, n = len(b),
         0 < n, n <= m, NEW t \in Nat, t < (m - n + 1) * N, NEW x \in [0..m -> Blk],
         Places(x, m + 1) < Val(b) * Power(2, t + 1)
  PROVE  TriesMeans(b, m, x, t, Tries(a, b, x, t))
<1> DEFINE R == Tries(a, b, x, t)
           B == Val(b)
           X == Places(x, m + 1)
           Y == Places(R.blk, m + 1)
<1>0. PICK i \in Nat, k \in Nat : \E e :
        /\ i <= m - n /\ i = t \div N
        /\ k = (IF i + n >= m THEN m + 1 ELSE m)
        /\ Above(e, i, k) = B * Power(2, t)
        /\ RippleMeans("subtract", m + 1, x, i, k, e, FALSE, R)
  BY TriesBlocks
<1>1. PICK e :
        /\ i <= m - n /\ i = t \div N
        /\ k = (IF i + n >= m THEN m + 1 ELSE m)
        /\ Above(e, i, k) = B * Power(2, t)
        /\ RippleMeans("subtract", m + 1, x, i, k, e, FALSE, R)
  BY <1>0
<1>2. B \in Nat /\ B < Weight(n)
  BY OfNatural
<1> HIDE DEF R, B
<1> DEFINE S == B * Power(2, t)
<1>3. S \in Nat
  BY <1>2, DoubleShift
<1>4. R.blk \in [0..m -> Blk] /\ R.carry \in BOOLEAN
  <2>1. R.blk \in [0..(m + 1) - 1 -> Blk] /\ R.carry \in BOOLEAN
    BY <1>1 DEF RippleMeans
  <2>2. (m + 1) - 1 = m
    OBVIOUS
  <2>. QED
    BY <2>1, <2>2
<1>5. X \in Nat /\ Y \in Nat /\ Y < Weight(m + 1)
  <2>1. \A j \in 0..(m + 1) - 1 : x[j] \in Blk /\ R.blk[j] \in Blk
    BY <1>4
  <2>. QED
    BY SMTT(30), <2>1, PlacesBound
<1>6. X + Unit(R.carry) * Weight(k) = Y + S
  <2>1. X + Unit(R.carry) * Weight(k) = Y + Above(e, i, k) + Unit(FALSE) * Weight(i)
    BY <1>1 DEF RippleMeans
  <2>2. Unit(FALSE) * Weight(i) = 0
    BY UnitInt
  <2>3. Unit(R.carry) * Weight(k) \in Nat
    BY <1>4, UnitInt
  <2> DEFINE u == Unit(R.carry) * Weight(k)
             o == Unit(FALSE) * Weight(i)
             f == Above(e, i, k)
  <2>a. f = S
    BY <1>1
  <2>b. o = 0 /\ u \in Nat
    <3>1. o = 0
      BY <2>2
    <3>2. u \in Nat
      BY <2>3
    <3> HIDE DEF u, o
    <3>. QED
      BY <3>1, <3>2
  <2>c. X + u = Y + f + o
    BY <2>1
  <2>4. X + u = Y + f + o /\ f = S /\ o = 0 /\ u \in Nat
    BY <2>a, <2>b, <2>c
  <2> HIDE DEF u, o, f, X, Y, S
  <2>5. X + u = Y + S
    BY <1>3, <1>5, <2>4
  <2>. QED
    BY <2>5 DEF u
<1>7. Y < Weight(k) \/ ~R.carry
  <2>1. CASE k = m + 1
    BY <1>5, <2>1
  <2>2. CASE k = m /\ i + n < m
    <3>1. X < Weight(m)
      <4> DEFINE j == N * (m - n)
      <4>1. m - n \in Nat /\ n + (m - n) = m
        OBVIOUS
      <4>2. j \in Nat /\ Power(2, j) = Weight(m - n)
        BY <4>1, TwoPower
      <4>3. t + 1 <= j
        <5>1. i < m - n /\ m - n \in Nat
          BY SMTT(30), <2>2
        <5> DEFINE o == t % N
                   z == m - n
        <5>2. N \in Nat /\ N > 0 /\ o \in 0..N - 1 /\ t = N * i + o
          <6>1. N \in Nat /\ N > 0
            BY Weights
          <6>. QED
            BY <1>1, <6>1, BitPlace
        <5> HIDE DEF o, z
        <5>3. N * (i + 1) <= N * z
          <6>1. i + 1 \in Int /\ z \in Int /\ i + 1 <= z
            BY <5>1 DEF z
          <6>. QED
            BY <5>2, <6>1, MultiplesGrow
        <5>4. N * (i + 1) = N * i + N /\ N * i \in Int /\ N * z \in Int
          BY <5>1, <5>2 DEF z
        <5> DEFINE g == N * i
                   h == N * z
        <5>5. g + N <= h /\ t = g + o /\ g \in Int /\ h \in Int
          BY <5>2, <5>3, <5>4
        <5> HIDE DEF g, h
        <5>6. t + 1 <= h
          BY <5>2, <5>5
        <5>. QED
          BY <5>6 DEF h, z
      <4>4. B * Power(2, t + 1) <= B * Power(2, j)
        BY <1>2, <4>2, <4>3, DoubleShift
      <4>5. B * Weight(m - n) <= Weight(n) * Weight(m - n) /\ B * Weight(m - n) \in Int
        <5> DEFINE w == Weight(m - n)
        <5>1. w \in Nat /\ w \in Int /\ Weight(n) \in Int
          BY <4>1, WeightNat
        <5> HIDE DEF w
        <5>2. w * B <= w * Weight(n) /\ w * B = B * w /\ w * Weight(n) = Weight(n) * w /\ B * w \in Int
          <6>1. B \in Int /\ B <= Weight(n)
            BY <1>2, <5>1
          <6>2. w * B <= w * Weight(n)
            BY <5>1, <6>1, MultiplesGrow
          <6>. QED
            BY <5>1, <6>1, <6>2
        <5>. QED
          BY <5>2 DEF w
      <4>6. Weight(n) * Weight(m - n) = Weight(m) /\ Weight(m) \in Int
        BY <4>1, WeightsGrow, WeightNat
      <4> DEFINE c == B * Power(2, t + 1)
                 d == B * Weight(m - n)
      <4>7. X < c /\ c <= d /\ d <= Weight(m) /\ c \in Int /\ d \in Int
        <5>1. c \in Nat
          <6>1. t + 1 \in Nat
            OBVIOUS
          <6>. QED
            BY <1>2, <6>1, DoubleShift
        <5>. QED
          BY <1>2, <4>2, <4>4, <4>5, <4>6, <5>1 DEF B
      <4> HIDE DEF c, d
      <4>. QED
        BY <1>5, <4>6, <4>7
    <3>2. x[m] = 0
      <4> SUFFICES ASSUME x[m] # 0 PROVE FALSE
        OBVIOUS
      <4>1. Weight(m) <= X
        BY AtLeastWeight
      <4>2. Weight(m) \in Int
        BY WeightNat
      <4>. QED
        BY <1>5, <3>1, <4>1, <4>2
    <3>3. R.blk[m] = 0
      <4>1. m \in 0..(m + 1) - 1 /\ m >= k
        BY SMTT(30), <2>2
      <4>2. R.blk[m] = x[m]
        BY <1>1, <4>1 DEF RippleMeans
      <4>. QED
        BY <3>2, <4>2
    <3> DEFINE w == R.blk
    <3>4. w \in [0..m -> Blk] /\ w[m] = 0 /\ Y = Places(w, m + 1)
      BY <1>4, <3>3
    <3> HIDE DEF w, Y
    <3>5. Places(w, m) \in Nat /\ Places(w, m) < Weight(m)
      <4>1. \A j \in 0..m - 1 : w[j] \in Blk
        <5>1. \A j \in 0..m - 1 : j \in 0..m
          OBVIOUS
        <5>. QED
          BY <3>4, <5>1
      <4>. QED
        BY <4>1, PlacesBound
    <3>6. Y = Places(w, m)
      <4>1. Places(w, m + 1) = Places(w, m) + w[m] * Weight(m)
        BY PlacesStep
      <4>2. Weight(m) \in Int
        BY WeightNat
      <4>. QED
        BY <3>4, <3>5, <4>1, <4>2
    <3>. QED
      BY <2>2, <3>5, <3>6
  <2>. QED
    BY <1>1, <2>1, <2>2
<1> HIDE DEF X, Y, S
<1>8. Unit(R.carry) * Weight(k) = (IF R.carry THEN Weight(k) ELSE 0) /\ Weight(k) \in Int
  BY <1>4, UnitInt, WeightNat
<1>9. (R.carry => X < S) /\ (~R.carry => Y = X - S /\ ~(X < S))
  <2>1. CASE R.carry
    <3>1. X + Weight(k) = Y + S /\ Y < Weight(k)
      BY <1>6, <1>7, <1>8, <2>1
    <3>. QED
      BY <1>3, <1>5, <1>8, <2>1, <3>1
  <2>2. CASE ~R.carry
    <3>1. X + 0 = Y + S
      BY <1>6, <1>8, <2>2
    <3>. QED
      BY <1>3, <1>5, <2>2, <3>1
  <2>. QED
    BY <2>1, <2>2
<1>. QED
  BY <1>4, <1>9 DEF X, Y, S, R, B, TriesMeans

\* q with bit t added.
WithBit(q, t) == [q EXCEPT ![t \div N] = @ + Power(2, t % N)]

\* A bit of the quotient, below those that have been set.
LEMMA QuotientBit ==
  ASSUME NEW h \in Nat, NEW q \in [0..h - 1 -> Blk], NEW t \in Nat, t < h * N,
         NEW g \in Nat, Places(q, h) = g * Power(2, t + 1)
  PROVE  /\ WithBit(q, t) \in [0..h - 1 -> Blk]
         /\ Places(WithBit(q, t), h) = Places(q, h) + Power(2, t)
<1> DEFINE y == WithBit(q, t)
           i == t \div N
           o == t % N
           p == Power(2, o)
           r == Power(2, N - 1 - o)
           W == Weight(i)
           Q == Places(q, h)
<1>1. i \in Nat /\ i < h
  BY BlockBelow
<1>2. o \in 0..N - 1 /\ Power(2, t) = W * p /\ N \in Nat /\ N > 0
  <2>1. N \in Nat /\ N > 0
    BY Weights
  <2>. QED
    BY <2>1, BitPlace
<1>3. y = [q EXCEPT ![i] = q[i] + p]
  BY DEF WithBit
<1> HIDE DEF i, o, y
<1>4. p \in Nat /\ p > 0 /\ r \in Nat /\ r > 0 /\ Radix = 2 * p * r
  <2> DEFINE c == N - 1 - o
  <2>1. o \in Nat /\ c \in Nat /\ (o + c) + 1 = N /\ o + c \in Nat
    BY <1>2
  <2>2. p \in Nat /\ p > 0 /\ Power(2, c) \in Nat /\ Power(2, c) > 0
    BY <2>1, TwoPowerNat
  <2>3. Power(2, (o + c) + 1) = 2 * Power(2, o + c)
    BY <2>1, TwoPowerNat
  <2>4. Power(2, o + c) = p * Power(2, c)
    BY <2>1, TwoPower
  <2> HIDE DEF c
  <2>5. Power(2, N) = 2 * (p * Power(2, c))
    BY <2>1, <2>3, <2>4
  <2> DEFINE z == Power(2, c)
  <2> HIDE DEF p, z
  <2>6. 2 * (p * z) = 2 * p * z
    BY <2>2 DEF z
  <2>. QED
    BY <2>2, <2>5, <2>6 DEF c, z, p, Radix
<1>5. W \in Nat /\ W > 0
  BY <1>1, WeightNat
<1>6. Power(2, t + 1) = 2 * (W * p)
  BY <1>2, TwoPowerNat
<1> HIDE DEF p, r, W, Q
<1>7. Q = W * (2 * p * g)
  <2>1. Q = g * (2 * (W * p))
    BY <1>6 DEF Q
  <2>2. g * (2 * (W * p)) = W * (2 * p * g)
    BY <1>4, <1>5
  <2>. QED
    BY <2>1, <2>2
<1> DEFINE v == 2 * p * g
           k == g \div r
           c == g % r
           z == 2 * p * c
<1>8. k \in Int /\ c \in 0..r - 1 /\ g = r * k + c
  <2>1. r \in Int
    BY <1>4
  <2>. QED
    BY <1>4, <2>1, DivMod
<1> HIDE DEF k, c
<1>9. v \in Nat /\ z \in Nat /\ v = Radix * k + z /\ z + p < Radix
  <2>1. v \in Nat
    BY <1>4
  <2>2. z \in Nat
    BY <1>4, <1>8
  <2>3. 2 * p * (r * k + c) = (2 * p * r) * k + 2 * p * c
    BY <1>4, <1>8
  <2>4. z + p < Radix
    <3> DEFINE d == 2 * p
    <3>1. d \in Nat /\ d > p
      BY <1>4
    <3>2. d * c <= d * (r - 1) /\ d * c \in Int /\ d * (r - 1) \in Int
      <4>1. c \in Int /\ r - 1 \in Int /\ c <= r - 1
        BY <1>4, <1>8
      <4> HIDE DEF d
      <4>. QED
        BY <3>1, <4>1, MultiplesGrow
    <3>3. d * (r - 1) = d * r - d /\ d * r \in Int
      BY <1>4
    <3> DEFINE e == d * c
               f == d * r
    <3>4. z = e /\ Radix = f /\ e <= f - d /\ e \in Int /\ f \in Int
      BY <1>4, <3>2, <3>3
    <3> HIDE DEF d, e, f, z
    <3>. QED
      BY <1>4, <3>1, <3>4
  <2>5. v = Radix * k + z
    BY <1>4, <1>8, <2>3
  <2>. QED
    BY <2>1, <2>2, <2>4, <2>5
<1> HIDE DEF v, z
<1>10. Q \div W = v
  <2>1. 0 \in 0..W - 1 /\ W \in Int /\ v \in Int /\ Q \in Int /\ Q = W * v + 0
    <3>1. W * v \in Int
      BY <1>5, <1>9
    <3>2. Q = W * v
      BY <1>7 DEF v
    <3>. QED
      BY <1>5, <1>9, <3>1, <3>2
  <2>. QED
    BY <1>5, <2>1, DivUnique
<1>11. v % Radix = z
  <2>1. z \in 0..Radix - 1 /\ v \in Int /\ Radix \in Int /\ Radix > 0
    BY <1>4, <1>9, RadixNat
  <2>. QED
    BY <1>8, <1>9, <2>1, DivUnique
<1>12. q[i] = z
  <2>1. (Q \div W) % Radix = getBlock(q, i)
    BY <1>1, BlockOf DEF Q, W
  <2>2. getBlock(q, i) = q[i]
    <3>1. len(q) = h
      BY ArrayVal
    <3>. QED
      BY <1>1, <3>1 DEF getBlock
  <2>. QED
    BY <1>10, <1>11, <2>1, <2>2
<1> DEFINE d == z + p
<1>13. d \in Blk
  <2>1. d \in Nat /\ d < Radix
    BY <1>4, <1>9
  <2>. QED
    BY <2>1, BlkNat
<1>14. i \in 0..h - 1
  BY <1>1
<1>15. y \in [0..h - 1 -> Blk] /\ y[i] = d /\ \A j \in 0..h - 1 : j # i => y[j] = q[j]
  <2>1. y = [q EXCEPT ![i] = d]
    BY <1>3, <1>12
  <2> HIDE DEF d
  <2>. QED
    BY <1>13, <1>14, <2>1
<1> HIDE DEF d
<1>16. Places(y, h) + z * W = Q + d * W
  <2>1. Places(y, h) + q[i] * Weight(i) = Places(q, h) + d * Weight(i)
    BY <1>13, <1>14, <1>15, ReplacedVal
  <2>. QED
    BY <1>12, <2>1 DEF Q, W
<1>17. d * W = z * W + W * p /\ z * W \in Int /\ W * p \in Int
  <2>1. (z + p) * W = z * W + W * p /\ z * W \in Int /\ W * p \in Int
    BY <1>4, <1>5, <1>9
  <2>. QED
    BY <2>1 DEF d
<1>18. Places(y, h) \in Nat /\ Q \in Nat
  BY <1>15, ArrayVal DEF Q
<1>19. Places(y, h) = Q + W * p
  <2> DEFINE zw == z * W
             wp == W * p
             Y == Places(y, h)
             dw == d * W
  <2>1. Y + zw = Q + dw /\ dw = zw + wp /\ zw \in Int /\ wp \in Int /\ Y \in Int /\ Q \in Int
    BY <1>16, <1>17, <1>18
  <2> HIDE DEF zw, wp, Y, dw
  <2>2. Y = Q + wp
    BY <2>1
  <2>. QED
    BY <2>2 DEF Y, wp
<1>. QED
  BY <1>2, <1>15, <1>19 DEF Q, y

\* What the division of a by b does for a shift by t bits to what is left and the quotient.
TriesShift(a, b, t, s) ==
  LET try == Tries(a, b, s.blk, t)
  IN  IF try.carry THEN s
      ELSE [blk |-> try.blk, q |-> WithBit(s.q, t)]

\* With the shifts from t upwards tried, less than b shifted by t bits is left.
IsLeft(a, b, t, s) ==
  LET m == len(a)
      n == len(b)
  IN  /\ s.blk \in [0..m -> Blk] /\ s.q \in [0..m - n -> Blk]
      /\ Val(a) = Places(s.blk, m + 1) + Val(b) * Places(s.q, m - n + 1)
      /\ Places(s.blk, m + 1) < Val(b) * Power(2, t)
      /\ \E g \in Nat : Places(s.q, m - n + 1) = g * Power(2, t)

LEMMA DivisionStep ==
  ASSUME NEW a \in Natural, NEW b \in Natural, 0 < len(b), len(b) <= len(a),
         NEW t \in Nat, t < (len(a) - len(b) + 1) * N, NEW s, IsLeft(a, b, t + 1, s)
  PROVE  IsLeft(a, b, t, TriesShift(a, b, t, s))
<1> DEFINE m == len(a)
           n == len(b)
           h == m - n + 1
           A == Val(a)
           B == Val(b)
           x == s.blk
           q == s.q
           R == Tries(a, b, x, t)
           y == WithBit(q, t)
           T == TriesShift(a, b, t, s)
<1>1. m \in Nat /\ n \in Nat /\ 0 < n /\ n <= m /\ h \in Nat /\ h - 1 = m - n /\ A \in Nat /\ B \in Nat
  <2>1. m \in Nat /\ n \in Nat /\ A \in Nat /\ B \in Nat
    BY OfNatural
  <2>. QED
    BY <2>1
<1>2. /\ x \in [0..m -> Blk] /\ q \in [0..m - n -> Blk]
      /\ A = Places(x, m + 1) + B * Places(q, h)
      /\ Places(x, m + 1) < B * Power(2, t + 1)
      /\ \E g \in Nat : Places(q, h) = g * Power(2, t + 1)
  BY DEF IsLeft
<1>3. PICK g \in Nat : Places(q, h) = g * Power(2, t + 1)
  BY <1>2
<1>4. /\ R.blk \in [0..m -> Blk] /\ R.carry \in BOOLEAN
      /\ R.carry <=> Places(x, m + 1) < B * Power(2, t)
      /\ ~R.carry => Places(R.blk, m + 1) = Places(x, m + 1) - B * Power(2, t)
  <2>1. t < (m - n + 1) * N
    OBVIOUS
  <2>2. x \in [0..m -> Blk] /\ Places(x, m + 1) < B * Power(2, t + 1)
    BY <1>2
  <2>3. m = len(a) /\ n = len(b)
    OBVIOUS
  <2> HIDE DEF x, q, m, n, R
  <2>4. TriesMeans(b, m, x, t, Tries(a, b, x, t))
    BY <1>1, <2>1, <2>2, <2>3, TriesVal
  <2>. QED
    BY <2>4 DEF TriesMeans, R
<1>5. y \in [0..m - n -> Blk] /\ Places(y, h) = Places(q, h) + Power(2, t)
  <2>1. q \in [0..h - 1 -> Blk] /\ t < h * N
    BY <1>1, <1>2
  <2> HIDE DEF h
  <2>2. y \in [0..h - 1 -> Blk] /\ Places(y, h) = Places(q, h) + Power(2, t)
    BY <1>1, <1>3, <2>1, QuotientBit
  <2>. QED
    BY <1>1, <2>2
<1>6. T = IF R.carry THEN s ELSE [blk |-> R.blk, q |-> y]
  BY DEF TriesShift
<1>7. ASSUME T.blk \in [0..m -> Blk], T.q \in [0..m - n -> Blk],
             A = Places(T.blk, m + 1) + B * Places(T.q, h),
             Places(T.blk, m + 1) < B * Power(2, t),
             \E k \in Nat : Places(T.q, h) = k * Power(2, t)
      PROVE  IsLeft(a, b, t, T)
  <2> HIDE DEF T
  <2>. QED
    BY <1>7 DEF IsLeft
<1> DEFINE p == Power(2, t)
           X == Places(x, m + 1)
           Q == Places(q, h)
<1>8. p \in Nat /\ Power(2, t + 1) = 2 * p
  BY TwoPowerNat
<1>9. X \in Nat /\ Q \in Nat
  <2>1. m + 1 \in Nat /\ (m + 1) - 1 = m
    BY <1>1
  <2>2. x \in [0..(m + 1) - 1 -> Blk] /\ q \in [0..h - 1 -> Blk]
    BY <1>1, <1>2, <2>1
  <2> DEFINE k == m + 1
  <2>3. k \in Nat /\ x \in [0..k - 1 -> Blk]
    BY <2>1, <2>2
  <2> HIDE DEF k, h
  <2>4. Places(x, k) \in Nat /\ Places(q, h) \in Nat
    BY <1>1, <2>2, <2>3, ArrayVal
  <2>. QED
    BY <2>4 DEF k
<1>10. CASE R.carry
  <2>1. T = s
    BY <1>6, <1>10
  <2>2. X < B * p
    BY <1>4, <1>10
  <2>3. \E k \in Nat : Q = k * p
    <3>1. Q = g * (2 * p)
      BY <1>3, <1>8
    <3> HIDE DEF p, Q
    <3>2. g * (2 * p) = (2 * g) * p /\ 2 * g \in Nat
      BY <1>8
    <3>. QED
      BY <3>1, <3>2
  <2> HIDE DEF T
  <2>. QED
    BY <1>2, <1>7, <2>1, <2>2, <2>3 DEF T
<1>11. CASE ~R.carry
  <2>1. T.blk = R.blk /\ T.q = y
    BY <1>6, <1>11
  <2>2. B * p \in Nat /\ B * Power(2, t + 1) = 2 * (B * p)
    BY <1>1, DoubleShift
  <2> DEFINE Y == Places(R.blk, m + 1)
             Z == Places(y, h)
             S == B * p
             BQ == B * Q
  <2>3. Y = X - S /\ Z = Q + p /\ X < 2 * S /\ S \in Nat
    BY <1>2, <1>4, <1>5, <1>11, <2>2
  <2>4. Y < S
    <3> HIDE DEF Y, X, S
    <3>. QED
      BY <1>9, <2>3
  <2>5. A = Y + B * Z
    <3>1. B * (Q + p) = BQ + S /\ BQ \in Int
      <4> HIDE DEF Q, p, B
      <4>. QED
        BY <1>1, <1>8, <1>9
    <3>2. A = X + BQ /\ B * Z = BQ + S
      BY <1>2, <2>3, <3>1
    <3> DEFINE BZ == B * Z
    <3>3. A = X + BQ /\ BZ = BQ + S
      BY <3>2
    <3> HIDE DEF BQ, S, X, Y, Z, A, BZ
    <3>4. A = Y + BZ
      BY <1>9, <2>3, <3>1, <3>3
    <3>. QED
      BY <3>4 DEF BZ
  <2>6. \E k \in Nat : Z = k * p
    <3>1. Z = g * (2 * p) + p
      BY <1>3, <1>8, <2>3
    <3> HIDE DEF p, Z
    <3>2. g * (2 * p) + p = (2 * g + 1) * p /\ 2 * g + 1 \in Nat
      BY <1>8
    <3>. QED
      BY <3>1, <3>2
  <2> HIDE DEF T
  <2>. QED
    <3>1. T.blk \in [0..m -> Blk] /\ T.q \in [0..m - n -> Blk]
      BY <1>4, <1>5, <2>1
    <3>2. A = Places(T.blk, m + 1) + B * Places(T.q, h) /\ Places(T.blk, m + 1) < B * p
      BY <2>1, <2>4, <2>5
    <3>3. \E k \in Nat : Places(T.q, h) = k * p
      BY <2>1, <2>6
    <3>4. IsLeft(a, b, t, T)
      BY <1>7, <3>1, <3>2, <3>3
    <3>. QED
      BY <3>4 DEF T
<1>. QED
  BY <1>4, <1>10, <1>11

\* What a division does for a shift leaves arrays of the same lengths.
LeftState(m, n) == [blk : [0..m -> Blk], q : [0..m - n -> Nat]]

LEMMA TriesShiftBlocks ==
  ASSUME NEW a \in Natural, NEW b \in Natural, NEW m \in Nat, m = len(a), NEW n \in Nat, n = len(b),
         n <= m, NEW t \in Nat, t < (m - n + 1) * N, NEW s \in LeftState(m, n)
  PROVE  TriesShift(a, b, t, s) \in LeftState(m, n)
<1> DEFINE x == s.blk
           R == Tries(a, b, x, t)
           y == WithBit(s.q, t)
<1>1. x \in [0..m -> Blk] /\ s.q \in [0..m - n -> Nat]
  BY DEF LeftState
<1>2. R.blk \in [0..m -> Blk]
  <2>0. PICK i \in Nat, k \in Nat : \E e :
          /\ i <= m - n /\ i = t \div N
          /\ k = (IF i + n >= m THEN m + 1 ELSE m)
          /\ Above(e, i, k) = Val(b) * Power(2, t)
          /\ RippleMeans("subtract", m + 1, x, i, k, e, FALSE, Tries(a, b, x, t))
    <3> HIDE DEF x
    <3>. QED
      BY <1>1, TriesBlocks
  <2>1. PICK e : RippleMeans("subtract", m + 1, x, i, k, e, FALSE, R)
    BY <2>0
  <2>2. RippleMeans("subtract", m + 1, x, i, k, e, FALSE, R)
    BY <2>1
  <2> HIDE DEF R
  <2>3. R.blk \in [0..(m + 1) - 1 -> Blk]
    BY <2>2 DEF RippleMeans
  <2>4. (m + 1) - 1 = m
    OBVIOUS
  <2>. QED
    BY <2>3, <2>4
<1>3. y \in [0..m - n -> Nat]
  <2> DEFINE i == t \div N
             p == Power(2, t % N)
  <2>1. p \in Nat
    <3>1. t % N \in 0..N - 1 /\ N \in Nat
      BY BitPlace, Weights
    <3> DEFINE o == t % N
    <3>2. o \in Nat
      BY <3>1
    <3> HIDE DEF o
    <3>3. Power(2, o) \in Nat
      BY <3>2, TwoPowerNat
    <3>. QED
      BY <3>3 DEF o
  <2>2. y = [s.q EXCEPT ![i] = s.q[i] + p]
    BY DEF WithBit
  <2>3. i \in 0..m - n
    <3>1. m - n + 1 \in Nat
      OBVIOUS
    <3>2. i \in Nat /\ i < m - n + 1
      BY <3>1, BlockBelow
    <3>. QED
      BY <3>2
  <2> HIDE DEF i, p
  <2>. QED
    <3> HIDE DEF x, R, y
    <3>1. s.q \in [0..m - n -> Nat]
      BY <1>1
    <3>2. s.q[i] + p \in Nat
      BY <2>1, <2>3, <3>1
    <3>. QED
      BY <2>2, <3>1, <3>2
<1>4. TriesShift(a, b, t, s) = IF R.carry THEN s ELSE [blk |-> R.blk, q |-> y]
  BY DEF TriesShift
<1>. QED
  BY <1>2, <1>3, <1>4 DEF LeftState

\* What is left in a division of a by b when the shifts from t upwards have been tried.
IsDivision(a, b, bits, left) ==
  left = [t \in 0..bits |->
            IF t = bits THEN [blk |-> Extended(a, 0), q |-> Zeros(len(a) - len(b) + 1)]
            ELSE TriesShift(a, b, t, left[t + 1])]

LEMMA DivisionExists ==
  ASSUME NEW a \in Natural, NEW b \in Natural, len(b) <= len(a),
         NEW bits \in Nat, bits = (len(a) - len(b) + 1) * N
  PROVE  \E left : IsDivision(a, b, bits, left)
<1> DEFINE m == len(a)
           n == len(b)
           States == LeftState(m, n)
           start == [blk |-> Extended(a, 0), q |-> Zeros(m - n + 1)]
           G == [p \in (0..bits - 1) \X States |-> TriesShift(a, b, bits - 1 - p[1], p[2])]
<1>1. m \in Nat /\ n \in Nat /\ n <= m /\ a \in [0..m - 1 -> Blk]
  BY OfNatural
<1>2. start \in States
  <2>1. Extended(a, 0) \in [0..m -> Blk]
    BY <1>1, ExtendedVal, SmallBlk
  <2>2. Zeros(m - n + 1) \in [0..m - n -> Nat]
    <3>1. m - n + 1 \in Nat /\ (m - n + 1) - 1 = m - n
      BY <1>1
    <3>. QED
      BY <3>1 DEF Zeros
  <2>. QED
    BY <2>1, <2>2 DEF LeftState
<1>3. ASSUME NEW t \in 0..bits - 1, NEW s \in States PROVE TriesShift(a, b, t, s) \in States
  <2>1. t \in Nat /\ t < (m - n + 1) * N
    OBVIOUS
  <2>2. m = len(a) /\ n = len(b) /\ s \in LeftState(m, n)
    OBVIOUS
  <2> HIDE DEF m, n
  <2>. QED
    BY <1>1, <2>1, <2>2, TriesShiftBlocks
<1> HIDE DEF States, start, m, n
<1>4. Steps(States, bits, G)
  <2>1. ASSUME NEW p \in (0..bits - 1) \X States PROVE TriesShift(a, b, bits - 1 - p[1], p[2]) \in States
    <3>1. bits - 1 - p[1] \in 0..bits - 1 /\ p[2] \in States
      OBVIOUS
    <3>. QED
      BY <1>3, <3>1
  <2>. QED
    BY <2>1 DEF Steps
<1>5. \A j \in 0..bits - 1, s \in States : G[<<j, s>>] = TriesShift(a, b, bits - 1 - j, s)
  OBVIOUS
<1> HIDE DEF G
<1>6. \E f : Iterates(States, start, bits, G, f)
  BY <1>2, <1>4, IteratesIndexed
<1>7. PICK f : f \in [0..bits -> States] /\ f[0] = start /\ \A j \in 0..bits - 1 : f[j + 1] = G[<<j, f[j]>>]
  BY <1>6 DEF Iterates
<1> DEFINE left == [t \in 0..bits |-> f[bits - t]]
<1>8. ASSUME NEW t \in 0..bits
      PROVE  left[t] = IF t = bits THEN start ELSE TriesShift(a, b, t, left[t + 1])
  <2>1. CASE t = bits
    <3>1. bits - t = 0
      BY <2>1
    <3>. QED
      BY <1>7, <2>1, <3>1
  <2>2. CASE t # bits
    <3> DEFINE j == bits - (t + 1)
    <3>1. j \in 0..bits - 1 /\ j \in 0..bits /\ bits - t = j + 1 /\ t + 1 \in 0..bits /\ bits - 1 - j = t
      BY <2>2
    <3>2. left[t + 1] = f[j]
      BY <3>1
    <3> HIDE DEF j
    <3>3. left[t] = f[j + 1]
      BY <3>1
    <3>4. f[j + 1] = G[<<j, f[j]>>] /\ f[j] \in States
      BY <1>7, <3>1
    <3>5. f[j + 1] = TriesShift(a, b, t, f[j])
      <4>1. G[<<j, f[j]>>] = TriesShift(a, b, bits - 1 - j, f[j])
        BY <1>5, <3>1, <3>4
      <4>. QED
        BY <3>1, <3>4, <4>1
    <3> HIDE DEF left
    <3>. QED
      BY <2>2, <3>2, <3>3, <3>5
  <2>. QED
    BY <2>1, <2>2
<1>9. left = [t \in 0..bits |-> left[t]]
  OBVIOUS
<1> HIDE DEF left
<1>. QED
  BY <1>8, <1>9 DEF IsDivision, start, m, n

\* All shifts together.
LEMMA DivisionLeaves ==
  ASSUME NEW a \in Natural, NEW b \in Natural, 0 < len(b), len(b) <= len(a),
         NEW bits \in Nat, bits = (len(a) - len(b) + 1) * N, NEW left, IsDivision(a, b, bits, left)
  PROVE  IsLeft(a, b, 0, left[0])
<1> DEFINE m == len(a)
           n == len(b)
           h == m - n + 1
           A == Val(a)
           B == Val(b)
           start == [blk |-> Extended(a, 0), q |-> Zeros(h)]
<1>1. /\ m \in Nat /\ n \in Nat /\ a \in [0..m - 1 -> Blk] /\ A = Places(a, m)
      /\ A \in Nat /\ A < Weight(m) /\ B \in Nat /\ Weight(n - 1) <= B
  BY OfNatural
<1>2. h \in Nat /\ h - 1 = m - n /\ n - 1 \in Nat /\ m = h + (n - 1)
  BY <1>1
<1>3. \A t \in 0..bits : left[t] = IF t = bits THEN start ELSE TriesShift(a, b, t, left[t + 1])
  BY DEF IsDivision
<1>4. IsLeft(a, b, bits, start)
  <2>1. start.blk = Extended(a, 0) /\ start.q = Zeros(h)
    OBVIOUS
  <2>2. Extended(a, 0) \in [0..m -> Blk] /\ Places(Extended(a, 0), m + 1) = A
    <3>1. Extended(a, 0) \in [0..m -> Blk] /\ Places(Extended(a, 0), m + 1) = Places(a, m) + 0 * Weight(m)
      BY <1>1, ExtendedVal, SmallBlk
    <3>2. 0 * Weight(m) = 0
      BY <1>1, WeightNat
    <3>. QED
      BY <1>1, <3>1, <3>2
  <2>3. Zeros(h) \in [0..m - n -> Blk] /\ Places(Zeros(h), h) = 0
    <3> HIDE DEF h
    <3>1. Zeros(h) \in [0..h - 1 -> Blk] /\ Places(Zeros(h), h) = 0
      BY <1>2, ZerosVal
    <3>. QED
      BY <1>2, <3>1
  <2>4. Power(2, bits) = Weight(h)
    <3>1. bits = N * h
      <4>1. N \in Nat
        BY Weights
      <4> HIDE DEF h
      <4>2. h * N = N * h
        BY <1>2, <4>1
      <4>. QED
        BY <4>2 DEF h
    <3>2. Power(2, N * h) = Weight(h)
      BY <1>2, TwoPower
    <3>. QED
      BY <3>1, <3>2
  <2> DEFINE P == Power(2, bits)
  <2>5. P \in Nat
    BY TwoPowerNat
  <2> HIDE DEF m, n, h, A, B, start, P
  <2>6. A < B * P
    <3>1. Weight(m) = P * Weight(n - 1)
      <4>1. Weight(h + (n - 1)) = Weight(h) * Weight(n - 1)
        BY <1>2, WeightsGrow
      <4>. QED
        BY <1>2, <2>4, <4>1 DEF P
    <3>2. P * Weight(n - 1) <= P * B
      <4>1. Weight(n - 1) \in Int /\ B \in Int
        BY <1>1, <1>2, WeightNat
      <4>. QED
        BY <1>1, <2>5, <4>1, MultiplesGrow
    <3>3. P * B = B * P /\ B * P \in Int /\ Weight(m) \in Int
      BY <1>1, <2>5, WeightNat
    <3>. QED
      BY <1>1, <3>1, <3>2, <3>3
  <2>7. B * 0 = 0 /\ 0 = 0 * P
    BY <1>1, <2>5
  <2>8. \E g \in Nat : Places(start.q, h) = g * P
    BY <2>1, <2>3, <2>7
  <2>9. /\ start.blk \in [0..m -> Blk] /\ start.q \in [0..m - n -> Blk]
        /\ A = Places(start.blk, m + 1) + B * Places(start.q, h)
        /\ Places(start.blk, m + 1) < B * P
    BY <1>1, <2>1, <2>2, <2>3, <2>6, <2>7
  <2>10. h = m - n + 1
    BY DEF h
  <2>. QED
    BY <2>8, <2>9, <2>10 DEF IsLeft, m, n, A, B, P
<1> HIDE DEF start
<1> DEFINE S == {j \in Nat : j <= bits => IsLeft(a, b, bits - j, left[bits - j])}
<1>5. 0 \in S
  <2>1. bits - 0 = bits /\ left[bits] = start
    BY <1>3
  <2>. QED
    BY <1>4, <2>1
<1>6. ASSUME NEW j \in Nat, j \in S PROVE j + 1 \in S
  <2> SUFFICES ASSUME j + 1 <= bits PROVE IsLeft(a, b, bits - (j + 1), left[bits - (j + 1)])
    OBVIOUS
  <2> DEFINE t == bits - (j + 1)
  <2>1. t \in Nat /\ t + 1 = bits - j /\ t < bits /\ t \in 0..bits /\ t # bits
    OBVIOUS
  <2>2. IsLeft(a, b, bits - j, left[bits - j])
    BY <1>6
  <2> HIDE DEF t
  <2>3. IsLeft(a, b, t + 1, left[t + 1])
    BY <2>1, <2>2
  <2>4. left[t] = TriesShift(a, b, t, left[t + 1])
    BY <1>3, <2>1
  <2>5. IsLeft(a, b, t, TriesShift(a, b, t, left[t + 1]))
    BY <2>1, <2>3, DivisionStep
  <2>. QED
    BY <2>4, <2>5 DEF t
<1> HIDE DEF S
<1>7. bits \in S
  BY <1>5, <1>6, Inductive
<1>8. bits - bits = 0 /\ bits <= bits
  OBVIOUS
<1>. QED
  BY <1>7, <1>8 DEF S

\* The quotient and the remainder of two numbers; by zero, the number is all that is left.
LEMMA DivisionVal ==
  ASSUME NEW a \in Natural, NEW b \in Natural
  PROVE  /\ Division(a, b).q \in Natural /\ Division(a, b).r \in Natural
         /\ Val(b) = 0 => Val(Division(a, b).q) = 0 /\ Val(Division(a, b).r) = Val(a)
         /\ Val(b) > 0 => /\ Val(Division(a, b).q) = Val(a) \div Val(b)
                          /\ Val(Division(a, b).r) = Val(a) % Val(b)
<1> DEFINE m == len(a)
           n == len(b)
           h == m - n + 1
           bits == h * N
           A == Val(a)
           B == Val(b)
           D == Division(a, b)
<1>1. /\ m \in Nat /\ n \in Nat /\ A \in Nat /\ A < Weight(m) /\ B \in Nat /\ B < Weight(n)
      /\ (m > 0 => Weight(m - 1) <= A) /\ (B = 0 <=> n = 0)
  BY OfNatural
<1>2. Zero \in Natural /\ Val(Zero) = 0
  <2> DEFINE z == 0
  <2>1. z \in Nat /\ Zero \in [0..z - 1 -> Blk] /\ ~(z > 0)
    BY DEF Zero
  <2> HIDE DEF z
  <2>2. Zero \in Natural /\ Val(Zero) = Places(Zero, z)
    BY <2>1, InNatural, ArrayVal
  <2>3. Places(Zero, 0) = 0
    BY PlacesStep
  <2>. QED
    BY <2>2, <2>3 DEF z
<1>3. CASE n = 0 \/ m < n
  <2>1. D = [q |-> Zero, r |-> a]
    BY <1>3 DEF Division
  <2>2. D.q = Zero /\ D.r = a
    BY <2>1
  <2>3. B > 0 => A \div B = 0 /\ A % B = A
    <3> SUFFICES ASSUME B > 0 PROVE A \div B = 0 /\ A % B = A
      OBVIOUS
    <3>1. A < B
      <4>1. m < n
        BY <1>1, <1>3
      <4>. QED
        BY <4>1, ShorterIsLess
    <3> HIDE DEF A, B
    <3>2. A \in 0..B - 1 /\ B \in Int
      BY <1>1, <3>1
    <3>. QED
      BY <3>2, SmallQuotient
  <2> HIDE DEF D, A, B
  <2>. QED
    BY <1>1, <1>2, <2>2, <2>3 DEF D, A, B
<1>4. CASE n # 0 /\ ~(m < n)
  <2> DEFINE left == CHOOSE f : IsDivision(a, b, bits, f)
             x == left[0].blk
             q == left[0].q
  <2>1. D = [q |-> Zap(q), r |-> zapLeadingZeros(x)]
    BY <1>4 DEF Division, IsDivision, TriesShift, Tries, WithBit
  <2>2. bits \in Nat /\ 0 < n /\ n <= m /\ h \in Nat
    <3>1. N \in Nat
      BY Weights
    <3>2. 0 < n /\ n <= m /\ h \in Nat
      BY <1>1, <1>4
    <3> HIDE DEF h
    <3>. QED
      BY <3>1, <3>2
  <2>3. \E f : IsDivision(a, b, bits, f)
    BY <2>2, DivisionExists
  <2>4. IsDivision(a, b, bits, left)
    BY <2>3
  <2> HIDE DEF left
  <2>5. IsLeft(a, b, 0, left[0])
    BY <2>2, <2>4, DivisionLeaves
  <2>6. /\ x \in [0..m -> Blk] /\ q \in [0..m - n -> Blk]
        /\ A = Places(x, m + 1) + B * Places(q, h) /\ Places(x, m + 1) < B * Power(2, 0)
    BY <2>5 DEF IsLeft
  <2> DEFINE X == Places(x, m + 1)
             Q == Places(q, h)
             k == m - n
  <2>7. k \in Nat /\ h = k + 1 /\ m = n + k /\ (m + 1) - 1 = m /\ m + 1 \in Nat
    BY <1>1, <2>2
  <2>8. X \in Nat /\ zapLeadingZeros(x) \in Natural /\ Val(zapLeadingZeros(x)) = X
    <3> DEFINE l == m + 1
    <3>1. l \in Nat /\ x \in [0..l - 1 -> Blk]
      BY <2>6, <2>7
    <3> HIDE DEF l
    <3>2. Places(x, l) \in Nat /\ zapLeadingZeros(x) \in Natural /\ Val(zapLeadingZeros(x)) = Places(x, l)
      BY <3>1, ArrayVal, ZapsLeadingZeros
    <3>. QED
      BY <3>2 DEF l
  <2>9. Q \in Nat
    <3>1. q \in [0..h - 1 -> Blk]
      BY <2>6, <2>7
    <3> HIDE DEF h
    <3>. QED
      BY <2>2, <3>1, ArrayVal
  <2> HIDE DEF X, Q
  <2>10. X < B /\ A = B * Q + X /\ B > 0
    <3>1. Power(2, 0) = 1
      BY TwoPower
    <3>2. A = X + B * Q /\ X < B * 1
      BY <2>6, <3>1 DEF X, Q
    <3> HIDE DEF A, B
    <3>3. B * 1 = B /\ B * Q \in Int
      BY <1>1, <2>9
    <3> DEFINE BQ == B * Q
    <3>4. A = X + BQ /\ X < B /\ BQ \in Int
      BY <3>2, <3>3
    <3> HIDE DEF BQ
    <3>5. X < B /\ A = BQ + X /\ B > 0
      BY <1>1, <2>8, <3>4
    <3>. QED
      BY <3>5 DEF BQ
  <2>11. A \div B = Q /\ A % B = X
    <3> HIDE DEF A, B
    <3>1. A \in Int /\ B \in Int /\ Q \in Int /\ X \in 0..B - 1
      BY <1>1, <2>8, <2>9, <2>10
    <3>. QED
      BY <2>10, <3>1, DivUnique
  <2>12. k > 0 => Weight(k - 1) <= Q
    <3> SUFFICES ASSUME k > 0, Q < Weight(k - 1) PROVE FALSE
      <4>1. k > 0 => Weight(k - 1) \in Int
        <5> SUFFICES ASSUME k > 0 PROVE Weight(k - 1) \in Int
          OBVIOUS
        <5>1. k - 1 \in Nat
          BY <2>7
        <5>. QED
          BY <5>1, WeightNat
      <4>. QED
        BY <2>9, <4>1
    <3> DEFINE w == Weight(k - 1)
               W == Weight(n)
    <3> HIDE DEF A, B, m, n, k
    <3>1. k - 1 \in Nat /\ n + (k - 1) = m - 1 /\ m > 0
      BY <1>1, <2>7
    <3>2. w \in Nat /\ W \in Nat /\ Weight(m - 1) = W * w
      <4>1. Weight(n + (k - 1)) = Weight(n) * Weight(k - 1)
        BY <1>1, <3>1, WeightsGrow
      <4>. QED
        BY <1>1, <3>1, <4>1, WeightNat
    <3>3. W * w <= A /\ Q + 1 <= w /\ B <= W
      BY <1>1, <2>9, <3>1, <3>2
    <3> HIDE DEF w, W
    <3>4. B * (Q + 1) <= B * w
      <4>1. Q + 1 \in Int /\ w \in Int
        BY <2>9, <3>2
      <4>. QED
        BY <1>1, <3>3, <4>1, MultiplesGrow
    <3>5. w * B <= w * W
      <4>1. B \in Int /\ W \in Int
        BY <1>1, <3>2
      <4>. QED
        BY <3>2, <3>3, <4>1, MultiplesGrow
    <3>6. B * (Q + 1) = B * Q + B /\ B * Q \in Int /\ w * B = B * w /\ w * W = W * w /\ B * w \in Int /\ W * w \in Int
      BY <1>1, <2>9, <3>2
    <3> DEFINE bq == B * Q
               bw == B * w
               ww == W * w
    <3>7. bq + B <= bw /\ bw <= ww /\ ww <= A /\ A = bq + X /\ bq \in Int /\ bw \in Int /\ ww \in Int
      BY <2>10, <3>3, <3>4, <3>5, <3>6
    <3> HIDE DEF bq, bw, ww
    <3>. QED
      BY <1>1, <2>8, <2>10, <3>7
  <2>13. Zap(q) \in Natural /\ Val(Zap(q)) = Q
    <3>1. q \in [0..k -> Blk] /\ Q = Places(q, k + 1)
      BY <2>6, <2>7 DEF Q
    <3> HIDE DEF k, q
    <3>. QED
      BY <2>7, <2>12, <3>1, ZapsOne
  <2>14. D.q = Zap(q) /\ D.r = zapLeadingZeros(x)
    BY <2>1
  <2> HIDE DEF D, A, B
  <2>15. D.q \in Natural /\ D.r \in Natural /\ Val(D.q) = A \div B /\ Val(D.r) = A % B /\ ~(B = 0)
    BY <1>1, <2>8, <2>10, <2>11, <2>13, <2>14
  <2>. QED
    BY <2>15 DEF D, A, B
<1>. QED
  BY <1>1, <1>3, <1>4

-----------------------------------------------------------------------------
(* Shifts. *)

\* The number without blocks.
LEMMA ZeroVal == Zero \in Natural /\ Val(Zero) = 0 /\ len(Zero) = 0
<1> DEFINE z == 0
<1>1. z \in Nat /\ Zero \in [0..z - 1 -> Blk] /\ ~(z > 0)
  BY DEF Zero
<1> HIDE DEF z
<1>2. Zero \in Natural /\ Val(Zero) = Places(Zero, z) /\ len(Zero) = z
  BY <1>1, InNatural, ArrayVal
<1>3. Places(Zero, 0) = 0
  BY PlacesStep
<1>. QED
  BY <1>2, <1>3 DEF z

\* A number that is shifted left.
LEMMA ShiftLeftVal ==
  ASSUME NEW a \in Natural, NEW b \in Nat, len(a) > 0 \/ b < N
  PROVE  ShiftLeft(a, b) \in Natural /\ Val(ShiftLeft(a, b)) = Val(a) * Power(2, b)
<1> DEFINE i == b \div N
           y == b % N
           m == len(a)
           l == i + m + 1
           n == m + i
           A == Val(a)
           P == Power(2, b)
           e == Operand(a, b, l)
           x == [k \in 0..n |-> IF k < i THEN 0 ELSE getShiftedBlock(a, k - i, y)]
           f == [k \in Nat |-> IF k >= i THEN e[k] ELSE 0]
<1>0. ShiftLeft(a, b) = Zap(x)
  BY DEF ShiftLeft
<1>1. i \in Nat /\ y \in 0..N - 1 /\ b = N * i + y /\ P = Weight(i) * Power(2, y)
  BY BitPlace
<1>2. m \in Nat /\ A \in Nat /\ (m > 0 => Weight(m - 1) <= A) /\ (A = 0 <=> m = 0)
  BY OfNatural
<1>3. l \in Nat /\ i + m < l /\ n \in Nat /\ l = n + 1 /\ i <= l
  BY <1>1, <1>2
<1>4. (\A k \in i..l - 1 : e[k] \in Blk) /\ Above(e, i, l) = A * P
  BY <1>3, OperandVal
<1>5. \A k \in i..l - 1 : e[k] = IF k > i + m THEN 0 ELSE getShiftedBlock(a, k - i, y)
  BY DEF Operand
<1> HIDE DEF i, y, e, m, A, P
<1>6. \A k \in 0..n : x[k] \in Blk /\ x[k] = f[k]
  <2> SUFFICES ASSUME NEW k \in 0..n PROVE x[k] \in Blk /\ x[k] = f[k]
    OBVIOUS
  <2>1. CASE k < i
    <3>1. x[k] = 0 /\ f[k] = 0
      BY <1>1, <1>3, <2>1
    <3>. QED
      BY <3>1, SmallBlk
  <2>2. CASE k >= i
    <3>1. k \in i..l - 1 /\ ~(k > i + m) /\ k \in Nat /\ ~(k < i)
      BY <1>1, <1>2, <1>3, <2>2
    <3>2. x[k] = getShiftedBlock(a, k - i, y) /\ f[k] = e[k]
      BY <2>2, <3>1
    <3>. QED
      BY <1>4, <1>5, <3>1, <3>2
  <2>. QED
    BY <1>1, <2>1, <2>2
<1>7. x \in [0..n -> Blk]
  <2> DEFINE g(k) == IF k < i THEN 0 ELSE getShiftedBlock(a, k - i, y)
  <2>1. x = [k \in 0..n |-> g(k)]
    OBVIOUS
  <2>2. \A k \in 0..n : g(k) \in Blk
    BY <1>6
  <2> HIDE DEF g
  <2>. QED
    BY <2>1, <2>2
<1>8. Places(x, l) = A * P
  <2>1. \A k \in 0..l - 1 : x[k] = f[k]
    <3>1. \A k \in 0..l - 1 : k \in 0..n
      BY <1>3
    <3>. QED
      BY <1>6, <3>1
  <2> HIDE DEF x, f
  <2>2. Places(x, l) = Places(f, l)
    BY <1>3, <2>1, PlacesAgree
  <2>. QED
    BY <1>4, <2>2 DEF Above, f
<1> HIDE DEF x, f, l, n
<1>9. n > 0 => Weight(n - 1) <= A * P
  <2> SUFFICES ASSUME n > 0 PROVE Weight(n - 1) <= A * P
    OBVIOUS
  <2>1. m > 0
    <3>1. ASSUME m = 0 PROVE FALSE
      <4>1. b < N /\ i > 0
        BY <1>1, <3>1 DEF n, m
      <4>2. N * 1 <= N * i /\ N * i \in Int /\ N \in Nat
        <5>1. N \in Nat /\ 1 \in Int /\ i \in Int /\ 1 <= i
          BY <1>1, <4>1, Weights
        <5>. QED
          BY <5>1, MultiplesGrow
      <4> DEFINE g == N * i
      <4>3. N <= g /\ g \in Int /\ b = g + y /\ N \in Nat /\ y \in 0..N - 1
        BY <1>1, <4>2
      <4> HIDE DEF g
      <4>. QED
        BY <4>1, <4>3
    <3>. QED
      BY <1>2, <3>1
  <2> DEFINE w == Weight(m - 1)
             v == Weight(i)
  <2>2. m - 1 \in Nat /\ n - 1 = (m - 1) + i
    BY <1>1, <1>2, <2>1 DEF n
  <2>3. Weight(n - 1) = w * v /\ w \in Nat /\ v \in Nat
    <3>1. Weight((m - 1) + i) = w * v
      BY <1>1, <2>2, WeightsGrow
    <3>. QED
      BY <1>1, <2>2, <3>1, WeightNat
  <2>4. P \in Nat /\ v <= P
    <3>1. P \in Nat
      BY TwoPowerNat DEF P
    <3> DEFINE p == Power(2, y)
    <3>2. p \in Nat /\ p > 0
      <4>1. y \in Nat
        BY <1>1
      <4>. QED
        BY <4>1, TwoPowerNat
    <3> HIDE DEF p, v
    <3>3. v * 1 <= v * p
      <4>1. 1 \in Int /\ p \in Int /\ 1 <= p
        BY <3>2
      <4>. QED
        BY <2>3, <4>1, MultiplesGrow
    <3>4. P = v * p
      BY <1>1 DEF v, p
    <3>. QED
      BY <2>3, <3>1, <3>3, <3>4
  <2> HIDE DEF w, v
  <2>5. w * v <= w * P
    <3>1. v \in Int /\ P \in Int
      BY <2>3, <2>4
    <3>. QED
      BY <2>3, <2>4, <3>1, MultiplesGrow
  <2>6. P * w <= P * A
    <3>1. w \in Int /\ A \in Int /\ w <= A
      BY <1>2, <2>1, <2>3 DEF w
    <3>. QED
      BY <2>4, <3>1, MultiplesGrow
  <2>7. P * w = w * P /\ P * A = A * P /\ w * v \in Int /\ w * P \in Int /\ A * P \in Int
    BY <1>2, <2>3, <2>4
  <2> DEFINE c == w * v
             d == w * P
             g == A * P
  <2>8. c <= d /\ d <= g /\ c \in Int /\ d \in Int /\ g \in Int
    BY <2>5, <2>6, <2>7
  <2> HIDE DEF c, d, g
  <2>9. c <= g
    BY <2>8
  <2>. QED
    BY <2>3, <2>9 DEF c, g
<1>10. Zap(x) \in Natural /\ Val(Zap(x)) = A * P
  <2>1. Places(x, n + 1) = A * P
    BY <1>3, <1>8
  <2>. QED
    BY <1>3, <1>7, <1>9, <2>1, ZapsOne
<1>. QED
  BY <1>0, <1>10 DEF A, P

\* The blocks from i upwards are the quotient by the weight of block i.
LEMMA TopVal ==
  ASSUME NEW n \in Nat, NEW x \in [0..n - 1 -> Blk], NEW i \in Nat, i <= n,
         NEW y, \A k \in 0..n - i - 1 : y[k] = x[k + i]
  PROVE  Places(y, n - i) = Places(x, n) \div Weight(i)
<1> DEFINE w == Weight(i)
           S == {j \in Nat : j <= n - i => Places(x, i + j) = Places(x, i) + Places(y, j) * w /\ Places(y, j) \in Nat}
           X == Places(x, i)
<1>1. w \in Nat /\ w > 0
  BY WeightNat
<1>2. X \in Nat /\ X < w
  <2>1. \A k \in 0..i - 1 : x[k] \in Blk
    OBVIOUS
  <2>. QED
    BY <2>1, PlacesBound
<1> HIDE DEF w, X
<1>3. 0 \in S
  <2>1. Places(y, 0) = 0 /\ i + 0 = i /\ 0 * w = 0
    BY <1>1, PlacesStep
  <2>. QED
    BY <1>2, <2>1 DEF X
<1>4. ASSUME NEW j \in Nat, j \in S PROVE j + 1 \in S
  <2> SUFFICES ASSUME j + 1 <= n - i
               PROVE  Places(x, i + (j + 1)) = X + Places(y, j + 1) * w /\ Places(y, j + 1) \in Nat
    BY DEF X
  <2> DEFINE k == i + j
             a == Places(y, j)
             v == Weight(j)
             c == x[k]
  <2>1. k \in 0..n - 1 /\ j \in 0..n - i - 1 /\ k \in Nat /\ k = j + i /\ k + 1 = i + (j + 1) /\ j <= n - i
    OBVIOUS
  <2>2. Places(x, k) = X + a * w /\ a \in Nat
    BY <1>4, <2>1 DEF X
  <2>3. Weight(k) = w * v /\ v \in Nat
    <3>1. Weight(i + j) = w * v
      BY WeightsGrow DEF w
    <3>. QED
      BY <2>1, <3>1, WeightNat
  <2>4. c \in Nat
    BY <2>1, BlkNat
  <2>5. Places(x, k + 1) = Places(x, k) + c * Weight(k)
    BY <2>1, PlacesStep
  <2>6. Places(y, j + 1) = a + c * v
    <3>1. Places(y, j + 1) = a + y[j] * v
      BY PlacesStep
    <3>2. y[j] = c
      BY <2>1
    <3>. QED
      BY <3>1, <3>2
  <2> HIDE DEF k, a, v, c
  <2>7. a * w + c * (w * v) = (a + c * v) * w /\ a + c * v \in Nat /\ a * w \in Int /\ c * (w * v) \in Int
    BY <1>1, <2>2, <2>3, <2>4
  <2> DEFINE aw == a * w
             cw == c * (w * v)
             z == (a + c * v) * w
  <2>8. Places(x, k + 1) = (X + aw) + cw /\ aw + cw = z /\ aw \in Int /\ cw \in Int
    BY <2>2, <2>3, <2>5, <2>7
  <2> HIDE DEF aw, cw, z
  <2>9. Places(x, k + 1) = X + z
    BY <1>2, <2>8
  <2>. QED
    BY <2>1, <2>6, <2>7, <2>9 DEF z
<1> HIDE DEF S
<1> DEFINE j == n - i
<1>5. j \in Nat /\ j \in S /\ i + j = n /\ j <= n - i
  <2>1. j \in Nat /\ i + j = n /\ j <= n - i
    OBVIOUS
  <2> HIDE DEF j
  <2>2. j \in S
    BY <1>3, <1>4, <2>1, Inductive
  <2>. QED
    BY <2>1, <2>2
<1>6. Places(x, n) = X + Places(y, j) * w /\ Places(y, j) \in Nat
  BY <1>5 DEF S, X
<1> HIDE DEF j
<1> DEFINE Q == Places(y, j)
<1>7. Places(x, n) = w * Q + X /\ Q \in Int /\ Places(x, n) \in Int /\ w \in Int /\ X \in 0..w - 1
  <2>1. Q \in Nat
    BY <1>6
  <2> HIDE DEF Q
  <2>2. Q * w = w * Q /\ w * Q \in Int
    BY <1>1, <2>1
  <2>. QED
    BY <1>1, <1>2, <1>6, <2>1, <2>2 DEF Q
<1> HIDE DEF Q
<1>8. Places(x, n) \div w = Q
  BY <1>1, <1>7, DivUnique
<1>. QED
  BY <1>8 DEF Q, j, w

\* A number that is shifted right.
LEMMA ShiftRightVal ==
  ASSUME NEW a \in Natural, NEW b \in Nat, b > 0
  PROVE  ShiftRight(a, b) \in Natural /\ Val(ShiftRight(a, b)) = Val(a) \div Power(2, b)
<1> DEFINE m == len(a)
           i == (b + N - 1) \div N
           y == N * i - b
           A == Val(a)
           P == Power(2, b)
           p == Power(2, y)
<1>1. /\ m \in Nat /\ a \in [0..m - 1 -> Blk] /\ A = Places(a, m) /\ A \in Nat /\ A < Weight(m)
      /\ (m > 0 => Weight(m - 1) <= A)
  BY OfNatural
<1>2. N \in Nat /\ N > 0
  BY Weights
<1>3. i \in Nat /\ i >= 1 /\ y \in 0..N - 1 /\ N * i = y + b
  <2> DEFINE c == b + N - 1
             o == c % N
  <2>1. c \in Nat /\ N \in Int
    BY <1>2
  <2> HIDE DEF c
  <2>2. (c \div N) \in Nat /\ o \in 0..N - 1 /\ c = N * (c \div N) + o
    BY <1>2, <2>1, DivMod, QuotientNat
  <2>3. i = c \div N
    BY DEF c
  <2> HIDE DEF i, o
  <2>4. i \in Nat /\ o \in 0..N - 1 /\ c = N * i + o /\ N * i \in Int
    BY <1>2, <2>2, <2>3
  <2> DEFINE g == N * i
  <2>5. g \in Int /\ b + N - 1 = g + o /\ y = g - b
    BY <2>4 DEF c
  <2>6. i = 0 => g = 0
    BY <1>2
  <2> HIDE DEF g, y
  <2>7. y \in 0..N - 1 /\ g = y + b /\ i # 0
    BY <1>2, <2>4, <2>5, <2>6
  <2>. QED
    BY <2>4, <2>7 DEF g
<1>4. P \in Nat /\ P > 0 /\ p \in Nat /\ p > 0 /\ Weight(i) = p * P
  <2>1. y \in Nat
    BY <1>3
  <2>2. Power(2, N * i) = Weight(i)
    BY <1>3, TwoPower
  <2> HIDE DEF i, y
  <2>3. Power(2, y + b) = p * P
    BY <2>1, TwoPower
  <2>. QED
    BY <1>3, <2>1, <2>2, <2>3, TwoPowerNat
<1>5. CASE i >= m + 1
  <2>1. ShiftRight(a, b) = Zero
    BY <1>5 DEF ShiftRight
  <2>2. A < P
    <3>1. N * m < b
      <4>1. N * (m + 1) <= N * i
        <5>1. m + 1 \in Int /\ i \in Int
          BY <1>1, <1>3
        <5> HIDE DEF i
        <5>. QED
          BY <1>2, <1>5, <5>1, MultiplesGrow
      <4> HIDE DEF y, i
      <4>2. N * (m + 1) = N * m + N /\ N * m \in Int /\ N * i \in Int
        BY <1>1, <1>2, <1>3
      <4> DEFINE g == N * m
                 h == N * i
      <4>3. g + N <= h /\ h = y + b /\ g \in Int /\ h \in Int
        BY <1>3, <4>1, <4>2
      <4> HIDE DEF g, h
      <4>4. g < b
        BY <1>2, <1>3, <4>3
      <4>. QED
        BY <4>4 DEF g
    <3>2. Weight(m) <= P
      <4> DEFINE j == N * m
      <4>1. j \in Nat /\ Power(2, j) = Weight(m)
        BY <1>1, TwoPower
      <4>2. j <= b
        BY <3>1, <4>1
      <4> HIDE DEF j
      <4>3. 1 * Power(2, j) <= 1 * Power(2, b)
        <5>1. 1 \in Nat
          OBVIOUS
        <5>. QED
          BY <4>1, <4>2, <5>1, DoubleShift
      <4>. QED
        BY <1>4, <4>1, <4>3, TwoPowerNat
    <3>. QED
      BY SMTT(30), <1>1, <1>4, <3>2, WeightNat
  <2>3. A \div P = 0
    <3> HIDE DEF A, P
    <3>1. A \in 0..P - 1 /\ P \in Int
      BY <1>1, <1>4, <2>2
    <3>. QED
      BY <1>4, <3>1, SmallQuotient
  <2>. QED
    BY <2>1, <2>3, ZeroVal
<1>6. CASE ~(i >= m + 1)
  <2> DEFINE n == m - i
             x == [k \in 0..n |-> getShiftedBlock(a, k + i, y)]
             s == [k \in 0..m |-> getShiftedBlock(a, k, y)]
             V == A * p
             Q == A \div P
  <2>1. ShiftRight(a, b) = Zap(x)
    BY <1>6 DEF ShiftRight
  <2> HIDE DEF i, y
  <2>2. n \in Nat /\ n + 1 = (m + 1) - i /\ i <= m + 1 /\ m = n + i /\ (m + 1) - 1 = m /\ m + 1 \in Nat
    BY <1>1, <1>3, <1>6
  <2>3. s \in [0..m -> Blk] /\ Places(s, m + 1) = V
    BY <1>1, <1>3, ShiftedVal
  <2>4. \A k \in 0..n : x[k] = s[k + i]
    <3> SUFFICES ASSUME NEW k \in 0..n PROVE x[k] = s[k + i]
      OBVIOUS
    <3>1. k + i \in 0..m
      BY <1>3, <2>2
    <3>. QED
      BY <3>1
  <2>5. x \in [0..n -> Blk]
    <3> SUFFICES ASSUME NEW k \in 0..n PROVE getShiftedBlock(a, k + i, y) \in Blk
      OBVIOUS
    <3>1. k + i \in 0..m
      BY <1>3, <2>2
    <3>2. s[k + i] = getShiftedBlock(a, k + i, y)
      BY <3>1
    <3>. QED
      BY <2>3, <3>1, <3>2
  <2> HIDE DEF x, s
  <2>6. Places(x, n + 1) = V \div Weight(i)
    <3> DEFINE l == m + 1
    <3>1. l \in Nat /\ s \in [0..l - 1 -> Blk] /\ i <= l /\ Places(s, l) = V
      BY <2>2, <2>3
    <3>2. \A k \in 0..l - i - 1 : x[k] = s[k + i]
      <4>1. \A k \in 0..l - i - 1 : k \in 0..n
        BY <2>2
      <4>. QED
        BY <2>4, <4>1
    <3> HIDE DEF l
    <3>3. Places(x, l - i) = Places(s, l) \div Weight(i)
      BY <1>3, <3>1, <3>2, TopVal
    <3>. QED
      BY <2>2, <3>1, <3>3 DEF l
  <2>7. V \in Nat /\ V \div Weight(i) = Q
    <3> HIDE DEF A, P, p
    <3>1. V \in Nat
      BY <1>1, <1>4
    <3>2. V \div (p * P) = (V \div p) \div P
      <4>1. p \in Int /\ P \in Int
        BY <1>4
      <4>. QED
        BY <1>4, <3>1, <4>1, QuotientOfQuotient
    <3>3. V \div p = A
      <4>1. V \in Int /\ p \in Int /\ A \in Int /\ 0 \in 0..p - 1 /\ V = p * A + 0
        <5>1. A * p = p * A /\ p * A \in Int
          BY <1>1, <1>4
        <5>. QED
          BY <1>1, <1>4, <3>1, <5>1
      <4>. QED
        BY <1>4, <4>1, DivUnique
    <3>. QED
      BY <1>4, <3>1, <3>2, <3>3
  <2>8. n > 0 => Weight(n - 1) <= Places(x, n + 1)
    <3> SUFFICES ASSUME n > 0 PROVE Weight(n - 1) <= Q
      BY <2>6, <2>7
    <3> DEFINE g == n - 1
               W == Weight(i)
               w == Weight(g)
    <3>1. g \in Nat /\ i + g = m - 1 /\ m > 0
      BY <1>3, <2>2
    <3>2. W \in Nat /\ W > 0 /\ w \in Nat /\ Weight(m - 1) = W * w
      <4>1. Weight(i + g) = W * w
        BY <1>3, <3>1, WeightsGrow
      <4>. QED
        BY <1>3, <3>1, <4>1, WeightNat
    <3> HIDE DEF g, A, P, p, V
    <3>3. W * w <= V
      <4>1. W * w <= A
        BY <1>1, <3>1, <3>2
      <4>2. A * 1 <= A * p
        <5>1. 1 \in Int /\ p \in Int /\ 1 <= p
          BY <1>4
        <5>. QED
          BY <1>1, <5>1, MultiplesGrow
      <4>3. A * 1 = A /\ W * w \in Int /\ A * p \in Int
        BY <1>1, <1>4, <3>2
      <4> DEFINE c == W * w
                 d == A * p
      <4>4. c <= A /\ A <= d /\ c \in Int /\ d \in Int
        BY <4>1, <4>2, <4>3
      <4> HIDE DEF c, d
      <4>5. c <= d
        BY <1>1, <4>4
      <4>. QED
        BY <4>5 DEF c, d, V
    <3> HIDE DEF W, w
    <3> DEFINE q == V \div W
               r == V % W
    <3>4. q \in Int /\ r \in 0..W - 1 /\ V = W * q + r /\ q = Q
      <4>1. W \in Int /\ V \in Int
        BY <2>7, <3>2
      <4>2. q = Q
        BY <2>7 DEF W
      <4>. QED
        BY <3>2, <4>1, <4>2, DivMod
    <3> HIDE DEF q, r, Q
    <3>5. w <= q
      <4> SUFFICES ASSUME q + 1 <= w PROVE FALSE
        BY <3>2, <3>4
      <4>1. W * (q + 1) <= W * w
        <5>1. q + 1 \in Int /\ w \in Int
          BY <3>2, <3>4
        <5>. QED
          BY <3>2, <5>1, MultiplesGrow
      <4>2. W * (q + 1) = W * q + W /\ W * q \in Int /\ W * w \in Int
        BY <3>2, <3>4
      <4> DEFINE c == W * q
                 d == W * w
      <4>3. c + W <= d /\ d <= V /\ V = c + r /\ c \in Int /\ d \in Int
        BY <3>3, <3>4, <4>1, <4>2
      <4> HIDE DEF c, d
      <4>. QED
        BY <3>2, <3>4, <4>3
    <3>. QED
      BY <3>4, <3>5 DEF w, g
  <2>9. Zap(x) \in Natural /\ Val(Zap(x)) = Q
    <3> HIDE DEF n, Q
    <3>1. Zap(x) \in Natural /\ Val(Zap(x)) = Places(x, n + 1)
      BY <2>2, <2>5, <2>8, ZapsOne
    <3>. QED
      BY <2>6, <2>7, <3>1
  <2>. QED
    BY <2>1, <2>9
<1>. QED
  BY <1>5, <1>6

-----------------------------------------------------------------------------
(* Blocks and bits of a number. *)

\* x, of n blocks, with zeros up to block l.
LEMMA Padded ==
  ASSUME NEW m \in Nat, NEW x \in [0..m - 1 -> Blk], NEW l \in Nat, m <= l
  PROVE  LET e == [k \in 0..l - 1 |-> getBlock(x, k)]
         IN  e \in [0..l - 1 -> Blk] /\ Places(e, l) = Places(x, m)
<1> DEFINE e == [k \in 0..l - 1 |-> getBlock(x, k)]
<1>1. len(x) = m /\ Places(x, m) \in Nat
  BY ArrayVal
<1>2. \A k \in 0..l - 1 : getBlock(x, k) \in Blk
  <2> SUFFICES ASSUME NEW k \in 0..l - 1 PROVE getBlock(x, k) \in Blk
    OBVIOUS
  <2>1. k \in Nat
    OBVIOUS
  <2>. QED
    BY <2>1, BlockOf
<1>3. e \in [0..l - 1 -> Blk]
  BY <1>2
<1>4. Places(e, m) = Places(x, m)
  <2>1. \A k \in 0..m - 1 : e[k] = x[k]
    <3> SUFFICES ASSUME NEW k \in 0..m - 1 PROVE e[k] = x[k]
      OBVIOUS
    <3>1. k \in 0..l - 1 /\ ~(k >= m)
      OBVIOUS
    <3>. QED
      BY <1>1, <3>1 DEF getBlock
  <2> HIDE DEF e
  <2>. QED
    BY <2>1, PlacesAgree
<1>5. \A k \in Nat : m <= k /\ k < l => e[k] = 0
  <2> SUFFICES ASSUME NEW k \in Nat, m <= k, k < l PROVE e[k] = 0
    OBVIOUS
  <2>1. k \in 0..l - 1 /\ k >= m
    OBVIOUS
  <2>. QED
    BY <1>1, <2>1 DEF getBlock
<1> HIDE DEF e
<1>6. Places(e, l) = Places(e, m)
  BY <1>1, <1>4, <1>5, PlacesZero
<1>. QED
  BY <1>3, <1>4, <1>6 DEF e

\* setBlock replaces a digit to the base Radix.
LEMMA SetBlockVal ==
  ASSUME NEW x \in Natural, NEW i \in Nat, NEW d \in Blk
  PROVE  /\ setBlock(x, i, d) \in Natural
         /\ Val(setBlock(x, i, d)) + getBlock(x, i) * Weight(i) = Val(x) + d * Weight(i)
<1> DEFINE m == len(x)
           c == getBlock(x, i)
           W == Weight(i)
           X == Val(x)
           y == setBlock(x, i, d)
<1>1. m \in Nat /\ x \in [0..m - 1 -> Blk] /\ X = Places(x, m) /\ X \in Nat /\ (m > 0 => x[m - 1] # 0)
  BY OfNatural
<1>2. c \in Nat /\ d \in Nat /\ W \in Nat
  <2>1. c \in Blk
    BY <1>1, BlockOf
  <2>. QED
    BY <2>1, BlkNat, WeightNat
<1>3. CASE d = 0 /\ i < m
  <2> DEFINE z == [x EXCEPT ![i] = 0]
  <2>1. y = zapLeadingZeros(z) /\ c = x[i] /\ i \in 0..m - 1
    <3>1. ~(i >= m)
      BY <1>1, <1>3
    <3>. QED
      BY <1>1, <1>3, <3>1 DEF setBlock, getBlock
  <2>2. z \in [0..m - 1 -> Blk] /\ z[i] = 0 /\ \A k \in 0..m - 1 : k # i => z[k] = x[k]
    BY <1>1, <2>1, SmallBlk
  <2> HIDE DEF z, m
  <2>3. Places(z, m) + x[i] * Weight(i) = Places(x, m) + 0 * Weight(i)
    BY <1>1, <2>1, <2>2, SmallBlk, ReplacedVal
  <2>4. y \in Natural /\ Val(y) = Places(z, m)
    BY <1>1, <2>1, <2>2, ZapsLeadingZeros
  <2>. QED
    BY <1>1, <1>3, <2>1, <2>3, <2>4
<1>4. CASE d = 0 /\ ~(i < m)
  <2>1. y = x /\ c = 0
    <3>1. i >= m
      BY <1>1, <1>4
    <3>. QED
      BY <1>4, <3>1 DEF setBlock, getBlock
  <2>. QED
    BY <1>2, <1>4, <2>1
<1>5. CASE d # 0
  <2> DEFINE l == Max({m, i + 1})
             e == [k \in 0..l - 1 |-> getBlock(x, k)]
             z == [k \in 0..l - 1 |-> IF k = i THEN d ELSE getBlock(x, k)]
  <2>1. y = z
    BY <1>5 DEF setBlock
  <2>2. l \in Nat /\ m <= l /\ i + 1 <= l /\ (l = m \/ l = i + 1)
    <3>1. {m, i + 1} \subseteq Nat /\ {m, i + 1} # {} /\ m + i + 1 \in Nat /\ \A k \in {m, i + 1} : k <= m + i + 1
      BY <1>1
    <3> HIDE DEF m
    <3>2. l \in {m, i + 1} /\ \A k \in {m, i + 1} : k <= l
      BY <3>1, LargestNumber
    <3>. QED
      BY <1>1, <3>2
  <2> HIDE DEF l
  <2>3. e \in [0..l - 1 -> Blk] /\ Places(e, l) = X
    BY <1>1, <2>2, Padded
  <2>4. i \in 0..l - 1 /\ e[i] = c
    <3>1. i \in 0..l - 1
      BY <2>2
    <3>. QED
      BY <3>1
  <2>5. z \in [0..l - 1 -> Blk] /\ z[i] = d /\ \A k \in 0..l - 1 : k # i => z[k] = e[k]
    <3>1. \A k \in 0..l - 1 : getBlock(x, k) \in Blk
      BY <2>3
    <3>. QED
      BY <2>4, <3>1
  <2>6. z[l - 1] # 0
    <3>1. CASE i = l - 1
      BY <1>5, <2>5, <3>1
    <3>2. CASE i # l - 1
      <4>1. l = m /\ m > 0 /\ m - 1 \in 0..l - 1 /\ m - 1 # i /\ ~(m - 1 >= m)
        BY <1>1, <2>2, <3>2
      <4>2. z[m - 1] = getBlock(x, m - 1)
        BY <4>1
      <4>3. getBlock(x, m - 1) = x[m - 1]
        BY <4>1 DEF getBlock
      <4>. QED
        BY <1>1, <4>1, <4>2, <4>3
    <3>. QED
      BY <3>1, <3>2
  <2> HIDE DEF z, e
  <2>7. z \in Natural /\ Val(z) = Places(z, l)
    BY <2>2, <2>5, <2>6, InNatural, ArrayVal
  <2>8. Places(z, l) + e[i] * Weight(i) = Places(e, l) + d * Weight(i)
    BY <2>2, <2>3, <2>4, <2>5, ReplacedVal
  <2>. QED
    BY <2>1, <2>3, <2>4, <2>7, <2>8
<1>. QED
  BY <1>3, <1>4, <1>5

\* The block that setBit makes is a block.
LEMMA BlockWithBit ==
  ASSUME NEW c \in Blk, NEW o \in 0..N - 1, NEW d \in 0..1
  PROVE  c + (d - ((c \div Power(2, o)) % 2)) * Power(2, o) \in Blk
<1> DEFINE p == Power(2, o)
           r == Power(2, N - 1 - o)
           a == c \div p
           s == c % p
           k == a \div 2
           f == a % 2
<1>1. p \in Nat /\ p > 0 /\ r \in Nat /\ r > 0 /\ Radix = 2 * (p * r)
  <2> DEFINE g == N - 1 - o
  <2>0. N \in Nat /\ N > 0
    BY Weights
  <2>1. o \in Nat /\ g \in Nat /\ (o + g) + 1 = N /\ o + g \in Nat
    BY <2>0
  <2>2. p \in Nat /\ p > 0 /\ Power(2, g) \in Nat /\ Power(2, g) > 0
    BY <2>1, TwoPowerNat
  <2>3. Power(2, (o + g) + 1) = 2 * Power(2, o + g)
    BY <2>1, TwoPowerNat
  <2>4. Power(2, o + g) = p * Power(2, g)
    BY <2>1, TwoPower
  <2> HIDE DEF g
  <2>5. Power(2, N) = 2 * (p * Power(2, g))
    BY <2>1, <2>3, <2>4
  <2>. QED
    BY <2>2, <2>5 DEF g, Radix
<1>2. c \in Nat /\ c < Radix
  BY BlkNat
<1> HIDE DEF p, r
<1>3. a \in Nat /\ s \in 0..p - 1 /\ c = p * a + s
  <2>1. p \in Int
    BY <1>1
  <2>. QED
    BY <1>1, <1>2, <2>1, DivMod, QuotientNat
<1> HIDE DEF a, s
<1>4. k \in Nat /\ f \in 0..1 /\ a = 2 * k + f
  <2>1. 2 \in Int /\ 2 > 0
    OBVIOUS
  <2>2. k \in Nat /\ f \in 0..2 - 1 /\ a = 2 * k + f
    BY <1>3, <2>1, DivMod, QuotientNat
  <2>. QED
    BY <2>2
<1> HIDE DEF k, f
<1>5. k < r
  <2> SUFFICES ASSUME r <= k PROVE FALSE
    BY <1>1, <1>4
  <2> DEFINE q == 2 * p
  <2>0. q \in Nat
    BY <1>1
  <2>1. q * r <= q * k /\ q * r \in Int /\ q * k \in Int
    <3>1. r \in Int /\ k \in Int
      BY <1>1, <1>4
    <3> HIDE DEF q
    <3>. QED
      BY <2>0, <3>1, MultiplesGrow
  <2>2. q * r = 2 * (p * r) /\ p * (2 * k + f) = q * k + p * f /\ p * f \in Nat
    BY <1>1, <1>4
  <2> DEFINE qr == q * r
             qk == q * k
             pf == p * f
  <2>3. Radix = qr /\ c = (qk + pf) + s /\ qr <= qk /\ qr \in Int /\ qk \in Int /\ pf \in Nat
    BY <1>1, <1>3, <1>4, <2>1, <2>2
  <2> HIDE DEF qr, qk, pf
  <2>. QED
    BY <1>2, <1>3, <2>3
<1>6. p * (2 * k + 1) + p <= Radix
  <2> DEFINE q == 2 * p
  <2>0. q \in Nat
    BY <1>1
  <2>1. q * (k + 1) <= q * r
    <3>1. r \in Int /\ k + 1 \in Int /\ k + 1 <= r
      BY <1>1, <1>4, <1>5
    <3> HIDE DEF q
    <3>. QED
      BY <2>0, <3>1, MultiplesGrow
  <2>2. q * r = 2 * (p * r) /\ p * (2 * k + 1) + p = q * (k + 1) /\ q * (k + 1) \in Int /\ q * r \in Int
    BY <1>1, <1>4
  <2>. QED
    BY <1>1, <2>1, <2>2
<1> DEFINE v == c + (d - f) * p
           u == p * (2 * k)
<1>7. u \in Nat /\ p * (2 * k + 1) = u + p
  BY <1>1, <1>4
<1>8. v = u + d * p + s
  <2>1. p * (2 * k + f) = u + p * f /\ p * f \in Int
    BY <1>1, <1>4
  <2>2. (d - f) * p = d * p - p * f /\ d * p \in Int
    BY <1>1, <1>4
  <2> DEFINE pf == p * f
             dp == d * p
             g == (d - f) * p
  <2>3. c = u + pf + s /\ g = dp - pf /\ pf \in Int /\ dp \in Int /\ v = c + g
    BY <1>3, <1>4, <2>1, <2>2
  <2> HIDE DEF pf, dp, g, u, v
  <2>4. v = u + dp + s
    BY <1>3, <1>7, <2>3
  <2>. QED
    BY <2>4 DEF dp
<1>9. d * p = 0 \/ d * p = p
  BY <1>1
<1> HIDE DEF u, v
<1> DEFINE dp == d * p
<1>10. v \in Nat /\ v < Radix
  <2>1. v = u + dp + s /\ (dp = 0 \/ dp = p) /\ u + p + p <= Radix
    BY <1>6, <1>7, <1>8, <1>9
  <2> HIDE DEF dp
  <2>. QED
    BY <1>1, <1>3, <1>7, <2>1
<1>11. v \in Blk
  BY <1>10, BlkNat
<1>. QED
  BY <1>11 DEF v, f, a, p

\* setBit replaces a bit.
LEMMA SetBitVal ==
  ASSUME NEW x \in Natural, NEW t \in Nat, NEW d \in 0..1
  PROVE  /\ setBit(x, t, d) \in Natural
         /\ Val(setBit(x, t, d)) = Val(x) + (d - ((Val(x) \div Power(2, t)) % 2)) * Power(2, t)
<1> DEFINE i == t \div N
           o == t % N
           p == Power(2, o)
           c == getBlock(x, i)
           f == getBit(x, t)
           g == c + (d - f) * p
           W == Weight(i)
           X == Val(x)
           y == setBit(x, t, d)
<1>1. i \in Nat /\ o \in 0..N - 1 /\ Power(2, t) = W * p
  BY BitPlace
<1>2. X \in Nat /\ x \in [0..len(x) - 1 -> Blk] /\ len(x) \in Nat /\ X = Places(x, len(x))
  BY OfNatural
<1>3. c \in Blk
  BY <1>1, <1>2, BlockOf
<1>4. f = (X \div Power(2, t)) % 2 /\ f \in 0..1
  BY <1>2, BitOf
<1>5. f = (c \div p) % 2
  BY DEF getBit
<1>6. y = setBlock(x, i, g)
  BY DEF setBit
<1> HIDE DEF i, o, c, f, y, X
<1>7. g \in Blk
  <2>1. c + (d - ((c \div Power(2, o)) % 2)) * Power(2, o) \in Blk
    BY <1>1, <1>3, BlockWithBit
  <2>. QED
    BY <1>5, <2>1
<1>8. p \in Nat /\ W \in Nat
  <2>1. o \in Nat
    BY <1>1
  <2>. QED
    BY <1>1, <2>1, TwoPowerNat, WeightNat
<1> HIDE DEF p, W
<1> DEFINE h == (d - f) * p
<1>9. h \in Int /\ g = c + h /\ c \in Nat
  <2>1. c \in Nat
    BY <1>3, BlkNat
  <2>. QED
    BY <1>4, <1>8, <2>1
<1>10. setBlock(x, i, g) \in Natural /\ Val(setBlock(x, i, g)) + c * W = X + g * W
  <2> HIDE DEF g
  <2>. QED
    BY <1>1, <1>7, SetBlockVal DEF c, W, X
<1>11. y \in Natural /\ Val(y) + c * W = X + g * W /\ Val(y) \in Nat
  <2>1. y \in Natural /\ Val(y) + c * W = X + g * W
    BY <1>6, <1>10
  <2>2. Val(y) \in Nat
    BY <2>1, OfNatural
  <2>. QED
    BY <2>1, <2>2
<1> HIDE DEF g
<1>12. Val(y) = X + h * W
  <2>1. (c + h) * W = c * W + h * W /\ c * W \in Int /\ h * W \in Int
    <3> HIDE DEF h
    <3>. QED
      BY <1>8, <1>9
  <2> DEFINE Y == Val(y)
             cW == c * W
             hW == h * W
  <2>2. Y + cW = X + (cW + hW) /\ Y \in Nat /\ cW \in Int /\ hW \in Int
    BY <1>9, <1>11, <2>1
  <2> HIDE DEF Y, cW, hW
  <2>3. Y = X + hW
    BY <1>2, <2>2
  <2>. QED
    BY <2>3 DEF Y, hW
<1>13. h * W = (d - f) * Power(2, t)
  <2>1. ((d - f) * p) * W = (d - f) * (W * p)
    BY <1>4, <1>8
  <2>. QED
    BY <1>1, <2>1
<1>. QED
  BY <1>4, <1>11, <1>12, <1>13 DEF y, X, f

-----------------------------------------------------------------------------
(* The bits of natural numbers. *)

BitAt(v, i) == (v \div Power(2, i)) % 2

\* The powers of two grow, and exceed their exponents.
LEMMA TwoPowersGrow ==
  ASSUME NEW j \in Nat, NEW k \in Nat
  PROVE  (j <= k => Power(2, j) <= Power(2, k)) /\ k < Power(2, k)
<1>1. ASSUME j <= k PROVE Power(2, j) <= Power(2, k)
  <2>1. 1 * Power(2, j) <= 1 * Power(2, k)
    <3>1. 1 \in Nat
      OBVIOUS
    <3>. QED
      BY <1>1, <3>1, DoubleShift
  <2>. QED
    BY <2>1, TwoPowerNat
<1> DEFINE S == {n \in Nat : n < Power(2, n)}
<1>2. 0 \in S
  BY TwoPower
<1>3. ASSUME NEW n \in Nat, n \in S PROVE n + 1 \in S
  <2>1. Power(2, n) \in Nat /\ Power(2, n + 1) = 2 * Power(2, n) /\ n < Power(2, n)
    BY <1>3, TwoPowerNat
  <2>. QED
    BY <2>1
<1> HIDE DEF S
<1>4. k \in S
  BY <1>2, <1>3, Inductive
<1>. QED
  BY <1>1, <1>4 DEF S

\* x has n bits, without a leading zero.
IsBitLength(x, n) == n \in 0..x /\ Power(2, n) > x /\ (n > 0 => Power(2, n - 1) <= x)

LEMMA BitLengthUnique ==
  ASSUME NEW x \in Nat, NEW m, NEW n, IsBitLength(x, m), IsBitLength(x, n)
  PROVE  m = n
<1>1. ASSUME NEW j \in Nat, NEW k \in Nat, IsBitLength(x, j), IsBitLength(x, k), j < k PROVE FALSE
  <2>1. k - 1 \in Nat /\ j <= k - 1 /\ k > 0
    BY <1>1
  <2>2. Power(2, j) <= Power(2, k - 1)
    BY <2>1, TwoPowersGrow
  <2>3. Power(2, k - 1) <= x /\ Power(2, j) > x
    BY <1>1, <2>1 DEF IsBitLength
  <2>4. Power(2, j) \in Nat /\ Power(2, k - 1) \in Nat
    BY <2>1, TwoPowerNat
  <2>. QED
    BY <2>2, <2>3, <2>4
<1>2. m \in Nat /\ n \in Nat
  BY DEF IsBitLength
<1>3. ~(m < n) /\ ~(n < m)
  BY <1>1, <1>2
<1>. QED
  BY <1>2, <1>3

LEMMA BitLengthExists ==
  ASSUME NEW x \in Nat
  PROVE  \E n \in Nat : IsBitLength(x, n)
<1> DEFINE S == {n \in Nat : Power(2, n) > x}
<1>1. x \in S
  <2>1. x < Power(2, x) /\ Power(2, x) \in Nat
    BY TwoPowersGrow, TwoPowerNat
  <2>. QED
    BY <2>1
<1>2. PICK n \in S : \A k \in S : n <= k
  BY <1>1, LeastNumber
<1>3. n \in Nat /\ n <= x /\ Power(2, n) > x
  BY <1>1, <1>2
<1>4. n > 0 => Power(2, n - 1) <= x
  <2> SUFFICES ASSUME n > 0 PROVE Power(2, n - 1) <= x
    OBVIOUS
  <2>1. n - 1 \in Nat /\ ~(n <= n - 1)
    BY <1>3
  <2>2. n - 1 \notin S
    BY <1>2, <2>1
  <2>3. Power(2, n - 1) \in Nat
    BY <2>1, TwoPowerNat
  <2>. QED
    BY <2>1, <2>2, <2>3
<1>. QED
  BY <1>3, <1>4 DEF IsBitLength

\* bitLength is the number of bits.
LEMMA BitLengthVal ==
  ASSUME NEW a \in Natural
  PROVE  IsBitLength(Val(a), bitLength(a))
<1> DEFINE m == len(a)
           A == Val(a)
<1>1. /\ m \in Nat /\ a \in [0..m - 1 -> Blk] /\ A = Places(a, m) /\ A \in Nat
      /\ (m > 0 => a[m - 1] # 0) /\ (A = 0 <=> m = 0)
  BY OfNatural
<1>2. CASE m = 0
  <2>1. bitLength(a) = 0
    BY <1>2 DEF bitLength
  <2>2. A = 0
    BY <1>1, <1>2
  <2>3. Power(2, 0) = 1
    BY TwoPower
  <2> HIDE DEF A
  <2>4. IsBitLength(A, 0)
    BY <2>2, <2>3 DEF IsBitLength
  <2>. QED
    BY <2>1, <2>4 DEF A
<1>3. CASE m # 0
  <2> DEFINE k == m - 1
             d == a[k]
             S == {j \in 1..N : Power(2, j - 1) <= d} \union {0}
             n == Max(S)
             W == Weight(k)
             R == Places(a, k)
             L == n + k * N
  <2>1. bitLength(a) = L
    BY <1>3 DEF bitLength
  <2>2. k \in Nat /\ m = k + 1
    BY <1>1, <1>3
  <2>3. d \in Nat /\ d < Radix /\ d # 0
    <3>1. d \in Blk /\ d # 0
      BY <1>1, <2>2
    <3>. QED
      BY <3>1, BlkNat
  <2>4. N \in Nat /\ N > 0
    BY Weights
  <2>5. n \in S /\ \A j \in S : j <= n
    <3>1. S \subseteq Nat /\ S # {} /\ \A j \in S : j <= N
      BY <2>4
    <3> HIDE DEF S
    <3>. QED
      BY <2>4, <3>1, LargestNumber
  <2> HIDE DEF m, A, d, n
  <2>6. n \in 1..N /\ Power(2, n - 1) <= d
    <3>1. 1 \in S
      <4>1. Power(2, 1 - 1) = 1 /\ 1 \in 1..N
        BY <2>4, TwoPower
      <4>. QED
        BY <2>3, <4>1
    <3>2. n # 0
      BY <2>5, <3>1
    <3>. QED
      BY <2>5, <3>2
  <2>7. d < Power(2, n)
    <3>1. CASE n = N
      BY <2>3, <3>1 DEF Radix
    <3>2. CASE n # N
      <4>1. n + 1 \in 1..N /\ (n + 1) - 1 = n
        BY <2>4, <2>6, <3>2
      <4>2. n + 1 \notin S
        BY <2>4, <2>5, <2>6
      <4>3. ~(Power(2, n) <= d)
        BY <4>1, <4>2
      <4>4. Power(2, n) \in Nat
        BY <2>4, <2>6, TwoPowerNat
      <4>. QED
        BY <2>3, <4>3, <4>4
    <3>. QED
      BY <3>1, <3>2
  <2> HIDE DEF S
  <2>8. A = R + d * W /\ R \in Nat /\ R < W /\ W \in Nat
    <3>1. A = R + d * W
      BY <1>1, <2>2, PlacesStep DEF d
    <3>2. R \in Nat /\ R < W
      <4>1. \A j \in 0..k - 1 : a[j] \in Blk
        BY <1>1, <2>2
      <4>. QED
        BY <2>2, <4>1, PlacesBound
    <3>. QED
      BY <2>2, <3>1, <3>2, WeightNat
  <2> DEFINE e == k * N
             P == Power(2, n)
             p == Power(2, n - 1)
  <2>9. e \in Nat /\ Power(2, e) = W
    <3>1. k * N = N * k
      BY <2>2, <2>4
    <3>2. N * k \in Nat /\ Power(2, N * k) = Weight(k)
      BY <2>2, TwoPower
    <3>. QED
      BY <3>1, <3>2
  <2>10. n \in Nat /\ n - 1 \in Nat /\ n > 0
    BY <2>4, <2>6
  <2> HIDE DEF e, W, R
  <2>11. Power(2, L) = P * W /\ Power(2, L - 1) = p * W /\ P \in Nat /\ p \in Nat /\ L \in Nat /\ L > 0
    <3>1. Power(2, n + e) = Power(2, n) * Power(2, e)
      BY <2>9, <2>10, TwoPower
    <3> DEFINE g == n - 1
    <3>2. g \in Nat /\ g + e = (n + e) - 1
      BY <2>9, <2>10
    <3> HIDE DEF g
    <3>3. Power(2, g + e) = Power(2, g) * Power(2, e)
      BY <2>9, <3>2, TwoPower
    <3>4. L = n + e
      BY DEF e
    <3>. QED
      BY <2>9, <2>10, <3>1, <3>2, <3>3, <3>4, TwoPowerNat DEF g
  <2> HIDE DEF L, P, p
  <2>12. A < P * W
    <3>1. W * (d + 1) <= W * P
      <4>1. d + 1 \in Int /\ P \in Int /\ d + 1 <= P
        BY <2>3, <2>7, <2>11 DEF P
      <4>. QED
        BY <2>8, <4>1, MultiplesGrow
    <3>2. W * (d + 1) = d * W + W /\ W * P = P * W /\ d * W \in Int /\ P * W \in Int
      BY <2>3, <2>8, <2>11
    <3> DEFINE dW == d * W
               PW == P * W
    <3>3. A = R + dW /\ dW + W <= PW /\ dW \in Int /\ PW \in Int
      BY <2>8, <3>1, <3>2
    <3> HIDE DEF dW, PW
    <3>4. A < PW
      BY <2>8, <3>3
    <3>. QED
      BY <3>4 DEF PW
  <2>13. p * W <= A
    <3>1. W * p <= W * d
      <4>1. p \in Int /\ d \in Int /\ p <= d
        BY <2>3, <2>6, <2>11 DEF p
      <4>. QED
        BY <2>8, <4>1, MultiplesGrow
    <3>2. W * p = p * W /\ W * d = d * W /\ d * W \in Int /\ p * W \in Int
      BY <2>3, <2>8, <2>11
    <3> DEFINE dW == d * W
               pW == p * W
    <3>3. A = R + dW /\ pW <= dW /\ dW \in Int /\ pW \in Int
      BY <2>8, <3>1, <3>2
    <3> HIDE DEF dW, pW
    <3>4. pW <= A
      BY <2>8, <3>3
    <3>. QED
      BY <3>4 DEF pW
  <2>14. L <= A
    <3>1. L - 1 \in Nat
      BY <2>11
    <3>2. L - 1 < Power(2, L - 1)
      BY <3>1, TwoPowersGrow
    <3>3. Power(2, L - 1) <= A /\ Power(2, L - 1) \in Nat
      BY <2>11, <2>13, <3>1, TwoPowerNat
    <3>. QED
      BY <1>1, <2>11, <3>2, <3>3
  <2>15. IsBitLength(A, L)
    <3>1. L \in 0..A
      BY <1>1, <2>11, <2>14
    <3>2. Power(2, L) > A
      <4>1. Power(2, L) \in Nat /\ A < Power(2, L)
        BY <2>11, <2>12, TwoPowerNat
      <4>. QED
        BY <1>1, <4>1
    <3>3. Power(2, L - 1) <= A
      BY <2>11, <2>13
    <3>. QED
      BY <3>1, <3>2, <3>3 DEF IsBitLength
  <2>. QED
    BY <2>1, <2>15 DEF L, A
<1>. QED
  BY <1>2, <1>3

\* Numbers whose bits below t are no more than those of x and y together are no more
\* than x and y together, below t.
LEMMA BitsBounded ==
  ASSUME NEW x \in Nat, NEW y \in Nat, NEW z \in Nat, NEW t \in Nat,
         \A i \in 0..t - 1 : BitAt(z, i) <= BitAt(x, i) + BitAt(y, i)
  PROVE  z % Power(2, t) <= (x % Power(2, t)) + (y % Power(2, t))
<1> DEFINE S == {j \in Nat : j <= t => z % Power(2, j) <= (x % Power(2, j)) + (y % Power(2, j))}
<1>1. 0 \in S
  <2>1. x % Power(2, 0) = 0 /\ y % Power(2, 0) = 0 /\ z % Power(2, 0) = 0
    <3>1. 0 \in Nat
      OBVIOUS
    <3>. QED
      BY <3>1, LowBits
  <2>. QED
    BY <2>1
<1>2. ASSUME NEW j \in Nat, j \in S PROVE j + 1 \in S
  <2> DEFINE p == Power(2, j)
             X == x % p
             Y == y % p
             Z == z % p
             a == BitAt(x, j)
             b == BitAt(y, j)
             c == BitAt(z, j)
  <2> SUFFICES ASSUME j + 1 <= t
               PROVE  z % Power(2, j + 1) <= (x % Power(2, j + 1)) + (y % Power(2, j + 1))
    OBVIOUS
  <2>1. Z <= X + Y
    BY <1>2
  <2>2. /\ X \in Nat /\ a \in 0..1 /\ x % Power(2, j + 1) = X + a * p
        /\ Y \in Nat /\ b \in 0..1 /\ y % Power(2, j + 1) = Y + b * p
        /\ Z \in Nat /\ c \in 0..1 /\ z % Power(2, j + 1) = Z + c * p
    <3>1. X \in Nat /\ a \in 0..1 /\ x % Power(2, j + 1) = X + a * p
      BY LowBits DEF BitAt
    <3>2. Y \in Nat /\ b \in 0..1 /\ y % Power(2, j + 1) = Y + b * p
      BY LowBits DEF BitAt
    <3>3. Z \in Nat /\ c \in 0..1 /\ z % Power(2, j + 1) = Z + c * p
      BY LowBits DEF BitAt
    <3>. QED
      BY <3>1, <3>2, <3>3
  <2>3. c <= a + b
    BY <1>2
  <2>4. p \in Nat
    BY TwoPowerNat
  <2> HIDE DEF p, X, Y, Z, a, b, c
  <2>5. Z + c * p <= (X + a * p) + (Y + b * p)
    <3>1. (a * p = 0 /\ a = 0) \/ (a * p = p /\ a = 1)
      BY <2>2, <2>4
    <3>2. (b * p = 0 /\ b = 0) \/ (b * p = p /\ b = 1)
      BY <2>2, <2>4
    <3>3. (c * p = 0 /\ c = 0) \/ (c * p = p /\ c = 1)
      BY <2>2, <2>4
    <3> DEFINE ap == a * p
               bp == b * p
               cp == c * p
    <3>4. ((ap = 0 /\ a = 0) \/ (ap = p /\ a = 1)) /\ ((bp = 0 /\ b = 0) \/ (bp = p /\ b = 1)) /\ ((cp = 0 /\ c = 0) \/ (cp = p /\ c = 1))
      BY <3>1, <3>2, <3>3
    <3> HIDE DEF ap, bp, cp
    <3>5. Z + cp <= (X + ap) + (Y + bp)
      BY <2>1, <2>2, <2>3, <2>4, <3>4
    <3>. QED
      BY <3>5 DEF ap, bp, cp
  <2>. QED
    BY <2>2, <2>5
<1> HIDE DEF S
<1>3. t \in S
  BY <1>1, <1>2, Inductive
<1>. QED
  BY <1>3 DEF S

LEMMA BitsNoMore ==
  ASSUME NEW x \in Nat, NEW y \in Nat, NEW z \in Nat,
         \A i \in Nat : BitAt(z, i) <= BitAt(x, i) + BitAt(y, i)
  PROVE  z <= x + y
<1>1. \A i \in 0..z - 1 : BitAt(z, i) <= BitAt(x, i) + BitAt(y, i)
  OBVIOUS
<1>2. z % Power(2, z) <= (x % Power(2, z)) + (y % Power(2, z))
  BY <1>1, BitsBounded
<1>3. z % Power(2, z) = z
  <2>1. z < Power(2, z)
    BY TwoPowersGrow
  <2>. QED
    BY <2>1, LowBits
<1>4. x % Power(2, z) \in Nat /\ x % Power(2, z) <= x /\ y % Power(2, z) \in Nat /\ y % Power(2, z) <= y
  BY LowBits
<1> DEFINE X == x % Power(2, z)
           Y == y % Power(2, z)
<1>5. z <= X + Y /\ X \in Nat /\ X <= x /\ Y \in Nat /\ Y <= y
  BY <1>2, <1>3, <1>4
<1> HIDE DEF X, Y
<1>. QED
  BY <1>5

\* Numbers below 2 ^ t with the same bits below t are the same.
LEMMA BitsDecide ==
  ASSUME NEW x \in Nat, NEW z \in Nat, NEW t \in Nat, x < Power(2, t), z < Power(2, t),
         \A i \in 0..t - 1 : BitAt(z, i) = BitAt(x, i)
  PROVE  z = x
<1> DEFINE o == 0
<1>1. o \in Nat /\ \A i \in Nat : BitAt(o, i) = 0
  <2> SUFFICES ASSUME NEW i \in Nat PROVE BitAt(0, i) = 0
    OBVIOUS
  <2> DEFINE p == Power(2, i)
  <2>1. p \in Int /\ p > 0
    BY TwoPowerNat
  <2> HIDE DEF p
  <2>2. 0 \div p = 0
    <3>1. 0 \in 0..p - 1
      BY <2>1
    <3>. QED
      BY <2>1, <3>1, SmallQuotient
  <2>3. 0 % 2 = 0
    OBVIOUS
  <2>. QED
    BY <2>2, <2>3 DEF p, BitAt
<1>2. \A i \in Nat : BitAt(x, i) \in 0..1 /\ BitAt(z, i) \in 0..1
  BY LowBits DEF BitAt
<1>3. x % Power(2, t) = x /\ z % Power(2, t) = z /\ o % Power(2, t) = 0
  <2>1. x % Power(2, t) = x
    BY LowBits
  <2>2. z % Power(2, t) = z
    BY LowBits
  <2>3. o < Power(2, t)
    BY TwoPowerNat
  <2> HIDE DEF o
  <2>4. o % Power(2, t) = o
    BY <1>1, <2>3, LowBits
  <2>. QED
    BY <2>1, <2>2, <2>4 DEF o
<1> HIDE DEF o
<1>4. \A i \in 0..t - 1 : BitAt(z, i) <= BitAt(x, i) + BitAt(o, i) /\ BitAt(x, i) <= BitAt(z, i) + BitAt(o, i)
  <2> SUFFICES ASSUME NEW i \in 0..t - 1
               PROVE  BitAt(z, i) <= BitAt(x, i) + BitAt(o, i) /\ BitAt(x, i) <= BitAt(z, i) + BitAt(o, i)
    OBVIOUS
  <2>1. i \in Nat /\ BitAt(o, i) = 0 /\ BitAt(z, i) = BitAt(x, i) /\ BitAt(x, i) \in 0..1
    BY <1>1, <1>2
  <2>. QED
    BY <2>1
<1>5. z % Power(2, t) <= (x % Power(2, t)) + (o % Power(2, t))
  BY <1>1, <1>4, BitsBounded
<1>6. x % Power(2, t) <= (z % Power(2, t)) + (o % Power(2, t))
  BY <1>1, <1>4, BitsBounded
<1>. QED
  BY <1>3, <1>5, <1>6

\* A bit set above j leaves bit j, and one above all is set.
LEMMA BitAbove ==
  ASSUME NEW v \in Nat, NEW k \in Nat, NEW c \in 0..1
  PROVE  /\ v + c * Power(2, k) \in Nat
         /\ \A j \in 0..k - 1 : BitAt(v + c * Power(2, k), j) = BitAt(v, j)
         /\ v < Power(2, k) => BitAt(v + c * Power(2, k), k) = c /\ v + c * Power(2, k) < Power(2, k + 1)
<1> DEFINE P == Power(2, k)
           u == v + c * P
<1>1. P \in Nat /\ P > 0 /\ Power(2, k + 1) = 2 * P
  BY TwoPowerNat
<1> HIDE DEF P
<1>2. (c * P = 0 /\ c = 0) \/ (c * P = P /\ c = 1)
  BY <1>1
<1>3. u \in Nat
  BY <1>1, <1>2
<1>4. ASSUME NEW j \in 0..k - 1 PROVE BitAt(u, j) = BitAt(v, j)
  <2> DEFINE p == Power(2, j)
             g == k - j - 1
             r == Power(2, g)
             D == v \div p
             s == v % p
             h == D \div 2
             f == D % 2
  <2>1. j \in Nat /\ g \in Nat /\ (j + g) + 1 = k /\ j + g \in Nat
    OBVIOUS
  <2>2. p \in Nat /\ p > 0 /\ r \in Nat /\ P = 2 * (p * r)
    <3> HIDE DEF g
    <3>1. Power(2, j + g) = p * r
      BY <2>1, TwoPower
    <3>2. Power(2, (j + g) + 1) = 2 * Power(2, j + g)
      BY <2>1, TwoPowerNat
    <3>. QED
      BY <2>1, <3>1, <3>2, TwoPowerNat DEF P
  <2> HIDE DEF p, g, r
  <2>3. D \in Nat /\ s \in 0..p - 1 /\ v = p * D + s
    <3>1. p \in Int
      BY <2>2
    <3>. QED
      BY <2>2, <3>1, DivMod, QuotientNat
  <2> HIDE DEF D, s
  <2>4. h \in Nat /\ f \in 0..1 /\ D = 2 * h + f
    <3>1. 2 \in Int /\ 2 > 0
      OBVIOUS
    <3>2. h \in Nat /\ f \in 0..2 - 1 /\ D = 2 * h + f
      BY <2>3, <3>1, DivMod, QuotientNat
    <3>. QED
      BY <3>2
  <2> HIDE DEF h, f
  <2> DEFINE cr == c * r
             E == D + 2 * cr
             H == h + cr
  <2>5. cr \in Nat
    BY <2>2
  <2>6. u = p * E + s
    <3>1. c * (2 * (p * r)) = p * (2 * cr) /\ p * (2 * cr) \in Int
      BY <2>2
    <3> HIDE DEF cr
    <3>2. p * (D + 2 * cr) = p * D + p * (2 * cr) /\ p * D \in Int
      BY <2>2, <2>3, <2>5
    <3> DEFINE cP == c * P
               pD == p * D
               pc == p * (2 * cr)
               pE == p * E
    <3>3. cP = pc /\ v = pD + s /\ pE = pD + pc /\ u = v + cP /\ pc \in Int /\ pD \in Int
      BY <2>2, <2>3, <3>1, <3>2
    <3> HIDE DEF cP, pD, pc, pE, u, E
    <3>4. u = pE + s
      BY <2>3, <3>3
    <3>. QED
      BY <3>4 DEF pE
  <2>7. E = 2 * H + f /\ E \in Nat /\ H \in Nat
    <3> HIDE DEF cr
    <3>. QED
      BY <2>3, <2>4, <2>5
  <2> HIDE DEF E, H, u
  <2>8. u \div p = E
    <3>1. u \in Int /\ p \in Int /\ E \in Int
      BY <1>3, <2>2, <2>7
    <3>. QED
      BY <2>2, <2>3, <2>6, <3>1, DivUnique
  <2>9. E % 2 = f
    <3>1. f \in 0..2 - 1 /\ E \in Int /\ H \in Int /\ 2 \in Int /\ 2 > 0
      BY <2>4, <2>7
    <3>. QED
      BY <2>7, <3>1, DivUnique
  <2>. QED
    BY <2>8, <2>9 DEF BitAt, p, f, D
<1>5. ASSUME v < P PROVE BitAt(u, k) = c /\ u < Power(2, k + 1)
  <2>1. u \div P = c
    <3>1. u = P * c + v /\ v \in 0..P - 1 /\ P \in Int /\ u \in Int /\ c \in Int
      BY <1>1, <1>2, <1>3, <1>5
    <3>. QED
      BY <1>1, <3>1, DivUnique
  <2>2. c % 2 = c
    <3>1. c \in 0..2 - 1 /\ 2 \in Int /\ 2 > 0
      OBVIOUS
    <3>. QED
      BY <3>1, SmallQuotient
  <2>3. u < Power(2, k + 1)
    <3> DEFINE cP == c * P
    <3>1. (cP = 0 \/ cP = P) /\ u = v + cP
      BY <1>2
    <3> HIDE DEF cP, u
    <3>. QED
      BY <1>1, <1>5, <3>1
  <2>. QED
    BY <2>1, <2>2, <2>3 DEF BitAt, P
<1>. QED
  BY <1>3, <1>4, <1>5 DEF P

\* An operation on bits, of which the result is no more than both together.
IsOperation(op) == \A i, j \in 0..1 : op[<<i, j>>] \in 0..1 /\ op[<<i, j>>] <= i + j

LEMMA Operations ==
  /\ IsOperation(And) /\ IsOperation(Or) /\ IsOperation(Xor)
  /\ \A i \in 0..1 : /\ And[<<i, 0>>] = 0 /\ And[<<0, i>>] = 0 /\ Or[<<i, 0>>] = i /\ Or[<<0, i>>] = i
                     /\ Xor[<<i, 0>>] = i /\ Xor[<<0, i>>] = i
  /\ \A i, j \in 0..1 : i <= Or[<<i, j>>] /\ j <= Or[<<i, j>>] /\ And[<<i, j>>] = And[<<j, i>>] /\ Or[<<i, j>>] = Or[<<j, i>>] /\ Xor[<<i, j>>] = Xor[<<j, i>>]
<1>1. \A i, j \in 0..1 : And[<<i, j>>] = i * j /\ Or[<<i, j>>] = i + j - i * j /\ Xor[<<i, j>>] = (i + j) % 2
  BY DEF And, Or, Xor
<1>2. \A i \in 0..1 : i = 0 \/ i = 1
  OBVIOUS
<1>3. And[<<0, 0>>] = 0 /\ And[<<0, 1>>] = 0 /\ And[<<1, 0>>] = 0 /\ And[<<1, 1>>] = 1
  BY <1>1
<1>4. Or[<<0, 0>>] = 0 /\ Or[<<0, 1>>] = 1 /\ Or[<<1, 0>>] = 1 /\ Or[<<1, 1>>] = 1
  BY <1>1
<1>5. Xor[<<0, 0>>] = 0 /\ Xor[<<0, 1>>] = 1 /\ Xor[<<1, 0>>] = 1 /\ Xor[<<1, 1>>] = 0
  BY <1>1
<1>6. IsOperation(And)
  BY <1>2, <1>3 DEF IsOperation
<1>7. IsOperation(Or)
  BY <1>2, <1>4 DEF IsOperation
<1>8. IsOperation(Xor)
  BY <1>2, <1>5 DEF IsOperation
<1>9. ASSUME NEW i \in 0..1
      PROVE  And[<<i, 0>>] = 0 /\ And[<<0, i>>] = 0 /\ Or[<<i, 0>>] = i /\ Or[<<0, i>>] = i /\ Xor[<<i, 0>>] = i /\ Xor[<<0, i>>] = i
  BY <1>2, <1>3, <1>4, <1>5
<1>10. ASSUME NEW i \in 0..1, NEW j \in 0..1
       PROVE  i <= Or[<<i, j>>] /\ j <= Or[<<i, j>>] /\ And[<<i, j>>] = And[<<j, i>>] /\ Or[<<i, j>>] = Or[<<j, i>>] /\ Xor[<<i, j>>] = Xor[<<j, i>>]
  BY <1>2, <1>3, <1>4, <1>5
<1>. QED
  BY <1>6, <1>7, <1>8, <1>9, <1>10

LEMMA BitAtBit ==
  ASSUME NEW v \in Nat, NEW i \in Nat
  PROVE  BitAt(v, i) \in 0..1
BY LowBits DEF BitAt

\* The bits that OnBits has put together so far.
IsOnBits(op, x, y, bits) ==
  bits = [k \in 0..N |->
            IF k = 0 THEN 0 ELSE bits[k - 1] + op[<<BitAt(x, k - 1), BitAt(y, k - 1)>>] * Power(2, k - 1)]

LEMMA OnBitsExists ==
  ASSUME NEW op, IsOperation(op), NEW x \in Nat, NEW y \in Nat
  PROVE  \E bits : IsOnBits(op, x, y, bits)
<1> DEFINE X == Nat
           term(k) == op[<<BitAt(x, k), BitAt(y, k)>>] * Power(2, k)
           G == [p \in (0..N - 1) \X X |-> p[2] + term(p[1])]
           start == 0
<1>0. N \in Nat
  BY Weights
<1>1. \A k \in 0..N - 1 : term(k) \in Nat
  <2> SUFFICES ASSUME NEW k \in 0..N - 1 PROVE term(k) \in Nat
    OBVIOUS
  <2>1. k \in Nat
    BY <1>0
  <2>2. BitAt(x, k) \in 0..1 /\ BitAt(y, k) \in 0..1
    BY <2>1, BitAtBit
  <2> DEFINE c == op[<<BitAt(x, k), BitAt(y, k)>>]
             p == Power(2, k)
  <2>3. c \in 0..1 /\ p \in Nat
    BY <2>1, <2>2, TwoPowerNat DEF IsOperation
  <2> HIDE DEF c, p
  <2>4. c * p \in Nat
    BY <2>3
  <2>. QED
    BY <2>4 DEF c, p
<1> HIDE DEF term
<1>2. Steps(X, N, G)
  <2>1. ASSUME NEW p \in (0..N - 1) \X X PROVE p[2] + term(p[1]) \in X
    <3>1. p[1] \in 0..N - 1 /\ p[2] \in Nat
      BY <1>0
    <3>2. term(p[1]) \in Nat
      BY <1>1, <3>1
    <3>. QED
      BY <3>1, <3>2
  <2> HIDE DEF X
  <2>. QED
    BY <2>1 DEF Steps
<1>3. \A k \in 0..N - 1, v \in X : G[<<k, v>>] = v + term(k)
  BY <1>0
<1>4. start \in X
  OBVIOUS
<1> HIDE DEF G, X, start
<1>5. \E f : Iterates(X, start, N, G, f)
  BY <1>0, <1>2, <1>4, IteratesIndexed
<1>6. PICK f : f \in [0..N -> X] /\ f[0] = start /\ \A k \in 0..N - 1 : f[k + 1] = G[<<k, f[k]>>]
  BY <1>5 DEF Iterates
<1>7. ASSUME NEW k \in 0..N PROVE f[k] = IF k = 0 THEN 0 ELSE f[k - 1] + term(k - 1)
  <2>1. CASE k = 0
    BY <1>6, <2>1 DEF start
  <2>2. CASE k # 0
    <3> DEFINE j == k - 1
    <3>1. j \in 0..N - 1 /\ k = j + 1 /\ j \in 0..N
      BY <1>0, <2>2
    <3> HIDE DEF j
    <3>2. f[j + 1] = G[<<j, f[j]>>] /\ f[j] \in X
      BY <1>6, <3>1
    <3>3. f[j + 1] = f[j] + term(j)
      BY <1>3, <3>1, <3>2
    <3>. QED
      BY <2>2, <3>1, <3>3 DEF j
  <2>. QED
    BY <2>1, <2>2
<1>8. f = [k \in 0..N |-> f[k]]
  BY <1>6
<1>9. f = [k \in 0..N |-> IF k = 0 THEN 0 ELSE f[k - 1] + term(k - 1)]
  BY <1>7, <1>8
<1>. QED
  BY <1>9 DEF IsOnBits, term

\* The bits of the result are those of the operands, combined.
LEMMA OnBitsVal ==
  ASSUME NEW op, IsOperation(op), NEW x \in Blk, NEW y \in Blk
  PROVE  /\ OnBits(op, x, y) \in Blk
         /\ \A j \in 0..N - 1 : BitAt(OnBits(op, x, y), j) = op[<<BitAt(x, j), BitAt(y, j)>>]
<1> DEFINE c(k) == op[<<BitAt(x, k), BitAt(y, k)>>]
           bits == CHOOSE f : IsOnBits(op, x, y, f)
<1>1. OnBits(op, x, y) = bits[N]
  BY DEF OnBits, IsOnBits, BitAt
<1>2. x \in Nat /\ y \in Nat /\ N \in Nat
  BY BlkNat, Weights
<1>3. IsOnBits(op, x, y, bits)
  <2>1. \E f : IsOnBits(op, x, y, f)
    BY <1>2, OnBitsExists
  <2>. QED
    BY <2>1
<1> HIDE DEF bits
<1>4. \A k \in 0..N : bits[k] = IF k = 0 THEN 0 ELSE bits[k - 1] + c(k - 1) * Power(2, k - 1)
  BY <1>3 DEF IsOnBits
<1>5. \A k \in Nat : c(k) \in 0..1
  <2> SUFFICES ASSUME NEW k \in Nat PROVE c(k) \in 0..1
    OBVIOUS
  <2>1. BitAt(x, k) \in 0..1 /\ BitAt(y, k) \in 0..1
    BY <1>2, BitAtBit
  <2>. QED
    BY <2>1 DEF IsOperation
<1> HIDE DEF c
<1> DEFINE S == {k \in Nat : k <= N => /\ bits[k] \in Nat /\ bits[k] < Power(2, k)
                                       /\ \A j \in 0..k - 1 : BitAt(bits[k], j) = c(j)}
<1>6. 0 \in S
  <2>1. bits[0] = 0 /\ 0..0 - 1 = {}
    <3>1. 0 \in 0..N
      BY <1>2
    <3>. QED
      BY <1>4, <3>1
  <2>2. Power(2, 0) = 1
    BY TwoPower
  <2>. QED
    BY <2>1, <2>2
<1>7. ASSUME NEW k \in Nat, k \in S PROVE k + 1 \in S
  <2> DEFINE v == bits[k]
             w == bits[k + 1]
             d == c(k)
             P == Power(2, k)
  <2> SUFFICES ASSUME k + 1 <= N
               PROVE  /\ w \in Nat /\ w < Power(2, k + 1)
                      /\ \A j \in 0..(k + 1) - 1 : BitAt(w, j) = c(j)
    OBVIOUS
  <2>1. v \in Nat /\ v < P /\ \A j \in 0..k - 1 : BitAt(v, j) = c(j)
    BY <1>2, <1>7
  <2>2. w = v + d * P
    <3>1. k + 1 \in 0..N /\ k + 1 # 0 /\ (k + 1) - 1 = k
      BY <1>2
    <3>. QED
      BY <1>4, <3>1
  <2>3. d \in 0..1
    BY <1>5
  <2> HIDE DEF v, w, d
  <2>4. /\ v + d * P \in Nat /\ v + d * P < Power(2, k + 1)
        /\ \A j \in 0..k - 1 : BitAt(v + d * P, j) = BitAt(v, j)
        /\ BitAt(v + d * P, k) = d
    BY <2>1, <2>3, BitAbove
  <2>5. ASSUME NEW j \in 0..(k + 1) - 1 PROVE BitAt(w, j) = c(j)
    <3>1. j = k \/ j \in 0..k - 1
      OBVIOUS
    <3>2. CASE j = k
      BY <2>2, <2>4, <3>2 DEF d
    <3>3. CASE j \in 0..k - 1
      BY <2>1, <2>2, <2>4, <3>3
    <3>. QED
      BY <3>1, <3>2, <3>3
  <2>. QED
    BY <2>2, <2>4, <2>5
<1> HIDE DEF S
<1>8. N \in S
  BY <1>2, <1>6, <1>7, Inductive
<1>9. bits[N] \in Nat /\ bits[N] < Power(2, N) /\ \A j \in 0..N - 1 : BitAt(bits[N], j) = c(j)
  BY <1>2, <1>8 DEF S
<1>10. bits[N] \in Blk
  BY <1>9, BlkNat DEF Radix
<1>. QED
  BY <1>1, <1>9, <1>10 DEF c

\* z has the bits of x and y, combined.
HasBits(op, x, y, z) == z \in Nat /\ \A i \in Nat : BitAt(z, i) = op[<<BitAt(x, i), BitAt(y, i)>>]

\* That is one number only, and no more than x and y together.
LEMMA HasBitsOnce ==
  ASSUME NEW op, IsOperation(op), NEW x \in Nat, NEW y \in Nat, NEW z, HasBits(op, x, y, z),
         NEW n, IsBitLength(x + y, n)
  PROVE  /\ z \in 0..x + y /\ \A i \in 0..n : BitAt(z, i) = op[<<BitAt(x, i), BitAt(y, i)>>]
         /\ \A w \in 0..x + y : (\A i \in 0..n : BitAt(w, i) = op[<<BitAt(x, i), BitAt(y, i)>>]) => w = z
<1>1. z \in Nat /\ n \in Nat /\ Power(2, n) > x + y /\ Power(2, n) \in Nat
  <2>1. n \in Nat
    BY DEF IsBitLength
  <2>. QED
    BY <2>1, TwoPowerNat DEF IsBitLength, HasBits
<1>2. z <= x + y
  <2>1. \A i \in Nat : BitAt(z, i) <= BitAt(x, i) + BitAt(y, i)
    <3> SUFFICES ASSUME NEW i \in Nat PROVE BitAt(z, i) <= BitAt(x, i) + BitAt(y, i)
      OBVIOUS
    <3>1. BitAt(x, i) \in 0..1 /\ BitAt(y, i) \in 0..1
      BY BitAtBit
    <3>. QED
      BY <3>1 DEF HasBits, IsOperation
  <2>. QED
    BY <1>1, <2>1, BitsNoMore
<1>3. \A i \in 0..n : BitAt(z, i) = op[<<BitAt(x, i), BitAt(y, i)>>]
  BY <1>1 DEF HasBits
<1>4. ASSUME NEW w \in 0..x + y, \A i \in 0..n : BitAt(w, i) = op[<<BitAt(x, i), BitAt(y, i)>>] PROVE w = z
  <2>1. w \in Nat /\ w < Power(2, n) /\ z < Power(2, n)
    BY <1>1, <1>2
  <2>2. \A i \in 0..n - 1 : BitAt(w, i) = BitAt(z, i)
    <3>1. \A i \in 0..n - 1 : i \in 0..n
      BY <1>1
    <3>. QED
      BY <1>3, <1>4, <3>1
  <2>. QED
    BY <1>1, <2>1, <2>2, BitsDecide
<1>. QED
  BY <1>1, <1>2, <1>3, <1>4

\* Bit i of the number is bit i % N of block i \div N.
LEMMA BitOfBlock ==
  ASSUME NEW n \in Nat, NEW x \in [0..n - 1 -> Blk], NEW t \in Nat
  PROVE  /\ t \div N \in Nat /\ t % N \in 0..N - 1 /\ getBlock(x, t \div N) \in Blk
         /\ BitAt(Places(x, n), t) = BitAt(getBlock(x, t \div N), t % N)
<1>1. t \div N \in Nat /\ t % N \in 0..N - 1
  BY BitPlace
<1>2. getBlock(x, t \div N) \in Blk
  BY <1>1, BlockOf
<1>3. getBit(x, t) = BitAt(Places(x, n), t)
  BY BitOf DEF BitAt
<1>4. getBit(x, t) = BitAt(getBlock(x, t \div N), t % N)
  BY DEF getBit, BitAt
<1>. QED
  BY <1>1, <1>2, <1>3, <1>4

LEMMA ZeroBits ==
  ASSUME NEW i \in Nat
  PROVE  BitAt(0, i) = 0
<1> DEFINE p == Power(2, i)
<1>1. p \in Int /\ p > 0
  BY TwoPowerNat
<1> HIDE DEF p
<1>2. 0 \div p = 0
  <2>1. 0 \in 0..p - 1
    BY <1>1
  <2>. QED
    BY <1>1, <2>1, SmallQuotient
<1>3. 0 % 2 = 0
  OBVIOUS
<1>. QED
  BY <1>2, <1>3 DEF p, BitAt

\* Blocks that combine the blocks of a and b make a number that combines theirs.
BlockHasBits(op, a, b, z, i) ==
  \A j \in 0..N - 1 :
    BitAt(getBlock(z, i), j) = op[<<BitAt(getBlock(a, i), j), BitAt(getBlock(b, i), j)>>]

LEMMA BlocksHaveBits ==
  ASSUME NEW op, NEW m \in Nat, NEW a \in [0..m - 1 -> Blk], NEW n \in Nat, NEW b \in [0..n - 1 -> Blk],
         NEW l \in Nat, NEW z \in [0..l - 1 -> Blk], \A i \in Nat : BlockHasBits(op, a, b, z, i)
  PROVE  HasBits(op, Places(a, m), Places(b, n), Places(z, l))
<1>1. Places(z, l) \in Nat
  BY ArrayVal
<1>2. ASSUME NEW t \in Nat
      PROVE  BitAt(Places(z, l), t) = op[<<BitAt(Places(a, m), t), BitAt(Places(b, n), t)>>]
  <2> DEFINE i == t \div N
             j == t % N
  <2>1. i \in Nat /\ j \in 0..N - 1
    BY BitPlace
  <2>2. BitAt(Places(z, l), t) = BitAt(getBlock(z, i), j)
    BY BitOfBlock
  <2>3. BitAt(Places(a, m), t) = BitAt(getBlock(a, i), j)
    BY BitOfBlock
  <2>4. BitAt(Places(b, n), t) = BitAt(getBlock(b, i), j)
    BY BitOfBlock
  <2> HIDE DEF i, j
  <2>5. BitAt(getBlock(z, i), j) = op[<<BitAt(getBlock(a, i), j), BitAt(getBlock(b, i), j)>>]
    BY <2>1 DEF BlockHasBits
  <2>. QED
    BY <2>2, <2>3, <2>4, <2>5
<1>. QED
  BY <1>1, <1>2 DEF HasBits

\* The longer and the shorter of two numbers.
LEMMA LongerShorter ==
  ASSUME NEW a \in Natural, NEW b \in Natural
  PROVE  /\ Longer(a, b) \in Natural /\ Shorter(a, b) \in Natural
         /\ len(Shorter(a, b)) <= len(a) /\ len(Shorter(a, b)) <= len(b)
         /\ len(a) <= len(Longer(a, b)) /\ len(b) <= len(Longer(a, b))
         /\ \/ Longer(a, b) = a /\ Shorter(a, b) = b /\ len(b) <= len(a)
            \/ Longer(a, b) = b /\ Shorter(a, b) = a /\ len(a) <= len(b)
<1>1. len(a) \in Nat /\ len(b) \in Nat
  BY OfNatural
<1>. QED
  BY <1>1 DEF Longer, Shorter

\* What getBlock reads.
LEMMA ReadsBlock ==
  ASSUME NEW n \in Nat, NEW x \in [0..n - 1 -> Blk], NEW i \in Nat
  PROVE  /\ getBlock(x, i) \in Blk
         /\ i < n => i \in 0..n - 1 /\ getBlock(x, i) = x[i]
         /\ ~(i < n) => getBlock(x, i) = 0
<1>1. len(x) = n
  BY ArrayVal
<1>2. getBlock(x, i) \in Blk
  BY BlockOf
<1>. QED
  BY <1>1, <1>2 DEF getBlock

\* The number with the bits that are in both.
LEMMA BitAndVal ==
  ASSUME NEW a \in Natural, NEW b \in Natural
  PROVE  BitAnd(a, b) \in Natural /\ HasBits(And, Val(a), Val(b), Val(BitAnd(a, b)))
<1> DEFINE m == len(a)
           n == len(b)
           s == len(Shorter(a, b))
           z == [i \in 0..s - 1 |-> OnBits(And, a[i], b[i])]
<1>1. /\ m \in Nat /\ a \in [0..m - 1 -> Blk] /\ Val(a) = Places(a, m)
      /\ n \in Nat /\ b \in [0..n - 1 -> Blk] /\ Val(b) = Places(b, n)
  BY OfNatural
<1>2. s \in Nat /\ DOMAIN Shorter(a, b) = 0..s - 1 /\ s <= m /\ s <= n /\ (s = m \/ s = n)
  <2>1. Shorter(a, b) \in Natural /\ s <= m /\ s <= n /\ (Shorter(a, b) = a \/ Shorter(a, b) = b)
    BY LongerShorter
  <2>2. s \in Nat /\ Shorter(a, b) \in [0..s - 1 -> Blk]
    BY <2>1, OfNatural
  <2>. QED
    BY <2>1, <2>2
<1>3. BitAnd(a, b) = zapLeadingZeros(z)
  BY <1>2 DEF BitAnd
<1> HIDE DEF m, n, s
<1>4. ASSUME NEW i \in 0..s - 1
      PROVE  /\ OnBits(And, a[i], b[i]) \in Blk /\ a[i] \in Blk /\ b[i] \in Blk
             /\ \A j \in 0..N - 1 : BitAt(OnBits(And, a[i], b[i]), j) = And[<<BitAt(a[i], j), BitAt(b[i], j)>>]
  <2>1. i \in 0..m - 1 /\ i \in 0..n - 1
    BY <1>1, <1>2
  <2>2. a[i] \in Blk /\ b[i] \in Blk
    BY <1>1, <2>1
  <2>3. IsOperation(And)
    BY Operations
  <2>. QED
    BY <2>2, <2>3, OnBitsVal
<1>5. z \in [0..s - 1 -> Blk]
  BY <1>4
<1>6. ASSUME NEW i \in Nat PROVE BlockHasBits(And, a, b, z, i)
  <2>1. CASE i < s
    <3>1. i \in 0..s - 1 /\ getBlock(z, i) = z[i]
      BY <1>2, <1>5, <2>1, ReadsBlock
    <3>2. i < m /\ i < n
      BY <1>1, <1>2, <2>1
    <3>3. getBlock(a, i) = a[i] /\ getBlock(b, i) = b[i]
      BY <1>1, <3>2, ReadsBlock
    <3>4. z[i] = OnBits(And, a[i], b[i])
      BY <3>1
    <3> HIDE DEF z
    <3>. QED
      BY <1>4, <3>1, <3>3, <3>4 DEF BlockHasBits
  <2>2. CASE ~(i < s)
    <3>1. getBlock(z, i) = 0
      BY <1>2, <1>5, <2>2, ReadsBlock
    <3>2. getBlock(a, i) \in Blk /\ getBlock(b, i) \in Blk
      BY <1>1, ReadsBlock
    <3>3. getBlock(a, i) = 0 \/ getBlock(b, i) = 0
      <4>1. ~(i < m) \/ ~(i < n)
        BY <1>2, <2>2
      <4>. QED
        BY <1>1, <4>1, ReadsBlock
    <3> HIDE DEF z
    <3>4. ASSUME NEW j \in 0..N - 1
          PROVE  BitAt(getBlock(z, i), j) = And[<<BitAt(getBlock(a, i), j), BitAt(getBlock(b, i), j)>>]
      <4>1. j \in Nat
        BY Weights
      <4>2. BitAt(0, j) = 0
        BY <4>1, ZeroBits
      <4>3. BitAt(getBlock(a, i), j) \in 0..1 /\ BitAt(getBlock(b, i), j) \in 0..1
        BY <3>2, <4>1, BitAtBit, BlkNat
      <4>. QED
        BY <3>1, <3>3, <4>2, <4>3, Operations
    <3>. QED
      BY <3>4 DEF BlockHasBits
  <2>. QED
    BY <2>1, <2>2
<1> HIDE DEF z
<1>7. HasBits(And, Places(a, m), Places(b, n), Places(z, s))
  BY <1>1, <1>2, <1>5, <1>6, BlocksHaveBits
<1>8. zapLeadingZeros(z) \in Natural /\ Val(zapLeadingZeros(z)) = Places(z, s)
  BY <1>2, <1>5, ZapsLeadingZeros
<1>. QED
  BY <1>1, <1>3, <1>7, <1>8

\* The blocks of the number with the bits that are in either, or in one only.
LEMMA BitBlocks ==
  ASSUME NEW op \in {Or, Xor}, NEW a \in Natural, NEW b \in Natural, NEW l, l = len(Longer(a, b)),
         NEW s, s = len(Shorter(a, b)),
         NEW z, z = [i \in DOMAIN Longer(a, b) |->
                       IF i < len(Shorter(a, b)) THEN OnBits(op, a[i], b[i]) ELSE Longer(a, b)[i]]
  PROVE  /\ l \in Nat /\ z \in [0..l - 1 -> Blk] /\ s \in Nat
         /\ HasBits(op, Val(a), Val(b), Places(z, l))
         /\ \A i \in 0..l - 1 : z[i] = IF i < s THEN OnBits(op, a[i], b[i]) ELSE Longer(a, b)[i]
<1> DEFINE m == len(a)
           n == len(b)
           c == Longer(a, b)
<1>1. /\ m \in Nat /\ a \in [0..m - 1 -> Blk] /\ Val(a) = Places(a, m)
      /\ n \in Nat /\ b \in [0..n - 1 -> Blk] /\ Val(b) = Places(b, n)
  BY OfNatural
<1>2. s \in Nat /\ s <= m /\ s <= n /\ (s = m \/ s = n)
  <2>1. Shorter(a, b) \in Natural /\ s <= m /\ s <= n /\ (Shorter(a, b) = a \/ Shorter(a, b) = b)
    BY LongerShorter
  <2>. QED
    BY <2>1, OfNatural
<1>3. l \in Nat /\ c \in [0..l - 1 -> Blk] /\ m <= l /\ n <= l
  <2>1. c \in Natural /\ m <= l /\ n <= l
    BY LongerShorter
  <2>. QED
    BY <2>1, OfNatural
<1>4. (c = a /\ l = m /\ s = n) \/ (c = b /\ l = n /\ s = m)
  BY LongerShorter
<1>5. z = [i \in 0..l - 1 |-> IF i < s THEN OnBits(op, a[i], b[i]) ELSE c[i]]
  BY <1>3
<1> HIDE DEF m, n, c
<1>6. IsOperation(op) /\ \A i \in 0..1 : op[<<i, 0>>] = i /\ op[<<0, i>>] = i
  BY Operations
<1>7. ASSUME NEW i \in 0..l - 1, i < s
      PROVE  /\ OnBits(op, a[i], b[i]) \in Blk /\ a[i] \in Blk /\ b[i] \in Blk
             /\ \A j \in 0..N - 1 : BitAt(OnBits(op, a[i], b[i]), j) = op[<<BitAt(a[i], j), BitAt(b[i], j)>>]
  <2>1. i \in 0..m - 1 /\ i \in 0..n - 1
    BY <1>1, <1>2, <1>7
  <2>2. a[i] \in Blk /\ b[i] \in Blk
    BY <1>1, <2>1
  <2>. QED
    BY <1>6, <2>2, OnBitsVal
<1>8. ASSUME NEW i \in 0..l - 1 PROVE (IF i < s THEN OnBits(op, a[i], b[i]) ELSE c[i]) \in Blk
  BY <1>3, <1>7
<1>9. z \in [0..l - 1 -> Blk] /\ \A i \in 0..l - 1 : z[i] = IF i < s THEN OnBits(op, a[i], b[i]) ELSE c[i]
  BY <1>5, <1>8
<1>10. ASSUME NEW i \in Nat PROVE BlockHasBits(op, a, b, z, i)
  <2>1. CASE i < s
    <3>1. i < m /\ i < n /\ i < l
      BY <1>1, <1>2, <1>3, <2>1
    <3>2. getBlock(a, i) = a[i] /\ getBlock(b, i) = b[i]
      BY <1>1, <3>1, ReadsBlock
    <3>3. i \in 0..l - 1 /\ getBlock(z, i) = z[i]
      BY <1>3, <1>9, <3>1, ReadsBlock
    <3>4. z[i] = OnBits(op, a[i], b[i])
      BY <1>9, <2>1, <3>3
    <3>. QED
      BY <1>7, <2>1, <3>2, <3>3, <3>4 DEF BlockHasBits
  <2>2. CASE ~(i < s)
    <3>1. getBlock(a, i) \in Blk /\ getBlock(b, i) \in Blk
      BY <1>1, ReadsBlock
    <3>2. getBlock(z, i) = getBlock(c, i)
      <4>1. CASE i < l
        <5>1. i \in 0..l - 1 /\ getBlock(z, i) = z[i] /\ getBlock(c, i) = c[i]
          BY <1>3, <1>9, <4>1, ReadsBlock
        <5>. QED
          BY <1>9, <2>2, <5>1
      <4>2. CASE ~(i < l)
        <5>1. getBlock(z, i) = 0
          BY <1>3, <1>9, <4>2, ReadsBlock
        <5>2. getBlock(c, i) = 0
          BY <1>3, <4>2, ReadsBlock
        <5>. QED
          BY <5>1, <5>2
      <4>. QED
        BY <4>1, <4>2
    <3>3. (c = a /\ getBlock(b, i) = 0) \/ (c = b /\ getBlock(a, i) = 0)
      <4>1. CASE c = a /\ s = n
        <5>1. ~(i < n)
          BY <2>2, <4>1
        <5>. QED
          BY <1>1, <4>1, <5>1, ReadsBlock
      <4>2. CASE c = b /\ s = m
        <5>1. ~(i < m)
          BY <2>2, <4>2
        <5>. QED
          BY <1>1, <4>2, <5>1, ReadsBlock
      <4>. QED
        BY <1>4, <4>1, <4>2
    <3>4. ASSUME NEW j \in 0..N - 1
          PROVE  BitAt(getBlock(z, i), j) = op[<<BitAt(getBlock(a, i), j), BitAt(getBlock(b, i), j)>>]
      <4>1. j \in Nat
        BY Weights
      <4>2. BitAt(0, j) = 0
        BY <4>1, ZeroBits
      <4>3. BitAt(getBlock(a, i), j) \in 0..1 /\ BitAt(getBlock(b, i), j) \in 0..1
        BY <3>1, <4>1, BitAtBit, BlkNat
      <4>4. CASE c = a /\ getBlock(b, i) = 0
        <5>1. getBlock(z, i) = getBlock(a, i) /\ BitAt(getBlock(b, i), j) = 0
          BY <3>2, <4>2, <4>4
        <5>. QED
          BY <1>6, <4>3, <5>1
      <4>5. CASE c = b /\ getBlock(a, i) = 0
        <5>1. getBlock(z, i) = getBlock(b, i) /\ BitAt(getBlock(a, i), j) = 0
          BY <3>2, <4>2, <4>5
        <5>. QED
          BY <1>6, <4>3, <5>1
      <4>. QED
        BY <3>3, <4>4, <4>5
    <3>. QED
      BY <3>4 DEF BlockHasBits
  <2>. QED
    BY <2>1, <2>2
<1>11. HasBits(op, Places(a, m), Places(b, n), Places(z, l))
  BY <1>1, <1>3, <1>9, <1>10, BlocksHaveBits
<1>. QED
  BY <1>1, <1>2, <1>3, <1>9, <1>11 DEF c

\* The number with the bits that are in one only.
LEMMA BitXorVal ==
  ASSUME NEW a \in Natural, NEW b \in Natural
  PROVE  BitXor(a, b) \in Natural /\ HasBits(Xor, Val(a), Val(b), Val(BitXor(a, b)))
<1> DEFINE l == len(Longer(a, b))
           z == [i \in DOMAIN Longer(a, b) |->
                   IF i < len(Shorter(a, b)) THEN OnBits(Xor, a[i], b[i]) ELSE Longer(a, b)[i]]
<1>1. BitXor(a, b) = zapLeadingZeros(z)
  BY DEF BitXor
<1>2. l \in Nat /\ z \in [0..l - 1 -> Blk] /\ HasBits(Xor, Val(a), Val(b), Places(z, l))
  <2>1. Xor \in {Or, Xor}
    OBVIOUS
  <2>. QED
    BY <2>1, BitBlocks
<1> HIDE DEF l, z
<1>3. zapLeadingZeros(z) \in Natural /\ Val(zapLeadingZeros(z)) = Places(z, l)
  BY <1>2, ZapsLeadingZeros
<1>. QED
  BY <1>1, <1>2, <1>3

\* A block with a bit has one that an or leaves.
LEMMA OrLeaves ==
  ASSUME NEW x \in Blk, NEW y \in Blk, x # 0 \/ y # 0
  PROVE  OnBits(Or, x, y) # 0
<1> DEFINE o == 0
           z == OnBits(Or, x, y)
<1>1. x \in Nat /\ y \in Nat /\ x < Power(2, N) /\ y < Power(2, N) /\ o \in Nat
  BY BlkNat DEF Radix
<1>2. N \in Nat
  BY Weights
<1>3. z \in Blk /\ \A j \in 0..N - 1 : BitAt(z, j) = Or[<<BitAt(x, j), BitAt(y, j)>>]
  BY OnBitsVal, Operations
<1>4. z \in Nat
  BY <1>3, BlkNat
<1>5. \A j \in Nat : BitAt(o, j) = 0
  BY ZeroBits
<1> HIDE DEF z, o
<1>6. ASSUME NEW j \in 0..N - 1 PROVE BitAt(x, j) <= BitAt(z, j) + BitAt(o, j) /\ BitAt(y, j) <= BitAt(z, j) + BitAt(o, j)
  <2>1. j \in Nat
    BY <1>2
  <2>2. BitAt(x, j) \in 0..1 /\ BitAt(y, j) \in 0..1 /\ BitAt(z, j) \in 0..1
    BY <1>1, <1>4, <2>1, BitAtBit
  <2>3. BitAt(z, j) = Or[<<BitAt(x, j), BitAt(y, j)>>] /\ BitAt(o, j) = 0
    BY <1>3, <1>5, <2>1
  <2>4. BitAt(x, j) <= Or[<<BitAt(x, j), BitAt(y, j)>>] /\ BitAt(y, j) <= Or[<<BitAt(x, j), BitAt(y, j)>>]
    BY <2>2, Operations
  <2>. QED
    BY <2>2, <2>3, <2>4
<1>7. /\ x % Power(2, N) <= (z % Power(2, N)) + (o % Power(2, N))
      /\ y % Power(2, N) <= (z % Power(2, N)) + (o % Power(2, N))
  <2>1. \A j \in 0..N - 1 : BitAt(x, j) <= BitAt(z, j) + BitAt(o, j)
    BY <1>6
  <2>2. \A j \in 0..N - 1 : BitAt(y, j) <= BitAt(z, j) + BitAt(o, j)
    BY <1>6
  <2>3. x % Power(2, N) <= (z % Power(2, N)) + (o % Power(2, N))
    BY <1>1, <1>2, <1>4, <2>1, BitsBounded
  <2>4. y % Power(2, N) <= (z % Power(2, N)) + (o % Power(2, N))
    BY <1>1, <1>2, <1>4, <2>2, BitsBounded
  <2>. QED
    BY <2>3, <2>4
<1>8. x % Power(2, N) = x /\ y % Power(2, N) = y
  BY <1>1, <1>2, LowBits
<1>9. /\ z % Power(2, N) \in Nat /\ z % Power(2, N) <= z /\ o % Power(2, N) \in Nat /\ o % Power(2, N) <= o
  BY <1>1, <1>2, <1>4, LowBits
<1>10. o = 0
  BY DEF o
<1> DEFINE Z == z % Power(2, N)
           O == o % Power(2, N)
<1>11. x <= Z + O /\ y <= Z + O /\ Z \in Nat /\ Z <= z /\ O \in Nat /\ O <= 0
  BY <1>7, <1>8, <1>9, <1>10
<1> HIDE DEF Z, O
<1>12. z # 0
  BY <1>1, <1>4, <1>11
<1>. QED
  BY <1>12 DEF z

\* The number with the bits that are in either: no leading block turns zero.
LEMMA BitOrVal ==
  ASSUME NEW a \in Natural, NEW b \in Natural
  PROVE  BitOr(a, b) \in Natural /\ HasBits(Or, Val(a), Val(b), Val(BitOr(a, b)))
<1> DEFINE l == len(Longer(a, b))
           s == len(Shorter(a, b))
           z == [i \in DOMAIN Longer(a, b) |->
                   IF i < len(Shorter(a, b)) THEN OnBits(Or, a[i], b[i]) ELSE Longer(a, b)[i]]
           c == Longer(a, b)
<1>1. BitOr(a, b) = z
  BY DEF BitOr
<1>2. /\ l \in Nat /\ z \in [0..l - 1 -> Blk] /\ HasBits(Or, Val(a), Val(b), Places(z, l)) /\ s \in Nat
      /\ \A i \in 0..l - 1 : z[i] = IF i < s THEN OnBits(Or, a[i], b[i]) ELSE c[i]
  <2>1. Or \in {Or, Xor}
    OBVIOUS
  <2>. QED
    BY <2>1, BitBlocks
<1>3. c \in Natural /\ s <= len(a) /\ s <= len(b) /\ (c = a \/ c = b)
  BY LongerShorter
<1>4. l > 0 => c[l - 1] # 0
  BY <1>3, OfNatural
<1>5. /\ len(a) \in Nat /\ a \in [0..len(a) - 1 -> Blk] /\ len(b) \in Nat /\ b \in [0..len(b) - 1 -> Blk]
  BY OfNatural
<1> HIDE DEF z
<1>6. l > 0 => z[l - 1] # 0
  <2> SUFFICES ASSUME l > 0 PROVE z[l - 1] # 0
    OBVIOUS
  <2> DEFINE k == l - 1
  <2>1. k \in 0..l - 1 /\ c[k] # 0
    BY <1>2, <1>4
  <2> HIDE DEF k, l, s, c
  <2>2. CASE k < s
    <3>1. k \in 0..len(a) - 1 /\ k \in 0..len(b) - 1
      BY <1>2, <1>3, <1>5, <2>1, <2>2
    <3>2. a[k] \in Blk /\ b[k] \in Blk /\ (a[k] # 0 \/ b[k] # 0)
      BY <1>3, <1>5, <2>1, <3>1
    <3>3. OnBits(Or, a[k], b[k]) # 0
      BY <3>2, OrLeaves
    <3>. QED
      BY <1>2, <2>1, <2>2, <3>3 DEF k
  <2>3. CASE ~(k < s)
    BY <1>2, <2>1, <2>3 DEF k
  <2>. QED
    BY <2>2, <2>3
<1> HIDE DEF l
<1>7. z \in Natural /\ Val(z) = Places(z, l)
  BY <1>2, <1>6, InNatural, ArrayVal
<1>. QED
  BY <1>1, <1>2, <1>7

-----------------------------------------------------------------------------
(* What Arithmetic says, in the words of this module. *)

LEMMA SamePower == \A b, k : Meant!Power(b, k) = Power(b, k)
  BY DEF Meant!Power, Power

LEMMA SameBit == \A v, i : Meant!Bit(v, i) = BitAt(v, i)
  BY SamePower DEF Meant!Bit, BitAt

LEMMA SameOperations == Meant!And = And /\ Meant!Or = Or /\ Meant!Xor = Xor
  BY DEF Meant!And, And, Meant!Or, Or, Meant!Xor, Xor

\* The length of a number in bits.
LEMMA SameBitLength ==
  ASSUME NEW x \in Nat, NEW n, IsBitLength(x, n)
  PROVE  Meant!BitLength(x) = n
<1>1. \A m : IsBitLength(x, m) => m = n
  BY BitLengthUnique
<1>2. Meant!BitLength(x) = CHOOSE m \in 0..x : Power(2, m) > x /\ (m > 0 => Power(2, m - 1) <= x)
  BY SamePower DEF Meant!BitLength
<1>3. n \in 0..x /\ Power(2, n) > x /\ (n > 0 => Power(2, n - 1) <= x)
  BY DEF IsBitLength
<1>4. Meant!BitLength(x) \in 0..x /\ Power(2, Meant!BitLength(x)) > x
      /\ (Meant!BitLength(x) > 0 => Power(2, Meant!BitLength(x) - 1) <= x)
  BY <1>2, <1>3
<1> QED
  BY <1>1, <1>4 DEF IsBitLength

\* The number with the bits of x and y combined.
LEMMA SameBitByBit ==
  ASSUME NEW op, IsOperation(op), NEW x \in Nat, NEW y \in Nat, NEW z, HasBits(op, x, y, z)
  PROVE  Meant!BitByBit(op, x, y) = z
<1>1. PICK n \in Nat : IsBitLength(x + y, n)
  BY BitLengthExists
<1>2. Meant!BitLength(x + y) = n
  BY <1>1, SameBitLength
<1> DEFINE P(w) == \A i \in 0..n : BitAt(w, i) = op[<<BitAt(x, i), BitAt(y, i)>>]
<1>3. z \in 0..x + y /\ P(z) /\ \A w \in 0..x + y : P(w) => w = z
  BY <1>1, HasBitsOnce
<1>4. Meant!BitByBit(op, x, y) = CHOOSE w \in 0..x + y : P(w)
  BY <1>2, SameBit DEF Meant!BitByBit
<1> HIDE DEF P
<1> QED
  BY <1>3, <1>4

\* The quotient and remainder of natural numbers.
LEMMA SameQuotient ==
  ASSUME NEW x \in Nat, NEW y \in Nat
  PROVE  /\ y = 0 => Meant!Quotient(x, y) = 0 /\ Meant!Remainder(x, y) = x
         /\ y > 0 => Meant!Quotient(x, y) = x \div y /\ Meant!Remainder(x, y) = x % y
<1>1. CASE y = 0
  BY <1>1 DEF Meant!Quotient, Meant!Remainder
<1>2. CASE y > 0
  <2>1. Meant!Quotient(x, y) = x \div y
    BY <1>2 DEF Meant!Quotient
  <2>2. x = y * (x \div y) + (x % y) /\ x \div y \in Int /\ x % y \in Int
    BY <1>2
  <2> QED
    BY <1>2, <2>1, <2>2 DEF Meant!Remainder
<1> QED
  BY <1>1, <1>2

-----------------------------------------------------------------------------
(* The inductive invariant: every variable holds a natural number without a leading zero. *)

NumbersNatural == num \in [Reg -> Natural]

LEMMA ValNat ==
  ASSUME NEW x \in Natural
  PROVE  Val(x) \in Nat /\ Val(x) \in Int /\ len(x) \in Nat
  BY OfNatural

\* The value of the variables after r := x.
LEMMA PutVal ==
  ASSUME NumbersNatural, NEW r \in Reg, NEW x \in Natural, Put(r, x)
  PROVE  NumbersNatural' /\ Meant!Put(r, Val(x))
<1>1. NumbersNatural' /\ num' = [num EXCEPT ![r] = x] /\ out' = Returned(0)
  BY DEF NumbersNatural, Put
<1>2. [t \in Reg |-> Val(num[t])]' = [[t \in Reg |-> Val(num[t])] EXCEPT ![r] = Val(x)]
  BY <1>1 DEF NumbersNatural
<1>3. Val(x) \in Nat
  BY ValNat
<1> QED
  BY <1>1, <1>2, <1>3 DEF Meant!Put, Meant!Returned, Returned

\* A call that only returns a value keeps the numbers.
LEMMA AnswerVal ==
  ASSUME NumbersNatural, NEW x, Answer(x)
  PROVE  NumbersNatural' /\ Meant!Answer(x)
  BY DEF NumbersNatural, Answer, Meant!Answer, Meant!Returned, Returned

\* So does one that throws.
LEMMA ThrowVal ==
  ASSUME NumbersNatural, NEW r \in Reg, Throw
  PROVE  NumbersNatural' /\ Meant!Throw(r)
  BY DEF NumbersNatural, Throw, Thrown, Meant!Throw

\* A number that is not natural is not one of the class.
LEMMA NegativeVal ==
  ASSUME NumbersNatural, NEW r \in Reg, NEW v, v \notin Nat, Throw
  PROVE  NumbersNatural' /\ Meant!Put(r, v)
  BY ThrowVal DEF Meant!Put

\* add and multiply.
LEMMA AddMeans ==
  ASSUME NumbersNatural, NEW r \in Reg, NEW a \in Reg, NEW b \in Reg
  PROVE  /\ add(r, a, b) => NumbersNatural' /\ Meant!Meaning(call')
         /\ multiply(r, a, b) => NumbersNatural' /\ Meant!Meaning(call')
<1>1. num[a] \in Natural /\ num[b] \in Natural
  BY DEF NumbersNatural
<1>2. add(r, a, b) => NumbersNatural' /\ Meant!Meaning(call')
  BY <1>1, SumVal, PutVal DEF add, Called, Meant!Meaning
<1>3. multiply(r, a, b) => NumbersNatural' /\ Meant!Meaning(call')
  BY <1>1, ProductVal, PutVal DEF multiply, Called, Meant!Meaning
<1> QED
  BY <1>2, <1>3

\* The operations on bits.
LEMMA BitsMean ==
  ASSUME NumbersNatural, NEW r \in Reg, NEW a \in Reg, NEW b \in Reg
  PROVE  /\ bitAnd(r, a, b) => NumbersNatural' /\ Meant!Meaning(call')
         /\ bitOr(r, a, b) => NumbersNatural' /\ Meant!Meaning(call')
         /\ bitXor(r, a, b) => NumbersNatural' /\ Meant!Meaning(call')
<1>1. num[a] \in Natural /\ num[b] \in Natural /\ Val(num[a]) \in Nat /\ Val(num[b]) \in Nat
  BY ValNat DEF NumbersNatural
<1>2. /\ BitAnd(num[a], num[b]) \in Natural
      /\ Meant!BitByBit(Meant!And, Val(num[a]), Val(num[b])) = Val(BitAnd(num[a], num[b]))
  BY <1>1, BitAndVal, SameBitByBit, SameOperations, Operations
<1>3. /\ BitOr(num[a], num[b]) \in Natural
      /\ Meant!BitByBit(Meant!Or, Val(num[a]), Val(num[b])) = Val(BitOr(num[a], num[b]))
  BY <1>1, BitOrVal, SameBitByBit, SameOperations, Operations
<1>4. /\ BitXor(num[a], num[b]) \in Natural
      /\ Meant!BitByBit(Meant!Xor, Val(num[a]), Val(num[b])) = Val(BitXor(num[a], num[b]))
  BY <1>1, BitXorVal, SameBitByBit, SameOperations, Operations
<1>5. bitAnd(r, a, b) => NumbersNatural' /\ Meant!Meaning(call')
  BY <1>2, PutVal DEF bitAnd, Called, Meant!Meaning, Meant!BitMeaning
<1>6. bitOr(r, a, b) => NumbersNatural' /\ Meant!Meaning(call')
  BY <1>3, PutVal DEF bitOr, Called, Meant!Meaning, Meant!BitMeaning
<1>7. bitXor(r, a, b) => NumbersNatural' /\ Meant!Meaning(call')
  BY <1>4, PutVal DEF bitXor, Called, Meant!Meaning, Meant!BitMeaning
<1> QED
  BY <1>5, <1>6, <1>7

\* subtract: a negative difference is thrown, and leaves the receiver or makes it zero.
LEMMA SubtractMeans ==
  ASSUME NumbersNatural, NEW r \in Reg, NEW a \in Reg, NEW b \in Reg, subtract(r, a, b)
  PROVE  NumbersNatural' /\ Meant!Meaning(call')
<1> DEFINE x == num[a]
           y == num[b]
           diff == Difference(x, y)
<1>1. x \in Natural /\ y \in Natural /\ Val(x) \in Nat /\ Val(y) \in Nat /\ len(x) \in Nat /\ len(y) \in Nat
  BY ValNat DEF NumbersNatural
<1>2. call'.op = "subtract" /\ call'.r = r /\ call'.a = a /\ call'.b = b
  BY DEF subtract, Called
<1> SUFFICES NumbersNatural' /\ Meant!Put(r, Val(x) - Val(y))
  BY <1>2 DEF Meant!Meaning
<1>3. CASE len(y) = 0 /\ Put(r, x)
  <2>1. Val(y) = 0
    BY <1>1, <1>3, OfNatural
  <2>2. Val(x) - Val(y) = Val(x)
    BY <1>1, <2>1
  <2>3. NumbersNatural' /\ Meant!Put(r, Val(x))
    BY <1>1, <1>3, PutVal
  <2> QED
    BY <2>2, <2>3
<1>4. CASE len(x) < len(y) /\ Throw
  <2>1. Val(x) < Val(y)
    BY <1>1, <1>4, ShorterIsLess
  <2>2. Val(x) - Val(y) \notin Nat
    BY <1>1, <2>1
  <2> QED
    BY <1>4, <2>2, NegativeVal
<1>5. CASE /\ len(x) >= len(y) /\ len(y) > 0
           /\ \/ ~diff.carry /\ Put(r, zapLeadingZeros(diff.blk))
              \/ diff.carry /\ r \in {a, b} /\ Throw
              \/ /\ diff.carry /\ r \notin {a, b}
                 /\ num' = [num EXCEPT ![r] = Zero] /\ out' = Thrown
  <2>1. /\ diff.blk \in [0..len(x) - 1 -> Blk] /\ diff.carry \in BOOLEAN
        /\ diff.carry <=> Val(x) < Val(y)
        /\ ~diff.carry => Places(diff.blk, len(x)) = Val(x) - Val(y)
    BY <1>1, <1>5, DifferenceVal
  <2> HIDE DEF diff
  <2>2. CASE ~diff.carry
    <3>1. /\ zapLeadingZeros(diff.blk) \in Natural
          /\ Val(zapLeadingZeros(diff.blk)) = Val(x) - Val(y)
      BY <1>1, <2>1, <2>2, ZapsLeadingZeros
    <3>2. Put(r, zapLeadingZeros(diff.blk))
      BY <1>5, <2>2
    <3>3. NumbersNatural' /\ Meant!Put(r, Val(zapLeadingZeros(diff.blk)))
      BY <3>1, <3>2, PutVal
    <3> QED
      BY <3>1, <3>3
  <2>3. CASE diff.carry
    <3>1. Val(x) - Val(y) \notin Nat
      BY <1>1, <2>1, <2>3
    <3>2. CASE Throw
      BY <3>1, <3>2, NegativeVal
    <3>3. CASE num' = [num EXCEPT ![r] = Zero] /\ out' = Thrown
      <4>1. NumbersNatural'
        BY <3>3, ZeroVal DEF NumbersNatural
      <4>2. [t \in Reg |-> Val(num[t])]' = [[t \in Reg |-> Val(num[t])] EXCEPT ![r] = 0]
        BY <3>3, ZeroVal DEF NumbersNatural
      <4> QED
        BY <3>1, <3>3, <4>1, <4>2 DEF Meant!Put, Meant!Throw, Thrown
    <3> QED
      BY <1>5, <2>3, <3>2, <3>3
  <2> QED
    BY <2>1, <2>2, <2>3
<1> QED
  BY <1>3, <1>4, <1>5 DEF subtract

\* divideWithRemainder, with all ways in which its operands may be one.
LEMMA DivideMeans ==
  ASSUME NumbersNatural, NEW r \in Reg, NEW b \in Reg, NEW q \in Reg,
         divideWithRemainder(r, b, q)
  PROVE  NumbersNatural' /\ Meant!Meaning(call')
<1> DEFINE d == Division(num[r], num[b])
           v == [t \in Reg |-> Val(num[t])]
<1>1. num[r] \in Natural /\ num[b] \in Natural /\ Val(num[r]) \in Nat /\ Val(num[b]) \in Nat
  BY ValNat DEF NumbersNatural
<1>2. /\ d.q \in Natural /\ d.r \in Natural
      /\ Val(d.q) = Meant!Quotient(Val(num[r]), Val(num[b]))
      /\ Val(d.r) = Meant!Remainder(Val(num[r]), Val(num[b]))
  <2>1. /\ d.q \in Natural /\ d.r \in Natural
        /\ Val(num[b]) = 0 => Val(d.q) = 0 /\ Val(d.r) = Val(num[r])
        /\ Val(num[b]) > 0 => /\ Val(d.q) = Val(num[r]) \div Val(num[b])
                              /\ Val(d.r) = Val(num[r]) % Val(num[b])
    BY <1>1, DivisionVal
  <2> HIDE DEF d
  <2> QED
    BY <1>1, <2>1, SameQuotient
<1>3. CASE r = q
  <2>1. Throw
    BY <1>3 DEF divideWithRemainder
  <2>2. NumbersNatural' /\ Meant!Throw(r) /\ UNCHANGED v
    BY <2>1, ThrowVal DEF Throw
  <2> QED
    BY <1>3, <2>2 DEF divideWithRemainder, Called, Meant!Meaning, Meant!Divide
<1>4. CASE r # q
  <2>1. num' = [num EXCEPT ![r] = d.r, ![q] = d.q] /\ out' = Returned(0)
    BY <1>4 DEF divideWithRemainder
  <2> HIDE DEF d
  <2>2. NumbersNatural'
    BY <1>2, <1>4, <2>1 DEF NumbersNatural
  <2>3. v' = [v EXCEPT ![r] = Val(d.r), ![q] = Val(d.q)]
    BY <1>4, <2>1 DEF NumbersNatural
  <2>4. Meant!Divide(r, b, q)
    BY <1>2, <1>4, <2>1, <2>3 DEF Meant!Divide, Meant!Returned, Returned
  <2> QED
    BY <2>2, <2>4 DEF divideWithRemainder, Called, Meant!Meaning
<1> QED
  BY <1>3, <1>4

\* The quotient and the remainder by themselves: a length of zero is a number of zero.
LEMMA SlashMeans ==
  ASSUME NumbersNatural, NEW r \in Reg, NEW a \in Reg, NEW b \in Reg
  PROVE  /\ Slash(r, a, b) => NumbersNatural' /\ Meant!Meaning(call')
         /\ Percent(r, a, b) => NumbersNatural' /\ Meant!Meaning(call')
<1> DEFINE d == Division(num[a], num[b])
<1>1. num[a] \in Natural /\ num[b] \in Natural /\ Val(num[a]) \in Nat /\ Val(num[b]) \in Nat
  BY ValNat DEF NumbersNatural
<1>2. len(num[b]) = 0 <=> Val(num[b]) = 0
  BY <1>1, OfNatural
<1>3. CASE len(num[b]) = 0
  BY <1>2, <1>3, ThrowVal DEF Slash, Percent, Called, Meant!Meaning
<1>4. CASE len(num[b]) # 0
  <2>1. Val(num[b]) > 0
    BY <1>1, <1>2, <1>4
  <2>2. /\ d.q \in Natural /\ d.r \in Natural
        /\ Val(d.q) = Val(num[a]) \div Val(num[b]) /\ Val(d.r) = Val(num[a]) % Val(num[b])
    BY <1>1, <2>1, DivisionVal
  <2> HIDE DEF d
  <2>3. /\ Val(d.q) = Meant!Quotient(Val(num[a]), Val(num[b]))
        /\ Val(d.r) = Meant!Remainder(Val(num[a]), Val(num[b]))
    BY <1>1, <2>1, <2>2, SameQuotient
  <2>4. Slash(r, a, b) => Called("/", r, a, b, 0) /\ Put(r, d.q)
    BY <1>4 DEF Slash, d
  <2>5. Percent(r, a, b) => Called("%", r, a, b, 0) /\ Put(r, d.r)
    BY <1>4 DEF Percent, d
  <2>6. /\ Put(r, d.q) => NumbersNatural' /\ Meant!Put(r, Val(d.q))
        /\ Put(r, d.r) => NumbersNatural' /\ Meant!Put(r, Val(d.r))
    BY <2>2, PutVal
  <2>7. Slash(r, a, b) => NumbersNatural' /\ Meant!Meaning(call')
    BY <1>2, <1>4, <2>3, <2>4, <2>6 DEF Called, Meant!Meaning
  <2>8. Percent(r, a, b) => NumbersNatural' /\ Meant!Meaning(call')
    BY <1>2, <1>4, <2>3, <2>5, <2>6 DEF Called, Meant!Meaning
  <2> QED
    BY <2>7, <2>8
<1> QED
  BY <1>3, <1>4

\* increment and decrement: there is none less than zero.
LEMMA StepByOneMeans ==
  ASSUME NumbersNatural, NEW r \in Reg
  PROVE  /\ increment(r) => NumbersNatural' /\ Meant!Meaning(call')
         /\ decrement(r) => NumbersNatural' /\ Meant!Meaning(call')
<1> DEFINE x == num[r]
<1>1. x \in Natural /\ Val(x) \in Nat /\ len(x) \in Nat /\ (len(x) = 0 <=> Val(x) = 0)
  BY OfNatural DEF NumbersNatural
<1>2. ASSUME increment(r)
      PROVE  NumbersNatural' /\ Meant!Meaning(call')
  <2> DEFINE sum == Ripple("add", x, Zeros(len(x)), 0, len(x), TRUE)
             z == IF sum.carry THEN Extended(sum.blk, 1) ELSE sum.blk
  <2>1. z \in Natural /\ Val(z) = Val(x) + 1
    BY <1>1, IncrementVal
  <2>2. Called("increment", r, r, r, 0) /\ Put(r, z)
    BY <1>2 DEF increment
  <2> HIDE DEF z
  <2>3. NumbersNatural' /\ Meant!Put(r, Val(z))
    BY <2>1, <2>2, PutVal
  <2> QED
    BY <2>1, <2>2, <2>3 DEF Called, Meant!Meaning
<1>3. ASSUME decrement(r)
      PROVE  NumbersNatural' /\ Meant!Meaning(call')
  <2> DEFINE z == Zap(Ripple("subtract", x, Zeros(len(x)), 0, len(x), TRUE).blk)
  <2>1. CASE len(x) = 0
    <3>1. Val(x) - 1 \notin Nat
      BY <1>1, <2>1
    <3>2. Called("decrement", r, r, r, 0) /\ Throw
      BY <1>3, <2>1 DEF decrement
    <3>3. NumbersNatural' /\ Meant!Put(r, Val(x) - 1)
      BY <3>1, <3>2, NegativeVal
    <3> QED
      BY <3>2, <3>3 DEF Called, Meant!Meaning
  <2>2. CASE len(x) # 0
    <3> len(x) > 0
      BY <1>1, <2>2
    <3>1. z \in Natural /\ Val(z) = Val(x) - 1
      BY <1>1, DecrementVal
    <3>2. Called("decrement", r, r, r, 0) /\ Put(r, z)
      BY <1>3, <2>2 DEF decrement
    <3> HIDE DEF z
    <3>3. NumbersNatural' /\ Meant!Put(r, Val(z))
      BY <3>1, <3>2, PutVal
    <3> QED
      BY <3>1, <3>2, <3>3 DEF Called, Meant!Meaning
  <2> QED
    BY <2>1, <2>2
<1> QED
  BY <1>2, <1>3

\* Comparisons mean what they return: equal numbers have the same blocks.
LEMMA CompareMeans ==
  ASSUME NumbersNatural, NEW a \in Reg, NEW b \in Reg
  PROVE  /\ Compare(a, b) => NumbersNatural' /\ Meant!Meaning(call')
         /\ Equal(a, b) => NumbersNatural' /\ Meant!Meaning(call')
<1>1. num[a] \in Natural /\ num[b] \in Natural /\ Val(num[a]) \in Nat /\ Val(num[b]) \in Nat
  BY ValNat DEF NumbersNatural
<1>2. compareTo(num[a], num[b]) = Meant!Sign(Val(num[a]) - Val(num[b]))
  <2>1. CASE Val(num[a]) < Val(num[b])
    <3>1. compareTo(num[a], num[b]) = -1
      BY <1>1, <2>1, CompareVal
    <3> QED
      BY <1>1, <2>1, <3>1 DEF Meant!Sign
  <2>2. CASE Val(num[a]) > Val(num[b])
    <3>1. compareTo(num[a], num[b]) = 1
      BY <1>1, <2>2, CompareVal
    <3> QED
      BY <1>1, <2>2, <3>1 DEF Meant!Sign
  <2>3. CASE Val(num[a]) = Val(num[b])
    <3>1. compareTo(num[a], num[b]) = 0
      BY <1>1, <2>3, CompareVal
    <3> QED
      BY <1>1, <2>3, <3>1 DEF Meant!Sign
  <2> QED
    BY <1>1, <2>1, <2>2, <2>3
<1>3. (num[a] = num[b]) = (Val(num[a]) = Val(num[b]))
  BY <1>1, CompareVal
<1>4. Compare(a, b) => NumbersNatural' /\ Meant!Meaning(call')
  BY <1>2, AnswerVal DEF Compare, Called, Meant!Meaning
<1>5. Equal(a, b) => NumbersNatural' /\ Meant!Meaning(call')
  BY <1>3, AnswerVal DEF Equal, Called, Meant!Meaning
<1> QED
  BY <1>4, <1>5

\* Among the ints the pathological shift is the least.
LEMMA PathologicalShift ==
  ASSUME IntBits \in Nat \ {0}, NEW b \in Int32
  PROVE  /\ b \in Int
         /\ Pathological(b) <=> b \in {c \in Int32 : Pathological(c)}
         /\ -b \in {c \in Int32 : Pathological(c)} => Pathological(b)
<1> DEFINE P == Power(2, IntBits - 1)
<1>1. P \in Nat /\ P > 0 /\ Power(2, IntBits) = 2 * P
  <2>1. IntBits - 1 \in Nat /\ (IntBits - 1) + 1 = IntBits
    OBVIOUS
  <2> QED
    BY <2>1, TwoPowerNat
<1>2. ASSUME NEW c \in -P..P - 1, c < 0, (2 * c) % (2 * P) = 0
      PROVE  c = -P
  <2>1. c \in Int /\ -P <= c
    BY <1>1, <1>2
  <2>2. CASE c # -P
    <3>1. 2 * c + 2 * P \in 0..2 * P - 1 /\ 2 * c + 2 * P # 0 /\ 2 * P > 0
      BY <1>1, <1>2, <2>1, <2>2
    <3>2. (2 * c) % (2 * P) = 2 * c + 2 * P
      <4> DEFINE u == 2 * c
                 m == 2 * P
      <4>1. u \in Int /\ m \in Nat /\ m > 0 /\ u + m >= 0 /\ u + m < m
        BY <1>1, <1>2, <2>1, <3>1
      <4> HIDE DEF u, m
      <4>2. u % m = u + m
        BY <4>1
      <4> QED
        BY <4>2 DEF u, m
    <3> QED
      BY <1>2, <3>1, <3>2
  <2> QED
    BY <2>2
<1>3. Int32 = -P..P - 1
  BY DEF Int32
<1>4. \A c : Pathological(c) <=> c < 0 /\ (2 * c) % (2 * P) = 0
  BY <1>1 DEF Pathological
<1> HIDE DEF P
<1>5. b \in Int /\ b < P
  BY <1>1, <1>3
<1>6. -b \in {c \in Int32 : Pathological(c)} => Pathological(b)
  <2>1. ASSUME -b \in Int32, Pathological(-b)
        PROVE  FALSE
    <3>1. -b = -P
      BY <1>2, <1>3, <1>4, <2>1
    <3> QED
      BY <1>1, <1>5, <3>1
  <2> QED
    BY <2>1
<1> QED
  BY <1>5, <1>6

\* Both shifts, of a number that is not zero or by less than a block.
LEMMA ShiftMeans ==
  ASSUME NumbersNatural, IntBits \in Nat \ {0}, ~ShiftsZero,
         NEW r \in Reg, NEW a \in Reg, NEW b \in Int32
  PROVE  /\ bitShiftLeft(r, a, b) => NumbersNatural' /\ Meant!Meaning(call')
         /\ bitShiftRight(r, a, b) => NumbersNatural' /\ Meant!Meaning(call')
<1> DEFINE x == num[a]
           Unimplemented == {c \in Int32 : Pathological(c)}
<1>1. /\ x \in Natural /\ Val(x) \in Nat /\ len(x) \in Nat /\ b \in Int /\ N \in Nat /\ N > 0
      /\ Pathological(b) <=> b \in Unimplemented
      /\ -b \in Unimplemented => Pathological(b)
  BY ValNat, PathologicalShift, Weights DEF NumbersNatural
<1> HIDE DEF Unimplemented
<1>2. ASSUME NEW n \in {b, -b}, Called("shift", r, a, a, n), Shift(r, a, n, b)
      PROVE  NumbersNatural' /\ Meant!Meaning(call')
  <2>1. n \in Int /\ {n, -n} = {b, -b}
    BY <1>1
  <2>2. {n, -n} \intersect Unimplemented # {} <=> Pathological(b)
    BY <1>1, <2>1
  <2>3. len(x) > 0 \/ n < N
    BY <1>1, <1>2 DEF Shift
  <2>4. CASE Pathological(b)
    <3>1. NumbersNatural' /\ Meant!Throw(r)
      BY <1>2, <2>4, ThrowVal DEF Shift
    <3> QED
      BY <1>2, <2>2, <2>4, <3>1 DEF Called, Meant!Meaning, Meant!BitMeaning, Unimplemented
  <2>5. CASE ~Pathological(b) /\ n >= 0
    <3>1. ShiftLeft(x, n) \in Natural /\ Val(ShiftLeft(x, n)) = Val(x) * Power(2, n)
      BY <1>1, <2>1, <2>3, <2>5, ShiftLeftVal
    <3>2. Val(ShiftLeft(x, n)) = Meant!Shifted(Val(x), n)
      BY <2>5, <3>1, SamePower DEF Meant!Shifted
    <3>3. NumbersNatural' /\ Meant!Put(r, Val(ShiftLeft(x, n)))
      BY <1>2, <2>5, <3>1, PutVal DEF Shift
    <3> QED
      BY <1>2, <2>2, <2>5, <3>2, <3>3 DEF Called, Meant!Meaning, Meant!BitMeaning, Unimplemented
  <2>6. CASE ~Pathological(b) /\ ~(n >= 0)
    <3>1. -n \in Nat /\ -n > 0
      BY <2>1, <2>6
    <3>2. ShiftRight(x, -n) \in Natural /\ Val(ShiftRight(x, -n)) = Val(x) \div Power(2, -n)
      BY <1>1, <3>1, ShiftRightVal
    <3>3. Val(ShiftRight(x, -n)) = Meant!Shifted(Val(x), n)
      BY <2>6, <3>2, SamePower DEF Meant!Shifted
    <3>4. NumbersNatural' /\ Meant!Put(r, Val(ShiftRight(x, -n)))
      BY <1>2, <2>6, <3>2, PutVal DEF Shift
    <3> QED
      BY <1>2, <2>2, <2>6, <3>3, <3>4 DEF Called, Meant!Meaning, Meant!BitMeaning, Unimplemented
  <2> QED
    BY <2>4, <2>5, <2>6
<1> QED
  BY <1>2 DEF bitShiftLeft, bitShiftRight

\* Blocks and bits that are set.
LEMMA DigitMeans ==
  ASSUME NumbersNatural, NEW r \in Reg, NEW i \in Nat
  PROVE  /\ \A d \in Blk : setABlock(r, i, d) => NumbersNatural' /\ Meant!Meaning(call')
         /\ \A d \in 0..1 : setABit(r, i, d) => NumbersNatural' /\ Meant!Meaning(call')
<1> DEFINE x == num[r]
<1>1. /\ x \in Natural /\ Val(x) \in Nat /\ len(x) \in Nat /\ x \in [0..len(x) - 1 -> Blk]
      /\ Val(x) = Places(x, len(x))
  BY OfNatural DEF NumbersNatural
<1>2. ASSUME NEW d \in Blk, setABlock(r, i, d)
      PROVE  NumbersNatural' /\ Meant!Meaning(call')
  <2> DEFINE z == setBlock(x, i, d)
             g == getBlock(x, i)
             W == Weight(i)
  <2>1. z \in Natural /\ Val(z) + g * W = Val(x) + d * W
    BY <1>1, SetBlockVal
  <2>2. g \in Blk /\ (Val(x) \div W) % Radix = g
    BY <1>1, BlockOf
  <2>3. Meant!WithDigit(Val(x), Radix, i, d) = Val(x) + (d - ((Val(x) \div W) % Radix)) * W
    BY SamePower DEF Meant!WithDigit, Weight
  <2>4. Called("digit", r, r, r, [base |-> Radix, index |-> i, digit |-> d]) /\ Put(r, z)
    BY <1>2 DEF setABlock
  <2>5. g \in Nat /\ d \in Nat
    BY <2>2, BlkNat
  <2>6. W \in Nat
    BY WeightNat
  <2>7. Val(z) \in Nat
    BY <2>1, ValNat
  <2> HIDE DEF z, g, W
  <2>8. (d - g) * W = d * W - g * W /\ d * W \in Int /\ g * W \in Int
    BY <2>5, <2>6
  <2>9. Val(z) = Meant!WithDigit(Val(x), Radix, i, d)
    BY <1>1, <2>1, <2>2, <2>3, <2>7, <2>8
  <2>10. NumbersNatural' /\ Meant!Put(r, Val(z))
    BY <2>1, <2>4, PutVal
  <2> QED
    BY <2>4, <2>9, <2>10 DEF Called, Meant!Meaning, Meant!BitMeaning
<1>3. ASSUME NEW d \in 0..1, setABit(r, i, d)
      PROVE  NumbersNatural' /\ Meant!Meaning(call')
  <2> DEFINE z == setBit(x, i, d)
  <2>1. z \in Natural /\ Val(z) = Val(x) + (d - ((Val(x) \div Power(2, i)) % 2)) * Power(2, i)
    BY <1>1, SetBitVal
  <2>2. Val(z) = Meant!WithDigit(Val(x), 2, i, d)
    BY <2>1, SamePower DEF Meant!WithDigit
  <2>3. Called("digit", r, r, r, [base |-> 2, index |-> i, digit |-> d]) /\ Put(r, z)
    BY <1>3 DEF setABit
  <2> HIDE DEF z
  <2>4. NumbersNatural' /\ Meant!Put(r, Val(z))
    BY <2>1, <2>3, PutVal
  <2> QED
    BY <2>2, <2>3, <2>4 DEF Called, Meant!Meaning, Meant!BitMeaning
<1> QED
  BY <1>2, <1>3

\* Bits that are read, and the length in bits.
LEMMA ReadsMean ==
  ASSUME NumbersNatural, NEW a \in Reg
  PROVE  /\ \A i \in Nat : getABit(a, i) => NumbersNatural' /\ Meant!Meaning(call')
         /\ getBitLength(a) => NumbersNatural' /\ Meant!Meaning(call')
<1> DEFINE x == num[a]
<1>1. /\ x \in Natural /\ Val(x) \in Nat /\ len(x) \in Nat /\ x \in [0..len(x) - 1 -> Blk]
      /\ Val(x) = Places(x, len(x))
  BY OfNatural DEF NumbersNatural
<1>2. ASSUME NEW i \in Nat, getABit(a, i)
      PROVE  NumbersNatural' /\ Meant!Meaning(call')
  <2>1. getBit(x, i) = Meant!Bit(Val(x), i)
    BY <1>1, BitOf, SameBit DEF BitAt
  <2>2. Called("bit", a, a, a, i) /\ Answer(getBit(x, i))
    BY <1>2 DEF getABit
  <2> QED
    BY <2>1, <2>2, AnswerVal DEF Called, Meant!Meaning, Meant!BitMeaning
<1>3. ASSUME getBitLength(a)
      PROVE  NumbersNatural' /\ Meant!Meaning(call')
  <2>1. bitLength(x) = Meant!BitLength(Val(x))
    BY <1>1, BitLengthVal, SameBitLength
  <2>2. Called("bitLength", a, a, a, 0) /\ Answer(bitLength(x))
    BY <1>3 DEF getBitLength
  <2> QED
    BY <2>1, <2>2, AnswerVal DEF Called, Meant!Meaning, Meant!BitMeaning
<1> QED
  BY <1>2, <1>3

\* The constructors.
LEMMA AssignMeans ==
  ASSUME NumbersNatural, NEW r \in Reg
  PROVE  /\ \A x \in Int : x < Radix /\ initFromPrimitive(r, x) => NumbersNatural' /\ Meant!Meaning(call')
         /\ \A l \in Nat : \A b \in [0..l - 1 -> Blk] :
              BlockArray(r, b) => NumbersNatural' /\ Meant!Meaning(call')
<1>1. ASSUME NEW x \in Int, x < Radix, initFromPrimitive(r, x)
      PROVE  NumbersNatural' /\ Meant!Meaning(call')
  <2>1. Called("assign", r, r, r, x)
    BY <1>1 DEF initFromPrimitive
  <2>2. CASE x < 0
    <3>1. NumbersNatural' /\ Meant!Put(r, x)
      BY <1>1, <2>2, NegativeVal DEF initFromPrimitive
    <3> QED
      BY <2>1, <3>1 DEF Called, Meant!Meaning
  <2>3. CASE x = 0
    <3>1. NumbersNatural' /\ Meant!Put(r, Val(Zero))
      BY <1>1, <2>3, ZeroVal, PutVal DEF initFromPrimitive
    <3> QED
      BY <2>1, <2>3, <3>1, ZeroVal DEF Called, Meant!Meaning
  <2>4. CASE x > 0
    <3> DEFINE z == [i \in {0} |-> x]
    <3>1. x \in Nat /\ x \in Blk
      BY <1>1, <2>4, BlkNat
    <3>2. z \in [0..1 - 1 -> Blk] /\ z[0] = x /\ {0} = 0..1 - 1
      BY <3>1
    <3> HIDE DEF z
    <3>3. z \in Natural
      <4>1. 1 \in Nat /\ (1 > 0 => z[1 - 1] # 0)
        BY <2>4, <3>2
      <4> QED
        BY <3>2, <4>1, InNatural
    <3>4. Val(z) = Places(z, 1)
      BY <3>2, ArrayVal
    <3>5. Places(z, 1) = x
      <4>1. Places(z, 0) = 0 /\ Places(z, 0 + 1) = Places(z, 0) + z[0] * Weight(0)
        BY PlacesStep
      <4> QED
        BY <3>1, <3>2, <4>1, Weights
    <3>6. Put(r, z)
      BY <1>1, <2>4 DEF initFromPrimitive, z
    <3>7. NumbersNatural' /\ Meant!Put(r, Val(z))
      BY <3>3, <3>6, PutVal
    <3> QED
      BY <2>1, <3>4, <3>5, <3>7 DEF Called, Meant!Meaning
  <2> QED
    BY <1>1, <2>2, <2>3, <2>4
<1>2. ASSUME NEW l \in Nat, NEW b \in [0..l - 1 -> Blk], BlockArray(r, b)
      PROVE  NumbersNatural' /\ Meant!Meaning(call')
  <2>1. Called("assign", r, r, r, Val(b)) /\ Put(r, zapLeadingZeros(b))
    BY <1>2 DEF BlockArray
  <2>2. zapLeadingZeros(b) \in Natural /\ Val(zapLeadingZeros(b)) = Val(b)
    BY ZapsLeadingZeros, ArrayVal
  <2>3. NumbersNatural' /\ Meant!Put(r, Val(zapLeadingZeros(b)))
    BY <2>1, <2>2, PutVal
  <2> QED
    BY <2>1, <2>2, <2>3 DEF Called, Meant!Meaning
<1> QED
  BY <1>1, <1>2

\* A block that is cast to a type and back.
LEMMA CastVal ==
  ASSUME NEW b \in Nat, b < Radix, NEW X \in [bits : 1..N, signed : BOOLEAN]
  PROVE  /\ Power(2, X.bits) \in Nat /\ Power(2, X.bits - 1) \in Nat /\ Power(2, X.bits) <= Radix
         /\ Power(2, X.bits) = 2 * Power(2, X.bits - 1) /\ Power(2, X.bits - 1) > 0
         /\ X.signed => (Cast(X, b) % Radix = b /\ Cast(X, b) >= 0 <=> b < Power(2, X.bits - 1))
         /\ ~X.signed => (Cast(X, b) % Radix = b <=> b < Power(2, X.bits))
         /\ b < Power(2, X.bits - (IF X.signed THEN 1 ELSE 0)) => Cast(X, b) = b
<1> DEFINE k == X.bits
           F == Power(2, k)
           H == Power(2, k - 1)
           low == b % F
<1>1. k \in Nat /\ k > 0 /\ k - 1 \in Nat /\ k <= N /\ N \in Nat /\ X.signed \in BOOLEAN /\ (k - 1) + 1 = k
  BY Weights
<1>2. F \in Nat /\ H \in Nat /\ H > 0 /\ F = 2 * H
  BY <1>1, TwoPowerNat
<1>3. F <= Radix
  BY <1>1, TwoPowersGrow DEF Radix
<1>4. Radix \in Nat /\ Radix > 0
  BY RadixNat
<1>5. Cast(X, b) = IF X.signed /\ low >= H THEN low - F ELSE low
  BY DEF Cast
<1> HIDE DEF F, H
<1>6. low \in Nat /\ low < F /\ low <= b /\ (b < F => low = b) /\ low < Radix
  <2>1. F > 0
    BY <1>2
  <2>2. b % F \in 0..F - 1
    BY <1>2, <2>1
  <2>3. b < F => b % F = b
    BY <1>2, <2>1
  <2> QED
    BY <1>2, <1>3, <1>4, <2>2, <2>3
<1> HIDE DEF low
<1>7. \A v \in Nat : v < Radix => v % Radix = v
  BY <1>4
<1>8. X.signed => (Cast(X, b) % Radix = b /\ Cast(X, b) >= 0 <=> b < H)
  <2>1. CASE low >= H
    BY <1>2, <1>5, <1>6, <1>7, <2>1
  <2>2. CASE low < H
    BY <1>2, <1>5, <1>6, <1>7, <2>2
  <2> QED
    BY <1>2, <1>6, <2>1, <2>2
<1>9. ~X.signed => (Cast(X, b) % Radix = b <=> b < F)
  BY <1>2, <1>5, <1>6, <1>7
<1>10. X.signed /\ b < H => Cast(X, b) = b
  BY <1>2, <1>5, <1>6
<1>11. ~X.signed /\ b < F => Cast(X, b) = b
  BY <1>2, <1>5, <1>6
<1>12. Power(2, X.bits - (IF X.signed THEN 1 ELSE 0)) = IF X.signed THEN H ELSE F
  BY <1>1 DEF F, H
<1> QED
  BY <1>1, <1>2, <1>3, <1>8, <1>9, <1>10, <1>11, <1>12 DEF F, H

\* A number is converted to a type if it is one of its values, and stays the same.
LEMMA ConvertMeans ==
  ASSUME NumbersNatural, NEW a \in Reg, NEW X \in [bits : 1..N, signed : BOOLEAN],
         convertToPrimitive(a, X)
  PROVE  NumbersNatural' /\ Meant!Meaning(call')
<1> DEFINE x == num[a]
           F == Power(2, X.bits)
           H == Power(2, X.bits - 1)
           range == IF X.signed THEN -H..H - 1 ELSE 0..F - 1
           b == x[0]
           fits == len(x) = 1 /\ Cast(X, b) % Radix = b /\ (X.signed => Cast(X, b) >= 0)
<1>1. /\ x \in Natural /\ Val(x) \in Nat /\ len(x) \in Nat /\ x \in [0..len(x) - 1 -> Blk]
      /\ Val(x) = Places(x, len(x)) /\ (Val(x) = 0 <=> len(x) = 0)
      /\ len(x) > 0 => Weight(len(x) - 1) <= Val(x)
  BY OfNatural DEF NumbersNatural
<1>2. /\ Called("convert", a, a, a, range)
      /\ IF len(x) = 0 THEN Answer(0) ELSE IF fits THEN Answer(Cast(X, b)) ELSE Throw
  BY DEF convertToPrimitive
<1>3. F \in Nat /\ H \in Nat /\ F <= Radix /\ F = 2 * H /\ H > 0 /\ Radix \in Nat
  BY CastVal, RadixNat
<1>4. (Val(x) \in range /\ Answer(Val(x))) \/ (Val(x) \notin range /\ Throw)
  <2>1. CASE len(x) = 0
    <3>1. Val(x) = 0 /\ 0 \in range
      BY <1>1, <1>3, <2>1
    <3> QED
      BY <1>2, <2>1, <3>1
  <2>2. CASE len(x) = 1
    <3>1. b \in Nat /\ b < Radix
      BY <1>1, <2>2, BlkNat
    <3>2. Val(x) = b
      <4>1. Places(x, 0) = 0 /\ Places(x, 0 + 1) = Places(x, 0) + x[0] * Weight(0)
        BY PlacesStep
      <4> QED
        BY <1>1, <2>2, <3>1, <4>1, Weights
    <3>3. /\ X.signed => (Cast(X, b) % Radix = b /\ Cast(X, b) >= 0 <=> b < H)
          /\ ~X.signed => (Cast(X, b) % Radix = b <=> b < F)
          /\ b < Power(2, X.bits - (IF X.signed THEN 1 ELSE 0)) => Cast(X, b) = b
      BY <3>1, CastVal
    <3>4. X.signed \in BOOLEAN /\ X.bits \in Int
      OBVIOUS
    <3> HIDE DEF b
    <3>5. fits <=> b \in range
      <4>1. CASE X.signed
        BY <1>3, <2>2, <3>1, <3>3, <4>1
      <4>2. CASE ~X.signed
        BY <1>3, <2>2, <3>1, <3>3, <4>2
      <4> QED
        BY <4>1, <4>2
    <3>6. b \in range => Cast(X, b) = b
      <4>1. CASE X.signed
        BY <1>3, <3>1, <3>3, <4>1
      <4>2. CASE ~X.signed
        BY <1>3, <3>1, <3>3, <3>4, <4>2
      <4> QED
        BY <4>1, <4>2
    <3> QED
      BY <1>2, <2>2, <3>2, <3>5, <3>6
  <2>3. CASE len(x) > 1
    <3>1. len(x) - 1 \in Nat /\ 1 <= len(x) - 1
      BY <1>1, <2>3
    <3>2. Weight(1) <= Weight(len(x) - 1) /\ Weight(len(x) - 1) \in Nat
      BY <3>1, WeightsGrow, WeightNat
    <3>3. Weight(1) = Radix
      <4>1. Weight(0 + 1) = Radix * Weight(0) /\ Weight(0) = 1
        BY Weights
      <4> QED
        BY <1>3, <4>1
    <3>4. Radix <= Val(x)
      BY <1>1, <1>3, <2>3, <3>2, <3>3
    <3>5. Val(x) \notin range
      BY <1>1, <1>3, <3>4
    <3>6. ~fits /\ len(x) # 0
      BY <2>3
    <3> QED
      BY <1>2, <3>5, <3>6
  <2> QED
    BY <1>1, <2>1, <2>2, <2>3
<1> HIDE DEF range
<1>5. (Val(x) \in range /\ NumbersNatural' /\ Meant!Answer(Val(x)))
      \/ (Val(x) \notin range /\ NumbersNatural' /\ Meant!Throw(a))
  BY <1>4, AnswerVal, ThrowVal
<1> QED
  BY <1>2, <1>5 DEF Called, Meant!Meaning

-----------------------------------------------------------------------------
(* The theorems. *)

\* What is asked of the parameters.  That zero is not shifted by a block or more (ShiftsZero,
\* see bitShiftLeft in BigUnsigned.cc) is asked separately.
Parameters ==
  /\ {"x", "y", "z"} \subseteq Reg
  /\ IntBits \in Nat \ {0} /\ MaxLength \in Nat
  /\ Types \subseteq [bits : 1..N, signed : BOOLEAN]

\* The first numbers are those of constructors.
LEMMA InitNatural ==
  ASSUME Parameters
  PROVE  Init => NumbersNatural /\ Meant!Init
<1> SUFFICES ASSUME Init
             PROVE  NumbersNatural /\ Meant!Init
  OBVIOUS
<1>1. Numbers \subseteq Natural
  <2> SUFFICES ASSUME NEW l \in 0..MaxLength, NEW b \in [0..l - 1 -> Blk]
               PROVE  zapLeadingZeros(b) \in Natural
    BY DEF Numbers
  <2>1. l \in Nat
    BY DEF Parameters
  <2> QED
    BY <2>1, ZapsLeadingZeros
<1>2. NumbersNatural
  BY <1>1, ZeroVal DEF Init, NumbersNatural
<1>3. [r \in Reg |-> Val(num[r])] \in [Reg -> Nat]
  BY <1>2, ValNat DEF NumbersNatural
<1> QED
  BY <1>2, <1>3 DEF Init, Meant!Init, Meant!Returned, Returned

\* Every call on two operands ...
LEMMA TwoOperandsMean ==
  ASSUME Parameters, NumbersNatural, TwoOperands
  PROVE  NumbersNatural' /\ Meant!Meaning(call')
<1>1. "x" \in Reg /\ {"x", "y"} \subseteq Reg
  BY DEF Parameters
<1>2. PICK r \in Reg, b \in {"x", "y"} :
        \/ add(r, "x", b) \/ subtract(r, "x", b) \/ multiply(r, "x", b)
        \/ bitAnd(r, "x", b) \/ bitOr(r, "x", b) \/ bitXor(r, "x", b)
        \/ divideWithRemainder("x", b, r)
        \/ Slash(r, "x", b) \/ Percent(r, "x", b)
        \/ r = "z" /\ (Compare("x", b) \/ Equal("x", b))
  BY DEF TwoOperands
<1>3. b \in Reg
  BY <1>1, <1>2
<1>4. CASE add(r, "x", b) \/ multiply(r, "x", b)
  BY <1>1, <1>3, <1>4, AddMeans
<1>5. CASE subtract(r, "x", b)
  BY <1>1, <1>3, <1>5, SubtractMeans
<1>6. CASE bitAnd(r, "x", b) \/ bitOr(r, "x", b) \/ bitXor(r, "x", b)
  BY <1>1, <1>3, <1>6, BitsMean
<1>7. CASE divideWithRemainder("x", b, r)
  BY <1>1, <1>3, <1>7, DivideMeans
<1>8. CASE Slash(r, "x", b) \/ Percent(r, "x", b)
  BY <1>1, <1>3, <1>8, SlashMeans
<1>9. CASE Compare("x", b) \/ Equal("x", b)
  BY <1>1, <1>3, <1>9, CompareMeans
<1> QED
  BY <1>2, <1>4, <1>5, <1>6, <1>7, <1>8, <1>9

\* ... on one ...
LEMMA OneOperandMeans ==
  ASSUME Parameters, ~ShiftsZero, NumbersNatural, OneOperand
  PROVE  NumbersNatural' /\ Meant!Meaning(call')
<1>1. {"x", "z"} \subseteq Reg /\ "x" \in Reg /\ MaxLength \in Nat /\ N \in Nat /\ N > 0 /\ IntBits \in Nat \ {0}
      /\ Types \subseteq [bits : 1..N, signed : BOOLEAN]
  BY Weights DEF Parameters
<1>2. ASSUME NEW r \in {"x", "z"}, NEW b \in Int32, bitShiftLeft(r, "x", b) \/ bitShiftRight(r, "x", b)
      PROVE  NumbersNatural' /\ Meant!Meaning(call')
  BY <1>1, <1>2, ShiftMeans
<1>3. CASE increment("x") \/ decrement("x")
  BY <1>1, <1>3, StepByOneMeans
<1>4. ASSUME NEW i \in 0..MaxLength, NEW d \in Blk, setABlock("x", i, d)
      PROVE  NumbersNatural' /\ Meant!Meaning(call')
  BY <1>1, <1>4, DigitMeans
<1>5. ASSUME NEW i \in 0..(MaxLength + 1) * N - 1,
             getABit("x", i) \/ \E d \in 0..1 : setABit("x", i, d)
      PROVE  NumbersNatural' /\ Meant!Meaning(call')
  <2>1. i \in Nat
    OBVIOUS
  <2> QED
    BY <1>1, <1>5, <2>1, DigitMeans, ReadsMean
<1>6. CASE getBitLength("x")
  BY <1>1, <1>6, ReadsMean
<1>7. ASSUME NEW X \in Types, convertToPrimitive("x", X)
      PROVE  NumbersNatural' /\ Meant!Meaning(call')
  BY <1>1, <1>7, ConvertMeans
<1> QED
  BY <1>2, <1>3, <1>4, <1>5, <1>6, <1>7 DEF OneOperand

\* ... and of a constructor means what arithmetic says.
LEMMA ConstructMeans ==
  ASSUME Parameters, NumbersNatural, Construct
  PROVE  NumbersNatural' /\ Meant!Meaning(call')
<1>1. "x" \in Reg /\ MaxLength \in Nat
  BY DEF Parameters
<1>2. ASSUME NEW x \in Int32 \intersect (-Power(2, N - 1)..Radix - 1), initFromPrimitive("x", x)
      PROVE  NumbersNatural' /\ Meant!Meaning(call')
  <2>1. Power(2, N - 1) \in Nat /\ Radix \in Nat
    BY TwoPowerNat, Weights, RadixNat
  <2>2. x \in Int /\ x < Radix
    BY <2>1
  <2> QED
    BY <1>1, <1>2, <2>2, AssignMeans
<1>3. ASSUME NEW l \in 0..MaxLength, NEW b \in [0..l - 1 -> Blk], BlockArray("x", b)
      PROVE  NumbersNatural' /\ Meant!Meaning(call')
  <2>1. l \in Nat
    BY <1>1
  <2> QED
    BY <1>1, <1>3, <2>1, AssignMeans
<1> QED
  BY <1>2, <1>3 DEF Construct

\* Every step keeps the numbers natural, without a leading zero, and means what Arithmetic
\* says of it.
LEMMA StepMeans ==
  ASSUME Parameters, ~ShiftsZero, NumbersNatural, [Next]_vars
  PROVE  NumbersNatural' /\ [Meant!Next]_(Meant!vars)
<1>1. CASE UNCHANGED vars
  BY <1>1 DEF vars, NumbersNatural, Meant!vars
<1>2. CASE TwoOperands \/ OneOperand \/ Construct
  BY <1>2, TwoOperandsMean, OneOperandMeans, ConstructMeans DEF Meant!Next
<1>3. CASE Go
  <2>1. NumbersNatural'
    BY <1>3, ZeroVal DEF Go, NumbersNatural
  <2>2. call'.op = "none"
    BY <1>3 DEF Go
  <2> QED
    BY <2>1, <2>2 DEF Meant!Next
<1> QED
  BY <1>1, <1>2, <1>3 DEF Next

\* No call, and no sequence of calls, leaves a leading zero on a number, which ==, compareTo
\* and the division rely on.
THEOREM NoLeadingZeros ==
  ASSUME Parameters, ~ShiftsZero
  PROVE  Spec => []Canonical
<1>1. Init => NumbersNatural
  BY InitNatural
<1>2. NumbersNatural /\ [Next]_vars => NumbersNatural'
  BY StepMeans
<1>3. NumbersNatural => Canonical
  BY DEF NumbersNatural, Canonical, Natural
<1> QED
  BY <1>1, <1>2, <1>3, PTL DEF Spec

\* BigUnsigned computes with natural numbers: every call of it, with blocks of any number of
\* bits, numbers of any length and operands that may be the same variable, is a step of
\* Arithmetic for the numbers that the blocks stand for, and throws where that does.
THEOREM NaturalsImplemented ==
  ASSUME Parameters, ~ShiftsZero
  PROVE  Spec => ComputesWithNumbers
<1>1. Init => NumbersNatural /\ Meant!Init
  BY InitNatural
<1>2. NumbersNatural /\ [Next]_vars => NumbersNatural' /\ [Meant!Next]_(Meant!vars)
  BY StepMeans
<1> QED
  BY <1>1, <1>2, PTL DEF Spec, ComputesWithNumbers, Meant!Spec
=============================================================================

------------------------------ MODULE Division ------------------------------
(* Facts about products, quotients, remainders and powers of integers, for the proofs  *)
(* about the numbers of bigint, the bytes of the hashes and the letters of Enigma.       *)
EXTENDS Integers, Powers, WellFoundedInduction, TLAPS

\* Dividing by a positive number leaves a remainder below it.
LEMMA DivMod ==
  ASSUME NEW x \in Int, NEW d \in Int, d > 0
  PROVE  /\ x \div d \in Int /\ x % d \in 0..d - 1
         /\ x = d * (x \div d) + (x % d)
  OBVIOUS

\* A product with a positive factor is at least that factor.
LEMMA ProductAtLeast ==
  ASSUME NEW d \in Int, d > 0, NEW k \in Int, k >= 1
  PROVE  d * k >= d
  OBVIOUS

\* Rules of signs and of distribution.
LEMMA Products ==
  ASSUME NEW d \in Int, NEW k \in Int
  PROVE  /\ d * k \in Int /\ d * (k + 1) = d * k + d
         /\ d * (-k) = -(d * k) /\ (-d) * k = -(d * k) /\ (-d) * (-k) = d * k
  OBVIOUS

\* Quotients of natural numbers are natural numbers.
LEMMA QuotientNat ==
  ASSUME NEW x \in Nat, NEW d \in Int, d > 0
  PROVE  x \div d \in Nat
<1> DEFINE q == x \div d
           r == x % d
<1>1. q \in Int /\ r \in 0..d - 1 /\ x = d * q + r
  BY DivMod
<1> HIDE DEF q, r
<1>2. ~(-q >= 1)
  <2> SUFFICES ASSUME -q >= 1 PROVE FALSE
    OBVIOUS
  <2>1. -q \in Int
    BY <1>1
  <2>2. d * (-q) >= d
    BY <2>1, ProductAtLeast
  <2>3. d * (-q) = -(d * q) /\ d * q \in Int
    BY <1>1, Products
  <2> QED
    BY <1>1, <2>2, <2>3
<1> QED
  BY <1>1, <1>2 DEF q

\* Quotient and remainder are unique.
LEMMA DivUnique ==
  ASSUME NEW x \in Int, NEW d \in Int, d > 0, NEW q \in Int, NEW r \in 0..d - 1, x = d * q + r
  PROVE  x \div d = q /\ x % d = r
<1> DEFINE p == x \div d
<1>1. /\ p \in Int /\ x % d \in 0..d - 1 /\ x = d * p + (x % d)
  BY DivMod
<1> HIDE DEF p
<1>2. d * (p - q) = r - (x % d) /\ d * (q - p) = (x % d) - r
  BY <1>1
<1>3. ~(p - q >= 1)
  BY <1>1, <1>2, ProductAtLeast
<1>4. ~(q - p >= 1)
  BY <1>1, <1>2, ProductAtLeast
<1>5. p = q
  BY <1>1, <1>3, <1>4
<1> QED
  BY <1>1, <1>5 DEF p

\* A set of natural numbers that is not empty has a least element.
LEMMA LeastNumber ==
  ASSUME NEW S, S \subseteq Nat, S # {}
  PROVE  \E x \in S : \A y \in S : x <= y
<1>1. \A x, y : x \in Nat /\ y \in Nat /\ y < x => <<y, x>> \in OpToRel(<, Nat)
  BY Zenon DEF OpToRel
<1>2. PICK x \in S : \A y \in S : ~ (<<y, x>> \in OpToRel(<, Nat))
  BY WFMin, NatLessThanWellFounded, Zenon
<1>3. \A y \in S : ~(y < x)
  BY <1>1, <1>2, Zenon
<1>. QED
  BY <1>3

\* Multiples grow with their factor.
LEMMA MultiplesGrow ==
  ASSUME NEW d \in Nat, NEW x \in Int, NEW y \in Int, x <= y
  PROVE  d * x \in Int /\ d * y \in Int /\ d * x <= d * y
<1>1. PICK e \in Nat : y = x + e
  <2>1. y - x \in Nat /\ y = x + (y - x)
    OBVIOUS
  <2>. QED
    BY <2>1
<1>2. d * y = d * x + d * e /\ d * e >= 0
  BY <1>1
<1>. QED
  BY <1>2

\* What is smaller than a divisor is its own remainder.
LEMMA SmallQuotient ==
  ASSUME NEW d \in Int, d > 0, NEW x \in 0..d - 1
  PROVE  x \div d = 0 /\ x % d = x
<1>1. x = d * 0 + x
  OBVIOUS
<1>. QED
  BY <1>1, DivUnique

\* The function that a recursive definition with a step of its own describes exists.
LEMMA IteratesExist ==
  ASSUME NEW V, NEW first \in V, NEW G \in [V -> V]
  PROVE  \E f \in [Nat -> V] : f[0] = first /\ \A k \in Nat : f[k + 1] = G[f[k]]
<1> DEFINE Chain(n, f) ==
      f \in [0..n -> V] /\ f[0] = first /\ \A k \in Nat : k < n => f[k + 1] = G[f[k]]
           Without == {n \in Nat : ~ \E f : Chain(n, f)}
<1>1. Without = {}
  <2> SUFFICES ASSUME Without # {} PROVE FALSE
    OBVIOUS
  <2>1. PICK n \in Without : \A m \in Without : n <= m
    BY LeastNumber
  <2>2. CASE n = 0
    <3>1. Chain(0, [k \in 0..0 |-> first])
      OBVIOUS
    <3>. QED
      BY <2>1, <2>2, <3>1
  <2>3. CASE n # 0
    <3>1. n - 1 \in Nat /\ n - 1 \notin Without
      BY <2>1, <2>3
    <3>2. PICK f : Chain(n - 1, f)
      BY <3>1
    <3> DEFINE h == [k \in 0..n |-> IF k = n THEN G[f[n - 1]] ELSE f[k]]
    <3>3. f[n - 1] \in V
      BY <3>1, <3>2
    <3>4. h \in [0..n -> V] /\ h[0] = first
      BY <2>1, <2>3, <3>1, <3>2, <3>3
    <3>5. ASSUME NEW k \in Nat, k < n PROVE h[k + 1] = G[h[k]]
      <4>1. h[k] = f[k] /\ k + 1 \in 0..n
        BY <2>1, <3>5
      <4>2. CASE k + 1 = n
        BY <4>1, <4>2
      <4>3. CASE k + 1 # n
        BY <3>1, <3>2, <3>5, <4>1, <4>3
      <4>. QED
        BY <4>2, <4>3
    <3>6. Chain(n, h)
      BY <3>4, <3>5
    <3>. QED
      BY <2>1, <3>6
  <2>. QED
    BY <2>2, <2>3
<1>2. ASSUME NEW n \in Nat, NEW l \in Nat, NEW f, NEW h, Chain(n, f), Chain(l, h),
             NEW k \in Nat, k <= n, k <= l
      PROVE  f[k] = h[k]
  <2> DEFINE Differ == {j \in Nat : j <= n /\ j <= l /\ f[j] # h[j]}
  <2>1. Differ = {}
    <3> SUFFICES ASSUME Differ # {} PROVE FALSE
      OBVIOUS
    <3>1. PICK j \in Differ : \A i \in Differ : j <= i
      BY LeastNumber
    <3>2. j # 0
      BY <1>2, <3>1
    <3>3. j - 1 \in Nat /\ j - 1 \notin Differ
      BY <3>1, <3>2
    <3>4. f[j - 1] = h[j - 1] /\ f[(j - 1) + 1] = G[f[j - 1]] /\ h[(j - 1) + 1] = G[h[j - 1]]
      BY <1>2, <3>1, <3>3
    <3>. QED
      BY <3>1, <3>4
  <2>. QED
    BY <1>2, <2>1
<1> DEFINE Of(n) == CHOOSE f : Chain(n, f)
           F == [n \in Nat |-> Of(n)[n]]
<1>3. \A n \in Nat : Chain(n, Of(n))
  BY <1>1
<1> HIDE DEF Of
<1>4. F \in [Nat -> V] /\ F[0] = first
  BY <1>3
<1>5. ASSUME NEW k \in Nat PROVE F[k + 1] = G[F[k]]
  <2>1. Chain(k + 1, Of(k + 1)) /\ Chain(k, Of(k))
    BY <1>3
  <2>2. Of(k + 1)[k] = Of(k)[k]
    BY <1>2, <2>1, SMTT(30)
  <2>3. Of(k + 1)[k + 1] = G[Of(k + 1)[k]]
    BY <2>1
  <2>. QED
    BY <2>2, <2>3
<1>. QED
  BY <1>4, <1>5

-----------------------------------------------------------------------------
(* Powers. *)

\* Each power is a product with the one before it.
LEMMA PowerStep ==
  ASSUME NEW x \in Int
  PROVE  /\ \A e \in Nat : Power(x, e) \in Int
         /\ Power(x, 0) = 1 /\ \A e \in Nat : Power(x, e + 1) = x * Power(x, e)
<1> DEFINE G == [y \in Int |-> x * y]
           Equation(f) == f = [k \in Nat |-> IF k = 0 THEN 1 ELSE x * f[k - 1]]
           P == CHOOSE f : Equation(f)
<1>1. G \in [Int -> Int]
  OBVIOUS
<1>2. PICK f \in [Nat -> Int] : f[0] = 1 /\ \A k \in Nat : f[k + 1] = G[f[k]]
  <2> DEFINE one == 1
             V == Int
  <2>1. one \in V /\ G \in [V -> V]
    BY <1>1
  <2> HIDE DEF G, V, one
  <2>2. \E f \in [Nat -> V] : f[0] = one /\ \A k \in Nat : f[k + 1] = G[f[k]]
    BY <2>1, IteratesExist
  <2>. QED
    BY <2>2 DEF one, V
<1>3. Equation(f)
  <2>1. ASSUME NEW k \in Nat PROVE f[k] = IF k = 0 THEN 1 ELSE x * f[k - 1]
    <3>1. CASE k # 0
      <4>1. k - 1 \in Nat /\ (k - 1) + 1 = k
        BY <3>1
      <4>2. f[(k - 1) + 1] = G[f[k - 1]] /\ f[k - 1] \in Int
        BY <1>2, <4>1
      <4>. QED
        BY <3>1, <4>1, <4>2
    <3>. QED
      BY <1>2, <3>1
  <2>2. f = [k \in Nat |-> f[k]]
    BY <1>2
  <2>. QED
    BY <2>1, <2>2
<1>4. \A e : Power(x, e) = P[e]
  BY DEF Power
<1>5. Equation(P)
  BY <1>3
<1> HIDE DEF P
<1>6. \A k \in Nat : P[k] = IF k = 0 THEN 1 ELSE x * P[k - 1]
  BY <1>5
<1>7. P[0] = 1 /\ \A k \in Nat : P[k + 1] = x * P[k]
  <2>1. \A k \in Nat : k + 1 \in Nat /\ k + 1 # 0 /\ (k + 1) - 1 = k
    OBVIOUS
  <2>. QED
    BY <1>6, <2>1
<1>8. \A k \in Nat : P[k] \in Int
  <2> DEFINE Wrong == {k \in Nat : P[k] \notin Int}
  <2>1. Wrong = {}
    <3> SUFFICES ASSUME Wrong # {} PROVE FALSE
      OBVIOUS
    <3>1. PICK k \in Wrong : \A j \in Wrong : k <= j
      BY LeastNumber
    <3>2. k # 0
      BY <1>7, <3>1
    <3>3. k - 1 \in Nat /\ P[k - 1] \in Int
      BY <3>1, <3>2
    <3>4. P[k] = x * P[k - 1]
      BY <1>6, <3>1, <3>2
    <3>. QED
      BY <3>1, <3>3, <3>4
  <2>. QED
    BY <2>1
<1>. QED
  BY <1>4, <1>7, <1>8

\* The powers of a positive number are positive.
LEMMA PowerPositive ==
  ASSUME NEW x \in Int, x > 0, NEW e \in Nat
  PROVE  Power(x, e) \in Int /\ Power(x, e) > 0
<1>1. /\ \A k \in Nat : Power(x, k) \in Int
      /\ Power(x, 0) = 1 /\ \A k \in Nat : Power(x, k + 1) = x * Power(x, k)
  BY PowerStep
<1> DEFINE Wrong == {k \in Nat : Power(x, k) <= 0}
<1>2. Wrong = {}
  <2> SUFFICES ASSUME Wrong # {} PROVE FALSE
    OBVIOUS
  <2>1. PICK k \in Wrong : \A j \in Wrong : k <= j
    BY LeastNumber
  <2>2. k # 0
    BY <1>1, <2>1
  <2> DEFINE l == k - 1
             p == Power(x, l)
  <2>3. l \in Nat /\ l + 1 = k /\ l \notin Wrong
    BY <2>1, <2>2
  <2>4. p \in Int /\ p > 0
    BY <1>1, <2>3
  <2>5. Power(x, k) = x * p
    BY <1>1, <2>3
  <2> HIDE DEF p
  <2>6. x * p \in Int /\ x * p > 0
    BY <2>4
  <2> DEFINE y == Power(x, k)
             z == x * p
  <2>7. y <= 0
    BY <2>1
  <2>8. z > 0 /\ y = z
    BY <2>5, <2>6
  <2> HIDE DEF y, z
  <2>9. z \in Int
    BY <2>6 DEF z
  <2>. QED
    BY <2>7, <2>8, <2>9
<1>. QED
  BY <1>1, <1>2, SMTT(30)

\* The power of a sum.
LEMMA PowerSum ==
  ASSUME NEW x \in Int, NEW a \in Nat, NEW b \in Nat
  PROVE  Power(x, a + b) = Power(x, a) * Power(x, b)
<1>1. /\ \A k \in Nat : Power(x, k) \in Int
      /\ Power(x, 0) = 1 /\ \A k \in Nat : Power(x, k + 1) = x * Power(x, k)
  BY PowerStep
<1> DEFINE Wrong == {k \in Nat : Power(x, a + k) # Power(x, a) * Power(x, k)}
<1>2. Wrong = {}
  <2> SUFFICES ASSUME Wrong # {} PROVE FALSE
    OBVIOUS
  <2>1. PICK k \in Wrong : \A j \in Wrong : k <= j
    BY LeastNumber
  <2>2. k \in Nat /\ Power(x, a + k) # Power(x, a) * Power(x, k)
    BY <2>1
  <2>3. CASE k = 0
    <3>1. Power(x, a + k) = Power(x, a) /\ Power(x, k) = 1 /\ Power(x, a) \in Int
      BY <1>1, <2>3
    <3>. QED
      BY <2>2, <3>1
  <2>4. CASE k # 0
    <3> DEFINE l == k - 1
    <3>1. l \in Nat /\ k = l + 1 /\ ~(k <= l) /\ a + k = (a + l) + 1 /\ a + l \in Nat
      BY <2>2, <2>4
    <3> HIDE DEF l
    <3>2. Power(x, a + l) = Power(x, a) * Power(x, l)
      BY <2>1, <3>1
    <3> DEFINE p == Power(x, a)
               q == Power(x, l)
    <3>3. p \in Int /\ q \in Int /\ Power(x, a + k) = x * (p * q) /\ Power(x, k) = x * q
      BY <1>1, <3>1, <3>2
    <3>4. Power(x, a + k) # p * (x * q)
      BY <2>2, <3>3
    <3> HIDE DEF p, q
    <3>5. x * (p * q) = p * (x * q)
      BY <3>3
    <3>. QED
      BY <3>3, <3>4, <3>5
  <2>. QED
    BY <2>3, <2>4
<1>. QED
  BY <1>2

\* Induction, for a set of numbers.
LEMMA Inductive ==
  ASSUME NEW S, 0 \in S, \A k \in Nat : k \in S => k + 1 \in S
  PROVE  \A k \in Nat : k \in S
<1> DEFINE Wrong == {k \in Nat : k \notin S}
<1> SUFFICES ASSUME Wrong # {} PROVE FALSE
  OBVIOUS
<1>1. PICK k \in Wrong : \A j \in Wrong : k <= j
  BY LeastNumber
<1>2. k # 0
  BY <1>1
<1>3. k - 1 \in Nat /\ k - 1 \in S /\ (k - 1) + 1 = k
  BY <1>1, <1>2
<1>. QED
  BY <1>1, <1>3

\* f iterates the steps F in X from start, n times.
Steps(X, n, F) == F \in [(0..n - 1) \X X -> X]
Iterates(X, start, n, F, f) ==
  f \in [0..n -> X] /\ f[0] = start /\ \A k \in 0..n - 1 : f[k + 1] = F[<<k, f[k]>>]

\* The function that a recursive definition with a step for each number describes exists.
LEMMA IteratesIndexed ==
  \A X, start, n, F :
    start \in X /\ n \in Nat /\ Steps(X, n, F) => \E f : Iterates(X, start, n, F, f)
<1>a. SUFFICES ASSUME NEW X, NEW start, NEW n, NEW F, start \in X, n \in Nat, Steps(X, n, F)
               PROVE  \E f : Iterates(X, start, n, F, f)
  OBVIOUS
<1>0. start \in X /\ n \in Nat /\ F \in [(0..n - 1) \X X -> X]
  BY <1>a DEF Steps
<1> DEFINE W == Nat \X X
           begin == <<0, start>>
           H == [w \in W |-> <<w[1] + 1, IF w[1] < n THEN F[<<w[1], w[2]>>] ELSE w[2]>>]
<1>1. begin \in W
  BY <1>0
<1>2. ASSUME NEW w \in W
      PROVE  H[w] \in W /\ H[w][1] = w[1] + 1 /\ (w[1] < n => H[w][2] = F[<<w[1], w[2]>>])
  <2>1. w[1] \in Nat /\ w[2] \in X
    OBVIOUS
  <2>2. w[1] < n => <<w[1], w[2]>> \in (0..n - 1) \X X
    BY <1>0, <2>1
  <2>. QED
    BY <1>0, <2>1, <2>2
<1>3. H \in [W -> W]
  BY <1>2
<1> HIDE DEF W, H, begin
<1>4. PICK g \in [Nat -> W] : g[0] = begin /\ \A k \in Nat : g[k + 1] = H[g[k]]
  <2>1. begin \in W /\ H \in [W -> W]
    BY <1>1, <1>3
  <2>2. \E g \in [Nat -> W] : g[0] = begin /\ \A k \in Nat : g[k + 1] = H[g[k]]
    BY <2>1, IteratesExist
  <2>. QED
    BY <2>2
<1>5. \A k \in Nat : g[k] \in W /\ g[k][2] \in X
  BY <1>4 DEF W
<1>6. \A k \in Nat : g[k][1] = k
  <2> DEFINE S == {k \in Nat : g[k][1] = k}
  <2>1. 0 \in S
    BY <1>4 DEF begin
  <2>2. \A k \in Nat : k \in S => k + 1 \in S
    <3> SUFFICES ASSUME NEW k \in Nat, g[k][1] = k PROVE g[k + 1][1] = k + 1
      OBVIOUS
    <3>1. g[k] \in W /\ g[k + 1] = H[g[k]]
      BY <1>4, <1>5
    <3>2. H[g[k]][1] = g[k][1] + 1
      BY <1>2, <3>1
    <3>. QED
      BY <3>1, <3>2
  <2> HIDE DEF S
  <2>3. \A k \in Nat : k \in S
    BY <2>1, <2>2, Inductive
  <2>. QED
    BY <2>3 DEF S
<1> DEFINE f == [k \in 0..n |-> g[k][2]]
<1>7. f \in [0..n -> X] /\ f[0] = start
  BY <1>0, <1>4, <1>5 DEF begin
<1>8. ASSUME NEW k \in 0..n - 1 PROVE f[k + 1] = F[<<k, f[k]>>]
  <2>1. k \in Nat /\ k < n /\ k \in 0..n /\ k + 1 \in 0..n /\ g[k + 1] = H[g[k]]
    BY <1>0, <1>4
  <2>2. H[g[k]][2] = F[<<k, g[k][2]>>]
    BY <1>0, <1>2, <1>5, <1>6, <2>1
  <2>. QED
    BY <2>1, <2>2
<1>. QED
  BY <1>7, <1>8 DEF Iterates
=============================================================================

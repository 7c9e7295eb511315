---------------------------- MODULE Bigint_proofs ----------------------------
(***************************************************************************)
(* Proofs about BigInteger, for all integers and all primitive types, about *)
(* BigAlgorithms, for arguments that are any integers, and about            *)
(* BigUnsignedInABase, for any base and any integer or string.              *)
(***************************************************************************)
EXTENDS BigInteger, BigAlgorithms, BigUnsignedInABase, Division

\* The numbers whose sign is zero if and only if their magnitude is.
Proper == {a \in Number : a.sign = zero <=> a.mag = 0}

-----------------------------------------------------------------------------
(* Division of integers. *)

\* Division of the negative: the rounding down that HardDivision makes up for.
LEMMA DivNegative ==
  ASSUME NEW x \in Nat, x > 0, NEW d \in Int, d > 0
  PROVE  (-x) \div d = -(((x - 1) \div d) + 1)
<1> DEFINE q == (x - 1) \div d
           rest == (x - 1) % d
<1>1. q \in Int /\ rest \in 0..d - 1 /\ x - 1 = d * q + rest
  BY DivMod
<1> HIDE DEF q, rest
<1>2. -x = d * (-(q + 1)) + ((d - 1) - rest)
  BY <1>1
<1>3. (d - 1) - rest \in 0..d - 1 /\ -(q + 1) \in Int
  BY <1>1
<1>4. (-x) \div d = -(q + 1)
  BY <1>2, <1>3, DivUnique
<1> QED
  BY <1>4 DEF q

-----------------------------------------------------------------------------
(* The operators on numbers. *)

\* A number with a proper sign stands for an integer.
LEMMA ValInt ==
  ASSUME NEW a \in Proper
  PROVE  /\ Val(a) \in Int
         /\ a.sign = positive => Val(a) = a.mag
         /\ a.sign = negative => Val(a) = -a.mag
         /\ a.sign = zero => Val(a) = 0
  BY DEF Proper, Number, Val, positive, negative, zero

\* Each of the three signs, with the magnitude that it goes with.
LEMMA Signs ==
  ASSUME NEW a \in Proper
  PROVE  \/ a.sign = zero /\ a.mag = 0
         \/ a.sign = positive /\ a.mag \in Nat /\ a.mag > 0
         \/ a.sign = negative /\ a.mag \in Nat /\ a.mag > 0
  BY DEF Proper, Number, positive, negative, zero

\* The constructor from a sign and a magnitude.
LEMMA SignedProper ==
  ASSUME NEW magnitude \in Nat, NEW sign \in {negative, positive}
  PROVE  Signed(magnitude, sign) \in Proper /\ Val(Signed(magnitude, sign)) = sign * magnitude
  BY DEF Signed, Proper, Number, Val, positive, negative, zero

\* Negation.
LEMMA OppositeVal ==
  ASSUME NEW a \in Proper
  PROVE  Opposite(a) \in Proper /\ Val(Opposite(a)) = -Val(a)
  BY DEF Opposite, Proper, Number, Val, positive, negative, zero

\* The sum of numbers of different signs.
LEMMA CancelledVal ==
  ASSUME NEW a \in Proper, NEW b \in Proper, a.sign = -b.sign, a.sign # zero
  PROVE  Cancelled(a, b) \in Proper /\ Val(Cancelled(a, b)) = Val(a) + Val(b)
  BY DEF Cancelled, Zero, Proper, Number, Val, positive, negative, zero

\* Addition.
LEMMA SumVal ==
  ASSUME NEW a \in Proper, NEW b \in Proper
  PROVE  SumOf(a, b) \in Proper /\ Val(SumOf(a, b)) = Val(a) + Val(b)
<1>1. CASE a.sign = zero \/ b.sign = zero
  BY <1>1, ValInt DEF SumOf
<1>2. CASE a.sign # zero /\ b.sign # zero /\ a.sign = b.sign
  BY <1>2 DEF SumOf, Proper, Number, Val, positive, negative, zero
<1>3. CASE a.sign # zero /\ b.sign # zero /\ a.sign # b.sign
  <2>1. a.sign = -b.sign
    BY <1>3 DEF Proper, Number, positive, negative, zero
  <2> QED
    BY <1>3, <2>1, CancelledVal DEF SumOf
<1> QED
  BY <1>1, <1>2, <1>3

\* Subtraction.
LEMMA DifferenceVal ==
  ASSUME NEW a \in Proper, NEW b \in Proper
  PROVE  Difference(a, b) \in Proper /\ Val(Difference(a, b)) = Val(a) - Val(b)
<1>1. CASE a.sign = zero \/ b.sign = zero
  BY <1>1, ValInt, OppositeVal DEF Difference
<1>2. CASE a.sign # zero /\ b.sign # zero /\ a.sign # b.sign
  BY <1>2 DEF Difference, Proper, Number, Val, positive, negative, zero
<1>3. CASE a.sign # zero /\ b.sign # zero /\ a.sign = b.sign
  <2>1. Opposite(b) \in Proper /\ Val(Opposite(b)) = -Val(b) /\ Val(a) \in Int /\ Val(b) \in Int
    BY OppositeVal, ValInt
  <2>2. a.sign = -Opposite(b).sign
    BY <1>3 DEF Opposite, Proper, Number, positive, negative, zero
  <2>3. Difference(a, b) = Cancelled(a, Opposite(b))
    BY <1>3 DEF Difference
  <2> QED
    BY <1>3, <2>1, <2>2, <2>3, CancelledVal
<1> QED
  BY <1>1, <1>2, <1>3

\* Multiplication.
LEMMA ProductVal ==
  ASSUME NEW a \in Proper, NEW b \in Proper
  PROVE  Product(a, b) \in Proper /\ Val(Product(a, b)) = Val(a) * Val(b)
<1>1. CASE a.sign = zero \/ b.sign = zero
  <2>1. Product(a, b) \in Proper /\ Val(Product(a, b)) = 0
    BY <1>1 DEF Product, Zero, Proper, Number, Val, zero
  <2>2. Val(a) \in Int /\ Val(b) \in Int /\ (Val(a) = 0 \/ Val(b) = 0)
    BY <1>1, ValInt
  <2> QED
    BY <2>1, <2>2
<1>2. CASE a.sign # zero /\ b.sign # zero
  <2>1. a.mag \in Nat /\ b.mag \in Nat /\ a.mag * b.mag \in Nat /\ a.mag * b.mag # 0
    BY <1>2 DEF Proper, Number, zero
  <2>2. Product(a, b) \in Proper
    BY <1>2, <2>1 DEF Product, Proper, Number, positive, negative, zero
  <2>3. /\ (-a.mag) * (-b.mag) = a.mag * b.mag
        /\ (-a.mag) * b.mag = -(a.mag * b.mag)
        /\ a.mag * (-b.mag) = -(a.mag * b.mag)
    BY <2>1
  <2>4. Val(Product(a, b)) = IF a.sign = b.sign THEN a.mag * b.mag ELSE -(a.mag * b.mag)
    BY <1>2, <2>1 DEF Product, Val, positive, negative
  <2>5. Val(a) \in {a.mag, -a.mag} /\ Val(b) \in {b.mag, -b.mag}
    BY <1>2, Signs, ValInt
  <2> QED
    BY <1>2, <2>2, <2>3, <2>4, Signs, ValInt DEF positive, negative
<1> QED
  BY <1>1, <1>2

\* Increment and decrement, which go through zero.
LEMMA IncreasedVal ==
  ASSUME NEW a \in Proper
  PROVE  /\ Increased(a) \in Proper /\ Val(Increased(a)) = Val(a) + 1
         /\ Decreased(a) \in Proper /\ Val(Decreased(a)) = Val(a) - 1
  BY DEF Increased, Decreased, Signed, Proper, Number, Val, positive, negative, zero

\* The division of numbers is the division that Arithmetic defines.
LEMMA DivisionVal ==
  ASSUME NEW a \in Proper, NEW b \in Proper
  PROVE  /\ Division(a, b).q \in Proper /\ Division(a, b).r \in Proper
         /\ Val(Division(a, b).q) = Meant!Quotient(Val(a), Val(b))
         /\ Val(Division(a, b).r) = Meant!Remainder(Val(a), Val(b))
<1> DEFINE d == Division(a, b)
<1> SUFFICES d.q \in Proper /\ d.r \in Proper
             /\ Val(d.q) = Meant!Quotient(Val(a), Val(b))
             /\ Val(d.r) = Val(a) - Val(b) * Val(d.q)
  BY DEF Meant!Remainder
<1>0. Val(a) \in Int /\ Val(b) \in Int
  BY ValInt
<1>1. CASE b.sign = zero \/ a.sign = zero
  <2>1. d.q = Zero /\ d.r = a
    BY <1>1 DEF Division
  <2>2. Zero \in Proper /\ Val(Zero) = 0
    BY DEF Zero, Proper, Number, Val, zero
  <2>3. CASE b.sign = zero
    BY <1>0, <2>1, <2>2, <2>3, ValInt DEF Meant!Quotient
  <2>4. CASE b.sign # zero /\ a.sign = zero
    <3>1. Val(a) = 0 /\ Val(b) # 0
      BY <2>4, ValInt, Signs
    <3>2. \A y \in Int : y > 0 => 0 \div y = 0
      <4> TAKE y \in Int
      <4> HAVE y > 0
      <4> QED
        BY DivUnique
    <3>3. Meant!Quotient(0, Val(b)) = 0
      BY <1>0, <3>1, <3>2 DEF Meant!Quotient
    <3> QED
      BY <1>0, <2>1, <2>2, <3>1, <3>3
  <2> QED
    BY <1>1, <2>3, <2>4
<1>2. CASE b.sign # zero /\ a.sign = b.sign
  <2> DEFINE Q == a.mag \div b.mag
             R == a.mag % b.mag
  <2>1. a.mag \in Nat /\ b.mag \in Nat /\ b.mag > 0 /\ a.mag > 0
    BY <1>2, Signs
  <2>2. Q \in Int /\ R \in 0..b.mag - 1 /\ a.mag = b.mag * Q + R
    BY <2>1, DivMod
  <2>3. Q \in Nat
    BY <2>1, QuotientNat
  <2>4. d.q = Signed(Q, positive) /\ d.r = Signed(R, b.sign)
    BY <1>2 DEF Division, EasyDivision
  <2> HIDE DEF Q, R
  <2>5. b.sign \in {negative, positive}
    BY <1>2, Signs
  <2>6. /\ d.q \in Proper /\ d.r \in Proper
        /\ Val(d.q) = Q /\ Val(d.r) = b.sign * R
    BY <2>2, <2>3, <2>4, <2>5, SignedProper DEF positive
  <2>7. CASE b.sign = positive
    <3>1. Val(a) = a.mag /\ Val(b) = b.mag
      BY <1>2, <2>7, ValInt
    <3>2. Meant!Quotient(Val(a), Val(b)) = Q
      BY <2>1, <3>1 DEF Meant!Quotient, Q
    <3> QED
      BY <2>1, <2>2, <2>6, <2>7, <3>1, <3>2 DEF positive
  <2>8. CASE b.sign = negative
    <3>1. Val(a) = -a.mag /\ Val(b) = -b.mag
      BY <1>2, <2>8, ValInt
    <3>2. Meant!Quotient(Val(a), Val(b)) = Q
      BY <2>1, <3>1 DEF Meant!Quotient, Q
    <3>3. (-b.mag) * Q = -(b.mag * Q) /\ b.mag * Q \in Int
      BY <2>1, <2>2, Products
    <3> QED
      BY <2>1, <2>2, <2>6, <2>8, <3>1, <3>2, <3>3 DEF negative
  <2> QED
    BY <2>5, <2>7, <2>8
<1>3. CASE b.sign # zero /\ a.sign # zero /\ a.sign # b.sign
  <2> DEFINE A == a.mag - 1
             Q == A \div b.mag
             R == A % b.mag
  <2>1. a.mag \in Nat /\ b.mag \in Nat /\ b.mag > 0 /\ a.mag > 0 /\ A \in Nat
    BY <1>3, Signs
  <2>2. Q \in Int /\ R \in 0..b.mag - 1 /\ A = b.mag * Q + R
    <3> HIDE DEF A
    <3> QED
      BY <2>1, DivMod
  <2>3. Q \in Nat
    <3> HIDE DEF A
    <3> QED
      BY <2>1, QuotientNat
  <2>4. d.q = Signed(Q + 1, negative) /\ d.r = Signed((b.mag - R) - 1, b.sign)
    BY <1>3 DEF Division, HardDivision
  <2>5. (-a.mag) \div b.mag = -(Q + 1)
    BY <2>1, DivNegative
  <2>6. a.mag = b.mag * Q + R + 1
    BY <2>1, <2>2
  <2> HIDE DEF A, Q, R
  <2>7. b.sign \in {negative, positive}
    BY <1>3, Signs
  <2>8. (b.mag - R) - 1 \in Nat
    BY <2>1, <2>2
  <2>9. /\ d.q \in Proper /\ d.r \in Proper
        /\ Val(d.q) = -(Q + 1) /\ Val(d.r) = b.sign * ((b.mag - R) - 1)
    BY <2>3, <2>4, <2>7, <2>8, SignedProper DEF negative, positive
  <2>10. b.mag * (Q + 1) = b.mag * Q + b.mag /\ b.mag * Q \in Int
    BY <2>1, <2>2, Products
  <2>11. CASE b.sign = positive
    <3>1. Val(a) = -a.mag /\ Val(b) = b.mag
      BY <1>3, <2>11, Signs, ValInt
    <3>2. Meant!Quotient(Val(a), Val(b)) = -(Q + 1)
      BY <2>1, <2>5, <3>1 DEF Meant!Quotient
    <3>3. b.mag * (-(Q + 1)) = -(b.mag * (Q + 1))
      BY <2>1, <2>3, Products
    <3> QED
      BY <2>1, <2>2, <2>6, <2>9, <2>10, <2>11, <3>1, <3>2, <3>3 DEF positive
  <2>12. CASE b.sign = negative
    <3>1. Val(a) = a.mag /\ Val(b) = -b.mag
      BY <1>3, <2>12, Signs, ValInt
    <3>2. Meant!Quotient(Val(a), Val(b)) = -(Q + 1)
      BY <2>1, <2>5, <3>1 DEF Meant!Quotient
    <3>3. (-b.mag) * (-(Q + 1)) = b.mag * (Q + 1)
      BY <2>1, <2>3, Products
    <3> QED
      BY <2>1, <2>2, <2>6, <2>9, <2>10, <2>12, <3>1, <3>2, <3>3 DEF negative
  <2> QED
    BY <2>7, <2>11, <2>12
<1> QED
  BY <1>1, <1>2, <1>3

\* Comparison.
LEMMA CompareVal ==
  ASSUME NEW a \in Proper, NEW b \in Proper
  PROVE  compareTo(a, b) = Meant!Sign(Val(a) - Val(b))
  BY DEF compareTo, Meant!Sign, Proper, Number, Val, positive, negative, zero

-----------------------------------------------------------------------------
(* Primitive types. *)

Type == {V \in Nat : V > 0 /\ V % 2 = 0 /\ V <= B}

\* A primitive type has as many negative values as others.
LEMMA TypeHalves ==
  ASSUME NEW V \in Type
  PROVE  V \in Nat /\ V > 0 /\ V \div 2 \in Nat /\ V \div 2 > 0 /\ V = 2 * (V \div 2)
  BY DEF Type

\* Reduction modulo V of what is at most V away.
LEMMA Reduced ==
  ASSUME NEW V \in Type, NEW x \in 0..V - 1
  PROVE  UX(V, x) = x /\ UX(V, x - V) = x
<1>1. V \in Int /\ V > 0 /\ x \in Int /\ x - V \in Int
  BY TypeHalves
<1>2. x = V * 0 + x /\ x - V = V * (-1) + x
  BY <1>1
<1>3. x % V = x
  BY <1>1, <1>2, DivUnique
<1>4. (x - V) % V = x
  <2> DEFINE y == x - V
  <2>1. y \in Int /\ y = V * (-1) + x /\ -1 \in Int
    BY <1>1, <1>2
  <2> HIDE DEF y
  <2>2. y % V = x
    BY <1>1, <2>1, DivUnique
  <2> QED
    BY <2>2 DEF y
<1> QED
  BY <1>3, <1>4 DEF UX

\* A cast to the unsigned type gives one of its values.
LEMMA UXRange ==
  ASSUME NEW V \in Type, NEW x \in Int
  PROVE  UX(V, x) \in 0..V - 1
  BY TypeHalves, DivMod DEF UX

\* Every integer is converted into the range of the type, and those in it to themselves.
LEMMA XRange ==
  ASSUME NEW V \in Type, NEW x \in Int
  PROVE  X(V, x) \in SignedType(V)
  BY TypeHalves, UXRange DEF X, SignedType

\* A cast to the signed type changes none of its values.
LEMMA XSame ==
  ASSUME NEW V \in Type, NEW x \in SignedType(V)
  PROVE  X(V, x) = x
<1>1. x \in Int
  BY TypeHalves DEF SignedType
<1>2. CASE x >= 0
  <2>1. x \in 0..V - 1 /\ 2 * x < V
    BY <1>2, TypeHalves DEF SignedType
  <2> QED
    BY <2>1, Reduced, TypeHalves DEF X
<1>3. CASE x < 0
  <2>1. x + V \in 0..V - 1 /\ 2 * (x + V) >= V /\ x = (x + V) - V
    BY <1>1, <1>3, TypeHalves DEF SignedType
  <2>2. UX(V, x) = x + V
    BY <2>1, Reduced
  <2> QED
    BY <1>1, <2>1, <2>2, TypeHalves DEF X
<1> QED
  BY <1>1, <1>2, <1>3

\* The value V \div 2 is the only one whose conversion changes its sign.
LEMMA XHalf ==
  ASSUME NEW V \in Type
  PROVE  X(V, V \div 2) = -(V \div 2)
<1>1. V \div 2 \in 0..V - 1 /\ 2 * (V \div 2) >= V
  BY TypeHalves
<1>2. UX(V, V \div 2) = V \div 2
  BY <1>1, Reduced
<1> QED
  BY <1>1, <1>2, TypeHalves DEF X

\* The negation of a negative number, read as unsigned, is its magnitude.
LEMMA Negated ==
  ASSUME NEW V \in Type, NEW k \in 1..V \div 2
  PROVE  UX(V, X(V, k)) = k
<1>1. k \in 0..V - 1
  BY TypeHalves
<1>2. UX(V, k) = k /\ UX(V, k - V) = k
  BY <1>1, Reduced
<1>3. X(V, k) \in {k, k - V}
  BY <1>2 DEF X
<1> QED
  BY <1>2, <1>3

\* The number constructed from a value of a primitive type is that value.
LEMMA FromPrimitiveVal ==
  ASSUME NEW V \in Type, NEW x \in SignedType(V)
  PROVE  /\ [sign |-> signOf(x), mag |-> magOf(V, x)] \in Proper
         /\ Val([sign |-> signOf(x), mag |-> magOf(V, x)]) = x
<1>1. x \in Int /\ (x < 0 => -x \in 1..V \div 2)
  BY TypeHalves DEF SignedType
<1>2. magOf(V, x) = IF x < 0 THEN -x ELSE x
  BY <1>1, Negated DEF magOf
<1> QED
  BY <1>1, <1>2 DEF signOf, Proper, Number, Val, positive, negative, zero

\* A number is converted to a signed type if and only if it is in its range, and then to
\* itself.
LEMMA ConvertsVal ==
  ASSUME NEW V \in Type, B \in Nat, NEW a \in Proper
  PROVE  /\ Converts(V, a) <=> Val(a) \in SignedType(V)
         /\ Converts(V, a) => (IF a.sign = zero THEN 0 ELSE Converted(V, a)) = Val(a)
<1>1. CASE a.sign = zero
  BY <1>1, ValInt, TypeHalves DEF Converts, SignedType
<1>2. CASE a.sign = positive
  <2>1. a.mag \in Nat /\ a.mag > 0 /\ Val(a) = a.mag /\ a.sign # zero
    BY <1>2, Signs, ValInt DEF positive, zero
  <2>2. Converted(V, a) = X(V, a.mag) /\ X(V, a.mag) \in SignedType(V)
    BY <1>2, <2>1, XRange DEF Converted
  <2>3. Converts(V, a) <=> a.mag < B /\ X(V, a.mag) >= 0 /\ X(V, a.mag) = a.mag
    BY <1>2, <2>1, <2>2 DEF Converts
  <2>4. a.mag \in SignedType(V) => X(V, a.mag) = a.mag /\ a.mag < B
    <3>1. a.mag \in SignedType(V) => a.mag < V /\ V <= B
      BY TypeHalves DEF SignedType, Type
    <3> QED
      BY <2>1, <3>1, XSame, TypeHalves
  <2> QED
    BY <2>1, <2>2, <2>3, <2>4
<1>3. CASE a.sign = negative
  <2> DEFINE x == X(V, -X(V, a.mag))
  <2>1. a.mag \in Nat /\ a.mag > 0 /\ Val(a) = -a.mag /\ a.sign # zero /\ a.sign # positive
    BY <1>3, Signs, ValInt DEF positive, negative, zero
  <2>2. X(V, a.mag) \in Int
    BY <2>1, XRange, TypeHalves DEF SignedType
  <2>3. Converted(V, a) = x /\ x \in SignedType(V)
    BY <2>1, <2>2, XRange DEF Converted
  <2>4. Converts(V, a) <=> a.mag < B /\ x < 0 /\ UX(V, X(V, -x)) = a.mag
    BY <2>1, <2>3 DEF Converts
  <2> HIDE DEF x
  <2>5. Converts(V, a) => -a.mag = x
    <3>1. x < 0 => -x \in 1..V \div 2
      BY <2>3, TypeHalves DEF SignedType
    <3>2. x < 0 => UX(V, X(V, -x)) = -x
      BY <3>1, Negated
    <3> QED
      BY <2>3, <2>4, <3>2, TypeHalves DEF SignedType
  <2>6. -a.mag \in SignedType(V) => Converts(V, a)
    <3> SUFFICES ASSUME -a.mag \in SignedType(V) PROVE Converts(V, a)
      OBVIOUS
    <3>1. a.mag \in 1..V \div 2 /\ a.mag < B
      BY <2>1, TypeHalves DEF SignedType, Type
    <3>2. -X(V, a.mag) \in {-a.mag, V \div 2}
      <4>1. CASE a.mag = V \div 2
        BY <4>1, XHalf, TypeHalves
      <4>2. CASE a.mag # V \div 2
        <5>1. a.mag \in SignedType(V)
          BY <3>1, <4>2, TypeHalves DEF SignedType
        <5> QED
          BY <5>1, XSame
      <4> QED
        BY <4>1, <4>2
    <3>3. x = -a.mag
      <4>1. CASE -X(V, a.mag) = -a.mag
        BY <4>1, XSame DEF x
      <4>2. CASE -X(V, a.mag) = V \div 2 /\ -X(V, a.mag) # -a.mag
        <5>1. a.mag = V \div 2
          <6>1. a.mag # V \div 2 => a.mag \in SignedType(V)
            BY <3>1, TypeHalves DEF SignedType
          <6> QED
            BY <4>2, <6>1, XSame
        <5> QED
          BY <4>2, <5>1, XHalf DEF x
      <4> QED
        BY <3>2, <4>1, <4>2
    <3>4. UX(V, X(V, -x)) = a.mag
      BY <2>1, <3>1, <3>3, Negated
    <3> QED
      BY <2>1, <2>4, <3>1, <3>3, <3>4
  <2> QED
    BY <2>1, <2>3, <2>5, <2>6
<1> QED
  BY <1>1, <1>2, <1>3, Signs

\* The conversion to an unsigned type is refused exactly for numbers that do not fit.
LEMMA UnsignedVal ==
  ASSUME NEW V \in Type, B \in Nat, NEW a \in Proper
  PROVE  /\ Val(a) \in 0..V - 1 <=>
              a.sign # negative /\ a.mag < B /\ UX(V, a.mag) = a.mag
         /\ Val(a) \in 0..V - 1 => Val(a) = a.mag
<1>1. a.mag \in Nat /\ UX(V, a.mag) \in 0..V - 1 /\ V \in Nat /\ V <= B
  BY Signs, UXRange, TypeHalves DEF Type, Proper, Number
<1>2. a.mag \in 0..V - 1 => UX(V, a.mag) = a.mag
  BY Reduced
<1>3. CASE a.sign = negative
  BY <1>3, Signs, ValInt, TypeHalves DEF negative, positive, zero
<1>4. CASE a.sign # negative
  <2>1. Val(a) = a.mag
    BY <1>4, Signs, ValInt
  <2> QED
    BY <1>1, <1>2, <1>4, <2>1
<1> QED
  BY <1>3, <1>4

-----------------------------------------------------------------------------
(* The inductive invariant: every variable holds a number whose sign is zero if and only *)
(* if its magnitude is.  Zero with a sign, or a sign of zero with a magnitude, would be  *)
(* taken for another number by the tests of the sign.                                    *)

NumbersProper == int \in [Reg -> Proper]

\* The value of the variables after this := x.
LEMMA PutVal ==
  ASSUME NumbersProper, NEW this \in Reg, NEW x \in Proper, Put(this, x)
  PROVE  NumbersProper' /\ Meant!Put(this, Val(x))
<1>1. NumbersProper' /\ int' = [int EXCEPT ![this] = x] /\ out' = Returned(0)
  BY DEF NumbersProper, Put
<1>2. [t \in Reg |-> Val(int[t])]' = [[t \in Reg |-> Val(int[t])] EXCEPT ![this] = Val(x)]
  BY <1>1 DEF NumbersProper
<1>3. Val(x) \in Int
  BY ValInt
<1> QED
  BY <1>1, <1>2, <1>3 DEF Meant!Put, Meant!Returned, Returned

\* A call that only returns a value keeps the numbers.
LEMMA AnswerVal ==
  ASSUME NumbersProper, NEW x, Answer(x)
  PROVE  NumbersProper' /\ Meant!Answer(x)
  BY DEF NumbersProper, Answer, Meant!Answer, Meant!Returned, Returned

\* So does one that throws.
LEMMA ThrowVal ==
  ASSUME NumbersProper, NEW this \in Reg, Throw
  PROVE  NumbersProper' /\ Meant!Throw(this)
  BY DEF NumbersProper, Throw, Meant!Throw

\* Every call means what Arithmetic says of it.
LEMMA CallMeans ==
  ASSUME NumbersProper, NEW this \in Reg, NEW a \in Reg, NEW b \in Reg
  PROVE  /\ add(this, a, b) => NumbersProper' /\ Meant!Meaning(call')
         /\ subtract(this, a, b) => NumbersProper' /\ Meant!Meaning(call')
         /\ multiply(this, a, b) => NumbersProper' /\ Meant!Meaning(call')
         /\ negate(this, a) => NumbersProper' /\ Meant!Meaning(call')
         /\ increment(this) => NumbersProper' /\ Meant!Meaning(call')
         /\ decrement(this) => NumbersProper' /\ Meant!Meaning(call')
<1>1. int[this] \in Proper /\ int[a] \in Proper /\ int[b] \in Proper
  BY DEF NumbersProper
<1>2. add(this, a, b) => NumbersProper' /\ Meant!Meaning(call')
  BY <1>1, SumVal, PutVal DEF add, Called, Meant!Meaning
<1>3. subtract(this, a, b) => NumbersProper' /\ Meant!Meaning(call')
  BY <1>1, DifferenceVal, PutVal DEF subtract, Called, Meant!Meaning
<1>4. multiply(this, a, b) => NumbersProper' /\ Meant!Meaning(call')
  BY <1>1, ProductVal, PutVal DEF multiply, Called, Meant!Meaning
<1>5. negate(this, a) => NumbersProper' /\ Meant!Meaning(call')
  BY <1>1, OppositeVal, PutVal DEF negate, Called, Meant!Meaning
<1>6. increment(this) => NumbersProper' /\ Meant!Meaning(call')
  BY <1>1, IncreasedVal, PutVal DEF increment, Called, Meant!Meaning
<1>7. decrement(this) => NumbersProper' /\ Meant!Meaning(call')
  BY <1>1, IncreasedVal, PutVal DEF decrement, Called, Meant!Meaning
<1> QED
  BY <1>2, <1>3, <1>4, <1>5, <1>6, <1>7

\* divideWithRemainder, with all ways in which its operands may be one.
LEMMA DivisionMeans ==
  ASSUME NumbersProper, NEW this \in Reg, NEW b \in Reg, NEW q \in Reg,
         divideWithRemainder(this, b, q)
  PROVE  NumbersProper' /\ Meant!Meaning(call')
<1> DEFINE d == Division(int[this], int[b])
           v == [t \in Reg |-> Val(int[t])]
<1>1. int[this] \in Proper /\ int[b] \in Proper
  BY DEF NumbersProper
<1>2. /\ d.q \in Proper /\ d.r \in Proper
      /\ Val(d.q) = Meant!Quotient(Val(int[this]), Val(int[b]))
      /\ Val(d.r) = Meant!Remainder(Val(int[this]), Val(int[b]))
  BY <1>1, DivisionVal
<1>3. CASE this = q
  <2>1. Throw
    BY <1>3 DEF divideWithRemainder
  <2>2. NumbersProper' /\ Meant!Throw(this) /\ UNCHANGED v
    BY <2>1, ThrowVal DEF Throw
  <2> QED
    BY <1>3, <2>2 DEF divideWithRemainder, Called, Meant!Meaning, Meant!Divide
<1>4. CASE this # q
  <2>1. int' = [int EXCEPT ![this] = d.r, ![q] = d.q] /\ out' = Returned(0)
    BY <1>4 DEF divideWithRemainder
  <2> HIDE DEF d
  <2>2. NumbersProper'
    BY <1>2, <1>4, <2>1 DEF NumbersProper
  <2>3. v' = [v EXCEPT ![this] = Val(d.r), ![q] = Val(d.q)]
    BY <1>4, <2>1 DEF NumbersProper
  <2>4. Meant!Divide(this, b, q)
    BY <1>2, <1>4, <2>1, <2>3 DEF Meant!Divide, Meant!Returned, Returned
  <2> QED
    BY <2>2, <2>4 DEF divideWithRemainder, Called, Meant!Meaning
<1> QED
  BY <1>3, <1>4

\* The quotient and the remainder by themselves.
LEMMA SlashMeans ==
  ASSUME NumbersProper, NEW this \in Reg, NEW a \in Reg, NEW b \in Reg
  PROVE  /\ Slash(this, a, b) => NumbersProper' /\ Meant!Meaning(call')
         /\ Percent(this, a, b) => NumbersProper' /\ Meant!Meaning(call')
<1>1. int[a] \in Proper /\ int[b] \in Proper
  BY DEF NumbersProper
<1>2. int[b].sign = zero <=> Val(int[b]) = 0
  BY <1>1, Signs, ValInt DEF positive, negative, zero
<1>3. Slash(this, a, b) => NumbersProper' /\ Meant!Meaning(call')
  <2>1. CASE int[b].sign = zero
    BY <1>2, <2>1, ThrowVal DEF Slash, Called, Meant!Meaning
  <2>2. CASE int[b].sign # zero
    BY <1>1, <1>2, <2>2, DivisionVal, PutVal DEF Slash, Called, Meant!Meaning
  <2> QED
    BY <2>1, <2>2
<1>4. Percent(this, a, b) => NumbersProper' /\ Meant!Meaning(call')
  <2>1. CASE int[b].sign = zero
    BY <1>2, <2>1, ThrowVal DEF Percent, Called, Meant!Meaning
  <2>2. CASE int[b].sign # zero
    BY <1>1, <1>2, <2>2, DivisionVal, PutVal DEF Percent, Called, Meant!Meaning
  <2> QED
    BY <2>1, <2>2
<1> QED
  BY <1>3, <1>4

\* Comparisons mean what they return.
LEMMA CompareMeans ==
  ASSUME NumbersProper, NEW a \in Reg, NEW b \in Reg, compare(a, b)
  PROVE  NumbersProper' /\ Meant!Meaning(call')
<1>1. int[a] \in Proper /\ int[b] \in Proper
  BY DEF NumbersProper
<1>2. Answer(compareTo(int[a], int[b]))
  BY DEF compare
<1>3. NumbersProper' /\ Meant!Answer(Meant!Sign(Val(int[a]) - Val(int[b])))
  BY <1>1, <1>2, CompareVal, AnswerVal
<1> QED
  BY <1>3 DEF compare, Called, Meant!Meaning

\* With types whose least value is not negated to itself, the numbers stay proper.
LEMMA ConstructionMeans ==
  ASSUME NumbersProper, NEW this \in Reg, B \in Nat
  PROVE  /\ \A V \in Type : \A x \in SignedType(V) :
              FromPrimitive(this, V, x) =>
                NumbersProper' /\ (NotWrapped = {} => Meant!Meaning(call'))
         /\ \A mag \in Nat, sign \in {negative, zero, positive} :
              FromMagnitude(this, mag, sign) => NumbersProper' /\ Meant!Meaning(call')
<1>1. ASSUME NEW V \in Type, NEW x \in SignedType(V), FromPrimitive(this, V, x)
      PROVE  NumbersProper' /\ (NotWrapped = {} => Meant!Meaning(call'))
  <2>1. PICK mag \in MagnitudesOf(V, x) : Put(this, [sign |-> signOf(x), mag |-> mag])
    BY <1>1 DEF FromPrimitive
  <2>2. CASE mag = magOf(V, x)
    <3>1. NumbersProper' /\ Meant!Put(this, x)
      BY <2>1, <2>2, FromPrimitiveVal, PutVal
    <3> QED
      BY <1>1, <3>1 DEF FromPrimitive, Called, Meant!Meaning
  <2>3. CASE mag # magOf(V, x)
    <3>1. mag = B - (V \div 2) /\ x = Least(V) /\ NotWrapped # {}
      BY <2>1, <2>3 DEF MagnitudesOf
    <3>2. mag \in Nat /\ mag # 0
      BY <3>1, TypeHalves DEF Type
    <3>3. x < 0
      BY <3>1, TypeHalves DEF Least
    <3>4. [sign |-> signOf(x), mag |-> mag] \in Proper
      BY <3>2, <3>3, TypeHalves DEF SignedType, signOf, Proper, Number, positive, negative, zero
    <3> QED
      BY <2>1, <3>1, <3>4 DEF Put, NumbersProper
  <2> QED
    BY <2>2, <2>3
<1>2. ASSUME NEW mag \in Nat, NEW sign \in {negative, zero, positive},
             FromMagnitude(this, mag, sign)
      PROVE  NumbersProper' /\ Meant!Meaning(call')
  <2>1. CASE sign = zero /\ mag # 0
    BY <1>2, <2>1, ThrowVal DEF FromMagnitude, Called, Meant!Meaning
  <2>2. CASE ~(sign = zero /\ mag # 0)
    <3>1. Signed(mag, sign) \in Proper /\ Val(Signed(mag, sign)) = sign * mag
      BY <1>2, <2>2 DEF Signed, Proper, Number, Val, positive, negative, zero
    <3>2. Put(this, Signed(mag, sign))
      BY <1>2, <2>2 DEF FromMagnitude
    <3>3. NumbersProper' /\ Meant!Put(this, sign * mag)
      BY <3>1, <3>2, PutVal
    <3> QED
      BY <1>2, <2>2, <3>3 DEF FromMagnitude, Called, Meant!Meaning
  <2> QED
    BY <2>1, <2>2
<1> QED
  BY <1>1, <1>2

\* Conversions to primitive types return the number, or throw.
LEMMA ConversionMeans ==
  ASSUME NumbersProper, NEW a \in Reg, NEW V \in Type, B \in Nat
  PROVE  /\ convertToSignedPrimitive(a, V) =>
              NumbersProper' /\ (NotWrapped = {} => Meant!Meaning(call'))
         /\ convertToUnsignedPrimitive(a, V) => NumbersProper' /\ Meant!Meaning(call')
<1>1. int[a] \in Proper
  BY DEF NumbersProper
<1>2. convertToSignedPrimitive(a, V) => NumbersProper' /\ (NotWrapped = {} => Meant!Meaning(call'))
  <2> DEFINE answer == IF int[a].sign = zero THEN 0 ELSE Converted(V, int[a])
  <2> SUFFICES ASSUME convertToSignedPrimitive(a, V)
               PROVE  NumbersProper' /\ (NotWrapped = {} => Meant!Meaning(call'))
    OBVIOUS
  <2>1. PICK converts \in Conversions(V, int[a]) : IF converts THEN Answer(answer) ELSE Throw
    BY DEF convertToSignedPrimitive
  <2>2. CASE Converts(V, int[a]) /\ converts
    BY <1>1, <2>1, <2>2, ConvertsVal, AnswerVal DEF convertToSignedPrimitive, Called, Meant!Meaning
  <2>3. CASE ~Converts(V, int[a]) /\ ~converts
    BY <1>1, <2>1, <2>3, ConvertsVal, ThrowVal DEF convertToSignedPrimitive, Called, Meant!Meaning
  <2>4. CASE Converts(V, int[a]) /\ ~converts
    <3>1. NotWrapped # {}
      BY <2>1, <2>4 DEF Conversions
    <3> QED
      BY <2>1, <2>4, <3>1 DEF Throw, NumbersProper
  <2>5. CASE ~Converts(V, int[a]) /\ converts
    BY <2>1, <2>5 DEF Conversions
  <2> QED
    BY <2>2, <2>3, <2>4, <2>5
<1>3. convertToUnsignedPrimitive(a, V) => NumbersProper' /\ Meant!Meaning(call')
  <2>1. CASE Val(int[a]) \in 0..V - 1
    BY <1>1, <2>1, UnsignedVal, AnswerVal DEF convertToUnsignedPrimitive, Called, Meant!Meaning
  <2>2. CASE Val(int[a]) \notin 0..V - 1
    BY <1>1, <2>2, UnsignedVal, ThrowVal DEF convertToUnsignedPrimitive, Called, Meant!Meaning
  <2> QED
    BY <2>1, <2>2
<1> QED
  BY <1>2, <1>3

-----------------------------------------------------------------------------
(* The theorems. *)

\* The first numbers are zeros.
LEMMA InitProper == Init => NumbersProper /\ Meant!Init
<1>1. Zero \in Proper /\ Val(Zero) = 0
  BY DEF Zero, Proper, Number, Val, zero
<1>2. Init => [this \in Reg |-> Val(int[this])] \in [Reg -> Int]
  BY <1>1 DEF Init
<1> QED
  BY <1>1, <1>2 DEF Init, NumbersProper, Meant!Init, Meant!Returned, Returned

\* Every step keeps the signs proper and means what arithmetic says.
LEMMA StepMeans ==
  ASSUME NumbersProper, [Next]_vars
  PROVE  NumbersProper' /\ (NotWrapped = {} => [Meant!Next]_(Meant!vars))
<1>1. \A V \in Types : V \in Type
  BY BigIntegerAssumption DEF Type
<1>2. CASE UNCHANGED vars
  BY <1>2 DEF vars, NumbersProper, Meant!vars
<1>3. ASSUME NEW this \in Reg, NEW a \in Reg, NEW b \in Reg,
             \/ add(this, a, b) \/ subtract(this, a, b) \/ multiply(this, a, b)
             \/ divideWithRemainder(this, b, a) \/ Slash(this, a, b) \/ Percent(this, a, b)
             \/ negate(this, a) \/ increment(this) \/ decrement(this) \/ compare(a, b)
      PROVE  NumbersProper' /\ Meant!Meaning(call')
  BY <1>3, CallMeans, DivisionMeans, SlashMeans, CompareMeans
<1>4. ASSUME NEW this \in Reg, NEW V \in Types,
             \/ \E x \in SignedType(V) : FromPrimitive(this, V, x)
             \/ convertToSignedPrimitive(this, V) \/ convertToUnsignedPrimitive(this, V)
      PROVE  NumbersProper' /\ (NotWrapped = {} => Meant!Meaning(call'))
  BY <1>1, <1>4, ConstructionMeans, ConversionMeans, BigIntegerAssumption
<1>5. ASSUME NEW this \in Reg, NEW mag \in Magnitudes,
             NEW sign \in {negative, zero, positive}, FromMagnitude(this, mag, sign)
      PROVE  NumbersProper' /\ Meant!Meaning(call')
  BY <1>5, ConstructionMeans, BigIntegerAssumption
<1>6. CASE Go
  BY <1>6 DEF Go, NumbersProper, Meant!Next
<1> QED
  BY <1>2, <1>3, <1>4, <1>5, <1>6 DEF Next, Meant!Next

\* In every variable the sign is zero if and only if the magnitude is: no call, and no
\* sequence of calls, leaves a zero with a sign.
THEOREM SignsAgree == Spec => []SignAgrees
<1>1. Init => NumbersProper
  BY InitProper
<1>2. NumbersProper /\ [Next]_vars => NumbersProper'
  BY StepMeans
<1>3. NumbersProper => SignAgrees
  BY DEF NumbersProper, SignAgrees, Proper
<1> QED
  BY <1>1, <1>2, <1>3, PTL DEF Spec

\* BigInteger computes with integers: every call of it, on any numbers and with operands
\* that may be the same variable, is a step of Arithmetic for the integers, and it throws
\* where Arithmetic does, if the least int and long are negated to themselves.
THEOREM IntegersImplemented ==
  ASSUME NotWrapped = {}
  PROVE  Spec => ComputesWithIntegers
<1>1. Init => NumbersProper /\ Meant!Init
  BY InitProper
<1>2. NumbersProper /\ [Next]_vars => NumbersProper' /\ [Meant!Next]_(Meant!vars)
  BY StepMeans
<1> QED
  BY <1>1, <1>2, PTL DEF Spec, ComputesWithIntegers, Meant!Spec

-----------------------------------------------------------------------------
(* The algorithms of BigAlgorithms. *)

EuclidNames == {"gcd", "extendedEuclidean", "modinv"}

Div(d, x) == \E k \in Int : x = d * k

-----------------------------------------------------------------------------
(* Lemmas about integers. *)

\* A row of coefficients from which a multiple of the other is taken.
LEMMA RowStep ==
  ASSUME NEW a \in Int, NEW b \in Int, NEW q \in Int,
         NEW u1 \in Int, NEW v1 \in Int, NEW u2 \in Int, NEW v2 \in Int
  PROVE  (u1 - q * u2) * a + (v1 - q * v2) * b = (u1 * a + v1 * b) - (u2 * a + v2 * b) * q
  OBVIOUS

\* The rounded quotient is an integer, whatever the signs.
LEMMA QuotientInt ==
  ASSUME NEW x \in Int, NEW y \in Int, y # 0
  PROVE  Quotient(x, y) \in Int
  BY DEF Quotient

\* The divisors of x and y are those of y and x - y * q.
LEMMA SameDivisors ==
  ASSUME NEW x \in Int, NEW y \in Int, NEW q \in Int, NEW d \in Int
  PROVE  Div(d, x) /\ Div(d, y) <=> Div(d, x - (y * q)) /\ Div(d, y)
<1>1. ASSUME Div(d, x), Div(d, y)
      PROVE  Div(d, x - (y * q))
  <2>1. PICK k1 \in Int : x = d * k1
    BY <1>1 DEF Div
  <2>2. PICK k2 \in Int : y = d * k2
    BY <1>1 DEF Div
  <2>3. x - (y * q) = d * (k1 - k2 * q) /\ k1 - k2 * q \in Int
    BY <2>1, <2>2
  <2> QED
    BY <2>3 DEF Div
<1>2. ASSUME Div(d, x - (y * q)), Div(d, y)
      PROVE  Div(d, x)
  <2>1. PICK k1 \in Int : x - (y * q) = d * k1
    BY <1>2 DEF Div
  <2>2. PICK k2 \in Int : y = d * k2
    BY <1>2 DEF Div
  <2>3. x = d * (k1 + k2 * q) /\ k1 + k2 * q \in Int
    BY <2>1, <2>2
  <2> QED
    BY <2>3 DEF Div
<1> QED
  BY <1>1, <1>2

\* Every integer divides zero.
LEMMA DividesZero ==
  ASSUME NEW d \in Int
  PROVE  Div(d, 0)
<1>1. 0 = d * 0
  OBVIOUS
<1> QED
  BY <1>1 DEF Div

\* The remainder by a positive number is below it.
LEMMA RemainderRange ==
  ASSUME NEW x \in Int, NEW y \in Int, y > 0
  PROVE  Quotient(x, y) \in Int /\ Remainder(x, y) \in 0..y - 1
<1>1. /\ x \div y \in Int /\ x % y \in 0..y - 1
      /\ x = y * (x \div y) + (x % y)
  OBVIOUS
<1> QED
  BY <1>1 DEF Quotient, Remainder

\* From a * u + b * v = 1 and a reduction of u modulo b, the inverse of a modulo b.
LEMMA InverseFromRow ==
  ASSUME NEW a \in Int, NEW b \in Int, NEW u \in Int, NEW v \in Int, NEW q \in Int,
         u * a + v * b = 1
  PROVE  Div(b, (u - (b * q)) * a - 1)
<1>1. (u - (b * q)) * a - 1 = b * (-v - q * a) /\ -v - q * a \in Int
  OBVIOUS
<1> QED
  BY <1>1 DEF Div

-----------------------------------------------------------------------------
(* The inductive invariant. *)

AlgTyped ==
  /\ arg[1] \in Int /\ arg[2] \in Int /\ m \in Int /\ n \in Int
  /\ r1 \in Int /\ s1 \in Int /\ r2 \in Int /\ s2 \in Int
  /\ at \in {"n", "m", "returned", "thrown"}
  /\ alg = "modinv" => arg[2] >= 0

Rows == r1 * arg[1] + s1 * arg[2] = m /\ r2 * arg[1] + s2 * arg[2] = n

DivisorsKept == \A d \in Int : Div(d, m) /\ Div(d, n) <=> Div(d, arg[1]) /\ Div(d, arg[2])

AlgReturned ==
  at = "returned" =>
    /\ m = 0 \/ n = 0
    /\ alg = "modinv" => ans \in 0..arg[2] - 1 /\ Div(arg[2], ans * arg[1] - 1)

AlgInv == alg \in EuclidNames => AlgTyped /\ Rows /\ DivisorsKept /\ AlgReturned

\* The rows of the unchanged arguments belong to them.
LEMMA InitInv == AlgInit => AlgInv
<1> SUFFICES ASSUME AlgInit, alg \in EuclidNames PROVE AlgTyped /\ Rows /\ DivisorsKept /\ AlgReturned
  BY DEF AlgInv
<1>1. PICK x \in Args, y \in Args :
        /\ Start(x, y) /\ arg = <<x, y>> /\ at \in {"n", "thrown"}
        /\ alg = "modinv" => y >= 0
  BY DEF AlgInit, EuclidNames
<1>2. x \in Int /\ y \in Int /\ arg[1] = x /\ arg[2] = y
  BY <1>1, AlgorithmsAssumption
<1>3. AlgTyped /\ AlgReturned
  BY <1>1, <1>2 DEF AlgTyped, AlgReturned, Start
<1>4. Rows /\ DivisorsKept
  BY <1>1, <1>2 DEF Rows, DivisorsKept, Start
<1> QED
  BY <1>3, <1>4

\* The first half of the loop's body keeps the rows and the divisors.
LEMMA ReduceMInv ==
  ASSUME AlgInv, ReduceM, alg \in EuclidNames
  PROVE  AlgInv'
<1> DEFINE q == Quotient(m, n)
<1>1. AlgTyped /\ Rows /\ DivisorsKept
  BY DEF AlgInv
<1>2. q \in Int
  BY <1>1, QuotientInt DEF AlgTyped, ReduceM
<1>3. /\ m' = m - (n * q) /\ r1' = r1 - q * r2 /\ s1' = s1 - q * s2 /\ at' = "m"
      /\ UNCHANGED <<alg, arg, n, r2, s2, ans, i>>
  BY DEF ReduceM, Remainder
<1> HIDE DEF q
<1>4. AlgTyped'
  BY <1>1, <1>2, <1>3 DEF AlgTyped
<1>5. Rows'
  <2>1. (r1 - q * r2) * arg[1] + (s1 - q * s2) * arg[2] = m - (n * q)
    <3>1. (r1 - q * r2) * arg[1] + (s1 - q * s2) * arg[2]
            = (r1 * arg[1] + s1 * arg[2]) - (r2 * arg[1] + s2 * arg[2]) * q
      BY <1>1, <1>2, RowStep DEF AlgTyped
    <3> QED
      BY <1>1, <3>1 DEF Rows
  <2> QED
    BY <1>1, <1>3, <2>1 DEF Rows
<1>6. DivisorsKept'
  BY <1>1, <1>2, <1>3, SameDivisors DEF DivisorsKept, AlgTyped
<1> QED
  BY <1>3, <1>4, <1>5, <1>6 DEF AlgInv, AlgReturned

\* So does the second half.
LEMMA ReduceNInv ==
  ASSUME AlgInv, ReduceN, alg \in EuclidNames
  PROVE  AlgInv'
<1> DEFINE q == Quotient(n, m)
<1>1. AlgTyped /\ Rows /\ DivisorsKept
  BY DEF AlgInv
<1>2. q \in Int
  BY <1>1, QuotientInt DEF AlgTyped, ReduceN
<1>3. /\ n' = n - (m * q) /\ r2' = r2 - q * r1 /\ s2' = s2 - q * s1 /\ at' = "n"
      /\ UNCHANGED <<alg, arg, m, r1, s1, ans, i>>
  BY DEF ReduceN, Remainder
<1> HIDE DEF q
<1>4. AlgTyped'
  BY <1>1, <1>2, <1>3 DEF AlgTyped
<1>5. Rows'
  <2>1. (r2 - q * r1) * arg[1] + (s2 - q * s1) * arg[2] = n - (m * q)
    <3>1. (r2 - q * r1) * arg[1] + (s2 - q * s1) * arg[2]
            = (r2 * arg[1] + s2 * arg[2]) - (r1 * arg[1] + s1 * arg[2]) * q
      BY <1>1, <1>2, RowStep DEF AlgTyped
    <3> QED
      BY <1>1, <3>1 DEF Rows
  <2> QED
    BY <1>1, <1>3, <2>1 DEF Rows
<1>6. DivisorsKept'
  BY <1>1, <1>2, <1>3, SameDivisors DEF DivisorsKept, AlgTyped
<1> QED
  BY <1>3, <1>4, <1>5, <1>6 DEF AlgInv, AlgReturned

\* modinv returns the residue of the first coefficient, an inverse.
LEMMA ModinvInv ==
  ASSUME AlgInv, modinv
  PROVE  AlgInv'
<1>1. alg = "modinv" /\ AlgTyped /\ Rows /\ DivisorsKept /\ (m = 0 \/ n = 0)
  BY DEF modinv, AlgInv, EuclidNames, EuclidEnds
<1>2. CASE Fail
  BY <1>1, <1>2 DEF Fail, AlgInv, AlgTyped, Rows, DivisorsKept, AlgReturned
<1>3. CASE ~Fail
  <2>1. /\ g = 1 /\ arg[2] # 0 /\ ans' = Remainder(r, arg[2]) /\ at' = "returned"
        /\ UNCHANGED <<alg, arg, m, n, r1, s1, r2, s2, i>>
    BY <1>3 DEF modinv
  <2>2. r \in Int /\ s \in Int /\ r * arg[1] + s * arg[2] = 1 /\ arg[2] > 0
    BY <1>1, <2>1 DEF AlgTyped, Rows, g, r, s
  <2> DEFINE q == Quotient(r, arg[2])
  <2>3. q \in Int /\ ans' \in 0..arg[2] - 1 /\ ans' = r - (arg[2] * q)
    BY <1>1, <2>1, <2>2, RemainderRange DEF Remainder, AlgTyped
  <2> HIDE DEF q
  <2>4. Div(arg[2], ans' * arg[1] - 1)
    BY <1>1, <2>2, <2>3, InverseFromRow DEF AlgTyped
  <2>5. AlgTyped' /\ Rows' /\ DivisorsKept'
    BY <1>1, <2>1 DEF AlgTyped, Rows, DivisorsKept
  <2>6. AlgReturned'
    BY <1>1, <2>1, <2>3, <2>4 DEF AlgReturned
  <2> QED
    BY <2>5, <2>6 DEF AlgInv
<1> QED
  BY <1>2, <1>3

\* Every step keeps the invariant.
LEMMA StepInv ==
  ASSUME AlgInv, [AlgNext]_algVars
  PROVE  AlgInv'
<1>1. CASE alg \notin EuclidNames
  BY <1>1 DEF AlgNext, Euclid, ReduceM, ReduceN, EuclidReturns, modinv, modexpStarts,
              modexpLoop, modexpReturns, Fail, algVars, AlgInv
<1>2. CASE alg \in EuclidNames
  <2>1. CASE ReduceM
    BY <1>2, <2>1, ReduceMInv
  <2>2. CASE ReduceN
    BY <1>2, <2>2, ReduceNInv
  <2>3. CASE EuclidReturns
    BY <1>2, <2>3 DEF EuclidReturns, EuclidEnds, AlgInv, AlgTyped, Rows, DivisorsKept, AlgReturned
  <2>4. CASE modinv
    BY <2>4, ModinvInv
  <2>5. CASE modexpStarts \/ modexpLoop \/ modexpReturns
    BY <1>2, <2>5 DEF modexpStarts, modexpLoop, modexpReturns, AlgInv, AlgTyped
  <2>6. CASE UNCHANGED algVars
    BY <1>2, <2>6 DEF algVars, AlgInv, AlgTyped, Rows, DivisorsKept, AlgReturned
  <2> QED
    BY <2>1, <2>2, <2>3, <2>4, <2>5, <2>6 DEF AlgNext, Euclid
<1> QED
  BY <1>1, <1>2

\* The invariant holds in every state of every call.
LEMMA AlwaysInv == AlgSpec => []AlgInv
  BY InitInv, StepInv, PTL DEF AlgSpec

-----------------------------------------------------------------------------
(* The theorems. *)

\* The invariants that the comments of extendedEuclidean give to its two rows hold for
\* all arguments, of either sign.
THEOREM RowsInvariant == AlgSpec => []Bezout
<1>1. AlgInv => Bezout
  BY DEF AlgInv, Bezout, Rows, EuclidNames
<1> QED
  BY <1>1, AlwaysInv, PTL

\* What gcd and extendedEuclidean return is a common divisor, and every common divisor
\* divides it.
GreatestDivisor ==
  at = "returned" /\ alg \in {"gcd", "extendedEuclidean"} =>
    \A d \in Int : Div(d, g) <=> Div(d, arg[1]) /\ Div(d, arg[2])

\* gcd and extendedEuclidean return a greatest common divisor, in the sense of divisibility.
THEOREM ReturnsGcd == AlgSpec => []GreatestDivisor
<1>1. AlgInv => GreatestDivisor
  BY DividesZero DEF AlgInv, GreatestDivisor, AlgTyped, DivisorsKept, AlgReturned, EuclidNames, g
<1> QED
  BY <1>1, AlwaysInv, PTL

\* What modinv returns is a residue, and the inverse of its argument.
IsInverse ==
  at = "returned" /\ alg = "modinv" =>
    ans \in 0..arg[2] - 1 /\ Div(arg[2], ans * arg[1] - 1)

\* modinv returns an inverse whenever it returns.
THEOREM ReturnsInverse == AlgSpec => []IsInverse
<1>1. AlgInv => IsInverse
  BY DEF AlgInv, IsInverse, AlgReturned, EuclidNames
<1> QED
  BY <1>1, AlwaysInv, PTL

-----------------------------------------------------------------------------
(* What is returned is right. *)

\* Where the sign of the result matters, the remainders are not negative; where modinv throws,
\* there is no inverse.
SignInv ==
  alg \in EuclidNames =>
    /\ alg = "gcd" \/ (alg = "modinv" /\ arg[2] > 0) =>
         n >= 0 /\ (m >= 0 \/ (at = "n" /\ n > 0))
    /\ at = "thrown" /\ alg # "extendedEuclidean" => (m = 0 \/ n = 0) /\ (g # 1 \/ arg[2] = 0)

LEMMA SignInit == AlgInit => SignInv
<1> SUFFICES ASSUME AlgInit, alg \in EuclidNames
             PROVE  /\ alg = "gcd" \/ (alg = "modinv" /\ arg[2] > 0) => n >= 0 /\ (m >= 0 \/ (at = "n" /\ n > 0))
                    /\ at # "thrown" \/ alg = "extendedEuclidean"
  BY DEF SignInv
<1>1. PICK x \in Args, y \in Args :
        /\ Start(x, y) /\ arg = <<x, y>>
        /\ at = "n" \/ alg = "extendedEuclidean"
        /\ alg = "gcd" => x >= 0 /\ y >= 0
  BY DEF AlgInit, EuclidNames
<1>2. m = x /\ n = y /\ arg[2] = y /\ x \in Int /\ y \in Int
  BY <1>1, AlgorithmsAssumption DEF Start
<1>. QED
  BY <1>1, <1>2

LEMMA SignStep ==
  ASSUME AlgInv, SignInv, [AlgNext]_algVars
  PROVE  SignInv'
<1>1. CASE alg \notin EuclidNames
  BY <1>1 DEF AlgNext, Euclid, ReduceM, ReduceN, EuclidReturns, modinv, modexpStarts,
              modexpLoop, modexpReturns, Fail, algVars, SignInv
<1>2. CASE alg \in EuclidNames
  <2>0. m \in Int /\ n \in Int /\ arg[2] \in Int
    BY <1>2 DEF AlgInv, AlgTyped
  <2>1. CASE ReduceM
    <3>1. /\ at = "n" /\ n # 0 /\ m' = Remainder(m, n) /\ n' = n /\ alg' = alg /\ arg' = arg /\ at' = "m"
      BY <2>1 DEF ReduceM
    <3>2. n > 0 => Remainder(m, n) \in 0..n - 1
      BY <2>0, RemainderRange
    <3>. QED
      BY <1>2, <2>0, <3>1, <3>2 DEF SignInv
  <2>2. CASE ReduceN
    <3>1. /\ at = "m" /\ m # 0 /\ n' = Remainder(n, m) /\ m' = m /\ alg' = alg /\ arg' = arg /\ at' = "n"
      BY <2>2 DEF ReduceN
    <3>2. m > 0 => Remainder(n, m) \in 0..m - 1
      BY <2>0, RemainderRange
    <3>. QED
      BY <1>2, <2>0, <3>1, <3>2 DEF SignInv
  <2>3. CASE EuclidReturns
    BY <1>2, <2>0, <2>3 DEF EuclidReturns, EuclidEnds, SignInv
  <2>4. CASE modinv
    BY <1>2, <2>0, <2>4 DEF modinv, Fail, EuclidEnds, SignInv, g
  <2>5. CASE modexpStarts \/ modexpLoop \/ modexpReturns
    <3>1. at \in {"n", "m", "returned", "thrown"}
      BY <1>2 DEF AlgInv, AlgTyped
    <3>. QED
      BY <3>1, <2>5 DEF modexpStarts, modexpLoop, modexpReturns
  <2>6. CASE UNCHANGED algVars
    BY <1>2, <2>6 DEF algVars, SignInv, g
  <2>. QED
    BY <2>1, <2>2, <2>3, <2>4, <2>5, <2>6 DEF AlgNext, Euclid
<1>. QED
  BY <1>1, <1>2

\* The absolute value.
Absolute(x) == IF x >= 0 THEN x ELSE -x

\* A divisor of a number other than zero is at most as large.
LEMMA DivisorAtMost ==
  ASSUME NEW d \in Int, d >= 1, NEW x \in Int, NEW k \in Int, x = d * k
  PROVE  /\ k \in -Absolute(x)..Absolute(x)
         /\ x # 0 => d <= Absolute(x)
<1>1. CASE k >= 1
  <2>1. d * k >= d
    BY <1>1, ProductAtLeast
  <2>2. k * d >= k
    BY <1>1, ProductAtLeast
  <2>3. k * d = d * k /\ d * k \in Int
    OBVIOUS
  <2> DEFINE y == d * k
  <2> HIDE DEF y
  <2>4. y \in Int /\ y >= d /\ y >= k /\ x = y
    BY <2>1, <2>2, <2>3 DEF y
  <2>. QED
    BY <1>1, <2>4 DEF Absolute
<1>2. CASE k = 0
  <2>1. x = 0
    BY <1>2
  <2>. QED
    BY <1>2, <2>1 DEF Absolute
<1>3. CASE k <= -1
  <2> DEFINE l == -k
  <2>0. l \in Int /\ l >= 1
    BY <1>3
  <2>5. d * k = -(d * l)
    BY Products
  <2> HIDE DEF l
  <2>1. d * l >= d
    BY <2>0, ProductAtLeast
  <2>2. l * d >= l
    BY <2>0, ProductAtLeast
  <2>3. l * d = d * l /\ d * l \in Int
    BY <2>0
  <2> DEFINE y == d * l
  <2> HIDE DEF y
  <2>4. y \in Int /\ y >= d /\ y >= l /\ x = -y
    BY <2>1, <2>2, <2>3, <2>5 DEF y
  <2>. QED
    BY <1>3, <2>0, <2>4 DEF Absolute, l
<1>. QED
  BY <1>1, <1>2, <1>3

\* The bounded search of the property finds the divisors.
LEMMA DividesIsDiv ==
  ASSUME NEW d \in Int, d >= 1, NEW x \in Int
  PROVE  Divides(d, x) <=> Div(d, x)
<1>1. ASSUME Div(d, x) PROVE Divides(d, x)
  <2>1. PICK k \in Int : x = d * k
    BY <1>1 DEF Div
  <2>2. k \in -Absolute(x)..Absolute(x)
    BY <2>1, DivisorAtMost
  <2>. QED
    BY <2>1, <2>2 DEF Divides, Absolute
<1>2. ASSUME Divides(d, x) PROVE Div(d, x)
  BY <1>2 DEF Divides, Div
<1>. QED
  BY <1>1, <1>2

\* The largest of a set is what is in it and not exceeded.
LEMMA MaxIs ==
  ASSUME NEW S, S \subseteq Int, NEW x \in S, \A y \in S : y <= x
  PROVE  Max(S) = x
<1>1. \A y \in S : x >= y
  OBVIOUS
<1>2. Max(S) \in S /\ \A y \in S : Max(S) >= y
  BY <1>1 DEF Max
<1> DEFINE y == Max(S)
<1>3. y \in S /\ y \in Int /\ x \in Int /\ y >= x /\ y <= x
  BY <1>2
<1> HIDE DEF y
<1>4. y = x
  BY <1>3
<1>. QED
  BY <1>4 DEF y

\* A common divisor that all others divide is, up to its sign, the greatest.
LEMMA GreatestOfCommon ==
  ASSUME NEW x \in Int, NEW y \in Int, NEW e \in Int,
         \A d \in Int : Div(d, e) <=> Div(d, x) /\ Div(d, y)
  PROVE  IF CommonDivisors(x, y) = {} THEN e = 0 ELSE Absolute(e) = Max(CommonDivisors(x, y))
<1> DEFINE Common == CommonDivisors(x, y)
           All == {x, -x, y, -y}
           f == Absolute(e)
<1>1. CASE x = 0 /\ y = 0
  <2>1. Div(0, 0)
    BY DividesZero
  <2>2. Div(0, e)
    BY <1>1, <2>1
  <2>3. e = 0
    BY <2>2 DEF Div
  <2>4. Max(All) = 0
    <3>1. All \subseteq Int /\ 0 \in All /\ \A z \in All : z <= 0
      BY <1>1
    <3>. QED
      BY <3>1, MaxIs
  <2>5. Common = {}
    BY <2>4 DEF CommonDivisors
  <2>. QED
    BY <2>3, <2>5
<1>2. CASE ~(x = 0 /\ y = 0)
  <2>1. e # 0
    <3> SUFFICES ASSUME e = 0 PROVE FALSE
      OBVIOUS
    <3>1. Div(0, e)
      BY DividesZero
    <3>2. Div(0, x) /\ Div(0, y)
      BY <3>1
    <3>3. x = 0 /\ y = 0
      BY <3>2 DEF Div
    <3>. QED
      BY <1>2, <3>3
  <2>2. f \in Int /\ f >= 1
    BY <2>1 DEF Absolute
  <2>3. Div(f, e)
    <3>1. e = f * 1 \/ e = f * (-1)
      BY DEF Absolute
    <3>. QED
      BY <2>2, <3>1 DEF Div
  <2> HIDE DEF f
  <2>4. Div(f, x) /\ Div(f, y)
    BY <2>2, <2>3
  <2>5. \A d \in Int : d >= 1 /\ Div(d, e) => d <= f
    <3> SUFFICES ASSUME NEW d \in Int, d >= 1, Div(d, e) PROVE d <= f
      OBVIOUS
    <3>1. PICK k \in Int : e = d * k
      BY DEF Div
    <3>. QED
      BY <2>1, <3>1, DivisorAtMost DEF f
  <2>6. Max(All) \in Int /\ Absolute(x) <= Max(All) /\ Absolute(y) <= Max(All)
    <3>1. \E z \in All : \A v \in All : v <= z
      <4>1. CASE Absolute(x) <= Absolute(y)
        <5>1. Absolute(y) \in All /\ \A v \in All : v <= Absolute(y)
          BY <4>1 DEF Absolute
        <5>. QED
          BY <5>1
      <4>2. CASE ~(Absolute(x) <= Absolute(y))
        <5>1. Absolute(x) \in All /\ \A v \in All : v <= Absolute(x)
          BY <4>2 DEF Absolute
        <5>. QED
          BY <5>1
      <4>. QED
        BY <4>1, <4>2
    <3>2. PICK z \in All : \A v \in All : v <= z
      BY <3>1
    <3>3. All \subseteq Int
      OBVIOUS
    <3>4. Absolute(x) \in All /\ Absolute(y) \in All
      BY DEF Absolute
    <3> HIDE DEF All
    <3>5. Max(All) = z
      BY <3>2, <3>3, MaxIs
    <3>. QED
      BY <3>2, <3>3, <3>4, <3>5
  <2>7. f <= Max(All)
    <3>1. CASE x # 0
      <4>1. PICK k \in Int : x = f * k
        BY <2>4 DEF Div
      <4>2. f <= Absolute(x)
        BY <2>2, <3>1, <4>1, DivisorAtMost
      <4>. QED
        BY <2>2, <2>6, <4>2 DEF Absolute
    <3>2. CASE y # 0
      <4>1. PICK k \in Int : y = f * k
        BY <2>4 DEF Div
      <4>2. f <= Absolute(y)
        BY <2>2, <3>2, <4>1, DivisorAtMost
      <4>. QED
        BY <2>2, <2>6, <4>2 DEF Absolute
    <3>. QED
      BY <1>2, <3>1, <3>2
  <2>8. Common = {d \in 1..Max(All) : Divides(d, x) /\ Divides(d, y)}
    BY DEF CommonDivisors
  <2> HIDE DEF All, Common
  <2>9. f \in Common
    BY <2>2, <2>4, <2>6, <2>7, <2>8, DividesIsDiv
  <2>10. \A d \in Common : d <= f
    <3> SUFFICES ASSUME NEW d \in Common PROVE d <= f
      OBVIOUS
    <3>1. d \in Int /\ d >= 1 /\ Divides(d, x) /\ Divides(d, y)
      BY <2>6, <2>8
    <3>2. Div(d, x) /\ Div(d, y)
      BY <3>1, DividesIsDiv
    <3>3. Div(d, e)
      BY <3>1, <3>2
    <3>. QED
      BY <2>5, <3>1, <3>3
  <2>11. Common \subseteq Int
    BY <2>6, <2>8
  <2>12. Max(Common) = f
    BY <2>9, <2>10, <2>11, MaxIs
  <2>. QED
    BY <2>9, <2>12 DEF Common, f
<1>. QED
  BY <1>1, <1>2

-----------------------------------------------------------------------------
(* Powers modulo a number. *)

\* x and y leave the same remainder.
Congruent(M, x, y) == Div(M, x - y)

LEMMA CongruentProducts ==
  ASSUME NEW M \in Int, NEW a \in Int, NEW b \in Int, NEW c \in Int, NEW d \in Int,
         Congruent(M, a, b), Congruent(M, c, d)
  PROVE  Congruent(M, a * c, b * d)
<1>1. PICK k \in Int : a - b = M * k
  BY DEF Congruent, Div
<1>2. PICK l \in Int : c - d = M * l
  BY DEF Congruent, Div
<1>3. a = b + M * k /\ c = d + M * l /\ M * k \in Int /\ M * l \in Int
  BY <1>1, <1>2
<1> DEFINE t == b * l + k * d + (M * k) * l
<1>4. t \in Int
  OBVIOUS
<1>5. (b + M * k) * (d + M * l) - b * d = M * t
  OBVIOUS
<1> HIDE DEF t
<1>6. a * c - b * d = M * t
  BY <1>3, <1>5
<1>. QED
  BY <1>4, <1>6 DEF Congruent, Div

\* A number and its remainder.
LEMMA CongruentRemainder ==
  ASSUME NEW M \in Int, M > 0, NEW x \in Int, NEW y \in Int, Congruent(M, x, y)
  PROVE  x % M \in 0..M - 1 /\ Congruent(M, x % M, y)
<1>1. PICK k \in Int : x - y = M * k
  BY DEF Congruent, Div
<1> DEFINE q == x \div M
           p == x % M
<1>2. q \in Int /\ p \in 0..M - 1 /\ x = M * q + p
  BY DivMod
<1> HIDE DEF q, p
<1>3. p - y = M * (k - q) /\ k - q \in Int
  BY <1>1, <1>2
<1>. QED
  BY <1>2, <1>3 DEF Congruent, Div, p

\* What is in the range of the remainders is the remainder.
LEMMA RemainderIs ==
  ASSUME NEW M \in Int, M > 0, NEW x \in 0..M - 1, NEW y \in Int, Congruent(M, x, y)
  PROVE  x = y % M
<1>1. PICK k \in Int : x - y = M * k
  BY DEF Congruent, Div
<1> DEFINE l == -k
<1>2. l \in Int /\ y = M * l + x
  BY <1>1
<1> HIDE DEF l
<1>. QED
  BY <1>2, DivUnique

\* Powers of two.
LEMMA TwoPowers ==
  ASSUME NEW k \in Nat
  PROVE  /\ Power(2, k) \in Nat /\ Power(2, k) > k /\ Power(2, 0) = 1
         /\ Power(2, k + 1) = 2 * Power(2, k)
<1> DEFINE two == 2
<1>1. two \in Int /\ two > 0 /\ two = 2
  OBVIOUS
<1> HIDE DEF two
<1>2. /\ Power(two, 0) = 1 /\ \A e \in Nat : Power(two, e + 1) = two * Power(two, e)
  BY <1>1, PowerStep
<1>3. \A e \in Nat : Power(two, e) \in Int /\ Power(two, e) > 0
  BY <1>1, PowerPositive
<1>4. \A e \in Nat : Power(2, e) \in Nat
  BY <1>1, <1>3
<1>5. Power(2, 0) = 1 /\ \A e \in Nat : Power(2, e + 1) = 2 * Power(2, e)
  BY <1>1, <1>2
<1> DEFINE Wrong == {l \in Nat : Power(2, l) <= l}
<1>6. Wrong = {}
  <2> SUFFICES ASSUME Wrong # {} PROVE FALSE
    OBVIOUS
  <2>1. PICK l \in Wrong : \A j \in Wrong : l <= j
    BY LeastNumber
  <2>2. l \in Nat /\ Power(2, l) <= l
    BY <2>1
  <2>3. l # 0
    BY <1>5, <2>2
  <2> DEFINE j == l - 1
  <2>4. j \in Nat /\ l = j + 1 /\ ~(l <= j)
    BY <2>2, <2>3
  <2> HIDE DEF j
  <2>5. Power(2, j) > j /\ Power(2, j) \in Nat
    <3>1. j \notin Wrong
      BY <2>1, <2>4
    <3>. QED
      BY <1>4, <2>4, <3>1
  <2>6. Power(2, l) = 2 * Power(2, j)
    BY <1>5, <2>4
  <2> DEFINE p == Power(2, j)
  <2>7. p \in Nat /\ p > j /\ 2 * p <= l
    BY <2>2, <2>5, <2>6
  <2> HIDE DEF p
  <2>. QED
    BY <2>4, <2>7
<1>7. Power(2, k) > k
  <2>1. k \notin Wrong
    BY <1>6
  <2>. QED
    BY <1>4, <2>1
<1>. QED
  BY <1>4, <1>5, <1>7

\* The number of bits is the least exponent whose power of two is larger.
LEMMA BitLength ==
  ASSUME NEW e \in Nat
  PROVE  /\ bitLength(e) \in 0..e /\ Power(2, bitLength(e)) > e
         /\ bitLength(e) > 0 => Power(2, bitLength(e) - 1) <= e
<1> DEFINE P(l) == Power(2, l) > e /\ (l > 0 => Power(2, l - 1) <= e)
           Enough == {l \in Nat : Power(2, l) > e}
<1>1. e \in Enough
  BY TwoPowers
<1>2. PICK l \in Enough : \A j \in Enough : l <= j
  BY <1>1, LeastNumber
<1>3. l \in 0..e
  BY <1>1, <1>2
<1>4. ASSUME l > 0 PROVE Power(2, l - 1) <= e
  <2> DEFINE j == l - 1
  <2>1. j \in Nat /\ ~(l <= j)
    BY <1>3, <1>4
  <2> HIDE DEF j
  <2>2. j \notin Enough
    BY <1>2, <2>1
  <2>3. Power(2, j) \in Nat
    BY <2>1, TwoPowers
  <2>. QED
    BY <2>1, <2>2, <2>3 DEF j
<1>5. P(l)
  BY <1>2, <1>4
<1>6. bitLength(e) = CHOOSE j \in 0..e : P(j)
  BY DEF bitLength
<1> HIDE DEF P
<1>7. bitLength(e) \in 0..e /\ P(bitLength(e))
  BY <1>3, <1>5, <1>6
<1>. QED
  BY <1>7 DEF P

\* One more bit of an exponent.
LEMMA OneMoreBit ==
  ASSUME NEW e \in Nat, NEW i0 \in Nat, i0 > 0
  PROVE  LET q == e \div Power(2, i0)
             h == e \div Power(2, i0 - 1)
         IN  /\ q \in Nat /\ h \in Nat
             /\ h = (q + q) + (h % 2) /\ h % 2 \in {0, 1}
<1> DEFINE j == i0 - 1
           p == Power(2, j)
           h == e \div p
           q == h \div 2
           bit == h % 2
           rest == e % p
<1>1. j \in Nat /\ i0 = j + 1
  OBVIOUS
<1> HIDE DEF j
<1>2. p \in Int /\ p > 0 /\ Power(2, i0) = 2 * p
  BY <1>1, TwoPowers
<1> HIDE DEF p
<1>3. h \in Int /\ rest \in 0..p - 1 /\ e = p * h + rest
  BY <1>2, DivMod
<1>4. h \in Nat
  BY <1>2, QuotientNat
<1> HIDE DEF h, rest
<1>5. q \in Int /\ bit \in 0..1 /\ h = 2 * q + bit /\ q \in Nat
  <2> DEFINE two == 2
  <2>1. two \in Int /\ two > 0
    OBVIOUS
  <2> HIDE DEF two
  <2>2. h \div two \in Int /\ h % two \in 0..two - 1 /\ h = two * (h \div two) + (h % two)
    BY <1>4, <2>1, DivMod
  <2>3. h \div two \in Nat
    BY <1>4, <2>1, QuotientNat
  <2>. QED
    BY <2>2, <2>3 DEF two
<1>6. bit = h % 2
  OBVIOUS
<1> HIDE DEF q, bit
<1> DEFINE d == 2 * p
           r0 == p * bit + rest
<1>7. d \in Int /\ d > 0 /\ r0 \in 0..d - 1 /\ e = d * q + r0
  <2>1. CASE bit = 0
    <3>1. p * bit = 0 /\ p * h = d * q
      BY <1>2, <1>4, <1>5, <2>1
    <3>2. d * q \in Int
      BY <1>2, <1>5
    <3>. QED
      BY <1>2, <1>3, <3>1, <3>2
  <2>2. CASE bit = 1
    <3>1. p * bit = p /\ p * h = d * q + p
      BY <1>2, <1>4, <1>5, <2>2
    <3>2. d * q \in Int
      BY <1>2, <1>5
    <3>. QED
      BY <1>2, <1>3, <3>1, <3>2
  <2>. QED
    BY <1>5, <2>1, <2>2
<1> HIDE DEF d, r0
<1>8. e \div d = q
  BY <1>5, <1>7, DivUnique
<1>9. e \div Power(2, i0) = q
  BY <1>2, <1>8 DEF d
<1>10. e \div Power(2, i0 - 1) = h
  BY DEF h, p, j
<1>11. h = (q + q) + (h % 2) /\ h % 2 \in {0, 1}
  BY <1>4, <1>5, <1>6
<1>. QED
  BY <1>4, <1>5, <1>9, <1>10, <1>11

\* modexp: ans is the power with the bits of the exponent from i on.
ExpInv ==
  alg = "modexp" =>
    /\ arg[1] \in Int /\ arg[2] \in Nat /\ arg[3] \in Nat
    /\ at \in {"base", "i", "returned", "thrown"}
    /\ at = "i" =>
         /\ arg[3] > 0 /\ i \in Nat /\ ans \in Int
         /\ m \in Int /\ Congruent(arg[3], m, arg[1])
         /\ Congruent(arg[3], ans, Power(arg[1], arg[2] \div Power(2, i)))
         /\ arg[2] = 0 => i = 0 /\ ans = 1
         /\ ans \in 0..arg[3] - 1 \/ arg[2] \div Power(2, i) = 0
    /\ at = "returned" =>
         ans = IF arg[2] = 0 /\ arg[3] = 1 THEN 1 ELSE Power(arg[1], arg[2]) % arg[3]

LEMMA ExpInit == AlgInit => ExpInv
<1> SUFFICES ASSUME AlgInit, alg = "modexp"
             PROVE  arg[1] \in Int /\ arg[2] \in Nat /\ arg[3] \in Nat /\ at = "base"
  BY DEF ExpInv
<1>1. at = "base" /\ arg \in Args \X Exponents \X {x \in Args : x >= 0}
  BY DEF AlgInit
<1>2. PICK x \in Args, e \in Exponents, M \in {y \in Args : y >= 0} : arg = <<x, e, M>>
  BY <1>1
<1>3. arg[1] = x /\ arg[2] = e /\ arg[3] = M
  BY <1>2
<1>. QED
  BY <1>1, <1>3, AlgorithmsAssumption

\* The base is reduced, and there is nothing yet of the exponent.
LEMMA ExpStarts ==
  ASSUME ExpInv, modexpStarts
  PROVE  ExpInv'
<1> DEFINE e == arg[2]
           M == arg[3]
           l == bitLength(e)
<1>1. alg = "modexp" /\ arg[1] \in Int /\ e \in Nat /\ M \in Nat
  BY DEF modexpStarts, ExpInv
<1>2. CASE M = 0
  BY <1>1, <1>2 DEF modexpStarts, Fail, ExpInv
<1>3. CASE M # 0
  <2>1. /\ m' = Remainder(arg[1], M) /\ ans' = 1 /\ i' = l /\ at' = "i"
        /\ alg' = alg /\ arg' = arg
    BY <1>3 DEF modexpStarts
  <2>2. M > 0 /\ M \in Int
    BY <1>1, <1>3
  <2> HIDE DEF M
  <2>3. Quotient(arg[1], M) \in Int /\ Remainder(arg[1], M) \in 0..M - 1
    BY <1>1, <2>2, RemainderRange
  <2>4. m' \in Int /\ Congruent(M, m', arg[1])
    <3> DEFINE q == Quotient(arg[1], M)
               k == -q
    <3>1. q \in Int /\ k \in Int /\ m' = arg[1] - (M * q)
      BY <2>1, <2>3 DEF Remainder
    <3> HIDE DEF q
    <3>2. m' - arg[1] = M * k
      BY <1>1, <2>2, <3>1
    <3>. QED
      BY <2>1, <2>3, <3>1, <3>2 DEF Congruent, Div
  <2>5. l \in 0..e /\ Power(2, l) > e
    BY <1>1, BitLength
  <2> HIDE DEF l, e
  <2> DEFINE p == Power(2, l)
  <2>6. l \in Nat /\ p \in Int /\ p > 0 /\ e \in 0..p - 1
    <3>1. l \in Nat
      BY <1>1, <2>5
    <3>2. p \in Nat
      BY <3>1, TwoPowers
    <3>. QED
      BY <1>1, <2>5, <3>1, <3>2
  <2> HIDE DEF p
  <2>7. e \div p = 0
    BY <2>6, SmallQuotient
  <2>8. Power(arg[1], e \div p) = 1
    BY <1>1, <2>7, PowerStep
  <2>9. Congruent(M, 1, Power(arg[1], e \div p))
    BY <2>2, <2>8, DividesZero DEF Congruent
  <2>10. e = 0 => l = 0
    BY <2>5
  <2>11. /\ arg[1]' \in Int /\ arg[2]' \in Nat /\ arg[3]' \in Nat
         /\ arg[3]' = M /\ i' \in Nat /\ ans' = 1
         /\ Congruent(arg[3]', m', arg[1]')
         /\ Congruent(arg[3]', ans', Power(arg[1]', arg[2]' \div Power(2, i')))
         /\ arg[2]' \div Power(2, i') = 0
         /\ arg[2]' = 0 => i' = 0
    BY <1>1, <2>1, <2>4, <2>6, <2>7, <2>9, <2>10 DEF p, e, M
  <2>. QED
    BY <2>1, <2>2, <2>4, <2>11 DEF ExpInv
<1>. QED
  BY <1>2, <1>3

\* One more bit: the square, or the square and the base.
LEMMA ExpLoops ==
  ASSUME ExpInv, modexpLoop, alg = "modexp"
  PROVE  ExpInv'
<1> DEFINE e == arg[2]
           M == arg[3]
           x == arg[1]
           square == (ans * ans) % M
           j == i - 1
           q == e \div Power(2, i)
           h == e \div Power(2, j)
           p == Power(x, q)
<1>1. /\ x \in Int /\ e \in Nat /\ M \in Nat /\ M > 0 /\ i \in Nat /\ ans \in Int
      /\ m \in Int /\ Congruent(M, m, x) /\ Congruent(M, ans, p)
      /\ e = 0 => i = 0 /\ ans = 1
  BY DEF ExpInv, modexpLoop
<1>2. /\ at = "i" /\ i > 0 /\ i' = j /\ at' = at /\ alg' = alg /\ arg' = arg /\ m' = m
      /\ ans' = IF h % 2 = 1 THEN (square * m) % M ELSE square
  BY DEF modexpLoop
<1>3. q \in Nat /\ h \in Nat /\ h = (q + q) + (h % 2) /\ h % 2 \in {0, 1}
  BY <1>1, <1>2, OneMoreBit
<1>4. e # 0
  BY <1>1, <1>2
<1>5. M \in Int /\ M > 0 /\ j \in Nat
  BY <1>1, <1>2
<1>6. /\ \A k \in Nat : Power(x, k) \in Int
      /\ Power(x, 0) = 1 /\ \A k \in Nat : Power(x, k + 1) = x * Power(x, k)
  BY <1>1, PowerStep
<1> HIDE DEF h, q, e, M, x, j
<1>7. p \in Int /\ Power(x, q + q) = p * p /\ p * p \in Int
  BY <1>1, <1>3, <1>6, PowerSum
<1>8. square \in 0..M - 1 /\ Congruent(M, square, p * p)
  <2>1. Congruent(M, ans * ans, p * p)
    <3> HIDE DEF p
    <3>. QED
      BY <1>1, <1>5, <1>7, CongruentProducts
  <2>2. ans * ans \in Int
    BY <1>1
  <2> DEFINE a == ans * ans
             b == p * p
  <2> HIDE DEF a, b
  <2>3. a % M \in 0..M - 1 /\ Congruent(M, a % M, b)
    BY <1>5, <1>7, <2>1, <2>2, CongruentRemainder DEF a, b
  <2>. QED
    BY <2>3 DEF a, b
<1>9. ans' \in 0..M - 1 /\ Congruent(M, ans', Power(x, h))
  <2>1. CASE h % 2 = 0
    <3>1. h = q + q /\ ans' = square
      BY <1>2, <1>3, <2>1
    <3>. QED
      BY <1>7, <1>8, <3>1
  <2>2. CASE h % 2 = 1
    <3>1. h = (q + q) + 1 /\ q + q \in Nat /\ ans' = (square * m) % M
      BY <1>2, <1>3, <2>2
    <3>2. Power(x, h) = x * (p * p)
      BY <1>6, <1>7, <3>1
    <3> DEFINE b == p * p
               a == square * m
               c == b * x
    <3>3. b \in Int /\ c \in Int /\ square \in Int /\ Power(x, h) = c
      BY <1>1, <1>7, <1>8, <3>2
    <3>4. Congruent(M, square, b)
      BY <1>8
    <3> HIDE DEF square, b
    <3>5. Congruent(M, a, c)
      BY <1>1, <1>5, <3>3, <3>4, CongruentProducts
    <3>6. a \in Int
      BY <1>1, <3>3
    <3> HIDE DEF a, c
    <3>7. a % M \in 0..M - 1 /\ Congruent(M, a % M, c)
      BY <1>5, <3>3, <3>5, <3>6, CongruentRemainder
    <3>. QED
      BY <3>1, <3>3, <3>7 DEF a
  <2>. QED
    BY <1>3, <2>1, <2>2
<1>10. ans' \in Int
  BY <1>5, <1>9
<1>11. /\ arg[1]' = x /\ arg[2]' = e /\ arg[3]' = M /\ i' = j
       /\ arg[2]' \div Power(2, i') = h
  BY <1>2 DEF x, e, M, h
<1>. QED
  BY <1>1, <1>2, <1>4, <1>5, <1>9, <1>10, <1>11 DEF ExpInv

\* All bits of the exponent.
LEMMA ExpReturns ==
  ASSUME ExpInv, modexpReturns, alg = "modexp"
  PROVE  ExpInv'
<1> DEFINE e == arg[2]
           M == arg[3]
           x == arg[1]
<1>1. /\ x \in Int /\ e \in Nat /\ M \in Nat /\ M > 0 /\ ans \in Int
      /\ Congruent(M, ans, Power(x, e \div Power(2, 0)))
      /\ e = 0 => ans = 1
      /\ ans \in 0..M - 1 \/ e \div Power(2, 0) = 0
  BY DEF ExpInv, modexpReturns
<1>2. at' = "returned" /\ alg' = alg /\ arg' = arg /\ ans' = ans
  BY DEF modexpReturns
<1>3. e \div Power(2, 0) = e
  BY <1>1, TwoPowers
<1>4. Power(x, e) \in Int
  BY <1>1, PowerStep
<1>5. ans = IF e = 0 /\ M = 1 THEN 1 ELSE Power(x, e) % M
  <2>1. CASE e # 0
    <3>1. ans \in 0..M - 1
      BY <1>1, <1>3, <2>1
    <3>2. M \in Int /\ Congruent(M, ans, Power(x, e))
      BY <1>1, <1>3
    <3> HIDE DEF M, x, e
    <3>3. ans = Power(x, e) % M
      BY <1>1, <1>4, <3>1, <3>2, RemainderIs
    <3>. QED
      BY <2>1, <3>3
  <2>2. CASE e = 0 /\ M # 1
    <3>1. ans = 1 /\ Power(x, e) = 1
      BY <1>1, <2>2, PowerStep
    <3>2. M \in Int /\ M > 0 /\ 1 \in 0..M - 1
      BY <1>1, <2>2
    <3> HIDE DEF M
    <3>3. 1 % M = 1
      BY <3>2, SmallQuotient
    <3>. QED
      BY <2>2, <3>1, <3>3
  <2>3. CASE e = 0 /\ M = 1
    BY <1>1, <2>3
  <2>. QED
    BY <2>1, <2>2, <2>3
<1>6. arg[1]' = x /\ arg[2]' = e /\ arg[3]' = M
  BY <1>2
<1> HIDE DEF x, e, M
<1>. QED
  BY <1>1, <1>2, <1>5, <1>6 DEF ExpInv

LEMMA ExpStep ==
  ASSUME ExpInv, [AlgNext]_algVars
  PROVE  ExpInv'
<1>1. CASE alg # "modexp"
  BY <1>1 DEF AlgNext, Euclid, ReduceM, ReduceN, EuclidReturns, modinv, modexpStarts,
              modexpLoop, modexpReturns, Fail, algVars, ExpInv
<1>2. CASE alg = "modexp"
  <2>1. CASE Euclid \/ EuclidReturns \/ modinv
    BY <1>2, <2>1 DEF Euclid, ReduceM, ReduceN, EuclidReturns, EuclidEnds, modinv, ExpInv
  <2>2. CASE modexpStarts
    BY <2>2, ExpStarts
  <2>3. CASE modexpLoop
    BY <1>2, <2>3, ExpLoops
  <2>4. CASE modexpReturns
    BY <1>2, <2>4, ExpReturns
  <2>5. CASE UNCHANGED algVars
    BY <1>2, <2>5 DEF algVars, ExpInv
  <2>. QED
    BY <2>1, <2>2, <2>3, <2>4, <2>5 DEF AlgNext
<1>. QED
  BY <1>1, <1>2

\* BigIntegerAlgorithms.cc: gcd returns the greatest common divisor and extendedEuclidean, up
\* to its sign; modinv returns the inverse, and throws only if there is none or the modulus is
\* zero; modexp returns the power, but 1 for the exponent 0 and the modulus 1.
THEOREM AnswersAreRight == AlgSpec => []AnswerIsRight
<1> DEFINE Common == CommonDivisors(arg[1], arg[2])
           gcd == IF Common = {} THEN 0 ELSE Max(Common)
<1>1. AlgInv /\ SignInv /\ ExpInv => AnswerIsRight
  <2> SUFFICES ASSUME AlgInv, SignInv, ExpInv PROVE AnswerIsRight
    OBVIOUS
  <2>1. ASSUME alg \in EuclidNames, at = "returned" \/ (at = "thrown" /\ alg = "modinv")
        PROVE  arg[1] \in Int /\ arg[2] \in Int /\ g \in Int /\ gcd = Absolute(g)
    <3>1. AlgTyped /\ DivisorsKept /\ (m = 0 \/ n = 0)
      BY <2>1 DEF AlgInv, SignInv, AlgReturned
    <3>2. arg[1] \in Int /\ arg[2] \in Int /\ g \in Int
      BY <3>1 DEF AlgTyped, g
    <3>3. \A d \in Int : Div(d, g) <=> Div(d, arg[1]) /\ Div(d, arg[2])
      BY <3>1, DividesZero DEF DivisorsKept, g, AlgTyped
    <3>4. IF Common = {} THEN g = 0 ELSE Absolute(g) = Max(Common)
      BY <3>2, <3>3, GreatestOfCommon
    <3>5. g = 0 => Absolute(g) = 0
      BY <3>2 DEF Absolute
    <3> HIDE DEF Common
    <3>. QED
      BY <3>2, <3>4, <3>5
  <2>2. ASSUME at \in {"returned", "thrown"}, alg = "gcd" \/ (alg = "modinv" /\ arg[2] > 0)
        PROVE  g >= 0
    BY <2>2 DEF SignInv, EuclidNames, g, AlgInv, AlgTyped
  <2> HIDE DEF gcd
  <2>3. ASSUME at = "returned", alg = "gcd" PROVE g = gcd
    BY <2>1, <2>2, <2>3 DEF EuclidNames, Absolute
  <2>4. ASSUME at = "returned", alg = "extendedEuclidean" PROVE g \in {gcd, -gcd}
    BY <2>1, <2>4 DEF EuclidNames, Absolute
  <2>5. ASSUME at = "returned", alg = "modinv"
        PROVE  ans \in 0..arg[2] - 1 /\ (ans * arg[1] - 1) % arg[2] = 0
    <3>1. ans \in 0..arg[2] - 1 /\ Div(arg[2], ans * arg[1] - 1) /\ arg[1] \in Int /\ arg[2] \in Int
      BY <2>5 DEF AlgInv, AlgReturned, AlgTyped, EuclidNames
    <3> DEFINE z == ans * arg[1] - 1
               M == arg[2]
               nothing == 0
    <3>2. PICK k \in Int : z = M * k
      BY <3>1 DEF Div
    <3>3. z \in Int /\ M \in Int /\ M > 0
      BY <3>1
    <3>4. nothing \in 0..M - 1 /\ z = M * k + nothing
      BY <3>2, <3>3
    <3> HIDE DEF z, M, nothing
    <3>5. z % M = nothing
      BY <3>3, <3>4, DivUnique
    <3>. QED
      BY <3>1, <3>5 DEF z, M, nothing
  <2>6. ASSUME at = "thrown", alg = "modinv" PROVE gcd # 1 \/ arg[2] = 0
    <3>1. SUFFICES ASSUME arg[2] # 0 PROVE gcd # 1
      OBVIOUS
    <3>2. arg[2] > 0
      BY <2>6, <3>1 DEF AlgInv, AlgTyped, EuclidNames
    <3>3. g # 1
      BY <2>6, <3>1 DEF SignInv, EuclidNames
    <3>. QED
      BY <2>1, <2>2, <2>6, <3>2, <3>3 DEF EuclidNames, Absolute
  <2>7. ASSUME at = "returned", alg = "modexp"
        PROVE  ans = IF arg[2] = 0 /\ arg[3] = 1 THEN 1 ELSE Power(arg[1], arg[2]) % arg[3]
    BY <2>7 DEF ExpInv
  <2>. QED
    BY <2>3, <2>4, <2>5, <2>6, <2>7 DEF AnswerIsRight, gcd
<1>. QED
  BY <1>1, AlwaysInv, SignInit, SignStep, ExpInit, ExpStep, PTL DEF AlgSpec

-----------------------------------------------------------------------------
(* BigUnsignedInABase: sums over the places of a base. *)

\* Products of natural numbers.
LEMMA NaturalProduct ==
  ASSUME NEW x \in Nat, NEW y \in Nat
  PROVE  x * y \in Nat
  OBVIOUS

LEMMA Associates ==
  ASSUME NEW x \in Int, NEW y \in Int, NEW z \in Int
  PROVE  (x * y) * z = x * (y * z)
  OBVIOUS

LEMMA Distributes ==
  ASSUME NEW x \in Int, NEW y \in Int, NEW z \in Int
  PROVE  (x + y) * z = x * z + y * z
  OBVIOUS

\* Powers of natural numbers are natural numbers.
LEMMA NaturalPower ==
  ASSUME NEW b \in Nat, NEW k \in Nat
  PROVE  Power(b, k) \in Nat
<1>1. CASE b > 0
  BY <1>1, PowerPositive
<1>2. CASE b = 0
  <2>1. \A e \in Nat : Power(b, e) \in Int /\ Power(b, 0) = 1 /\ Power(b, e + 1) = b * Power(b, e)
    BY PowerStep
  <2>2. CASE k = 0
    BY <2>1, <2>2
  <2>3. CASE k # 0
    <3>1. k - 1 \in Nat /\ (k - 1) + 1 = k
      BY <2>3
    <3>2. Power(b, k) = b * Power(b, k - 1) /\ Power(b, k - 1) \in Int
      BY <2>1, <3>1
    <3>. QED
      BY <1>2, <3>2
  <2>. QED
    BY <2>2, <2>3
<1>. QED
  BY <1>1, <1>2

\* ByPlaces to the base b.
Places(b, w, l) ==
  LET sum[k \in 0..l] == IF k = 0 THEN 0 ELSE sum[k - 1] + w[k] * Power(b, k - 1)
  IN  sum[l]

LEMMA PlacesInBase ==
  ASSUME NEW w, NEW l
  PROVE  ByPlaces(w, l) = Places(base, w, l)
  BY DEF ByPlaces, Places

\* The sum over the places, one place more.
LEMMA PlacesStep ==
  ASSUME NEW b, NEW w
  PROVE  /\ Places(b, w, 0) = 0
         /\ \A l \in Nat : Places(b, w, l + 1) = Places(b, w, l) + w[l + 1] * Power(b, l)
<1> DEFINE term(k) == w[k] * Power(b, k - 1)
           Equation(l, f) == f = [k \in 0..l |-> IF k = 0 THEN 0 ELSE f[k - 1] + term(k)]
           Of(l) == CHOOSE f : Equation(l, f)
           Without == {l \in Nat : ~ \E f : Equation(l, f)}
<1>1. \A l \in Nat : Places(b, w, l) = Of(l)[l]
  BY DEF Places
<1>8. \A l \in Nat : term(l + 1) = w[l + 1] * Power(b, l)
  <2> SUFFICES ASSUME NEW l \in Nat PROVE term(l + 1) = w[l + 1] * Power(b, l)
    OBVIOUS
  <2>1. (l + 1) - 1 = l
    OBVIOUS
  <2>. QED
    BY <2>1
<1> HIDE DEF term
<1>2. Without = {}
  <2> SUFFICES ASSUME Without # {} PROVE FALSE
    OBVIOUS
  <2>1. PICK l \in Without : \A j \in Without : l <= j
    BY LeastNumber
  <2>2. CASE l = 0
    <3>1. Equation(0, [k \in 0..0 |-> 0])
      OBVIOUS
    <3>. QED
      BY <2>1, <2>2, <3>1
  <2>3. CASE l # 0
    <3>1. l - 1 \in Nat /\ l - 1 \notin Without
      <4> HIDE DEF Equation
      <4>. QED
        BY <2>1, <2>3
    <3>2. PICK f : Equation(l - 1, f)
      BY <3>1
    <3> DEFINE h == [k \in 0..l |-> IF k = l THEN f[l - 1] + term(l) ELSE f[k]]
    <3>3. ASSUME NEW k \in 0..l PROVE h[k] = IF k = 0 THEN 0 ELSE h[k - 1] + term(k)
      <4>1. CASE k = 0
        BY <2>1, <2>3, <3>1, <3>2, <4>1
      <4>2. CASE k # 0
        <5>1. k - 1 \in 0..l - 1 /\ k - 1 # l /\ k - 1 \in 0..l
          BY <2>1, <4>2
        <5>2. h[k - 1] = f[k - 1]
          BY <5>1
        <5>3. CASE k = l
          BY <4>2, <5>2, <5>3
        <5>4. CASE k # l
          <6>1. k \in 0..l - 1 /\ h[k] = f[k]
            BY <2>1, <5>4
          <6>2. f[k] = f[k - 1] + term(k)
            BY <3>2, <4>2, <6>1
          <6>. QED
            BY <4>2, <5>2, <6>1, <6>2
        <5>. QED
          BY <5>3, <5>4
      <4>. QED
        BY <4>1, <4>2
    <3>4. h = [k \in 0..l |-> h[k]]
      OBVIOUS
    <3> HIDE DEF h
    <3>5. Equation(l, h)
      BY <3>3, <3>4
    <3>. QED
      BY <2>1, <3>5
  <2>. QED
    BY <2>2, <2>3
<1>3. \A l \in Nat : Equation(l, Of(l))
  BY <1>2
<1> HIDE DEF Of
<1>4. ASSUME NEW l \in Nat, NEW k \in 0..l
      PROVE  Of(l)[k] = IF k = 0 THEN 0 ELSE Of(l)[k - 1] + term(k)
  BY <1>3
<1> HIDE DEF Equation
<1>5. ASSUME NEW l \in Nat PROVE \A k \in 0..l : Of(l + 1)[k] = Of(l)[k]
  <2> DEFINE Differ == {k \in Nat : k <= l /\ Of(l + 1)[k] # Of(l)[k]}
  <2>1. Differ = {}
    <3> SUFFICES ASSUME Differ # {} PROVE FALSE
      OBVIOUS
    <3>1. PICK k \in Differ : \A j \in Differ : k <= j
      BY LeastNumber
    <3>2. k \in 0..l /\ k \in 0..l + 1 /\ l + 1 \in Nat
      BY <3>1
    <3>3. k # 0
      BY <1>4, <3>1, <3>2
    <3>4. k - 1 \in Nat /\ k - 1 \notin Differ /\ k - 1 <= l
      BY <3>1, <3>3
    <3>5. Of(l + 1)[k - 1] = Of(l)[k - 1]
      BY <3>4
    <3>. QED
      BY <1>4, <3>1, <3>2, <3>3, <3>5
  <2>. QED
    BY <2>1
<1>6. Places(b, w, 0) = 0
  BY <1>1, <1>4
<1>7. ASSUME NEW l \in Nat PROVE Places(b, w, l + 1) = Places(b, w, l) + w[l + 1] * Power(b, l)
  <2>1. l + 1 \in Nat /\ l + 1 \in 0..l + 1 /\ l + 1 # 0 /\ (l + 1) - 1 = l /\ l \in 0..l
    OBVIOUS
  <2>2. Of(l + 1)[l + 1] = Of(l + 1)[l] + term(l + 1)
    BY <1>4, <2>1
  <2>3. Of(l + 1)[l] = Of(l)[l]
    BY <1>5, <2>1
  <2>. QED
    BY <1>1, <1>8, <2>1, <2>2, <2>3
<1>. QED
  BY <1>6, <1>7

\* Sums of natural digits are natural numbers.
LEMMA PlacesNat ==
  ASSUME NEW b \in Nat, NEW w, NEW l \in Nat, \A k \in 1..l : w[k] \in Nat
  PROVE  Places(b, w, l) \in Nat
<1> DEFINE S == {k \in Nat : k <= l => Places(b, w, k) \in Nat}
<1>1. 0 \in S
  BY PlacesStep
<1>2. ASSUME NEW k \in Nat, k \in S PROVE k + 1 \in S
  <2> SUFFICES ASSUME k + 1 <= l PROVE Places(b, w, k + 1) \in Nat
    OBVIOUS
  <2>1. Places(b, w, k) \in Nat /\ w[k + 1] \in Nat /\ Power(b, k) \in Nat
    BY <1>2, NaturalPower
  <2>2. w[k + 1] * Power(b, k) \in Nat
    BY <2>1, NaturalProduct
  <2>3. Places(b, w, k + 1) = Places(b, w, k) + w[k + 1] * Power(b, k)
    BY PlacesStep
  <2> DEFINE p == w[k + 1] * Power(b, k)
  <2> HIDE DEF p
  <2>. QED
    BY <2>1, <2>2, <2>3 DEF p
<1> HIDE DEF S
<1>3. \A k \in Nat : k \in S
  BY <1>1, <1>2, Inductive
<1>. QED
  BY <1>3 DEF S

\* The sums of digits that agree.
LEMMA PlacesAgree ==
  ASSUME NEW b, NEW v, NEW w, NEW l \in Nat, \A k \in 1..l : v[k] = w[k]
  PROVE  Places(b, v, l) = Places(b, w, l)
<1> DEFINE S == {k \in Nat : k <= l => Places(b, v, k) = Places(b, w, k)}
<1>1. 0 \in S
  BY PlacesStep
<1>2. ASSUME NEW k \in Nat, k \in S PROVE k + 1 \in S
  <2> SUFFICES ASSUME k + 1 <= l PROVE Places(b, v, k + 1) = Places(b, w, k + 1)
    OBVIOUS
  <2>1. Places(b, v, k) = Places(b, w, k) /\ v[k + 1] = w[k + 1]
    BY <1>2
  <2>2. /\ Places(b, v, k + 1) = Places(b, v, k) + v[k + 1] * Power(b, k)
        /\ Places(b, w, k + 1) = Places(b, w, k) + w[k + 1] * Power(b, k)
    BY PlacesStep
  <2>. QED
    BY <2>1, <2>2
<1> HIDE DEF S
<1>3. \A k \in Nat : k \in S
  BY <1>1, <1>2, Inductive
<1>. QED
  BY <1>3 DEF S

\* Zeros above count for nothing.
LEMMA PlacesZeros ==
  ASSUME NEW b \in Nat, NEW w, NEW l \in Nat, NEW j \in 0..l,
         \A k \in 1..l : w[k] \in Nat /\ (k > j => w[k] = 0)
  PROVE  Places(b, w, l) = Places(b, w, j)
<1> DEFINE S == {k \in Nat : j + k <= l => Places(b, w, j + k) = Places(b, w, j)}
<1>1. 0 \in S
  OBVIOUS
<1>2. ASSUME NEW k \in Nat, k \in S PROVE k + 1 \in S
  <2> SUFFICES ASSUME j + (k + 1) <= l PROVE Places(b, w, j + (k + 1)) = Places(b, w, j)
    OBVIOUS
  <2> DEFINE x == j + k
  <2>1. /\ x \in Nat /\ x + 1 \in 1..l /\ x + 1 > j /\ j + (k + 1) = x + 1
        /\ Places(b, w, x) = Places(b, w, j)
    BY <1>2
  <2> HIDE DEF x
  <2>2. w[x + 1] = 0 /\ Power(b, x) \in Nat /\ Places(b, w, j) \in Nat
    <3>1. \A k0 \in 1..j : w[k0] \in Nat
      OBVIOUS
    <3>2. j \in Nat
      OBVIOUS
    <3>. QED
      BY <2>1, <3>1, <3>2, NaturalPower, PlacesNat
  <2>3. Places(b, w, x + 1) = Places(b, w, x) + w[x + 1] * Power(b, x)
    BY <2>1, PlacesStep
  <2>4. w[x + 1] * Power(b, x) = 0
    BY <2>2
  <2>5. Places(b, w, x + 1) = Places(b, w, x) + 0
    BY <2>3, <2>4
  <2>6. Places(b, w, x + 1) = Places(b, w, j)
    BY <2>1, <2>2, <2>5
  <2>. QED
    BY <2>1, <2>6
<1> HIDE DEF S
<1>3. \A k \in Nat : k \in S
  BY <1>1, <1>2, Inductive
<1>4. l - j \in Nat /\ j + (l - j) = l
  OBVIOUS
<1>. QED
  BY <1>3, <1>4 DEF S

\* The highest digit first, as operator BigUnsigned takes them.
LEMMA FromTheHighest ==
  ASSUME NEW d \in Seq(Nat), NEW b \in Nat, base = b
  PROVE  BigUnsigned(d) = Places(b, d, Len(d))
<1> DEFINE L == Len(d)
           F == [t \in (0..L - 1) \X Nat |-> t[2] * b + d[L - t[1]]]
           Equation(f) == f = [k \in 0..L |-> IF k = 0 THEN 0 ELSE f[k - 1] * b + d[L - k + 1]]
           Top == CHOOSE f : Equation(f)
<1>1. BigUnsigned(d) = Top[L]
  BY DEF BigUnsigned
<1>2. L \in Nat /\ \A k \in 1..L : d[k] \in Nat
  OBVIOUS
<1>a. \A k \in Nat : Power(b, k) \in Nat
  BY NaturalPower
<1>b. Power(b, 0) = 1 /\ \A k \in Nat : Power(b, k + 1) = b * Power(b, k)
  <2>1. b \in Int
    OBVIOUS
  <2>. QED
    BY <2>1, PowerStep
<1>c. /\ Places(b, d, 0) = 0
      /\ \A k \in Nat : Places(b, d, k + 1) = Places(b, d, k) + d[k + 1] * Power(b, k)
  BY PlacesStep
<1>d. \A k \in 0..L : Places(b, d, k) \in Nat
  <2> SUFFICES ASSUME NEW k \in 0..L PROVE Places(b, d, k) \in Nat
    OBVIOUS
  <2>1. k \in Nat /\ \A j \in 1..k : d[j] \in Nat
    BY <1>2
  <2>. QED
    BY <2>1, PlacesNat
<1>3. Steps(Nat, L, F)
  <2>1. ASSUME NEW t \in (0..L - 1) \X Nat PROVE t[2] * b + d[L - t[1]] \in Nat
    <3>1. t[2] \in Nat /\ L - t[1] \in 1..L
      BY <1>2
    <3>2. t[2] * b \in Nat
      BY <3>1, NaturalProduct
    <3>. QED
      BY <1>2, <3>1, <3>2
  <2>. QED
    BY <2>1 DEF Steps
<1>4. PICK f : Iterates(Nat, 0, L, F, f)
  BY <1>2, <1>3, IteratesIndexed
<1>5. Equation(f)
  <2>1. f \in [0..L -> Nat] /\ f[0] = 0 /\ \A k \in 0..L - 1 : f[k + 1] = F[<<k, f[k]>>]
    BY <1>4 DEF Iterates
  <2>2. ASSUME NEW k \in 0..L, k # 0 PROVE f[k] = f[k - 1] * b + d[L - k + 1]
    <3>1. k - 1 \in 0..L - 1 /\ k - 1 \in 0..L /\ (k - 1) + 1 = k /\ L - (k - 1) = L - k + 1
      BY <1>2, <2>2
    <3>a. f[k - 1] \in Nat
      BY <2>1, <3>1
    <3>2. F[<<k - 1, f[k - 1]>>] = f[k - 1] * b + d[L - (k - 1)]
      BY <3>1, <3>a
    <3>. QED
      BY <2>1, <3>1, <3>2
  <2>. QED
    BY <2>1, <2>2
<1>6. Equation(Top)
  BY <1>5
<1> HIDE DEF Top, L, F
<1>7. Top[0] = 0 /\ \A k \in 0..L : k # 0 => Top[k] = Top[k - 1] * b + d[L - k + 1]
  BY <1>2, <1>6
<1> HIDE DEF Equation
<1> DEFINE S == {k \in Nat : k <= L => /\ Top[k] \in Nat
                   /\ Top[k] * Power(b, L - k) + Places(b, d, L - k) = Places(b, d, L)}
<1>8. 0 \in S
  <2>1. L - 0 = L /\ L \in Nat /\ L \in 0..L
    BY <1>2
  <2>2. Power(b, L) \in Nat /\ Places(b, d, L) \in Nat
    BY <2>1, <1>a, <1>d
  <2>. QED
    BY <1>7, <2>1, <2>2
<1>9. ASSUME NEW k \in Nat, k \in S PROVE k + 1 \in S
  <2> SUFFICES ASSUME k + 1 <= L
               PROVE  /\ Top[k + 1] \in Nat
                      /\ Top[k + 1] * Power(b, L - (k + 1)) + Places(b, d, L - (k + 1))
                           = Places(b, d, L)
    OBVIOUS
  <2> DEFINE j == L - (k + 1)
             p == Power(b, j)
             t == Top[k]
             rest == Places(b, d, j)
             x == d[j + 1]
  <2>1. j \in Nat /\ L - k = j + 1 /\ j + 1 \in 1..L /\ L - (k + 1) + 1 = j + 1
        /\ k + 1 \in 0..L /\ k + 1 # 0 /\ (k + 1) - 1 = k /\ j \in 0..L
    BY <1>2
  <2>2. t \in Nat /\ Top[k] * Power(b, L - k) + Places(b, d, L - k) = Places(b, d, L)
    BY <1>9, <1>2
  <2>3. Top[k + 1] = t * b + x
    BY <1>7, <2>1
  <2> HIDE DEF j
  <2>4. p \in Nat /\ rest \in Nat /\ x \in Nat
    BY <1>2, <2>1, <1>a, <1>d
  <2>5. Power(b, j + 1) = b * p /\ Places(b, d, j + 1) = rest + x * p
    BY <2>1, <1>b, <1>c
  <2>6. t * (b * p) + (rest + x * p) = Places(b, d, L)
    BY <2>1, <2>2, <2>5
  <2>7. L - (k + 1) = j
    BY DEF j
  <2> HIDE DEF p, t, rest, x
  <2>8. t * b \in Nat /\ (t * b) * p = t * (b * p) /\ (t * b + x) * p = (t * b) * p + x * p
    BY <2>2, <2>4, NaturalProduct, Associates, Distributes
  <2>9. x * p \in Nat /\ t * (b * p) \in Nat
    BY <2>2, <2>4, NaturalProduct
  <2>10. (t * b + x) * p + rest = t * (b * p) + (rest + x * p)
    BY <2>4, <2>8, <2>9
  <2>11. Top[k + 1] \in Nat
    BY <2>3, <2>4, <2>8
  <2>12. Top[k + 1] * p + rest = Places(b, d, L)
    BY <2>3, <2>6, <2>10
  <2>. QED
    BY <2>7, <2>11, <2>12 DEF p, rest
<1> HIDE DEF S
<1>10. \A k \in Nat : k \in S
  BY <1>8, <1>9, Inductive
<1>11. Top[L] \in Nat /\ Top[L] * Power(b, L - L) + Places(b, d, L - L) = Places(b, d, L)
  BY <1>2, <1>10 DEF S
<1>12. L - L = 0 /\ Power(b, 0) = 1 /\ Places(b, d, 0) = 0
  BY <1>2, <1>b, <1>c
<1>13. Top[L] = Places(b, d, L)
  BY <1>11, <1>12
<1>. QED
  BY <1>1, <1>13 DEF L

\* The maximum of a set of numbers that has a bound.
LEMMA MaxOf ==
  ASSUME NEW L \in Nat, NEW S \in SUBSET (0..L), S # {}
  PROVE  Max(S) \in S /\ \A k \in S : k <= Max(S)
<1> DEFINE Below == {L - k : k \in S}
<1>1. Below \subseteq Nat /\ Below # {}
  <2>1. \A k \in S : k \in 0..L
    OBVIOUS
  <2>2. \A k \in S : L - k \in Nat
    BY <2>1
  <2>. QED
    BY <2>2
<1>2. PICK e \in Below : \A j \in Below : e <= j
  <2> HIDE DEF Below
  <2>. QED
    BY <1>1, LeastNumber
<1>3. PICK x \in S : e = L - x
  BY <1>2
<1>4. \A k \in S : x >= k
  <2> SUFFICES ASSUME NEW k \in S PROVE x >= k
    OBVIOUS
  <2>1. L - k \in Below
    OBVIOUS
  <2> HIDE DEF Below
  <2>2. L - x <= L - k
    BY <1>2, <1>3, <2>1
  <2>. QED
    BY <2>2
<1>. QED
  <2>1. Max(S) = CHOOSE y \in S : \A k \in S : y >= k
    BY DEF Max
  <2>2. Max(S) \in S /\ \A k \in S : Max(S) >= k
    BY <1>4, <2>1
  <2>. QED
    BY <2>2

\* A sequence after another.
LEMMA Concatenated ==
  ASSUME NEW V, NEW v \in Seq(V), NEW w \in Seq(V)
  PROVE  v \o w \in Seq(V) /\ Len(v \o w) = Len(v) + Len(w)
  OBVIOUS

\* Sequences with the same elements are equal.
LEMMA SameSequence ==
  ASSUME NEW V, NEW v \in Seq(V), NEW w \in Seq(V), Len(v) = Len(w),
         \A k \in 1..Len(w) : v[k] = w[k]
  PROVE  v = w
  OBVIOUS

-----------------------------------------------------------------------------
(* Digits and symbols. *)

\* zapLeadingZeros keeps the number, and the digit that is left highest is not zero.
LEMMA ZapsLeadingZeros ==
  ASSUME NEW d \in Seq(Nat), NEW b \in Nat
  PROVE  LET z == zapLeadingZeros(d)
         IN  /\ z \in Seq(Nat)
             /\ Places(b, z, Len(z)) = Places(b, d, Len(d))
             /\ z # <<>> => z[Len(z)] # 0
             /\ d # <<>> /\ d[Len(d)] # 0 => z = d
             /\ d = <<0>> => z = <<>>
<1> DEFINE L == Len(d)
           Full == {k \in DOMAIN d : d[k] # 0}
           z == zapLeadingZeros(d)
<1>1. L \in Nat /\ DOMAIN d = 1..L /\ \A k \in 1..L : d[k] \in Nat
  OBVIOUS
<1>2. z = SubSeq(d, 1, IF Full = {} THEN 0 ELSE Max(Full))
  BY DEF zapLeadingZeros
<1> HIDE DEF z
<1>3. CASE Full = {}
  <2>1. z = SubSeq(d, 1, 0)
    BY <1>2, <1>3
  <2>2. z = <<>>
    BY <2>1
  <2>3. \A k \in 1..L : d[k] = 0
    BY <1>1, <1>3
  <2> HIDE DEF Full
  <2>4. 0 \in 0..L /\ \A k \in 1..L : d[k] \in Nat /\ (k > 0 => d[k] = 0)
    BY <1>1, <2>3
  <2>5. Places(b, d, L) = Places(b, d, 0)
    BY <1>1, <2>4, PlacesZeros
  <2>6. Places(b, d, 0) = 0 /\ Places(b, z, 0) = 0
    BY PlacesStep
  <2>7. z \in Seq(Nat) /\ Len(z) = 0
    BY <2>2
  <2>8. d # <<>> /\ d[L] # 0 => FALSE
    <3> SUFFICES ASSUME d # <<>>, d[L] # 0 PROVE FALSE
      OBVIOUS
    <3>1. L \in 1..L
      BY <1>1
    <3>. QED
      BY <2>3, <3>1
  <2> HIDE DEF L
  <2>9. Places(b, z, Len(z)) = Places(b, d, L)
    BY <2>5, <2>6, <2>7
  <2>. QED
    BY <2>2, <2>7, <2>8, <2>9 DEF z, L
<1>4. CASE Full # {}
  <2>1. Full \subseteq 1..L /\ Full \subseteq Nat /\ Full \subseteq 0..L
    BY <1>1
  <2>2. Max(Full) \in Full /\ \A k \in Full : k <= Max(Full)
    <3>1. L \in Nat /\ Full \in SUBSET (0..L)
      BY <1>1, <2>1
    <3> HIDE DEF Full
    <3>. QED
      BY <1>4, <2>1, <3>1, MaxOf
  <2> DEFINE top == Max(Full)
  <2>3. top \in 1..L /\ top \in 0..L /\ d[top] # 0
    BY <1>1, <2>2
  <2>4. \A k \in 1..L : k > top => d[k] = 0
    <3> SUFFICES ASSUME NEW k \in 1..L, k > top, d[k] # 0 PROVE FALSE
      OBVIOUS
    <3>1. k \in Full
      BY <1>1
    <3> HIDE DEF Full
    <3>2. k <= top
      BY <2>2, <3>1
    <3>. QED
      BY <2>3, <3>2
  <2>5. z = SubSeq(d, 1, top)
    BY <1>2, <1>4
  <2>6. d = <<0>> => FALSE
    BY <1>4
  <2>7. d[L] # 0 => top = L
    <3>1. SUFFICES ASSUME d[L] # 0, top # L PROVE FALSE
      OBVIOUS
    <3>2. L \in 1..L /\ L > top
      BY <1>1, <2>3, <3>1
    <3>. QED
      BY <2>4, <3>1, <3>2
  <2> HIDE DEF top, Full
  <2>8. z \in Seq(Nat) /\ Len(z) = top /\ \A k \in 1..top : z[k] = d[k]
    BY <1>1, <2>3, <2>5
  <2>9. Places(b, z, top) = Places(b, d, top)
    BY <2>3, <2>8, PlacesAgree
  <2>10. Places(b, d, L) = Places(b, d, top)
    <3>1. \A k \in 1..L : d[k] \in Nat /\ (k > top => d[k] = 0)
      BY <1>1, <2>4
    <3>. QED
      BY <1>1, <2>3, <3>1, PlacesZeros
  <2>11. z[Len(z)] # 0
    <3>1. top \in 1..top
      BY <2>3
    <3>. QED
      BY <2>3, <2>8, <3>1
  <2>12. d # <<>> /\ d[L] # 0 => z = d
    <3>1. SUFFICES ASSUME d[L] # 0 PROVE z = d
      OBVIOUS
    <3>2. Len(z) = L /\ \A k \in 1..L : z[k] = d[k]
      BY <2>7, <2>8, <3>1
    <3>. QED
      BY <1>1, <2>8, <3>2, SameSequence
  <2>13. Places(b, z, Len(z)) = Places(b, d, L)
    BY <2>8, <2>9, <2>10
  <2>. QED
    BY <2>6, <2>8, <2>11, <2>12, <2>13 DEF z
<1>. QED
  BY <1>3, <1>4 DEF z

SignSymbols == {Minus, Plus}
HasSign(str) == str # <<>> /\ str[1] \in SignSymbols
Numeral(str) == IF HasSign(str) THEN Tail(str) ELSE str
DigitsOf(str) == Reverse([k \in DOMAIN Numeral(str) |-> Digit(Numeral(str)[k])])

\* The number that the places of a string say, a sign standing for no digit.
PlaceDigits(str) ==
  [k \in DOMAIN str |->
     IF str[Len(str) - k + 1] \in SignSymbols THEN 0 ELSE Digit(str[Len(str) - k + 1])]
InPlaces(b, str) == Places(b, PlaceDigits(str), Len(str))

LEMMA DigitNat ==
  ASSUME NEW c \in Kinds \X Nat
  PROVE  Digit(c) \in Nat
  BY DEF Digit

\* What a string without symbols that are no digits, but for its sign, is read as.
LEMMA NumeralVal ==
  ASSUME NEW b \in Nat, NEW str \in Seq(Kinds \X Nat),
         \A k \in DOMAIN Numeral(str) : Numeral(str)[k] \notin SignSymbols
  PROVE  /\ DigitsOf(str) \in Seq(Nat)
         /\ Places(b, DigitsOf(str), Len(DigitsOf(str))) = InPlaces(b, str)
<1> DEFINE L == Len(str)
           t == Numeral(str)
           M == Len(t)
           w == DigitsOf(str)
           v == PlaceDigits(str)
<1>1. L \in Nat /\ DOMAIN str = 1..L /\ \A k \in 1..L : str[k] \in Kinds \X Nat
  OBVIOUS
<1>2. t \in Seq(Kinds \X Nat)
  BY DEF Numeral, HasSign
<1>3. M \in Nat /\ DOMAIN t = 1..M /\ \A k \in 1..M : t[k] \in Kinds \X Nat /\ Digit(t[k]) \in Nat
  BY <1>2, DigitNat
<1>4. \A k \in 1..M : t[k] \notin SignSymbols
  BY <1>3
<1>5. w \in Seq(Nat) /\ Len(w) = M /\ \A k \in 1..M : w[k] = Digit(t[M - k + 1])
  <2> DEFINE u == [k \in 1..M |-> Digit(t[k])]
  <2>1. u \in Seq(Nat) /\ Len(u) = M /\ \A k \in 1..M : u[k] = Digit(t[k])
    <3> HIDE DEF t, M
    <3>1. u \in [1..M -> Nat]
      BY <1>3
    <3>. QED
      BY <1>3, <3>1
  <2>2. w = Reverse(u)
    BY <1>3 DEF DigitsOf
  <2> HIDE DEF u, w, t, M
  <2>3. Reverse(u) = [k \in 1..M |-> u[(M - k) + 1]]
    BY <2>1 DEF Reverse
  <2>4. \A k \in 1..M : (M - k) + 1 \in 1..M /\ (M - k) + 1 = M - k + 1
    BY <1>3
  <2>5. \A k \in 1..M : u[(M - k) + 1] = Digit(t[M - k + 1]) /\ u[(M - k) + 1] \in Nat
    BY <1>3, <2>1, <2>4
  <2>6. w \in [1..M -> Nat] /\ \A k \in 1..M : w[k] = Digit(t[M - k + 1])
    BY <2>2, <2>3, <2>5
  <2>7. M \in Nat
    BY <1>3
  <2>8. w \in Seq(Nat) /\ Len(w) = M
    BY <2>6, <2>7
  <2>. QED
    BY <2>6, <2>8
<1>6. \A k \in 1..L : v[k] = IF str[L - k + 1] \in SignSymbols THEN 0 ELSE Digit(str[L - k + 1])
  BY <1>1 DEF PlaceDigits
<1>7. \A k \in 1..L : v[k] \in Nat
  <2> SUFFICES ASSUME NEW k \in 1..L PROVE v[k] \in Nat
    OBVIOUS
  <2>1. L - k + 1 \in 1..L
    BY <1>1
  <2>2. Digit(str[L - k + 1]) \in Nat
    BY <1>1, <2>1, DigitNat
  <2>. QED
    BY <1>6, <2>2
<1>8. /\ M \in 0..L
      /\ \A k \in 1..L : v[k] = IF k > M THEN 0 ELSE w[k]
  <2>1. CASE HasSign(str)
    <3>1. L \in 1..L /\ 1 \in 1..L /\ str[1] \in SignSymbols /\ t = Tail(str)
      BY <1>1, <2>1 DEF HasSign, Numeral
    <3>2. M = L - 1 /\ \A k \in 1..M : t[k] = str[k + 1]
      BY <1>1, <3>1
    <3> HIDE DEF t, M, L, v, w
    <3>3. ASSUME NEW k \in 1..L PROVE v[k] = IF k > M THEN 0 ELSE w[k]
      <4>1. CASE k > M
        <5>1. k = L /\ L - k + 1 = 1
          BY <1>1, <3>2, <4>1
        <5>. QED
          BY <1>6, <3>1, <4>1, <5>1
      <4>2. CASE ~(k > M)
        <5>1. k \in 1..M /\ M - k + 1 \in 1..M /\ (M - k + 1) + 1 = L - k + 1
          BY <1>1, <3>2, <4>2
        <5>2. t[M - k + 1] = str[L - k + 1]
          BY <3>2, <5>1
        <5>3. str[L - k + 1] \notin SignSymbols
          BY <1>4, <5>1, <5>2
        <5>. QED
          BY <1>5, <1>6, <4>2, <5>1, <5>2, <5>3
      <4>. QED
        BY <4>1, <4>2
    <3>4. M \in 0..L
      BY <1>1, <1>3, <3>2
    <3>. QED
      BY <3>3, <3>4
  <2>2. CASE ~HasSign(str)
    <3>1. t = str /\ M = L
      BY <2>2 DEF Numeral
    <3> HIDE DEF t, M, L, v, w
    <3>2. ASSUME NEW k \in 1..L PROVE v[k] = w[k]
      <4>1. L - k + 1 \in 1..M /\ M - k + 1 = L - k + 1 /\ k \in 1..M
        BY <1>1, <3>1
      <4>2. t[L - k + 1] \notin SignSymbols
        BY <1>4, <4>1
      <4>. QED
        BY <1>5, <1>6, <3>1, <4>1, <4>2
    <3>. QED
      BY <1>1, <3>1, <3>2
  <2>. QED
    BY <2>1, <2>2
<1> HIDE DEF t, M, L, v, w
<1>9. Places(b, v, L) = Places(b, v, M)
  <2>1. \A k \in 1..L : v[k] \in Nat /\ (k > M => v[k] = 0)
    BY <1>7, <1>8
  <2>. QED
    BY <1>1, <1>8, <2>1, PlacesZeros
<1>10. Places(b, v, M) = Places(b, w, M)
  <2>1. \A k \in 1..M : v[k] = w[k]
    BY <1>1, <1>3, <1>8
  <2>. QED
    BY <1>3, <2>1, PlacesAgree
<1>. QED
  BY <1>5, <1>9, <1>10 DEF InPlaces, L, v, w

\* Symbols of digits.
LEMMA SymbolDigit ==
  ASSUME NEW d \in Nat
  PROVE  /\ Symbol(d) \in Kinds \X Nat /\ Symbol(d) \notin SignSymbols
         /\ Digit(Symbol(d)) = d /\ Symbol(d)[1] \in {"0", "A", "a"}
<1>1. CASE d < 10
  <2>1. Symbol(d) = <<"0", d>>
    BY <1>1 DEF Symbol
  <2>. QED
    BY <2>1 DEF Digit, SignSymbols, Minus, Plus, Kinds
<1>2. CASE ~(d < 10)
  <2>1. Symbol(d) = <<"A", d - 10>> /\ d - 10 \in Nat
    BY <1>2 DEF Symbol
  <2>. QED
    BY <2>1 DEF Digit, SignSymbols, Minus, Plus, Kinds
<1>. QED
  BY <1>1, <1>2

\* What is written, with or without a sign, is read as the digits written.
LEMMA SymbolsAreRead ==
  ASSUME NEW d \in Seq(Nat), NEW sign \in {<<>>, <<Minus>>}
  PROVE  LET str == sign \o Symbols(d)
             written_digits == IF d = <<>> THEN <<0>> ELSE d
         IN  /\ str \in Seq(Kinds \X Nat) /\ str # <<>>
             /\ HasSign(str) <=> sign # <<>>
             /\ HasSign(str) => str[1] = Minus
             /\ DigitsOf(str) = written_digits
             /\ \A k \in DOMAIN str : str[k] \notin SignSymbols =>
                  \E j \in DOMAIN written_digits : str[k] = Symbol(written_digits[j])
             /\ \A k \in DOMAIN Numeral(str) : Numeral(str)[k] \notin SignSymbols
             /\ str[Len(str)] = Symbol(written_digits[1])
<1> DEFINE w == IF d = <<>> THEN <<0>> ELSE d
           L == Len(w)
           t == Symbols(d)
           str == sign \o t
<1>1. w \in Seq(Nat) /\ L \in Nat /\ L > 0 /\ DOMAIN w = 1..L /\ \A k \in 1..L : w[k] \in Nat
  <2>1. w \in Seq(Nat)
    OBVIOUS
  <2>2. L > 0
    <3>1. CASE d = <<>>
      BY <3>1
    <3>2. CASE d # <<>>
      BY <3>2
    <3>. QED
      BY <3>1, <3>2
  <2> HIDE DEF w
  <2>. QED
    BY <2>1, <2>2
<1>2. /\ t \in Seq(Kinds \X Nat) /\ Len(t) = L
      /\ \A k \in 1..L : t[k] = Symbol(w[L - k + 1])
  <2>1. CASE d = <<>>
    <3>1. t = <<Symbol(0)>> /\ L = 1 /\ w[1] = 0
      BY <2>1 DEF Symbols
    <3> HIDE DEF t, L, w
    <3>2. Symbol(0) \in Kinds \X Nat
      BY SymbolDigit
    <3>3. \A k \in 1..L : k = 1 /\ L - k + 1 = 1
      BY <3>1
    <3>. QED
      BY <3>1, <3>2, <3>3
  <2>2. CASE d # <<>>
    <3> DEFINE u == [k \in 1..L |-> Symbol(w[k])]
    <3>1. w = d /\ t = Reverse([k \in DOMAIN d |-> Symbol(d[k])])
      BY <2>2 DEF Symbols
    <3>2. t = Reverse(u)
      BY <1>1, <3>1
    <3> HIDE DEF L, w, t
    <3>3. u \in [1..L -> Kinds \X Nat] /\ \A k \in 1..L : u[k] = Symbol(w[k])
      BY <1>1, SymbolDigit
    <3>4. u \in Seq(Kinds \X Nat) /\ Len(u) = L
      BY <1>1, <3>3
    <3> HIDE DEF u
    <3>5. t = [k \in 1..L |-> u[(L - k) + 1]]
      BY <3>2, <3>4 DEF Reverse
    <3>6. \A k \in 1..L : (L - k) + 1 \in 1..L /\ (L - k) + 1 = L - k + 1
      BY <1>1
    <3>7. \A k \in 1..L : u[(L - k) + 1] = Symbol(w[L - k + 1]) /\ u[(L - k) + 1] \in Kinds \X Nat
      BY <3>3, <3>6
    <3>8. t \in [1..L -> Kinds \X Nat] /\ \A k \in 1..L : t[k] = Symbol(w[L - k + 1])
      BY <3>5, <3>7
    <3>. QED
      BY <1>1, <3>8
  <2>. QED
    BY <2>1, <2>2
<1> HIDE DEF w, L, t
<1>3. \A k \in 1..L : L - k + 1 \in 1..L
  BY <1>1
<1>4. \A k \in 1..L : t[k] \notin SignSymbols /\ Digit(t[k]) = w[L - k + 1]
  BY <1>1, <1>2, <1>3, SymbolDigit
<1>5. Minus \in Kinds \X Nat /\ Minus \in SignSymbols
  BY DEF Minus, SignSymbols, Kinds
<1>6. str \in Seq(Kinds \X Nat) /\ str # <<>> /\ Len(str) = Len(sign) + L
  <2>1. sign \in Seq(Kinds \X Nat)
    <3> DEFINE V == Kinds \X Nat
    <3>1. Minus \in V
      BY <1>5
    <3> HIDE DEF V
    <3>2. <<Minus>> \in Seq(V) /\ <<>> \in Seq(V)
      BY <3>1
    <3>. QED
      BY <3>2 DEF V
  <2>2. str \in Seq(Kinds \X Nat) /\ Len(str) = Len(sign) + L
    <3> DEFINE V == Kinds \X Nat
    <3>1. sign \in Seq(V) /\ t \in Seq(V) /\ Len(t) = L
      BY <1>2, <2>1
    <3> HIDE DEF V
    <3>2. sign \o t \in Seq(V) /\ Len(sign \o t) = Len(sign) + Len(t)
      BY <3>1, Concatenated
    <3>. QED
      BY <3>1, <3>2 DEF V
  <2>3. Len(str) > 0
    BY <1>1, <2>1, <2>2
  <2>. QED
    BY <2>2, <2>3
<1>7. (HasSign(str) <=> sign # <<>>) /\ (HasSign(str) => str[1] = Minus) /\ Numeral(str) = t
  <2>1. CASE sign = <<>>
    <3>1. str = t
      BY <1>2, <2>1
    <3>2. t[1] \notin SignSymbols
      BY <1>1, <1>4
    <3>. QED
      BY <2>1, <3>1, <3>2 DEF HasSign, Numeral
  <2>2. CASE sign = <<Minus>>
    <3>1. str[1] = Minus /\ sign # <<>>
      BY <1>2, <2>2
    <3>2. HasSign(str)
      BY <1>5, <1>6, <3>1 DEF HasSign
    <3>3. Tail(str) = t
      <4>1. Len(str) = L + 1 /\ \A k \in 1..L : str[k + 1] = t[k]
        BY <1>1, <1>2, <1>5, <2>2
      <4>2. /\ Tail(str) \in Seq(Kinds \X Nat) /\ Len(Tail(str)) = L
            /\ \A k \in 1..L : Tail(str)[k] = str[k + 1]
        BY <1>1, <1>6, <4>1
      <4> HIDE DEF str
      <4>. QED
        BY <1>2, <4>1, <4>2, SameSequence
    <3>. QED
      BY <3>1, <3>2, <3>3 DEF Numeral
  <2>. QED
    BY <2>1, <2>2
<1>8. DigitsOf(str) = w
  <2> HIDE DEF str
  <2> DEFINE u == [k \in 1..L |-> Digit(t[k])]
  <2>1. DOMAIN t = 1..L
    BY <1>2
  <2>2. DigitsOf(str) = Reverse(u)
    BY <1>7, <2>1 DEF DigitsOf
  <2>3. \A k \in 1..L : u[k] = w[L - k + 1] /\ u[k] \in Nat
    BY <1>1, <1>3, <1>4
  <2>4. u \in [1..L -> Nat]
    BY <2>3
  <2>5. u \in Seq(Nat) /\ Len(u) = L
    BY <1>1, <2>4
  <2> HIDE DEF u
  <2>6. Reverse(u) = [k \in 1..L |-> u[(L - k) + 1]]
    BY <2>5 DEF Reverse
  <2>7. \A k \in 1..L : (L - k) + 1 \in 1..L /\ L - ((L - k) + 1) + 1 = k
    BY <1>1
  <2>8. \A k \in 1..L : u[(L - k) + 1] = w[k]
    BY <2>3, <2>7
  <2>9. Reverse(u) \in [1..L -> Nat] /\ \A k \in 1..L : Reverse(u)[k] = w[k]
    BY <1>1, <2>6, <2>8
  <2>10. Reverse(u) \in Seq(Nat) /\ Len(Reverse(u)) = L
    BY <1>1, <2>9
  <2>11. Len(w) = L
    BY DEF L
  <2>12. Reverse(u) = w
    BY <1>1, <2>9, <2>10, <2>11, SameSequence
  <2>. QED
    BY <2>2, <2>12
<1>9. ASSUME NEW k \in DOMAIN str, str[k] \notin SignSymbols
      PROVE  \E j \in DOMAIN w : str[k] = Symbol(w[j])
  <2>1. CASE k \in 1..Len(sign)
    <3>1. str[k] = Minus
      BY <1>2, <2>1
    <3>. QED
      BY <1>5, <1>9, <3>1
  <2>2. CASE k \notin 1..Len(sign)
    <3>1. k - Len(sign) \in 1..L /\ str[k] = t[k - Len(sign)]
      BY <1>2, <1>6, <2>2
    <3>2. str[k] = Symbol(w[L - (k - Len(sign)) + 1]) /\ L - (k - Len(sign)) + 1 \in DOMAIN w
      BY <1>1, <1>2, <1>3, <3>1
    <3>. QED
      BY <3>2
  <2>. QED
    BY <2>1, <2>2
<1>10. str[Len(str)] = Symbol(w[1])
  <2>1. Len(str) = Len(sign) + L /\ str[Len(sign) + L] = t[L]
    <3>1. Len(t) = L /\ t \in Seq(Kinds \X Nat)
      BY <1>2
    <3>2. CASE sign = <<>>
      BY <1>1, <1>6, <3>1, <3>2
    <3>3. CASE sign = <<Minus>>
      BY <1>1, <1>6, <3>1, <3>3
    <3>. QED
      BY <3>2, <3>3
  <2>2. t[L] = Symbol(w[1])
    <3>1. L \in 1..L /\ L - L + 1 = 1
      BY <1>1
    <3>. QED
      BY <1>2, <3>1
  <2>. QED
    BY <2>1, <2>2
<1>11. \A k \in DOMAIN Numeral(str) : Numeral(str)[k] \notin SignSymbols
  BY <1>2, <1>4, <1>7
<1>12. str = sign \o Symbols(d)
  BY DEF t
<1> HIDE DEF str
<1>. QED
  BY <1>6, <1>7, <1>8, <1>9, <1>10, <1>11, <1>12 DEF w

-----------------------------------------------------------------------------
(* The room for the digits. *)

\* Rounding up.
LEMMA RoundsUp ==
  ASSUME NEW a \in Nat, NEW d \in Nat, d > 0
  PROVE  ceilingDiv(a, d) \in Nat /\ a <= d * ceilingDiv(a, d)
<1> DEFINE x == a + d - 1
           q == x \div d
           rest == x % d
<1>1. x \in Nat
  OBVIOUS
<1> HIDE DEF x
<1>2. q \in Int /\ rest \in 0..d - 1 /\ x = d * q + rest
  BY <1>1, DivMod
<1>3. q \in Nat
  BY <1>1, QuotientNat
<1> HIDE DEF q, rest
<1>4. d * q \in Nat
  BY <1>3, NaturalProduct
<1>5. a <= d * q
  BY <1>2, <1>4 DEF x
<1>6. ceilingDiv(a, d) = q
  BY DEF ceilingDiv, q, x
<1>. QED
  BY <1>3, <1>5, <1>6

\* Larger exponents make larger powers.
LEMMA PowersGrow ==
  ASSUME NEW b \in Nat, b > 0, NEW j \in Nat, NEW k \in Nat, j <= k
  PROVE  Power(b, j) <= Power(b, k)
<1> DEFINE p == Power(b, j)
           q == Power(b, k - j)
<1>1. k - j \in Nat /\ j + (k - j) = k
  OBVIOUS
<1>2. Power(b, k) = p * q
  BY <1>1, PowerSum
<1>3. p \in Nat /\ q \in Nat /\ q > 0
  <2>1. b \in Int /\ b > 0
    OBVIOUS
  <2>2. \A l \in Nat : Power(b, l) \in Int /\ Power(b, l) > 0
    BY <2>1, PowerPositive
  <2> DEFINE l == k - j
  <2>3. l \in Nat
    BY <1>1
  <2> HIDE DEF l
  <2>4. Power(b, l) \in Nat /\ Power(b, l) > 0 /\ Power(b, j) \in Nat
    BY <2>2, <2>3
  <2>. QED
    BY <2>4 DEF l
<1> HIDE DEF p, q
<1>4. 1 <= q /\ 1 \in Int
  BY <1>3
<1>5. p * 1 <= p * q
  BY <1>3, <1>4, MultiplesGrow
<1>6. p <= p * q
  BY <1>3, <1>5
<1>. QED
  BY <1>2, <1>6 DEF p

\* Powers of a base with room for e bits.
LEMMA PowersOfBits ==
  ASSUME NEW b \in Nat, NEW e \in Nat, Power(2, e) <= b, NEW k \in Nat
  PROVE  Power(2, e * k) <= Power(b, k)
<1> DEFINE S == {l \in Nat : Power(2, e * l) <= Power(b, l)}
<1>1. 0 \in S
  <2>1. e * 0 = 0 /\ Power(2, 0) = 1 /\ Power(b, 0) = 1
    BY TwoPowers, PowerStep
  <2>. QED
    BY <2>1
<1>2. ASSUME NEW l \in Nat, l \in S PROVE l + 1 \in S
  <2> DEFINE p == Power(2, e * l)
             q == Power(2, e)
             pb == Power(b, l)
  <2>1. e * l \in Nat /\ e * (l + 1) = (e * l) + e
    BY NaturalProduct
  <2>2. p \in Nat /\ q \in Nat /\ pb \in Nat /\ p <= pb /\ q <= b
    BY <1>2, <2>1, TwoPowers, NaturalPower
  <2>3. Power(2, (e * l) + e) = p * q
    <3> DEFINE two == 2
    <3>1. two \in Int
      OBVIOUS
    <3> HIDE DEF two
    <3>2. Power(two, (e * l) + e) = Power(two, e * l) * Power(two, e)
      BY <2>1, <3>1, PowerSum
    <3>. QED
      BY <3>2 DEF two
  <2>4. Power(b, l + 1) = b * pb
    BY PowerStep
  <2> HIDE DEF p, q, pb
  <2>5. p * q <= p * b /\ p * q \in Int /\ p * b \in Int
    BY <2>2, MultiplesGrow
  <2>6. b * p <= b * pb /\ b * p \in Int /\ b * pb \in Int
    BY <2>2, MultiplesGrow
  <2>7. p * b = b * p
    BY <2>2
  <2>8. p * q <= b * pb
    <3> DEFINE x == p * q
               y == p * b
               z == b * pb
    <3>1. x \in Int /\ y \in Int /\ z \in Int /\ x <= y /\ y <= z
      BY <2>5, <2>6, <2>7
    <3> HIDE DEF x, y, z
    <3>2. x <= z
      BY <3>1
    <3>. QED
      BY <3>2 DEF x, z
  <2>. QED
    BY <2>1, <2>3, <2>4, <2>8
<1> HIDE DEF S
<1>3. \A l \in Nat : l \in S
  BY <1>1, <1>2, Inductive
<1>. QED
  BY <1>3 DEF S

\* There is room for as many digits as a number has: it is below that power of the base.
LEMMA RoomSuffices ==
  ASSUME NEW v \in Nat, NEW b \in Nat, b >= 2
  PROVE  RoomFor(v, b) \in Nat /\ v < Power(b, RoomFor(v, b))
<1> DEFINE e == bitLen(b) - 1
           l == bitLen(v)
           blocks == ceilingDiv(l, N)
           bits == blocks * N
           places == ceilingDiv(bits, e)
<1>1. bitLen(b) = bitLength(b) /\ bitLen(v) = bitLength(v)
  BY DEF bitLen, bitLength
<1>2. e \in Nat /\ e > 0 /\ Power(2, e) <= b
  <2> DEFINE x == bitLength(b)
  <2>1. x \in 0..b /\ Power(2, x) > b /\ (x > 0 => Power(2, x - 1) <= b)
    BY BitLength
  <2> HIDE DEF x
  <2>2. x # 0 /\ x # 1
    <3>1. Power(2, 0) = 1 /\ Power(2, 0 + 1) = 2 * Power(2, 0) /\ 0 + 1 = 1
      BY TwoPowers
    <3>. QED
      BY <2>1, <3>1
  <2>3. e = x - 1
    BY <1>1 DEF x
  <2>. QED
    BY <2>1, <2>2, <2>3
<1>3. l \in Nat /\ Power(2, l) > v /\ Power(2, l) \in Nat
  BY <1>1, BitLength, TwoPowers
<1>4. N \in Nat /\ N > 0
  BY BlockAssumption
<1> HIDE DEF e, l
<1>5. blocks \in Nat /\ l <= N * blocks
  BY <1>3, <1>4, RoundsUp
<1> HIDE DEF blocks
<1>6. bits \in Nat /\ l <= bits
  <2>1. bits \in Nat /\ bits = N * blocks
    BY <1>4, <1>5, NaturalProduct
  <2>. QED
    BY <1>5, <2>1
<1> HIDE DEF bits
<1>7. places \in Nat /\ bits <= e * places
  BY <1>2, <1>6, RoundsUp
<1>8. RoomFor(v, b) = places
  BY DEF RoomFor, places, bits, blocks, l, e
<1> HIDE DEF places
<1>9. e * places \in Nat
  BY <1>2, <1>7, NaturalProduct
<1> DEFINE x == e * places
<1>10. x \in Nat /\ l <= x
  BY <1>3, <1>6, <1>7, <1>9
<1>11. Power(2, x) <= Power(b, places)
  BY <1>2, <1>7, PowersOfBits
<1> HIDE DEF x
<1>12. Power(2, l) <= Power(2, x)
  <2> DEFINE two == 2
  <2>1. two \in Nat /\ two > 0
    OBVIOUS
  <2> HIDE DEF two
  <2>2. Power(two, l) <= Power(two, x)
    BY <1>3, <1>10, <2>1, PowersGrow
  <2>. QED
    BY <2>2 DEF two
<1>13. Power(2, x) \in Nat /\ Power(b, places) \in Nat
  BY <1>7, <1>10, TwoPowers, NaturalPower
<1>14. v < Power(b, places)
  BY <1>3, <1>11, <1>12, <1>13
<1>. QED
  BY <1>7, <1>8, <1>14

-----------------------------------------------------------------------------
(* Writing and reading. *)

\* The digits found are the lowest of the integer written, which has room for more
\* while some of it is left.
DigitsFound ==
  did \in {"start", "write"} =>
    /\ base \in Nat /\ base >= 2 /\ written \in Int /\ left \in Nat /\ room \in Nat
    /\ blk \in Seq(Nat) /\ \A k \in DOMAIN blk : blk[k] < base
    /\ Places(base, blk, Len(blk)) + left * Power(base, Len(blk)) = Magnitude(written)
    /\ left # 0 => Magnitude(written) < Power(base, room)
    /\ left = 0 /\ blk # <<>> => blk[Len(blk)] # 0
    /\ IF blk = <<>> THEN left = Magnitude(written) ELSE blk[1] = Magnitude(written) % base

\* What has been written, and what has been given.
Text ==
  /\ did = "write" =>
       left = 0 /\ string = (IF written < 0 THEN <<Minus>> ELSE <<>>) \o Symbols(blk)
  /\ did = "given" => room = 0 /\ base \in Nat /\ string \in Seq(Kinds \X Nat)

\* RoundTrip of a string str, read as x with the digits d.
Reread(str, x, d, w, b, space) ==
  /\ space > 0 => x = w /\ str[Len(str)] = Symbol(Magnitude(w) % b)
  /\ x \in {InPlaces(b, str), -InPlaces(b, str)}
  /\ x < 0 => str[1] = Minus
  /\ d # <<>> => d[Len(d)] # 0

BaseInv ==
  /\ DigitsFound /\ StaysInRoom /\ Text
  /\ did \in {"start", "write", "given", "read", "throw"}
  /\ did = "read" => Reread(string, readBack, blk, written, base, room)

\* The digits that are left are the first ones.
LEMMA ZapsToPrefix ==
  ASSUME NEW d \in Seq(Nat)
  PROVE  LET z == zapLeadingZeros(d)
         IN  Len(z) <= Len(d) /\ \A k \in DOMAIN z : k \in DOMAIN d /\ z[k] = d[k]
<1> DEFINE Full == {k \in DOMAIN d : d[k] # 0}
           e == IF Full = {} THEN 0 ELSE Max(Full)
<1>1. e \in 0..Len(d)
  <2>1. CASE Full = {}
    BY <2>1
  <2>2. CASE Full # {}
    <3>1. Full \subseteq 1..Len(d) /\ Len(d) \in Nat /\ Full \in SUBSET (0..Len(d))
      OBVIOUS
    <3> HIDE DEF Full
    <3>2. Max(Full) \in Full
      BY <2>2, <3>1, MaxOf
    <3>. QED
      BY <2>2, <3>1, <3>2
  <2>. QED
    BY <2>1, <2>2
<1>2. zapLeadingZeros(d) = SubSeq(d, 1, e)
  BY DEF zapLeadingZeros
<1> HIDE DEF e
<1>. QED
  BY <1>1, <1>2

LEMMA MagnitudeNat ==
  ASSUME NEW w \in Int
  PROVE  Magnitude(w) \in Nat /\ w = IF w < 0 THEN -Magnitude(w) ELSE Magnitude(w)
  BY DEF Magnitude

\* A number leaves its lowest digit when it is divided by the base.
LEMMA LowestDigit ==
  ASSUME NEW b \in Nat, b > 0, NEW w, NEW l \in Nat, l > 0, \A k \in 1..l : w[k] \in Nat, w[1] < b
  PROVE  Places(b, w, l) % b = w[1]
<1> DEFINE low == w[1]
           Multiple(x) == \E q \in Nat : x = b * q + low
           S == {k \in Nat : k + 1 <= l => Multiple(Places(b, w, k + 1))}
<1>0. low \in Nat /\ low \in 0..b - 1 /\ b \in Int
  OBVIOUS
<1>1. 0 \in S
  <2>1. Places(b, w, 0 + 1) = Places(b, w, 0) + w[0 + 1] * Power(b, 0) /\ Places(b, w, 0) = 0
    BY PlacesStep
  <2>2. Power(b, 0) = 1 /\ w[0 + 1] = low
    BY PowerStep
  <2> HIDE DEF low
  <2>3. Places(b, w, 0 + 1) = b * 0 + low
    BY <1>0, <2>1, <2>2
  <2>. QED
    BY <2>3
<1>2. ASSUME NEW k \in Nat, k \in S PROVE k + 1 \in S
  <2>0. PICK j \in Nat : j = k + 1
    OBVIOUS
  <2>1. SUFFICES ASSUME j + 1 <= l PROVE Multiple(Places(b, w, j + 1))
    BY <2>0
  <2>2. PICK q \in Nat : Places(b, w, j) = b * q + low
    BY <1>2, <2>0, <2>1
  <2> HIDE DEF S, Multiple, low
  <2> DEFINE x == w[j + 1]
             p == Power(b, k)
  <2>3. Places(b, w, j + 1) = Places(b, w, j) + x * Power(b, j)
    BY PlacesStep
  <2>4. Power(b, j) = b * p
    BY <1>0, <2>0, PowerStep
  <2>5. x \in Nat
    <3>1. j + 1 \in 1..l
      BY <2>1
    <3>. QED
      BY <3>1
  <2>6. p \in Nat
    BY NaturalPower
  <2> HIDE DEF x, p
  <2>7. x * (b * p) = b * (x * p) /\ x * p \in Nat
    <3>1. x * (b * p) = (x * b) * p /\ (b * x) * p = b * (x * p)
      BY <2>5, <2>6, Associates
    <3>2. x * b = b * x
      BY <2>5
    <3>. QED
      BY <2>5, <2>6, <3>1, <3>2, NaturalProduct
  <2>8. PICK y \in Nat : y = x * p
    BY <2>7
  <2>9. Places(b, w, j + 1) = (b * q + low) + b * y
    BY <2>2, <2>3, <2>4, <2>7, <2>8
  <2>10. (b * q + low) + b * y = b * (q + y) + low /\ q + y \in Nat
    BY <1>0
  <2>. QED
    BY <2>9, <2>10 DEF Multiple
<1>3. \A k \in Nat : k \in S
  <2> HIDE DEF S
  <2>. QED
    BY <1>1, <1>2, Inductive
<1>4. Multiple(Places(b, w, l))
  <2>1. l - 1 \in Nat /\ (l - 1) + 1 = l
    OBVIOUS
  <2>. QED
    BY <1>3, <2>1
<1>5. PICK q \in Nat : Places(b, w, l) = b * q + low
  BY <1>4
<1>6. Places(b, w, l) \in Int
  BY PlacesNat
<1> HIDE DEF low
<1>7. Places(b, w, l) % b = low
  BY <1>0, <1>5, <1>6, DivUnique
<1>. QED
  BY <1>7 DEF low

\* The constructor from digits.
LEMMA InitFromDigits ==
  ASSUME NEW d \in Seq(Nat), base \in Nat, FromDigits(d)
  PROVE  BaseInv
<1>1. left = 0 /\ room = Len(d) /\ string = <<>>
  BY DEF FromDigits
<1>2. CASE base >= 2 /\ \A k \in DOMAIN d : d[k] < base
  <2> DEFINE z == zapLeadingZeros(d)
             v == Places(base, d, Len(d))
  <2>1. blk = z /\ written = v /\ did = "start"
    BY <1>2, PlacesInBase DEF FromDigits
  <2>2. /\ z \in Seq(Nat) /\ Places(base, z, Len(z)) = v
        /\ z # <<>> => z[Len(z)] # 0
    BY ZapsLeadingZeros
  <2>3. Len(z) <= Len(d) /\ \A k \in DOMAIN z : z[k] < base
    BY <1>2, ZapsToPrefix
  <2>4. v \in Nat
    <3>1. Len(d) \in Nat /\ \A k \in 1..Len(d) : d[k] \in Nat
      OBVIOUS
    <3>. QED
      BY <3>1, PlacesNat
  <2> HIDE DEF z, v
  <2>5. Magnitude(written) = v
    BY <2>1, <2>4 DEF Magnitude
  <2>6. Places(base, blk, Len(blk)) + left * Power(base, Len(blk)) = v
    <3>1. Power(base, Len(blk)) \in Nat /\ Len(blk) \in Nat
      BY <2>1, <2>2, NaturalPower
    <3>2. left * Power(base, Len(blk)) = 0
      BY <1>1, <3>1
    <3>. QED
      BY <2>1, <2>2, <2>4, <3>2
  <2>7. IF blk = <<>> THEN left = v ELSE blk[1] = v % base
    <3>1. CASE z = <<>>
      <4>1. Places(base, z, 0) = 0 /\ Len(z) = 0
        BY <3>1, PlacesStep
      <4>. QED
        BY <1>1, <2>1, <2>2, <3>1, <4>1
    <3>2. CASE z # <<>>
      <4>1. Len(z) \in Nat /\ Len(z) > 0 /\ (\A k \in 1..Len(z) : z[k] \in Nat) /\ z[1] < base
        BY <2>2, <2>3, <3>2
      <4>2. base > 0
        BY <1>2
      <4>3. v % base = z[1]
        BY <2>2, <4>1, <4>2, LowestDigit
      <4>. QED
        BY <2>1, <3>2, <4>3
    <3>. QED
      BY <3>1, <3>2
  <2>8. DigitsFound
    BY <1>1, <1>2, <2>1, <2>2, <2>3, <2>4, <2>5, <2>6, <2>7 DEF DigitsFound
  <2>9. StaysInRoom
    BY <1>1, <2>1, <2>3 DEF StaysInRoom
  <2>. QED
    BY <2>1, <2>8, <2>9 DEF BaseInv, Text
<1>3. CASE ~(base >= 2 /\ \A k \in DOMAIN d : d[k] < base)
  <2>1. did = "throw"
    BY <1>3 DEF FromDigits
  <2>. QED
    BY <2>1 DEF BaseInv, DigitsFound, StaysInRoom, Text
<1>. QED
  BY <1>2, <1>3

LEMMA InitBase == BaseInit => BaseInv
<1> SUFFICES ASSUME BaseInit PROVE BaseInv
  OBVIOUS
<1>1. base \in Nat
  BY InABaseAssumption DEF BaseInit
<1>2. CASE /\ written \in Written /\ left = Magnitude(written) /\ string = <<>> /\ blk = <<>>
           /\ IF base < 2 THEN room = 0 /\ did = "throw"
              ELSE room = RoomFor(left, base) /\ did = "start"
  <2>1. written \in Int /\ Magnitude(written) \in Nat
    BY <1>2, InABaseAssumption, MagnitudeNat
  <2>2. CASE base < 2
    BY <1>2, <2>2 DEF BaseInv, DigitsFound, StaysInRoom, Text
  <2>3. CASE ~(base < 2)
    <3> DEFINE v == Magnitude(written)
    <3>1. v \in Nat /\ base >= 2 /\ did = "start" /\ left = v /\ room = RoomFor(v, base) /\ blk = <<>>
      BY <1>1, <1>2, <2>1, <2>3
    <3> HIDE DEF v
    <3>2. room \in Nat /\ v < Power(base, room)
      BY <1>1, <3>1, RoomSuffices
    <3>3. Places(base, blk, 0) = 0 /\ Power(base, 0) = 1 /\ Len(blk) = 0
      BY <1>1, <3>1, PlacesStep, PowerStep
    <3>4. Places(base, blk, Len(blk)) + left * Power(base, Len(blk)) = v
      <4>1. left * 1 = v /\ 0 + v = v
        BY <3>1
      <4>. QED
        BY <3>3, <4>1
    <3>5. v # 0 => room > 0
      <4> SUFFICES ASSUME v # 0, room = 0 PROVE FALSE
        BY <3>2
      <4>. QED
        BY <3>1, <3>2, <3>3
    <3>6. DigitsFound
      <4>1. blk \in Seq(Nat) /\ \A k \in DOMAIN blk : blk[k] < base
        BY <3>1
      <4>. QED
        BY <1>1, <2>1, <3>1, <3>2, <3>4, <4>1 DEF DigitsFound, v
    <3>7. StaysInRoom
      BY <3>1, <3>2, <3>3, <3>5 DEF StaysInRoom
    <3>. QED
      BY <3>1, <3>6, <3>7 DEF BaseInv, Text
  <2>. QED
    BY <2>2, <2>3
<1>3. CASE written = 0 /\ left = 0 /\ room = 0 /\ blk = <<>> /\ string \in Given /\ did = "given"
  <2>1. string \in Seq(Kinds \X Nat)
    BY <1>3, InABaseAssumption
  <2>. QED
    BY <1>1, <1>3, <2>1 DEF BaseInv, DigitsFound, StaysInRoom, Text
<1>4. ASSUME NEW d \in DigitArrays, FromDigits(d) PROVE BaseInv
  BY <1>1, <1>4, InABaseAssumption, InitFromDigits
<1>. QED
  BY <1>2, <1>3, <1>4 DEF BaseInit

\* One digit more.
LEMMA NextDigitKeeps == BaseInv /\ NextDigit => BaseInv'
<1> SUFFICES ASSUME BaseInv, NextDigit PROVE BaseInv'
  OBVIOUS
<1> DEFINE L == Len(blk)
           v == Magnitude(written)
           x == left % base
           q == left \div base
           p == Power(base, L)
           sum == Places(base, blk, L)
<1>1. /\ did = "start" /\ left # 0 /\ base \in Nat /\ base >= 2 /\ written \in Int
      /\ left \in Nat /\ room \in Nat /\ blk \in Seq(Nat) /\ \A k \in DOMAIN blk : blk[k] < base
      /\ sum + left * p = v /\ v < Power(base, room)
      /\ IF blk = <<>> THEN left = v ELSE blk[1] = v % base
  BY DEF BaseInv, DigitsFound, NextDigit
<1>2. L \in Nat /\ L < room
  BY <1>1 DEF BaseInv, StaysInRoom
<1>3. /\ blk' = Append(blk, x) /\ left' = q /\ written' = written /\ base' = base /\ room' = room
      /\ did' = "start"
  BY <1>1 DEF NextDigit
<1>4. x \in 0..base - 1 /\ x \in Nat /\ q \in Nat /\ left = base * q + x
  BY <1>1, DivMod, QuotientNat
<1>5. /\ blk' \in Seq(Nat) /\ Len(blk') = L + 1 /\ blk'[L + 1] = x
      /\ \A k \in 1..L : blk'[k] = blk[k]
  BY <1>1, <1>2, <1>3, <1>4
<1>6. p \in Nat /\ sum \in Nat /\ p > 0
  <2>1. \A k \in 1..L : blk[k] \in Nat
    BY <1>1
  <2>2. base \in Int /\ base > 0
    BY <1>1
  <2>. QED
    BY <1>1, <1>2, <2>1, <2>2, NaturalPower, PowerPositive, PlacesNat
<1>7. Places(base, blk', L + 1) = sum + x * p
  <2>1. Places(base, blk', L) = sum
    BY <1>2, <1>5, PlacesAgree
  <2>2. Places(base, blk', L + 1) = Places(base, blk', L) + blk'[L + 1] * Power(base, L)
    BY <1>2, PlacesStep
  <2>. QED
    BY <1>5, <2>1, <2>2
<1>8. Power(base, L + 1) = base * p
  <2>1. base \in Int
    BY <1>1
  <2>. QED
    BY <1>2, <2>1, PowerStep
<1>9. v \in Nat
  BY <1>1, MagnitudeNat
<1> DEFINE y == Power(base, L + 1)
<1>10. y \in Nat /\ y = base * p
  BY <1>1, <1>6, <1>8, NaturalProduct
<1> HIDE DEF L, x, q, p, sum, v, y
<1>11. (sum + x * p) + q * y = v
  <2>1. (base * q + x) * p = (base * q) * p + x * p /\ base * q \in Nat
    BY <1>1, <1>4, <1>6, NaturalProduct, Distributes
  <2>2. (base * q) * p = q * (base * p)
    <3>1. base * q = q * base
      BY <1>1, <1>4
    <3>2. (q * base) * p = q * (base * p)
      BY <1>1, <1>4, <1>6, Associates
    <3>. QED
      BY <3>1, <3>2
  <2>3. x * p \in Nat /\ q * y \in Nat
    BY <1>4, <1>6, <1>10, NaturalProduct
  <2>4. left * p = q * y + x * p
    BY <1>4, <1>10, <2>1, <2>2
  <2>. QED
    BY <1>1, <1>6, <2>3, <2>4
<1>12. q = 0 => x # 0
  BY <1>1, <1>4
<1>13. blk'[1] = v % base
  <2>1. CASE blk = <<>>
    <3>1. L = 0 /\ left = v
      BY <1>1, <2>1 DEF L
    <3>. QED
      BY <1>5, <3>1 DEF x
  <2>2. CASE blk # <<>>
    <3>1. 1 \in 1..L
      BY <1>1, <1>2, <2>2 DEF L
    <3>. QED
      BY <1>1, <1>5, <2>2, <3>1
  <2>. QED
    BY <2>1, <2>2
<1>14. q # 0 => L + 1 < room
  <2> SUFFICES ASSUME q # 0, room = L + 1 PROVE FALSE
    BY <1>1, <1>2
  <2>1. v < y
    BY <1>1 DEF y
  <2>2. y <= q * y
    <3>1. 1 \in Int /\ 1 <= q /\ q \in Int
      BY <1>4
    <3>2. y * 1 <= y * q
      BY <1>10, <3>1, MultiplesGrow
    <3>3. y * 1 = y /\ y * q = q * y
      BY <1>4, <1>10
    <3>. QED
      BY <3>2, <3>3
  <2>3. x * p \in Nat /\ q * y \in Nat
    BY <1>4, <1>6, <1>10, NaturalProduct
  <2>4. q * y <= v
    BY <1>6, <1>9, <1>11, <2>3
  <2>. QED
    BY <1>9, <1>10, <2>1, <2>2, <2>3, <2>4
<1>15. StaysInRoom'
  BY <1>1, <1>2, <1>3, <1>5, <1>14 DEF StaysInRoom
<1>16. DigitsFound'
  <2>1. \A k \in DOMAIN blk' : blk'[k] < base
    <3> SUFFICES ASSUME NEW k \in 1..L + 1 PROVE blk'[k] < base
      BY <1>5
    <3>1. CASE k = L + 1
      BY <1>1, <1>4, <1>5, <3>1
    <3>2. CASE k # L + 1
      <4>1. k \in 1..L /\ k \in DOMAIN blk
        BY <1>1, <1>2, <3>2 DEF L
      <4>. QED
        BY <1>1, <1>5, <4>1
    <3>. QED
      BY <3>1, <3>2
  <2>2. Places(base', blk', Len(blk')) + left' * Power(base', Len(blk')) = v
    BY <1>3, <1>5, <1>7, <1>11 DEF y
  <2>3. v = Magnitude(written') /\ v < Power(base', room')
    BY <1>1, <1>3 DEF v
  <2>4. left' = 0 => blk'[Len(blk')] # 0
    BY <1>3, <1>5, <1>12
  <2>5. blk' # <<>> /\ blk'[1] = Magnitude(written') % base'
    BY <1>2, <1>3, <1>5, <1>13, <2>3
  <2>. QED
    BY <1>1, <1>3, <1>4, <1>5, <2>1, <2>2, <2>3, <2>4, <2>5 DEF DigitsFound
<1>. QED
  BY <1>3, <1>15, <1>16 DEF BaseInv, Text

\* The digits as symbols.
LEMMA WriteKeeps == BaseInv /\ Write => BaseInv'
<1> SUFFICES ASSUME BaseInv, Write PROVE BaseInv'
  OBVIOUS
<1>1. /\ did = "start" /\ left = 0
      /\ UNCHANGED <<written, base, left, room, blk, readBack>>
      /\ IF base > 36 THEN did' = "throw" /\ UNCHANGED string
         ELSE did' = "write" /\ string' = (IF written < 0 THEN <<Minus>> ELSE <<>>) \o Symbols(blk)
  BY DEF Write
<1>2. CASE base > 36
  <2>1. did' = "throw"
    BY <1>1, <1>2
  <2>. QED
    BY <2>1 DEF BaseInv, DigitsFound, StaysInRoom, Text
<1>3. CASE ~(base > 36)
  <2>1. did' = "write" /\ string' = (IF written < 0 THEN <<Minus>> ELSE <<>>) \o Symbols(blk)
    BY <1>1, <1>3
  <2>2. DigitsFound'
    BY <1>1, <2>1 DEF BaseInv, DigitsFound
  <2>3. StaysInRoom'
    BY <1>1, <2>1 DEF BaseInv, StaysInRoom
  <2>4. Text'
    BY <1>1, <2>1 DEF Text
  <2>. QED
    BY <2>1, <2>2, <2>3, <2>4 DEF BaseInv
<1>. QED
  BY <1>2, <1>3

\* A string as it is read.
ReadAs(str) == zapLeadingZeros(DigitsOf(str))
ReadInteger(str) ==
  IF HasSign(str) /\ str[1] = Minus THEN -BigUnsigned(ReadAs(str)) ELSE BigUnsigned(ReadAs(str))

LEMMA ReadStep ==
  Read =>
    /\ did \in {"write", "given"} /\ UNCHANGED <<written, base, left, room, string>>
    /\ \/ did' = "throw"
       \/ /\ did' = "read" /\ blk' = ReadAs(string) /\ readBack' = ReadInteger(string)
          /\ \A k \in DOMAIN Numeral(string) : IsDigit(Numeral(string)[k])
  BY DEF Read, ReadAs, ReadInteger, Numeral, HasSign, SignSymbols, DigitsOf

LEMMA DigitIsNoSign ==
  ASSUME NEW c, IsDigit(c)
  PROVE  c \notin SignSymbols
  BY DEF IsDigit, SignSymbols, Minus, Plus

\* Any string that is read.
LEMMA ReadsPlaces ==
  ASSUME NEW str \in Seq(Kinds \X Nat), NEW b \in Nat, base = b,
         \A k \in DOMAIN Numeral(str) : IsDigit(Numeral(str)[k])
  PROVE  /\ BigUnsigned(ReadAs(str)) = InPlaces(b, str) /\ InPlaces(b, str) \in Nat
         /\ ReadAs(str) # <<>> => ReadAs(str)[Len(ReadAs(str))] # 0
<1> DEFINE d == DigitsOf(str)
           z == ReadAs(str)
<1>1. \A k \in DOMAIN Numeral(str) : Numeral(str)[k] \notin SignSymbols
  BY DigitIsNoSign
<1>2. d \in Seq(Nat) /\ Places(b, d, Len(d)) = InPlaces(b, str)
  BY <1>1, NumeralVal
<1>3. z = zapLeadingZeros(d)
  BY DEF ReadAs
<1> HIDE DEF d, z
<1>4. z \in Seq(Nat) /\ Places(b, z, Len(z)) = Places(b, d, Len(d)) /\ (z # <<>> => z[Len(z)] # 0)
  BY <1>2, <1>3, ZapsLeadingZeros
<1>5. BigUnsigned(z) = Places(b, z, Len(z))
  BY <1>4, FromTheHighest
<1>6. Places(b, d, Len(d)) \in Nat
  <2>1. Len(d) \in Nat /\ \A k \in 1..Len(d) : d[k] \in Nat
    BY <1>2
  <2>. QED
    BY <2>1, PlacesNat
<1>7. BigUnsigned(z) = InPlaces(b, str) /\ InPlaces(b, str) \in Nat
  BY <1>2, <1>4, <1>5, <1>6
<1>. QED
  BY <1>4, <1>7 DEF z

\* What has been written is read as the integer written.
LEMMA ReadsWhatIsWritten ==
  ASSUME BaseInv, did = "write"
  PROVE  /\ string \in Seq(Kinds \X Nat) /\ base \in Nat
         /\ string[Len(string)] = Symbol(Magnitude(written) % base)
         /\ (\A k \in DOMAIN Numeral(string) : IsDigit(Numeral(string)[k])) =>
              ReadInteger(string) = written
<1> DEFINE L == Len(blk)
           v == Magnitude(written)
           sign == IF written < 0 THEN <<Minus>> ELSE <<>>
           w == IF blk = <<>> THEN <<0>> ELSE blk
           str == sign \o Symbols(blk)
<1>1. /\ base \in Nat /\ base >= 2 /\ written \in Int /\ left = 0
      /\ blk \in Seq(Nat)
      /\ Places(base, blk, L) + left * Power(base, L) = v
      /\ blk # <<>> => blk[L] # 0
      /\ IF blk = <<>> THEN left = v ELSE blk[1] = v % base
      /\ string = str
  BY DEF BaseInv, DigitsFound, Text
<1>2. v \in Nat /\ written = IF written < 0 THEN -v ELSE v
  BY <1>1, MagnitudeNat
<1>3. sign \in {<<>>, <<Minus>>}
  OBVIOUS
<1>4. (sign # <<>>) <=> written < 0
  OBVIOUS
<1> HIDE DEF L, sign, v, str
<1>5. /\ str \in Seq(Kinds \X Nat) /\ str # <<>>
      /\ (HasSign(str) <=> sign # <<>>) /\ (HasSign(str) => str[1] = Minus)
      /\ DigitsOf(str) = w
      /\ str[Len(str)] = Symbol(w[1])
  <2>1. str = sign \o Symbols(blk)
    BY DEF str
  <2>. QED
    BY <1>1, <1>3, <2>1, SymbolsAreRead
<1>6. w[1] = v % base
  <2>1. CASE blk = <<>>
    <3>1. w[1] = 0 /\ v = 0
      BY <1>1, <2>1
    <3>2. 0 \in 0..base - 1 /\ base \in Int /\ base > 0
      BY <1>1
    <3>3. 0 % base = 0
      BY <3>2, SmallQuotient
    <3>. QED
      BY <3>1, <3>3
  <2>2. CASE blk # <<>>
    BY <1>1, <2>2
  <2>. QED
    BY <2>1, <2>2
<1>7. Places(base, blk, L) = v
  <2>1. Power(base, L) \in Nat /\ L \in Nat
    BY <1>1, NaturalPower DEF L
  <2>2. left * Power(base, L) = 0
    BY <1>1, <2>1
  <2>3. \A k \in 1..L : blk[k] \in Nat
    BY <1>1 DEF L
  <2>4. Places(base, blk, L) \in Nat
    BY <1>1, <2>1, <2>3, PlacesNat
  <2>. QED
    BY <1>1, <1>2, <2>2, <2>4
<1>8. ReadAs(str) = blk
  <2>1. ReadAs(str) = zapLeadingZeros(w)
    BY <1>5 DEF ReadAs
  <2>2. CASE blk = <<>>
    <3>1. w \in Seq(Nat) /\ w = <<0>>
      BY <2>2
    <3>2. zapLeadingZeros(w) = <<>>
      BY <1>1, <3>1, ZapsLeadingZeros
    <3>. QED
      BY <2>1, <2>2, <3>2
  <2>3. CASE blk # <<>>
    <3>1. w = blk /\ blk[Len(blk)] # 0
      BY <1>1, <2>3 DEF L
    <3>2. zapLeadingZeros(blk) = blk
      BY <1>1, <2>3, <3>1, ZapsLeadingZeros
    <3>. QED
      BY <2>1, <3>1, <3>2
  <2>. QED
    BY <2>2, <2>3
<1>9. BigUnsigned(blk) = v
  <2>1. BigUnsigned(blk) = Places(base, blk, Len(blk))
    BY <1>1, FromTheHighest
  <2>. QED
    BY <1>7, <2>1 DEF L
<1>10. ReadInteger(str) = written
  <2>1. HasSign(str) /\ str[1] = Minus <=> written < 0
    BY <1>4, <1>5
  <2>2. ReadInteger(str) = IF HasSign(str) /\ str[1] = Minus THEN -v ELSE v
    BY <1>8, <1>9 DEF ReadInteger
  <2>. QED
    BY <1>2, <2>1, <2>2
<1>. QED
  BY <1>1, <1>5, <1>6, <1>10 DEF v

LEMMA ReadKeeps == BaseInv /\ Read => BaseInv'
<1> SUFFICES ASSUME BaseInv, Read PROVE BaseInv'
  OBVIOUS
<1>1. /\ did \in {"write", "given"}
      /\ written' = written /\ base' = base /\ room' = room /\ string' = string
  BY ReadStep
<1>2. CASE did' = "throw"
  BY <1>2 DEF BaseInv, DigitsFound, StaysInRoom, Text
<1>3. CASE /\ did' = "read" /\ blk' = ReadAs(string) /\ readBack' = ReadInteger(string)
           /\ \A k \in DOMAIN Numeral(string) : IsDigit(Numeral(string)[k])
  <2>1. string \in Seq(Kinds \X Nat) /\ base \in Nat
    BY <1>1, ReadsWhatIsWritten DEF BaseInv, Text
  <2>2. /\ BigUnsigned(ReadAs(string)) = InPlaces(base, string)
        /\ InPlaces(base, string) \in Nat
        /\ ReadAs(string) # <<>> => ReadAs(string)[Len(ReadAs(string))] # 0
    BY <1>3, <2>1, ReadsPlaces
  <2>3. room > 0 =>
          ReadInteger(string) = written /\ string[Len(string)] = Symbol(Magnitude(written) % base)
    <3>1. CASE did = "write"
      BY <1>3, <3>1, ReadsWhatIsWritten
    <3>2. CASE did = "given"
      BY <3>2 DEF BaseInv, Text
    <3>. QED
      BY <1>1, <3>1, <3>2
  <2> DEFINE x == InPlaces(base, string)
             y == ReadInteger(string)
  <2>4. y \in {x, -x} /\ (y < 0 => string[1] = Minus)
    <3>1. y = IF HasSign(string) /\ string[1] = Minus THEN -x ELSE x
      BY <2>2 DEF ReadInteger
    <3>2. x \in Nat
      BY <2>2
    <3> HIDE DEF x, y
    <3>. QED
      BY <3>1, <3>2
  <2>5. Reread(string', readBack', blk', written', base', room')
    BY <1>1, <1>3, <2>2, <2>3, <2>4 DEF Reread
  <2>. QED
    BY <1>3, <2>5 DEF BaseInv, DigitsFound, StaysInRoom, Text
<1>. QED
  BY <1>2, <1>3, ReadStep

\* The properties follow.
LEMMA InvRoundTrip == BaseInv => RoundTrip
<1> SUFFICES ASSUME BaseInv PROVE RoundTrip
  OBVIOUS
<1>1. did = "write" => \A k \in DOMAIN string : string[k] \notin SignSymbols => IsDigit(string[k])
  <2> SUFFICES ASSUME did = "write", NEW k \in DOMAIN string, string[k] \notin SignSymbols
               PROVE  IsDigit(string[k])
    OBVIOUS
  <2> DEFINE sign == IF written < 0 THEN <<Minus>> ELSE <<>>
             w == IF blk = <<>> THEN <<0>> ELSE blk
             str == sign \o Symbols(blk)
  <2>1. /\ base \in Nat /\ base >= 2 /\ blk \in Seq(Nat)
        /\ \A j \in DOMAIN blk : blk[j] < base
        /\ string = str
    BY DEF BaseInv, DigitsFound, Text
  <2>2. sign \in {<<>>, <<Minus>>}
    OBVIOUS
  <2> HIDE DEF sign, str
  <2>3. \A l \in DOMAIN str : str[l] \notin SignSymbols => \E j \in DOMAIN w : str[l] = Symbol(w[j])
    <3>1. str = sign \o Symbols(blk) /\ blk \in Seq(Nat)
      BY <2>1 DEF str
    <3>. QED
      BY <2>2, <3>1, SymbolsAreRead, SMTT(30)
  <2>4. PICK j \in DOMAIN w : string[k] = Symbol(w[j])
    BY <2>1, <2>3
  <2>5. w[j] \in Nat /\ w[j] < base
    <3>1. CASE blk = <<>>
      BY <2>1, <3>1
    <3>2. CASE blk # <<>>
      BY <2>1, <3>2
    <3>. QED
      BY <3>1, <3>2
  <2> HIDE DEF w
  <2>6. Digit(Symbol(w[j])) = w[j] /\ Symbol(w[j])[1] \in {"0", "A", "a"}
    BY <2>5, SymbolDigit
  <2>. QED
    BY <2>4, <2>5, <2>6 DEF IsDigit
<1>2. did = "read" =>
        /\ room > 0 => readBack = written /\ string[Len(string)] = Symbol(Magnitude(written) % base)
        /\ readBack \in {InPlaces(base, string), -InPlaces(base, string)}
        /\ readBack < 0 => string[1] = Minus
        /\ blk # <<>> => blk[Len(blk)] # 0
  BY DEF BaseInv, Reread
<1> DEFINE place(k) == string[Len(string) - k + 1]
           w == [k \in DOMAIN string |-> IF place(k) \in {Minus, Plus} THEN 0 ELSE Digit(place(k))]
<1>3. ByPlaces(w, Len(string)) = InPlaces(base, string)
  <2>1. w = PlaceDigits(string)
    BY DEF PlaceDigits, SignSymbols
  <2> HIDE DEF w
  <2>2. ByPlaces(w, Len(string)) = Places(base, w, Len(string))
    BY DEF ByPlaces, Places
  <2>. QED
    BY <2>1, <2>2 DEF InPlaces
<1> HIDE DEF w
<1>4. RoundTrip <=>
        /\ StaysInRoom
        /\ did = "write" => \A k \in DOMAIN string : string[k] \notin SignSymbols => IsDigit(string[k])
        /\ did = "read" /\ room > 0 =>
             readBack = written /\ string[Len(string)] = Symbol(Magnitude(written) % base)
        /\ did = "read" => /\ readBack \in {ByPlaces(w, Len(string)), -ByPlaces(w, Len(string))}
                           /\ readBack < 0 => string[1] = Minus
                           /\ blk # <<>> => blk[Len(blk)] # 0
  BY DEF RoundTrip, SignSymbols, w
<1>5. StaysInRoom
  BY DEF BaseInv
<1>. QED
  BY <1>1, <1>2, <1>3, <1>4, <1>5

LEMMA StepBase == BaseInv /\ [BaseNext]_baseVars => BaseInv'
<1> SUFFICES ASSUME BaseInv, [BaseNext]_baseVars PROVE BaseInv'
  OBVIOUS
<1>1. CASE NextDigit
  BY <1>1, NextDigitKeeps
<1>2. CASE Write
  BY <1>2, WriteKeeps
<1>3. CASE Read
  BY <1>3, ReadKeeps
<1>4. CASE UNCHANGED baseVars
  <2>1. /\ written' = written /\ base' = base /\ left' = left /\ room' = room /\ blk' = blk
        /\ string' = string /\ readBack' = readBack /\ did' = did
    BY <1>4 DEF baseVars
  <2>. QED
    BY <2>1 DEF BaseInv, DigitsFound, StaysInRoom, Text
<1>. QED
  BY <1>1, <1>2, <1>3, <1>4 DEF BaseNext

LEMMA AlwaysBaseInv == BaseSpec => []BaseInv
  BY InitBase, StepBase, PTL DEF BaseSpec

\* An integer that is written in a base is read again as it was, with the digits it was
\* written in, and any string that is read is read as its places say (BigUnsignedInABase'str
\* conversions and stringToBigInteger), for every base, block width and integer.
THEOREM RoundTrips == BaseSpec => []RoundTrip
  BY AlwaysBaseInv, InvRoundTrip, PTL

\* "We can't run out of room": the array of digits is never written past its end, whatever
\* the integer, the base and the width of a block (the constructor of BigUnsignedInABase).
THEOREM KeepsToRoom == BaseSpec => []StaysInRoom
<1>1. BaseInv => StaysInRoom
  BY DEF BaseInv
<1>. QED
  BY <1>1, AlwaysBaseInv, PTL
=============================================================================

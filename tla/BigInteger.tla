----------------------------- MODULE BigInteger -----------------------------
(***************************************************************************)
(* bigint/BigInteger.cc and BigInteger.hh: integers as a sign and a        *)
(* magnitude.  The magnitude is a BigUnsigned, of which this module uses   *)
(* what BigUnsigned.tla is checked against: it is a natural number, and    *)
(* its operations are those of arithmetic.                                 *)
(***************************************************************************)
EXTENDS Integers

CONSTANTS
  Reg,     \* the variables of the program
  B,       \* the number of values of a Blk
  Magnitudes,  \* of the numbers that are constructed
  Types,   \* for each primitive type the number of its values: 2^16, 2^32 and 2^64
  NotWrapped   \* the types whose least value the compiler need not negate to itself

ASSUME BigIntegerAssumption ==
  /\ B \in Nat /\ Magnitudes \subseteq Nat /\ Types \subseteq Nat
  /\ \A V \in Types : V > 0 /\ V % 2 = 0 /\ V <= B
  /\ NotWrapped \subseteq Types

VARIABLES
  int,    \* the number in each variable
  call,   \* the last call
  out     \* what it returned

vars == <<int, call, out>>

zero == 0
positive == 1
negative == -1

Number == [sign : {negative, zero, positive}, mag : Nat]
Zero == [sign |-> zero, mag |-> 0]

-----------------------------------------------------------------------------
(* What the copy-less operations leave in their receiver. *)

\* The constructor from a magnitude and a sign other than zero.
Signed(magnitude, sign) == [sign |-> IF magnitude = 0 THEN zero ELSE sign, mag |-> magnitude]

Opposite(a) == [sign |-> -a.sign, mag |-> a.mag]

\* The sum of numbers of different signs, which takes the sign of the greater magnitude.
Cancelled(a, b) ==
  IF a.mag = b.mag THEN Zero
  ELSE IF a.mag > b.mag THEN [sign |-> a.sign, mag |-> a.mag - b.mag]
  ELSE [sign |-> b.sign, mag |-> b.mag - a.mag]

SumOf(a, b) ==
  IF a.sign = zero THEN b
  ELSE IF b.sign = zero THEN a
  ELSE IF a.sign = b.sign THEN [sign |-> a.sign, mag |-> a.mag + b.mag]
  ELSE Cancelled(a, b)

\* Mutant: the negative of our sign.
DifferenceFromOwnSign(a, b) ==
  IF a.sign = zero THEN [sign |-> -a.sign, mag |-> b.mag]
  ELSE IF b.sign = zero THEN a
  ELSE IF a.sign # b.sign THEN [sign |-> a.sign, mag |-> a.mag + b.mag]
  ELSE Cancelled(a, Opposite(b))

\* "Take the negative of _b_'s sign, not ours."
Difference(a, b) ==
  IF a.sign = zero THEN Opposite(b)
  ELSE IF b.sign = zero THEN a
  ELSE IF a.sign # b.sign THEN [sign |-> a.sign, mag |-> a.mag + b.mag]
  ELSE Cancelled(a, Opposite(b))

Product(a, b) ==
  IF a.sign = zero \/ b.sign = zero THEN Zero
  ELSE [sign |-> IF a.sign = b.sign THEN positive ELSE negative, mag |-> a.mag * b.mag]

\* The division of the magnitudes, when the signs are the same.
EasyDivision(a, b) ==
  [q |-> Signed(a.mag \div b.mag, positive), r |-> Signed(a.mag % b.mag, b.sign)]

\* When they are not, the dividend is first made one less; then the quotient is made
\* one more and the remainder taken from b - 1.
HardDivision(a, b) ==
  LET A == a.mag - 1
  IN  [q |-> Signed(A \div b.mag + 1, negative),
       r |-> Signed((b.mag - (A % b.mag)) - 1, b.sign)]

Division(a, b) ==
  IF b.sign = zero \/ a.sign = zero THEN [q |-> Zero, r |-> a]
  ELSE IF a.sign = b.sign THEN EasyDivision(a, b) ELSE HardDivision(a, b)

Increased(a) ==
  IF a.sign = negative THEN Signed(a.mag - 1, negative)
  ELSE [sign |-> positive, mag |-> a.mag + 1]
Decreased(a) ==
  IF a.sign = positive THEN Signed(a.mag - 1, positive)
  ELSE [sign |-> negative, mag |-> a.mag + 1]

compareTo(a, b) ==
  LET mags == IF a.mag < b.mag THEN -1 ELSE IF a.mag > b.mag THEN 1 ELSE 0
  IN  IF a.sign < b.sign THEN -1
      ELSE IF a.sign > b.sign THEN 1
      ELSE IF a.sign = negative THEN -mags ELSE mags

-----------------------------------------------------------------------------
(* Primitive integers: of the V values of a type, the upper half are negative if it is *)
(* signed, and arithmetic wraps around.                                                *)

UX(V, x) == x % V
X(V, x) == IF 2 * UX(V, x) >= V THEN UX(V, x) - V ELSE UX(V, x)

SignedType(V) == -(V \div 2)..(V \div 2) - 1

signOf(x) == IF x = 0 THEN zero ELSE IF x > 0 THEN positive ELSE negative
\* The negation of the least value is itself: UX makes it the magnitude.
magOf(V, x) == IF x < 0 THEN UX(V, X(V, -x)) ELSE x

\* That is so for a short.  For the least int or long -x overflows, which leaves its result
\* open: with -O0 it wraps around as well, but with the -O2 of the makefile g++ extends the
\* sign of -x before it is cast to UX, and takes x < 0 for the sign of what is negated.
Least(V) == -(V \div 2)
MagnitudesOf(V, x) ==
  {magOf(V, x)} \union (IF V \in NotWrapped /\ x = Least(V) THEN {B - (V \div 2)} ELSE {})

\* Is a converted to a signed type of V values, and to which value?
Converted(V, a) ==
  IF a.sign = positive THEN X(V, a.mag) ELSE X(V, -X(V, a.mag))
Converts(V, a) ==
  \/ a.sign = zero
  \/ /\ a.mag < B   \* one block
     /\ LET x == Converted(V, a)
        IN  IF a.sign = positive THEN x >= 0 /\ x = a.mag
            ELSE x < 0 /\ UX(V, X(V, -x)) = a.mag
Conversions(V, a) ==
  {Converts(V, a)} \union
  (IF V \in NotWrapped /\ a.sign = negative /\ a.mag = V \div 2 THEN {FALSE} ELSE {})

-----------------------------------------------------------------------------
(* The calls. *)

Called(op, this, a, b, k) ==
  /\ call.op = "none"
  /\ call' = [op |-> op, r |-> this, a |-> a, b |-> b, n |-> k]

Returned(x) == [thrown |-> FALSE, value |-> x]
Put(this, x) == int' = [int EXCEPT ![this] = x] /\ out' = Returned(0)
Throw == UNCHANGED int /\ out' = [thrown |-> TRUE, value |-> 0]
Answer(x) == UNCHANGED int /\ out' = Returned(x)

add(this, a, b) == Called("add", this, a, b, 0) /\ Put(this, SumOf(int[a], int[b]))
subtract(this, a, b) == Called("subtract", this, a, b, 0) /\ Put(this, Difference(int[a], int[b]))
multiply(this, a, b) == Called("multiply", this, a, b, 0) /\ Put(this, Product(int[a], int[b]))
negate(this, a) == Called("negate", this, a, a, 0) /\ Put(this, Opposite(int[a]))
increment(this) == Called("increment", this, this, this, 0) /\ Put(this, Increased(int[this]))
decrement(this) == Called("decrement", this, this, this, 0) /\ Put(this, Decreased(int[this]))

\* this.divideWithRemainder(b, q)
divideWithRemainder(this, b, q) ==
  /\ Called("divideWithRemainder", this, q, b, 0)
  /\ \/ this = q /\ Throw
     \/ /\ this # q
        /\ LET d == Division(int[this], int[b])
           IN  int' = [int EXCEPT ![this] = d.r, ![q] = d.q]
        /\ out' = Returned(0)

\* this = a / b, and this /= b for this = a; likewise %.
Slash(this, a, b) ==
  /\ Called("/", this, a, b, 0)
  /\ IF int[b].sign = zero THEN Throw ELSE Put(this, Division(int[a], int[b]).q)
Percent(this, a, b) ==
  /\ Called("%", this, a, b, 0)
  /\ IF int[b].sign = zero THEN Throw ELSE Put(this, Division(int[a], int[b]).r)

compare(a, b) == Called("compareTo", a, a, b, 0) /\ Answer(compareTo(int[a], int[b]))

FromPrimitive(this, V, x) ==
  /\ Called("assign", this, this, this, x)
  /\ \E mag \in MagnitudesOf(V, x) : Put(this, [sign |-> signOf(x), mag |-> mag])
FromMagnitude(this, mag, sign) ==
  IF sign = zero /\ mag # 0
  THEN Called("invalid", this, this, this, mag) /\ Throw
  ELSE Called("assign", this, this, this, sign * mag) /\ Put(this, Signed(mag, sign))
convertToSignedPrimitive(a, V) ==
  /\ Called("convert", a, a, a, SignedType(V))
  /\ \E converts \in Conversions(V, int[a]) :
       IF converts THEN Answer(IF int[a].sign = zero THEN 0 ELSE Converted(V, int[a])) ELSE Throw
convertToUnsignedPrimitive(a, V) ==
  /\ Called("convert", a, a, a, 0..V - 1)
  /\ IF int[a].sign # negative /\ int[a].mag < B /\ UX(V, int[a].mag) = int[a].mag
     THEN Answer(int[a].mag) ELSE Throw

\* The program goes on.
Go ==
  /\ call.op # "none"
  /\ call' = [op |-> "none"] /\ out' = Returned(0)
  /\ UNCHANGED int

Init == int = [this \in Reg |-> Zero] /\ call = [op |-> "none"] /\ out = Returned(0)

Next ==
  \/ \E this, a, b \in Reg :
       \/ add(this, a, b) \/ subtract(this, a, b) \/ multiply(this, a, b)
       \/ divideWithRemainder(this, b, a) \/ Slash(this, a, b) \/ Percent(this, a, b)
       \/ negate(this, a) \/ increment(this) \/ decrement(this) \/ compare(a, b)
  \/ \E this \in Reg, V \in Types :
       \/ \E x \in SignedType(V) : FromPrimitive(this, V, x)
       \/ convertToSignedPrimitive(this, V) \/ convertToUnsignedPrimitive(this, V)
  \/ \E this \in Reg, mag \in Magnitudes, sign \in {negative, zero, positive} : FromMagnitude(this, mag, sign)
  \/ Go

Spec == Init /\ [][Next]_vars

\* "check: Sign should (not) be zero!" (testsuite.cc:36, 38): the sign is zero if and only
\* if the magnitude is, which the tests of the sign in place of the number rely on.
SignAgrees == \A this \in Reg : int[this] \in Number /\ (int[this].sign = zero <=> int[this].mag = 0)

Val(a) == a.sign * a.mag

\* Every call does to the numbers what arithmetic says; in particular the division is
\* Knuth's ("floor(real-number x / y)", BigInteger.cc:263), and the least int becomes the
\* number it is ("toInt()); //-2147483648", testsuite.cc:137).
Meant == INSTANCE Arithmetic WITH Value <- Int, val <- [this \in Reg |-> Val(int[this])],
                                  Unimplemented <- {}
ComputesWithIntegers == Meant!Spec
=============================================================================

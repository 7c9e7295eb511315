----------------------------- MODULE Arithmetic -----------------------------
(***************************************************************************)
(* What the classes of bigint promise: variables that hold numbers, and    *)
(* calls that do to them what arithmetic says.  Value is Nat for           *)
(* BigUnsigned and Int for BigInteger.  The result of a call is in         *)
(* variables or, if it is not such a number, in out.                       *)
(***************************************************************************)
EXTENDS Integers, Powers

CONSTANTS
  Reg,
  Value,           \* the numbers of the class
  Unimplemented   \* shifts that are not implemented

VARIABLES val, call, out

vars == <<val, call, out>>

-----------------------------------------------------------------------------
(* Arithmetic as Knuth has it. *)

\* The integer below x / y, and 0 for y = 0.
Quotient(x, y) ==
  IF y = 0 THEN 0 ELSE IF y > 0 THEN x \div y ELSE (-x) \div (-y)

Remainder(x, y) == x - (y * Quotient(x, y))

Shifted(x, n) == IF n >= 0 THEN x * Power(2, n) ELSE x \div Power(2, -n)

Bit(x, n) == (x \div Power(2, n)) % 2

\* x with its n-th digit to the base b replaced by d.
WithDigit(x, b, n, d) == x + (d - ((x \div Power(b, n)) % b)) * Power(b, n)

Sign(x) == IF x > 0 THEN 1 ELSE IF x < 0 THEN -1 ELSE 0

\* The bits of a natural number without a leading zero.
BitLength(x) == CHOOSE n \in 0..x : Power(2, n) > x /\ (n > 0 => Power(2, n - 1) <= x)

\* op is an operation on bits: the number whose bits are those of x and y combined.
And == [b \in (0..1) \X (0..1) |-> b[1] * b[2]]
Or == [b \in (0..1) \X (0..1) |-> b[1] + b[2] - b[1] * b[2]]
Xor == [b \in (0..1) \X (0..1) |-> (b[1] + b[2]) % 2]
BitByBit(op, x, y) ==
  CHOOSE z \in 0..x + y : \A i \in 0..BitLength(x + y) : Bit(z, i) = op[<<Bit(x, i), Bit(y, i)>>]

-----------------------------------------------------------------------------
(* The calls. *)

Returned(x) == [thrown |-> FALSE, value |-> x]

Throw(r) ==
  /\ out' = [thrown |-> TRUE, value |-> 0]
  /\ \/ val' = val
     \/ val' = [val EXCEPT ![r] = 0]

\* A result that is no number of the class is an exception, after which the variable
\* that was to hold it is as it was or zero.
Put(r, x) ==
  IF x \in Value THEN val' = [val EXCEPT ![r] = x] /\ out' = Returned(0) ELSE Throw(r)

Answer(x) == out' = Returned(x) /\ UNCHANGED val

\* x.divideWithRemainder(y, q).
Divide(r, b, q) ==
  IF r = q THEN Throw(r) /\ UNCHANGED val
  ELSE /\ val' = [val EXCEPT ![r] = Remainder(val[r], val[b]), ![q] = Quotient(val[r], val[b])]
       /\ out' = Returned(0)

\* The call c, for registers r, a, b and a number n: an operation on bits ...
BitMeaning(c) ==
  LET x == val[c.a]
      y == val[c.b]
  IN  \/ c.op = "bitAnd" /\ Put(c.r, BitByBit(And, x, y))
      \/ c.op = "bitOr" /\ Put(c.r, BitByBit(Or, x, y))
      \/ c.op = "bitXor" /\ Put(c.r, BitByBit(Xor, x, y))
      \/ /\ c.op = "shift"
         /\ IF {c.n, -c.n} \intersect Unimplemented # {} THEN Throw(c.r) ELSE Put(c.r, Shifted(x, c.n))
      \/ c.op = "digit" /\ Put(c.r, WithDigit(val[c.r], c.n.base, c.n.index, c.n.digit))
      \/ c.op = "bit" /\ Answer(Bit(x, c.n))
      \/ c.op = "bitLength" /\ Answer(BitLength(x))

\* ... or of arithmetic.
Meaning(c) ==
  LET x == val[c.a]
      y == val[c.b]
  IN  \/ BitMeaning(c)
      \/ c.op = "add" /\ Put(c.r, x + y)
      \/ c.op = "subtract" /\ Put(c.r, x - y)
      \/ c.op = "multiply" /\ Put(c.r, x * y)
      \/ c.op = "negate" /\ Put(c.r, -x)
      \/ c.op = "increment" /\ Put(c.r, val[c.r] + 1)
      \/ c.op = "decrement" /\ Put(c.r, val[c.r] - 1)
      \/ c.op = "assign" /\ Put(c.r, c.n)
      \/ c.op = "divideWithRemainder" /\ Divide(c.r, c.b, c.a)
      \/ c.op = "/" /\ IF y = 0 THEN Throw(c.r) ELSE Put(c.r, Quotient(x, y))
      \/ c.op = "%" /\ IF y = 0 THEN Throw(c.r) ELSE Put(c.r, Remainder(x, y))
      \/ c.op = "invalid" /\ Throw(c.r)
      \/ c.op = "compareTo" /\ Answer(Sign(x - y))
      \/ c.op = "==" /\ Answer(x = y)
      \/ c.op = "convert" /\ IF x \in c.n THEN Answer(x) ELSE Throw(c.r)

Init == val \in [Reg -> Value] /\ call.op = "none" /\ out = Returned(0)

Next == call'.op = "none" \/ Meaning(call')

Spec == Init /\ [][Next]_vars
=============================================================================

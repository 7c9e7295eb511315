----------------------------- MODULE BigUnsigned -----------------------------
(***************************************************************************)
(* bigint/BigUnsigned.cc, BigUnsigned.hh and NumberlikeArray.hh: natural   *)
(* numbers as arrays of blocks of N bits, the lowest first, and the calls  *)
(* a program makes on variables that hold them.  A number is a function    *)
(* on 0 .. len - 1; the capacity of the array and the blocks beyond len,   *)
(* which no operation reads, are left out.  A call takes its operands from *)
(* the state before it: that is what DTRT_ALIASED is for.                  *)
(***************************************************************************)
EXTENDS Blocks, FiniteSetsExt

CONSTANTS
  IntBits,     \* bits in an int, at least one
  Types,       \* the primitive types: records of their bits (1 .. N) and of whether they are signed
  Reg,         \* the variables of the program, "x", "y" and "z" among them
  MaxLength,   \* bound on the length of a number before a call
  MaxLengths,  \* and on the sum of all lengths
  ShiftsZero   \* may zero be shifted by a block or more?

VARIABLES
  num,    \* the number in each variable
  call,   \* the last call
  out     \* what it returned

vars == <<num, call, out>>

Blk == 0..Radix - 1
Int32 == -Power(2, IntBits - 1)..Power(2, IntBits - 1) - 1
Pathological(b) == b < 0 /\ (2 * b) % Power(2, IntBits) = 0

-----------------------------------------------------------------------------
(* Numbers *)

len(x) == Cardinality(DOMAIN x)

\* The blocks of x below l.
Cut(x, l) == [i \in 0..l - 1 |-> x[i]]

Zero == [i \in 0..-1 |-> 0]
Zeros(l) == [i \in 0..l - 1 |-> 0]

\* The number whose block i is w[i], for the i below n.
Places(w, n) ==
  LET sum[k \in 0..n] == IF k = 0 THEN 0 ELSE sum[k - 1] + w[k - 1] * Power(Radix, k - 1)
  IN  sum[n]

Val(x) == Places(x, len(x))

Extended(x, d) == [i \in 0..len(x) |-> IF i = len(x) THEN d ELSE x[i]]

zapLeadingZeros(x) ==
  Cut(x, Max({0} \union {i + 1 : i \in {j \in DOMAIN x : x[j] # 0}}))

\* Zaps one leading zero.
Zap(x) == IF x[len(x) - 1] = 0 THEN Cut(x, len(x) - 1) ELSE x

getBlock(x, i) == IF i >= len(x) THEN 0 ELSE x[i]
getBit(x, bi) == (getBlock(x, bi \div N) \div Power(2, bi % N)) % 2

setBlock(x, i, newBlock) ==
  IF newBlock = 0
  THEN IF i < len(x) THEN zapLeadingZeros([x EXCEPT ![i] = 0]) ELSE x
  ELSE [j \in 0..Max({len(x), i + 1}) - 1 |-> IF j = i THEN newBlock ELSE getBlock(x, j)]

setBit(x, bi, newBit) ==
  LET block == getBlock(x, bi \div N)
  IN  setBlock(x, bi \div N, block + (newBit - getBit(x, bi)) * Power(2, bi % N))

bitLength(x) ==
  IF len(x) = 0 THEN 0
  ELSE Max({n \in 1..N : Power(2, n - 1) <= x[len(x) - 1]} \union {0}) + (len(x) - 1) * N

compareTo(x, y) ==
  LET Differ == {i \in DOMAIN x : x[i] # y[i]}
  IN  IF len(x) < len(y) THEN -1
      ELSE IF len(x) > len(y) THEN 1
      ELSE IF Differ = {} THEN 0
      ELSE IF x[Max(Differ)] > y[Max(Differ)] THEN 1 ELSE -1

-----------------------------------------------------------------------------
(* The arithmetic on blocks.  Blk is unsigned: it rolls over. *)

\* Mutant: a carry that the incoming carry causes is lost.
AddStageLosesCarry(x, y, carryIn) ==
  [blk |-> (x + y + (IF carryIn THEN 1 ELSE 0)) % Radix, carry |-> (x + y) % Radix < x]

\* "If a rollover occurred, the result is less than either input."
AddStage(x, y, carryIn) ==
  LET sum  == (x + y) % Radix
      temp == IF carryIn THEN (sum + 1) % Radix ELSE sum
  IN  [blk |-> temp, carry |-> sum < x \/ (carryIn /\ temp = 0)]

SubtractStage(x, y, borrowIn) ==
  LET difference == (x - y) % Radix
  IN  [blk |-> IF borrowIn THEN (difference - 1) % Radix ELSE difference,
       carry |-> difference > x \/ (borrowIn /\ difference = 0)]

Stage(op, x, y, carryIn) ==
  IF op = "add" THEN AddStage(x, y, carryIn) ELSE SubtractStage(x, y, carryIn)

\* The stages for the blocks i .. l - 1 of d and the same blocks of the operand e, each
\* with the carry of the one before, carryIn for the first: the blocks, and the last carry.
Ripple(op, d, e, i, l, carryIn) ==
  LET stage[k \in i - 1..l - 1] ==
        IF k < i THEN [blk |-> 0, carry |-> carryIn]
        ELSE Stage(op, d[k], e[k], stage[k - 1].carry)
  IN  [blk |-> [k \in DOMAIN d |-> IF k \in i..l - 1 THEN stage[k].blk ELSE d[k]],
       carry |-> stage[l - 1].carry]

Longer(a, b) == IF len(a) >= len(b) THEN a ELSE b
Shorter(a, b) == IF len(a) >= len(b) THEN b ELSE a

Sum(a, b) ==
  LET a2 == Longer(a, b)
      b2 == Shorter(a, b)
      sum == Ripple("add", a2, [k \in DOMAIN a2 |-> getBlock(b2, k)], 0, len(a2), FALSE)
  IN  IF len(a) = 0 THEN b
      ELSE IF len(b) = 0 THEN a
      ELSE IF sum.carry THEN Extended(sum.blk, 1) ELSE sum.blk

\* For a number a that is no shorter than b.
Difference(a, b) ==
  Ripple("subtract", a, [k \in DOMAIN a |-> getBlock(b, k)], 0, len(a), FALSE)

\* Block x of num shifted left by y < N bits.
getShiftedBlock(x, i, y) ==
  LET part1 == IF i = 0 \/ y = 0 THEN 0 ELSE x[i - 1] \div Power(2, N - y)
      part2 == IF i = len(x) THEN 0 ELSE (x[i] * Power(2, y)) % Radix
  IN  part1 + part2

\* The blocks of b shifted left by t bits, up to block l - 1.
Operand(b, t, l) ==
  [k \in t \div N..l - 1 |->
     IF k > t \div N + len(b) THEN 0 ELSE getShiftedBlock(b, k - (t \div N), t % N)]

\* For each 1-bit of a, adds b shifted that far.
Product(a, b) ==
  LET l == len(a) + len(b)
      sum[t \in 0..len(a) * N] ==
        IF t = 0 THEN Zeros(l)
        ELSE IF getBit(a, t - 1) = 0 THEN sum[t - 1]
        ELSE Ripple("add", sum[t - 1], Operand(b, t - 1, l), (t - 1) \div N, l, FALSE).blk
  IN  IF len(a) = 0 \/ len(b) = 0 THEN Zero ELSE Zap(sum[len(a) * N])

\* Subtracts b shifted by t bits from a, for each t downwards, where that is not negative.
\* The quotient and the remainder.
Division(a, b) ==
  LET qlen == len(a) - len(b) + 1
      bits == qlen * N
      Try(x, t) ==
        LET i == t \div N
            \* The extra block is left alone unless b reaches it.
            k == IF i + len(b) >= len(a) THEN len(a) + 1 ELSE len(a)
        IN  Ripple("subtract", x, Operand(b, t, k), i, k, FALSE)
      left[t \in 0..bits] ==   \* when the shifts from t upwards have been tried
        IF t = bits THEN [blk |-> Extended(a, 0), q |-> Zeros(qlen)]
        ELSE LET before == left[t + 1]
                 try == Try(before.blk, t)
             IN  IF try.carry THEN before
                 ELSE [blk |-> try.blk, q |-> [before.q EXCEPT ![t \div N] = @ + Power(2, t % N)]]
      end == left[0]
  IN  IF len(b) = 0 \/ len(a) < len(b) THEN [q |-> Zero, r |-> a]
      ELSE [q |-> Zap(end.q), r |-> zapLeadingZeros(end.blk)]

\* op on the bits of blocks.
OnBits(op, x, y) ==
  LET Bit(z, i) == (z \div Power(2, i)) % 2
      bits[k \in 0..N] ==
        IF k = 0 THEN 0 ELSE bits[k - 1] + op[<<Bit(x, k - 1), Bit(y, k - 1)>>] * Power(2, k - 1)
  IN  bits[N]
And == [b \in (0..1) \X (0..1) |-> b[1] * b[2]]
Or == [b \in (0..1) \X (0..1) |-> b[1] + b[2] - b[1] * b[2]]
Xor == [b \in (0..1) \X (0..1) |-> (b[1] + b[2]) % 2]

BitAnd(a, b) ==
  zapLeadingZeros([i \in DOMAIN Shorter(a, b) |-> OnBits(And, a[i], b[i])])
BitOr(a, b) ==
  [i \in DOMAIN Longer(a, b) |->
     IF i < len(Shorter(a, b)) THEN OnBits(Or, a[i], b[i]) ELSE Longer(a, b)[i]]
BitXor(a, b) ==
  zapLeadingZeros([i \in DOMAIN Longer(a, b) |->
     IF i < len(Shorter(a, b)) THEN OnBits(Xor, a[i], b[i]) ELSE Longer(a, b)[i]])

\* a shifted left by b >= 0 bits: "Zap possible leading zero".
ShiftLeft(a, b) ==
  LET shiftBlocks == b \div N
  IN  Zap([i \in 0..len(a) + shiftBlocks |->
             IF i < shiftBlocks THEN 0 ELSE getShiftedBlock(a, i - shiftBlocks, b % N)])

ShiftRight(a, b) ==
  LET rightShiftBlocks == (b + N - 1) \div N
      leftShiftBits == N * rightShiftBlocks - b
  IN  IF rightShiftBlocks >= len(a) + 1 THEN Zero
      ELSE Zap([i \in 0..len(a) - rightShiftBlocks |->
                  getShiftedBlock(a, i + rightShiftBlocks, leftShiftBits)])

-----------------------------------------------------------------------------
(* The calls.  x and y are operands, z is zero before a call; Reg has all three, so  *)
(* that the receiver may be an operand.                                              *)

Called(op, r, a, b, n) ==
  /\ call.op = "none"
  /\ call' = [op |-> op, r |-> r, a |-> a, b |-> b, n |-> n]

Returned(x) == [thrown |-> FALSE, value |-> x]
Thrown == [thrown |-> TRUE, value |-> 0]

Put(r, x) == num' = [num EXCEPT ![r] = x] /\ out' = Returned(0)
Throw == UNCHANGED num /\ out' = Thrown
Answer(x) == UNCHANGED num /\ out' = Returned(x)

add(r, a, b) == Called("add", r, a, b, 0) /\ Put(r, Sum(num[a], num[b]))
multiply(r, a, b) == Called("multiply", r, a, b, 0) /\ Put(r, Product(num[a], num[b]))
bitAnd(r, a, b) == Called("bitAnd", r, a, b, 0) /\ Put(r, BitAnd(num[a], num[b]))
bitOr(r, a, b) == Called("bitOr", r, a, b, 0) /\ Put(r, BitOr(num[a], num[b]))
bitXor(r, a, b) == Called("bitXor", r, a, b, 0) /\ Put(r, BitXor(num[a], num[b]))

\* A borrow left over "zeroes out this object", unless that is the temporary of an aliased call.
subtract(r, a, b) ==
  /\ Called("subtract", r, a, b, 0)
  /\ \/ len(num[b]) = 0 /\ Put(r, num[a])
     \/ len(num[a]) < len(num[b]) /\ Throw
     \/ /\ len(num[a]) >= len(num[b]) /\ len(num[b]) > 0
        /\ LET diff == Difference(num[a], num[b])
           IN  \/ ~diff.carry /\ Put(r, zapLeadingZeros(diff.blk))
               \/ diff.carry /\ r \in {a, b} /\ Throw
               \/ /\ diff.carry /\ r \notin {a, b}
                  /\ num' = [num EXCEPT ![r] = Zero] /\ out' = Thrown

\* r.divideWithRemainder(b, q)
divideWithRemainder(r, b, q) ==
  /\ Called("divideWithRemainder", r, q, b, 0)
  /\ \/ r = q /\ Throw
     \/ /\ r # q
        /\ LET d == Division(num[r], num[b])
           IN  num' = [num EXCEPT ![r] = d.r, ![q] = d.q] /\ out' = Returned(0)

\* r = a / b, and r /= b for r = a; likewise %.
Slash(r, a, b) ==
  /\ Called("/", r, a, b, 0)
  /\ IF len(num[b]) = 0 THEN Throw ELSE Put(r, Division(num[a], num[b]).q)
Percent(r, a, b) ==
  /\ Called("%", r, a, b, 0)
  /\ IF len(num[b]) = 0 THEN Throw ELSE Put(r, Division(num[a], num[b]).r)

\* A negative shift is one in the other direction.
Shift(r, a, left, b) ==
  /\ ShiftsZero \/ len(num[a]) > 0 \/ left < N
  /\ IF Pathological(b) THEN Throw
     ELSE Put(r, IF left >= 0 THEN ShiftLeft(num[a], left) ELSE ShiftRight(num[a], -left))
bitShiftLeft(r, a, b) == Called("shift", r, a, a, b) /\ Shift(r, a, b, b)
bitShiftRight(r, a, b) == Called("shift", r, a, a, -b) /\ Shift(r, a, -b, b)

increment(r) ==
  LET sum == Ripple("add", num[r], Zeros(len(num[r])), 0, len(num[r]), TRUE)
  IN  /\ Called("increment", r, r, r, 0)
      /\ Put(r, IF sum.carry THEN Extended(sum.blk, 1) ELSE sum.blk)
decrement(r) ==
  /\ Called("decrement", r, r, r, 0)
  /\ IF len(num[r]) = 0 THEN Throw
     ELSE Put(r, Zap(Ripple("subtract", num[r], Zeros(len(num[r])), 0, len(num[r]), TRUE).blk))

setABlock(r, i, d) ==
  /\ Called("digit", r, r, r, [base |-> Radix, index |-> i, digit |-> d])
  /\ Put(r, setBlock(num[r], i, d))
setABit(r, i, d) ==
  /\ Called("digit", r, r, r, [base |-> 2, index |-> i, digit |-> d])
  /\ Put(r, setBit(num[r], i, d))

\* The constructors, and the assignment of what they make.
initFromPrimitive(r, x) ==
  /\ Called("assign", r, r, r, x)
  /\ IF x < 0 THEN Throw ELSE Put(r, IF x = 0 THEN Zero ELSE [i \in {0} |-> x])
BlockArray(r, b) ==
  /\ Called("assign", r, r, r, Val(b))
  /\ Put(r, zapLeadingZeros(b))

\* The number of type X that the bits of x make.
Cast(X, x) ==
  LET low == x % Power(2, X.bits)
  IN  IF X.signed /\ low >= Power(2, X.bits - 1) THEN low - Power(2, X.bits) ELSE low
convertToPrimitive(a, X) ==
  LET range == IF X.signed THEN -Power(2, X.bits - 1)..Power(2, X.bits - 1) - 1 ELSE 0..Power(2, X.bits) - 1
      b     == num[a][0]
      x     == Cast(X, b)
      fits  == len(num[a]) = 1 /\ x % Radix = b /\ (X.signed => x >= 0)
  IN  /\ Called("convert", a, a, a, range)
      /\ IF len(num[a]) = 0 THEN Answer(0) ELSE IF fits THEN Answer(x) ELSE Throw

Compare(a, b) == Called("compareTo", a, a, b, 0) /\ Answer(compareTo(num[a], num[b]))
Equal(a, b) == Called("==", a, a, b, 0) /\ Answer(num[a] = num[b])
getABit(a, i) == Called("bit", a, a, a, i) /\ Answer(getBit(num[a], i))
getBitLength(a) == Called("bitLength", a, a, a, 0) /\ Answer(bitLength(num[a]))
-----------------------------------------------------------------------------
(* The program. *)

\* All numbers that the constructors can leave in x and y.
Numbers == UNION {{zapLeadingZeros(b) : b \in [0..l - 1 -> Blk]} : l \in 0..MaxLength}
Fits(x, y) == len(x) + len(y) <= MaxLengths

Init ==
  /\ \E x, y \in Numbers :
       Fits(x, y) /\ num = [r \in Reg |-> IF r = "x" THEN x ELSE IF r = "y" THEN y ELSE Zero]
  /\ call = [op |-> "none"] /\ out = Returned(0)

\* The program goes on with the values of x and y, or anew if they are too large.
Go ==
  /\ call.op # "none"
  /\ num' = IF (\A r \in Reg : len(num[r]) <= MaxLength) /\ Fits(num["x"], num["y"])
            THEN [num EXCEPT !["z"] = Zero]
            ELSE [r \in Reg |-> Zero]
  /\ call' = [op |-> "none"] /\ out' = Returned(0)

TwoOperands ==
  \E r \in Reg, b \in {"x", "y"} :
    \/ add(r, "x", b) \/ subtract(r, "x", b) \/ multiply(r, "x", b)
    \/ bitAnd(r, "x", b) \/ bitOr(r, "x", b) \/ bitXor(r, "x", b)
    \/ divideWithRemainder("x", b, r)
    \/ Slash(r, "x", b) \/ Percent(r, "x", b)
    \/ r = "z" /\ (Compare("x", b) \/ Equal("x", b))

\* y has no part in these.
OneOperand ==
  /\ num["y"] = Zero
  /\ \/ \E r \in {"x", "z"}, b \in Int32 : bitShiftLeft(r, "x", b) \/ bitShiftRight(r, "x", b)
     \/ increment("x") \/ decrement("x")
     \/ \E i \in 0..MaxLength, d \in Blk : setABlock("x", i, d)
     \/ \E i \in 0..(MaxLength + 1) * N - 1 :
          getABit("x", i) \/ \E d \in 0..1 : setABit("x", i, d)
     \/ getBitLength("x")
     \/ \E X \in Types : convertToPrimitive("x", X)

Construct ==
  /\ \A r \in Reg : num[r] = Zero
  /\ \/ \E x \in Int32 \intersect (-Power(2, N - 1)..Radix - 1) : initFromPrimitive("x", x)
     \/ \E l \in 0..MaxLength : \E b \in [0..l - 1 -> Blk] : BlockArray("x", b)

Next == TwoOperands \/ OneOperand \/ Construct \/ Go

Spec == Init /\ [][Next]_vars

\* "The number is zero if and only if the canonical length is zero" (BigUnsigned.hh:96),
\* "check: Unzapped number!" (testsuite.cc:28): no leading zero is left on a number, which
\* ==, compareTo, isZero and the division by it rely on.
Canonical == \A r \in Reg : len(num[r]) > 0 => num[r][len(num[r]) - 1] # 0

\* Every call does to the numbers what arithmetic says.
Meant == INSTANCE Arithmetic WITH Value <- Nat, val <- [r \in Reg |-> Val(num[r])],
                                  Unimplemented <- {b \in Int32 : Pathological(b)}
ComputesWithNumbers == Meant!Spec
=============================================================================

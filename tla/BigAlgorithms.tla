---------------------------- MODULE BigAlgorithms ----------------------------
(***************************************************************************)
(* bigint/BigIntegerAlgorithms.cc: the greatest common divisor, the        *)
(* extended Euclidean algorithm, the inverse and the power modulo a        *)
(* number.  The integers are those of BigInteger.tla, whose division is    *)
(* Knuth's: the quotient is rounded down.  A behaviour is one call.        *)
(***************************************************************************)
EXTENDS Integers, Powers, FiniteSetsExt

CONSTANTS
  Args,       \* arguments of extendedEuclidean, and what is taken modulo
  Exponents   \* of modexp

ASSUME AlgorithmsAssumption == Args \subseteq Int /\ Exponents \subseteq Nat

VARIABLES
  alg,              \* the function called
  arg,              \* its arguments
  at,               \* the loop: at the test of n, of m or of i; or it has returned or thrown
  m, n,             \* extendedEuclidean, and gcd for a and b
  r1, s1, r2, s2,   \* its coefficients
  ans, i            \* modexp: the power so far, and the bit of the exponent before it

algVars == <<alg, arg, at, m, n, r1, s1, r2, s2, ans, i>>

Quotient(x, y) == IF y > 0 THEN x \div y ELSE (-x) \div (-y)
Remainder(x, y) == x - (y * Quotient(x, y))

Fail == at' = "thrown" /\ UNCHANGED <<alg, arg, m, n, r1, s1, r2, s2, ans, i>>

-----------------------------------------------------------------------------
(* extendedEuclidean(m, n, g, r, s).  gcd(a, b) is the same loop without the coefficients. *)

Start(x, y) ==
  /\ m = x /\ n = y
  /\ r1 = 1 /\ s1 = 0 /\ r2 = 0 /\ s2 = 1

\* "Subtract q times the second invariant from the first invariant."
ReduceM ==
  /\ at = "n" /\ n # 0
  /\ LET q == Quotient(m, n)
     IN  /\ m' = Remainder(m, n)
         /\ r1' = r1 - q * r2 /\ s1' = s1 - q * s2
  /\ at' = "m"
  /\ UNCHANGED <<alg, arg, n, r2, s2, ans, i>>

\* Mutant: the second coefficient is taken from the wrong row.
ReduceNWrongRow ==
  /\ at = "m" /\ m # 0
  /\ LET q == Quotient(n, m)
     IN  /\ n' = Remainder(n, m)
         /\ r2' = r2 - q * r1 /\ s2' = s2 - q * s2
  /\ at' = "n"
  /\ UNCHANGED <<alg, arg, m, r1, s1, ans, i>>

ReduceN ==
  /\ at = "m" /\ m # 0
  /\ LET q == Quotient(n, m)
     IN  /\ n' = Remainder(n, m)
         /\ r2' = r2 - q * r1 /\ s2' = s2 - q * s1
  /\ at' = "n"
  /\ UNCHANGED <<alg, arg, m, r1, s1, ans, i>>

\* What the loop ends with: at the test of n the first row is the result, else the second.
g == IF n = 0 THEN m ELSE n
r == IF n = 0 THEN r1 ELSE r2
s == IF n = 0 THEN s1 ELSE s2

EuclidEnds == (at = "n" /\ n = 0) \/ (at = "m" /\ m = 0)

EuclidReturns ==
  /\ EuclidEnds /\ alg \in {"gcd", "extendedEuclidean"}
  /\ at' = "returned"
  /\ UNCHANGED <<alg, arg, m, n, r1, s1, r2, s2, ans, i>>

\* Mutant: the coefficient is not reduced.
modinvUnreduced ==
  /\ EuclidEnds /\ alg = "modinv"
  /\ IF g = 1 /\ arg[2] # 0
     THEN /\ ans' = r /\ at' = "returned"
          /\ UNCHANGED <<alg, arg, m, n, r1, s1, r2, s2, i>>
     ELSE Fail

\* modinv(x, n): (r % n).getMagnitude(), where % throws for n = 0.
modinv ==
  /\ EuclidEnds /\ alg = "modinv"
  /\ IF g = 1 /\ arg[2] # 0
     THEN /\ ans' = Remainder(r, arg[2]) /\ at' = "returned"
          /\ UNCHANGED <<alg, arg, m, n, r1, s1, r2, s2, i>>
     ELSE Fail

-----------------------------------------------------------------------------
(* modexp(base, exponent, modulus) *)

bitLength(x) == CHOOSE l \in 0..x : Power(2, l) > x /\ (l > 0 => Power(2, l - 1) <= x)

\* base2 = (base % modulus).getMagnitude(), which throws for the modulus 0.
modexpStarts ==
  /\ at = "base" /\ alg = "modexp"
  /\ IF arg[3] = 0 THEN Fail
     ELSE /\ m' = Remainder(arg[1], arg[3])
          /\ ans' = 1 /\ i' = bitLength(arg[2])
          /\ at' = "i"
          /\ UNCHANGED <<alg, arg, n, r1, s1, r2, s2>>

\* Mutant: i is not decreased.
modexpLoopStays ==
  /\ at = "i" /\ i > 0
  /\ ans' = (ans * ans) % arg[3]
  /\ UNCHANGED <<alg, arg, at, m, n, r1, s1, r2, s2, i>>

modexpLoop ==
  /\ at = "i" /\ i > 0
  /\ i' = i - 1
  /\ LET square == (ans * ans) % arg[3]
     IN  ans' = IF (arg[2] \div Power(2, i - 1)) % 2 = 1 THEN (square * m) % arg[3] ELSE square
  /\ UNCHANGED <<alg, arg, at, m, n, r1, s1, r2, s2>>

modexpReturns ==
  /\ at = "i" /\ i = 0
  /\ at' = "returned"
  /\ UNCHANGED <<alg, arg, m, n, r1, s1, r2, s2, ans, i>>

-----------------------------------------------------------------------------
AlgInit ==
  \/ /\ ans = 0 /\ i = 0
     /\ \E x, y \in Args :
          /\ Start(x, y) /\ arg = <<x, y>>
          /\ \/ alg = "gcd" /\ at = "n" /\ x >= 0 /\ y >= 0
             \* "Outputs are aliased": it throws at once if two of g, r and s are one variable.
             \/ alg = "extendedEuclidean" /\ at \in {"n", "thrown"}
             \/ alg = "modinv" /\ at = "n" /\ y >= 0
  \/ /\ alg = "modexp" /\ at = "base" /\ ans = 0 /\ i = 0 /\ Start(0, 0)
     /\ arg \in Args \X Exponents \X {x \in Args : x >= 0}

Euclid == ReduceM \/ ReduceN
AlgNext == Euclid \/ EuclidReturns \/ modinv \/ modexpStarts \/ modexpLoop \/ modexpReturns

AlgSpec == AlgInit /\ [][AlgNext]_algVars
\* Nothing but the call runs.
FairAlgSpec == AlgSpec /\ WF_algVars(AlgNext)

\* "Invariants: r1*m(orig) + s1*n(orig) == m(current) / r2*m(orig) + s2*n(orig) ==
\* n(current)" (BigIntegerAlgorithms.cc:21-23): also for negative arguments, whose quotients
\* are rounded down.
Bezout ==
  alg \in {"gcd", "extendedEuclidean", "modinv"} =>
    /\ r1 * arg[1] + s1 * arg[2] = m
    /\ r2 * arg[1] + s2 * arg[2] = n

Divides(d, x) == \E k \in -(IF x > 0 THEN x ELSE -x)..(IF x > 0 THEN x ELSE -x) : d * k = x
CommonDivisors(x, y) ==
  {d \in 1..Max({x, -x, y, -y}) : Divides(d, x) /\ Divides(d, y)}

\* What each function returns: gcd and extendedEuclidean the greatest of the common
\* divisors, modinv the inverse if there is one, and modexp the power.  There is one
\* exception: modexp returns 1 for the exponent 0 and the modulus 1.
AnswerIsRight ==
  LET Common == CommonDivisors(arg[1], arg[2])
      gcd == IF Common = {} THEN 0 ELSE Max(Common)
  IN  /\ at = "returned" /\ alg = "gcd" => g = gcd
      /\ at = "returned" /\ alg = "extendedEuclidean" => g \in {gcd, -gcd}
      /\ at = "returned" /\ alg = "modinv" =>
           /\ ans \in 0..arg[2] - 1
           /\ (ans * arg[1] - 1) % arg[2] = 0
      /\ at = "thrown" /\ alg = "modinv" => gcd # 1 \/ arg[2] = 0
      /\ at = "returned" /\ alg = "modexp" =>
           ans = IF arg[2] = 0 /\ arg[3] = 1 THEN 1 ELSE Power(arg[1], arg[2]) % arg[3]

\* The calls end: with rounding down, the remainders shrink whatever their signs.
CallsEnd == <>(at \in {"returned", "thrown"})
=============================================================================

-------------------------- MODULE BigUnsignedInABase --------------------------
(***************************************************************************)
(* bigint/BigUnsignedInABase.cc and BigIntegerUtils.cc: numbers as digits  *)
(* in a base, the lowest first, and as strings of symbols.  A behaviour    *)
(* writes an integer or an array of digits as a string in a base and reads *)
(* that again, or reads a string that is given.                            *)
(***************************************************************************)
EXTENDS Blocks, SequencesExt

CONSTANTS
  Written,       \* the integers written
  DigitArrays,   \* the arrays of digits written
  Bases,         \* the bases
  Given          \* the strings given: each symbol is a kind and a place in it

\* Decimal digits, letters, signs and what is none of these.
Kinds == {"0", "A", "a", "-", "+", "other"}

ASSUME InABaseAssumption ==
  /\ Written \subseteq Int /\ Bases \subseteq Nat
  /\ DigitArrays \subseteq Seq(Nat) /\ Given \subseteq Seq(Kinds \X Nat)

VARIABLES
  written,   \* the integer written, or the one that the digits mean
  base,
  left,      \* what is left of its magnitude
  room,      \* how many digits there is room for
  blk,       \* the digits found
  string,    \* the string written or given
  readBack,  \* the integer read
  did        \* what has been done

baseVars == <<written, base, left, room, blk, string, readBack, did>>

ceilingDiv(a, b) == (a + b - 1) \div b
bitLen(a) == CHOOSE l \in 0..a : Power(2, l) > a /\ (l > 0 => Power(2, l - 1) <= a)
Magnitude(a) == IF a < 0 THEN -a ELSE a

\* Mutant: every digit is taken to hold all bits of the base.
RoomForFullDigits(a, b) == ceilingDiv(ceilingDiv(bitLen(a), N) * N, bitLen(b))

\* "Get an upper bound on how much space we need".
RoomFor(a, b) == ceilingDiv(ceilingDiv(bitLen(a), N) * N, bitLen(b) - 1)

zapLeadingZeros(d) ==
  LET Full == {k \in DOMAIN d : d[k] # 0}
  IN  SubSeq(d, 1, IF Full = {} THEN 0 ELSE Max(Full))

\* The number with the digits w[1] to w[n], the lowest first.
ByPlaces(w, n) ==
  LET sum[k \in 0..n] == IF k = 0 THEN 0 ELSE sum[k - 1] + w[k] * Power(base, k - 1)
  IN  sum[n]

\* The constructor from digits: "Eliminate any leading zeros we may have been passed."
FromDigits(d) ==
  /\ left = 0 /\ room = Len(d) /\ string = <<>>
  /\ IF base >= 2 /\ \A k \in DOMAIN d : d[k] < base
     THEN blk = zapLeadingZeros(d) /\ written = ByPlaces(d, Len(d)) /\ did = "start"
     ELSE blk = <<>> /\ written = 0 /\ did = "throw"

\* The constructors from a number and from digits, or a string is given.
BaseInit ==
  /\ base \in Bases /\ readBack = 0
  /\ \/ /\ written \in Written /\ left = Magnitude(written)
        /\ string = <<>> /\ blk = <<>>
        /\ IF base < 2 THEN room = 0 /\ did = "throw"
           ELSE room = RoomFor(left, base) /\ did = "start"
     \/ \E d \in DigitArrays : FromDigits(d)
     \/ written = 0 /\ left = 0 /\ room = 0 /\ blk = <<>> /\ string \in Given /\ did = "given"

NextDigit ==
  /\ did = "start" /\ left # 0
  /\ blk' = Append(blk, left % base)
  /\ left' = left \div base
  /\ UNCHANGED <<written, base, room, string, readBack, did>>

\* The symbols are "0-9, A-Z, a-z" and signs.
Symbol(d) == IF d < 10 THEN <<"0", d>> ELSE <<"A", d - 10>>
Digit(c) == IF c[1] = "0" THEN c[2] ELSE c[2] + 10
IsDigit(c) == c[1] \in {"0", "A", "a"} /\ Digit(c) < base
Minus == <<"-", 0>>
Plus == <<"+", 0>>

\* operator std::string, and the sign that bigIntegerToString puts before it.
Symbols(d) ==
  IF d = <<>> THEN <<Symbol(0)>> ELSE Reverse([k \in DOMAIN d |-> Symbol(d[k])])

Write ==
  /\ did = "start" /\ left = 0
  /\ IF base > 36 THEN did' = "throw" /\ UNCHANGED string
     ELSE did' = "write" /\ string' = (IF written < 0 THEN <<Minus>> ELSE <<>>) \o Symbols(blk)
  /\ UNCHANGED <<written, base, left, room, blk, readBack>>

\* operator BigUnsigned: from the highest digit down.
BigUnsigned(d) ==
  LET ans[k \in 0..Len(d)] == IF k = 0 THEN 0 ELSE ans[k - 1] * base + d[Len(d) - k + 1]
  IN  ans[Len(d)]

\* stringToBigInteger for any base: a sign is taken off, the constructor from a string
\* takes the symbols from the last on.
Read ==
  LET signed  == string # <<>> /\ string[1] \in {Minus, Plus}
      numeral == IF signed THEN Tail(string) ELSE string
      digits  == zapLeadingZeros(Reverse([k \in DOMAIN numeral |-> Digit(numeral[k])]))
  IN  /\ did \in {"write", "given"}
      /\ IF base <= 36 /\ \A k \in DOMAIN numeral : IsDigit(numeral[k])
         THEN /\ blk' = digits /\ did' = "read"
              /\ readBack' = IF signed /\ string[1] = Minus THEN -BigUnsigned(digits) ELSE BigUnsigned(digits)
         ELSE did' = "throw" /\ UNCHANGED <<blk, readBack>>
      /\ UNCHANGED <<written, base, left, room, string>>

BaseNext == NextDigit \/ Write \/ Read

BaseSpec == BaseInit /\ [][BaseNext]_baseVars

\* "Move on.  We can't run out of room: we figured it out above"
\* (BigUnsignedInABase.cc:54): the array of digits is never written past its end.
StaysInRoom ==
  did \in {"start", "write"} => Len(blk) <= room /\ (left # 0 => Len(blk) < room)

\* What is written is read again as the same integer and the same digits, and of the
\* strings given each is read as the number that its places and symbols say; the digits
\* stay in their array.
RoundTrip ==
  LET Signs    == {Minus, Plus}
      \* The k-th symbol from the end.
      place(k) == string[Len(string) - k + 1]
      value    == ByPlaces([k \in DOMAIN string |-> IF place(k) \in Signs THEN 0 ELSE Digit(place(k))],
                           Len(string))
  IN  /\ StaysInRoom
      /\ did = "write" => \A k \in DOMAIN string : string[k] \notin Signs => IsDigit(string[k])
      /\ did = "read" /\ room > 0 =>
           readBack = written /\ string[Len(string)] = Symbol(Magnitude(written) % base)
      /\ did = "read" => /\ readBack \in {value, -value}
                         /\ readBack < 0 => string[1] = Minus
                         /\ blk # <<>> => blk[Len(blk)] # 0
=============================================================================

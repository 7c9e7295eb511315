------------------------------- MODULE HexText -------------------------------
(***************************************************************************)
(* The programs SHA-256.cpp and AES-CTR.cpp of the second homework: both   *)
(* read a text of hexadecimal digits, turn 32 digits at a time into an     *)
(* integer of 128 bits and take the bytes out of its memory, where they    *)
(* lie in the opposite order.  SHA-256.cpp counts, pads and hashes with    *)
(* the code that later went into sha256.cpp, so the operators of Sha256    *)
(* are used for that.                                                      *)
(*                                                                         *)
(* An integer is the sequence of its digits, the highest first.  The k-th  *)
(* digit of a text is simply k, and 0 is a digit that is filled in.        *)
(***************************************************************************)
EXTENDS Sha256

CONSTANTS
  PartBytes,   \* bytes of an integer (16)
  ctr,         \* the first counter block of AES-CTR.cpp, a sequence of bytes
  MaxText      \* bound: digits of a text

PartDigits == 2 * PartBytes

\* A text is short enough for an int to count its bits, and for its counter blocks to differ.
ASSUME HexAssumption ==
  /\ PartBytes \in Nat \ {0} /\ ctr \in [1..PartBytes -> 0..Byte - 1]
  /\ MaxText \in Nat /\ 4 * MaxText <= INT_MAX /\ MaxText < PartDigits * Values(PartBytes)

VARIABLES
  contents,   \* the digits of the text
  globals,    \* of SHA-256.cpp: buf, len, bits, hash
  done,       \* the loop index: bytes hashed, or digits encrypted
  idx,        \* of sha256: the next byte of a part that is not full
  encrypted,  \* what AES-CTR.cpp has written to its file
  stage       \* of the program: idle, hashing, hashed, encrypting

hexVars == <<contents, globals, done, idx, encrypted, stage>>

-----------------------------------------------------------------------------
\* A byte from two digits; no byte of a padding is negative.
ByteFrom(high, low) == -(high * (MaxText + 1) + low)

\* The byte at an address of an integer in memory, the lowest first.
At(part, address) ==
  ByteFrom(part[PartDigits - 2 * address - 1], part[PartDigits - 2 * address])

Shifted(part, n) == [k \in 1..PartDigits |-> IF k <= n THEN 0 ELSE part[k - n]]

\* The digits of the text that a part is read from, filled up with zeros at the end.
Filled(digits, p) ==
  [k \in 1..PartDigits |->
     IF p * PartDigits + k <= Len(digits) THEN digits[p * PartDigits + k] ELSE 0]

\* By how many digits a part is too short.
Missing(digits, p) ==
  IF (p + 1) * PartDigits > Len(digits) THEN (p + 1) * PartDigits - Len(digits) ELSE 0

\* exchange of SHA-256.cpp: part p of the array of integers it returns.
exchange(digits, p) == Shifted(Filled(digits, p), Missing(digits, p))

\* _data[index] of sha256, an address in the array.
Data(index) == At(exchange(contents, index \div PartBytes), index % PartBytes)

\* Mutant: the bytes of a full part are taken from the lowest on.
PartFromLowEnd(i) == [k \in 1..PartBytes |-> Data(i + k - 1)]

\* The bytes of a full part, from its high end.
FullPart(i) == [k \in 1..PartBytes |-> Data(i + PartBytes - k)]

\* The inner loop takes them one after the other.
TakenPart(i) ==
  LET part == FullPart(i)
      taken[k \in 0..PartBytes] == IF k = 0 THEN globals ELSE Taken(taken[k - 1], part[k])
  IN  taken[PartBytes]

\* main of SHA-256.cpp, up to its call of sha256.
ReadText(n) ==
  /\ stage = "idle"
  /\ contents' = [k \in 1..n |-> k]
  /\ idx' = n \div 2 - 1
  /\ stage' = "hashing"
  /\ UNCHANGED <<globals, done, encrypted>>

\* An iteration of sha256's loop: a full part, or a byte of the last one.
sha256 ==
  LET leng == Len(contents) \div 2
  IN  /\ stage = "hashing" /\ done < leng
      /\ IF leng - done <= PartBytes
         THEN globals' = Taken(globals, Data(idx)) /\ idx' = idx - 1 /\ done' = done + 1
         ELSE globals' = TakenPart(done) /\ done' = done + PartBytes /\ UNCHANGED idx
      /\ UNCHANGED <<contents, encrypted, stage>>

\* main of SHA-256.cpp, after sha256.
Hashed ==
  /\ stage = "hashing" /\ done >= Len(contents) \div 2
  /\ globals' = main_hash(globals)
  /\ stage' = "hashed"
  /\ UNCHANGED <<contents, done, idx, encrypted>>

-----------------------------------------------------------------------------
\* myreverse of AES-CTR.cpp: the bytes in the opposite order, and the zeros cut off.
myreverse(part, missing) ==
  Shifted([k \in 1..PartDigits |->
             part[IF k % 2 = 1 THEN PartDigits - k ELSE PartDigits - k + 2]], missing)

\* add of AES-CTR.cpp: a block counter later, the bytes being one number, high byte first.
CounterAfter(b) ==
  LET value[k \in 0..PartBytes] == IF k = 0 THEN 0 ELSE Byte * value[k - 1] + ctr[k]
  IN  [k \in 1..PartBytes |-> ((value[PartBytes] + b) \div Values(PartBytes - k)) % Byte]

ReadPlaintext(n) ==
  /\ stage = "idle"
  /\ contents' = [k \in 1..n |-> k]
  /\ stage' = "encrypting"
  /\ UNCHANGED <<globals, done, idx, encrypted>>

\* An iteration of main's loop in AES-CTR.cpp, at digit done = i: a part is turned into an
\* integer as by exchange of that file, the cipher of its counter block (ideal: named by the
\* counter and the place in the block) is xor-ed to it, and its bytes are written.
EncryptPart ==
  LET p    == done \div PartDigits
      part == exchange(contents, p)
      x    == myreverse(part, Missing(contents, p))
      leng == (PartDigits - Missing(contents, p)) \div 2
  IN  /\ stage = "encrypting" /\ done < Len(contents)
      /\ encrypted' = encrypted \o
           [j \in 1..leng |-> [byte |-> At(x, j - 1), counter |-> CounterAfter(p), at |-> j]]
      /\ done' = done + PartDigits
      /\ UNCHANGED <<contents, globals, idx, stage>>

HexInit ==
  /\ contents = <<>> /\ globals = FreshText /\ done = 0 /\ idx = 0
  /\ encrypted = <<>> /\ stage = "idle"
HexNext ==
  \/ \E n \in 0..MaxText : n % 2 = 0 /\ (ReadText(n) \/ ReadPlaintext(n))
  \/ sha256 \/ Hashed \/ EncryptPart
HexSpec == HexInit /\ [][HexNext]_hexVars
-----------------------------------------------------------------------------
\* The bytes that a text stands for.
TextBytes(digits) ==
  [k \in 1..Len(digits) \div 2 |-> ByteFrom(digits[2 * k - 1], digits[2 * k])]

\* Both programs work on the bytes of the text in their order, whether its last part is
\* full or not: what is hashed is the padded text, and byte k of the ciphertext is byte k
\* of the text with the keystream byte of that place, under counter blocks that differ.
BytesOfTheText ==
  /\ stage = "hashed" => Absorbed(globals.hash) = Padded(TextBytes(contents))
  /\ \A k \in DOMAIN encrypted :
       /\ encrypted[k].byte = TextBytes(contents)[k]
       /\ encrypted[k].at = 1 + ((k - 1) % PartBytes)
       /\ \A j \in DOMAIN encrypted :
            encrypted[j].counter = encrypted[k].counter
              <=> (j - 1) \div PartBytes = (k - 1) \div PartBytes
  /\ stage = "encrypting" /\ done >= Len(contents) => Len(encrypted) = Len(contents) \div 2
=============================================================================

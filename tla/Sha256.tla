------------------------------- MODULE Sha256 --------------------------------
(***************************************************************************)
(* One call of sha_256 (sha256.cpp): how a message is cut into blocks and  *)
(* padded.  The compression of a block is ideal: a hash is the sequence of *)
(* the blocks that went into it, so that two messages have one hash only   *)
(* if they were padded to the same bytes.                                  *)
(*                                                                         *)
(* The code never looks at the value of a message byte, so the k-th byte   *)
(* of a message is simply -k, which is no byte of the padding.             *)
(***************************************************************************)
EXTENDS Bytes, Sequences

CONSTANTS
  Block,   \* bytes of a block (64), more than two words
  Half     \* bytes of each of the two counter words (4)

Word == Values(Half)
Offsets == 0..Block - 1

\* int is narrower than a counter word, and a block has room for both.
ASSUME ShaAssumption ==
  /\ Byte \in Nat \ {0} /\ Half \in Nat \ {0} /\ Block \in Nat /\ Block > 2 * Half
  /\ INT_MAX \in Nat /\ INT_MAX < Word

VARIABLES
  message,   \* the bytes to be hashed
  text,      \* the local context: buf, len, bits, hash
  read,      \* the loop index: bytes of message read so far
  phase      \* of the call: idle, reading, returned

shaVars == <<message, text, read, phase>>

-----------------------------------------------------------------------------
\* add: counts n bits in the two words.
sha_add(context, n) ==
  [context EXCEPT
     !.bits[1] = IF context.bits[0] > Word - 1 - n THEN (@ + 1) % Word ELSE @,
     !.bits[0] = (@ + n) % Word]

\* hashing: the present block goes into the hash.
hashing(context) == [context EXCEPT !.hash = Append(@, context.buf)]

\* shb: byte k of a word, from its low end.
shb(word, k) == (word \div Values(k)) % Byte

\* The end of buf in which main_hash puts the length.
WithLength(context) ==
  [context EXCEPT !.buf = [k \in Offsets |->
     LET low == Block - 1 - k
     IN  IF low < 2 * Half THEN shb(context.bits[low \div Half], low % Half) ELSE @[k]]]

\* buf with a single one bit after its first len bytes.
Terminated(context) ==
  LET j == context.len % Block
  IN  [context EXCEPT !.buf = [k \in Offsets |->
         IF k < j THEN @[k] ELSE IF k = j THEN Byte \div 2 ELSE 0]]

\* Mutant: the test is > 56.
FlushedLate(context) ==
  IF context.len > Block - 2 * Half
  THEN [hashing(context) EXCEPT !.buf = [k \in Offsets |-> 0]]
  ELSE context

\* A block without room for the length (more than 55 bytes) is hashed by itself.
Flushed(context) ==
  IF context.len > Block - 2 * Half - 1
  THEN [hashing(context) EXCEPT !.buf = [k \in Offsets |-> 0]]
  ELSE context

\* main_hash: pads the rest, counts it and hashes it.
main_hash(context) ==
  hashing(WithLength(sha_add(Flushed(Terminated(context)), context.len * 8)))

\* The local context when sha_256 starts: buf is uninitialised.
FreshText ==
  [buf |-> [k \in Offsets |-> -1000], len |-> 0, bits |-> [k \in 0..1 |-> 0], hash |-> <<>>]

\* An iteration of sha_256's loop: a full buffer is hashed and counted.
Taken(context, byte) ==
  LET stored == [context EXCEPT !.buf[context.len] = byte, !.len = @ + 1]
  IN  IF stored.len = Block
      THEN [sha_add(hashing(stored), Block * 8) EXCEPT !.len = 0]
      ELSE stored

-----------------------------------------------------------------------------
ShaInit ==
  /\ message = <<>> /\ text = FreshText
  /\ read = 0 /\ phase = "idle"

\* sha_256 is called for n bytes; m_len_bits is an int.
sha_256(n) ==
  /\ phase = "idle"
  /\ n * 8 <= INT_MAX
  /\ message' = [k \in 1..n |-> -k]
  /\ phase' = "reading"
  /\ UNCHANGED <<text, read>>

TakeByte ==
  /\ phase = "reading" /\ read < Len(message)
  /\ text' = Taken(text, message[read + 1])
  /\ read' = read + 1
  /\ UNCHANGED <<message, phase>>

Finish ==
  /\ phase = "reading" /\ read >= Len(message)
  /\ text' = main_hash(text)
  /\ phase' = "returned"
  /\ UNCHANGED <<message, read>>

ShaNext == (\E n \in 0..INT_MAX \div 8 : sha_256(n)) \/ TakeByte \/ Finish
ShaSpec == ShaInit /\ [][ShaNext]_shaVars
-----------------------------------------------------------------------------
\* The padded message as the standard (FIPS 180-4) has it: a one bit, the fewest
\* zeros that make whole blocks, and the number of bits, high byte first.
Padded(m) ==
  LET n     == Len(m)
      total == Block * ((n + 2 * Half + Block) \div Block)
  IN  [k \in 1..total |->
         IF k <= n THEN m[k]
         ELSE IF k = n + 1 THEN Byte \div 2
         ELSE IF k <= total - 2 * Half THEN 0
         ELSE shb(8 * n, total - k)]

\* The bytes of all blocks in a hash, in order.
Absorbed(hash) ==
  [k \in 1..Block * Len(hash) |-> hash[(k - 1) \div Block + 1][(k - 1) % Block]]

\* Types. The buffer is never full between two bytes, and the counted bits and the
\* buffer together are all that was read.
ShaTypeOK ==
  /\ read \in 0..Len(message) /\ phase \in {"idle", "reading", "returned"}
  /\ text.len \in Offsets
  /\ text.bits[0] \in 0..Word - 1 /\ text.bits[1] \in 0..Word - 1
  /\ phase # "returned" => text.bits[0] + Word * text.bits[1] + 8 * text.len = 8 * read

\* What sha_256 hashes is the padded message, whatever its length: no byte is
\* lost, repeated or left over from another block at any boundary, and no bit of
\* the uninitialised buffer is used.
HashesThePaddedMessage ==
  ShaTypeOK /\ (phase = "returned" => Absorbed(text.hash) = Padded(message))
=============================================================================

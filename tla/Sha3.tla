-------------------------------- MODULE Sha3 ---------------------------------
(***************************************************************************)
(* The sponge of SHA3.cpp (homework 2): add may be called any number of    *)
(* times, with any number of bytes, and sha3 between any two of the calls. *)
(* The permutation is ideal: the global hashing is the sequence of the     *)
(* absorbed blocks.  The k-th byte of all that is added is the value -k.   *)
(***************************************************************************)
EXTENDS Integers, Sequences

CONSTANTS
  sizeof_block,  \* bytes of a block (136)
  BufBytes,      \* bytes of buf (144), at least those of a block
  MaxAdded       \* bound: bytes added in all

ASSUME SpongeAssumption ==
  /\ sizeof_block \in Nat \ {0} /\ BufBytes \in Nat /\ sizeof_block <= BufBytes
  /\ MaxAdded \in Nat

VARIABLES
  absorbed,       \* the global hashing: the blocks absorbed so far
  buf,            \* the global buf
  sizeof_buffer,  \* how many bytes of buf wait for their block to fill up
  _num,           \* how many bytes have been absorbed
  added,          \* history: how many bytes have been added
  digests         \* history: what sha3 returned, and after how many bytes

spongeVars == <<absorbed, buf, sizeof_buffer, _num, added, digests>>
sponge == [absorbed |-> absorbed, buf |-> buf, size |-> sizeof_buffer, num |-> _num]

-----------------------------------------------------------------------------
\* The lowest of two numbers, where the code runs two conditions of a loop.
Lower(a, b) == IF a < b THEN a ELSE b

BlockOf(bytes) == [k \in 1..sizeof_block |-> bytes[k]]

\* block_process: a block from the start of some bytes is mixed into the state.
block_process(state, bytes) == Append(state, BlockOf(bytes))

\* The loops that copy bytes to buf while there are any and buf has room.
Buffered(s, data) ==
  [s EXCEPT !.buf = [k \in 1..BufBytes |->
                       IF k > s.size /\ k <= s.size + Len(data) THEN data[k - s.size] ELSE @[k]],
            !.size = @ + Len(data)]

\* A full buffer is absorbed.
Absorb(s) ==
  IF s.size = sizeof_block
  THEN [s EXCEPT !.absorbed = block_process(@, s.buf), !.num = @ + sizeof_block, !.size = 0]
  ELSE s

\* Whole blocks are absorbed from the data without going through buf.
AbsorbBlocks(s, data) ==
  LET whole == Len(data) \div sizeof_block
  IN  [s EXCEPT
         !.absorbed = @ \o [b \in 1..whole |->
                            BlockOf(SubSeq(data, (b - 1) * sizeof_block + 1, b * sizeof_block))],
         !.num = @ + whole * sizeof_block]

\* Mutant: data goes to the buffer only from its start.
AddFromBlocks(s, data) ==
  LET whole == (Len(data) \div sizeof_block) * sizeof_block
  IN  Buffered(AbsorbBlocks(s, data), SubSeq(data, whole + 1, Len(data)))

\* add: fills up the buffer if it is in use, absorbs whole blocks, and keeps the rest.
sponge_add(s, data) ==
  LET fill  == IF s.size > 0 THEN Lower(Len(data), sizeof_block - s.size) ELSE 0
      first == Absorb(Buffered(s, SubSeq(data, 1, fill)))
      rest  == SubSeq(data, fill + 1, Len(data))
      whole == (Len(rest) \div sizeof_block) * sizeof_block
  IN  Buffered(AbsorbBlocks(first, rest), SubSeq(rest, whole + 1, Len(rest)))

\* The padding of sha3: 0x06 after the last byte, 0x80 or-ed to the block's last byte.
\* They may be the same byte.
PaddedBuf(s) ==
  [k \in 1..BufBytes |->
     LET start == IF k <= s.size \/ k > sizeof_block THEN s.buf[k]
                  ELSE IF k = s.size + 1 THEN 6 ELSE 0
     IN  IF k = sizeof_block THEN start + 128 ELSE start]

-----------------------------------------------------------------------------
SpongeInit ==
  /\ absorbed = <<>> /\ buf = [k \in 1..BufBytes |-> 0]
  /\ sizeof_buffer = 0 /\ _num = 0
  /\ added = 0 /\ digests = {}

\* A call of add with the next n bytes.
Add(n) ==
  /\ added + n <= MaxAdded
  /\ LET s == sponge_add(sponge, [k \in 1..n |-> -(added + k)])
     IN  /\ absorbed' = s.absorbed /\ buf' = s.buf
         /\ sizeof_buffer' = s.size /\ _num' = s.num
  /\ added' = added + n
  /\ UNCHANGED digests

\* A call of sha3: the state is put back afterwards, but not buf.
sha3 ==
  /\ buf' = PaddedBuf(sponge)
  /\ digests' = digests \cup {[bytes |-> added, of |-> block_process(absorbed, buf')]}
  /\ UNCHANGED <<absorbed, sizeof_buffer, _num, added>>

SpongeNext == (\E n \in 0..MaxAdded : Add(n)) \/ sha3
SpongeSpec == SpongeInit /\ [][SpongeNext]_spongeVars
-----------------------------------------------------------------------------
\* The blocks of the first n bytes with the padding of SHA-3 (FIPS 202): bits 01, and
\* a one, zeros and a one up to the end of a block.
PaddedBlocks(n) ==
  LET blocks == n \div sizeof_block + 1
      last   == blocks * sizeof_block
      byte(k) == IF k <= n THEN -k
                 ELSE (IF k = n + 1 THEN 6 ELSE 0) + (IF k = last THEN 128 ELSE 0)
  IN  [b \in 1..blocks |-> [k \in 1..sizeof_block |-> byte((b - 1) * sizeof_block + k)]]

\* Types. The waiting bytes always leave room for the padding, and what was added
\* has been absorbed or waits.
SpongeTypeOK ==
  /\ added \in 0..MaxAdded
  /\ sizeof_buffer \in 0..sizeof_block - 1
  /\ Len(absorbed) * sizeof_block = _num /\ _num + sizeof_buffer = added

\* Every digest is that of all bytes added so far, however they were split into calls
\* of add and however often sha3 was called before; no byte is lost or absorbed twice meanwhile.
DigestsWhatWasAdded ==
  SpongeTypeOK /\ \A d \in digests : d.of = PaddedBlocks(d.bytes)
=============================================================================

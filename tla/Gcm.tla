--------------------------------- MODULE Gcm ----------------------------------
(***************************************************************************)
(* Authenticated encryption (aes-gcm.cpp) on top of AES_CTR_Encrypt        *)
(* (aes-ctr.cpp), for messages under one key.  AES and the multiplication  *)
(* in GHASH are ideal: the block cipher of a counter block is named by the *)
(* counter block, and GHASH of some bytes by the bytes.                    *)
(*                                                                         *)
(* A byte is a record: a value and the set of keystream bytes that were    *)
(* xor-ed to it.  Byte k of a plaintext has the value -k, and all bytes of *)
(* the associated data are zero, as the padding is.                        *)
(***************************************************************************)
EXTENDS Bytes, Sequences, FiniteSets

CONSTANTS
  IvBytes,   \* bytes of an IV (12)
  CtrBytes,  \* bytes of the counter behind it (4)
  IVs,       \* the IVs of the instance, sequences of bytes
  Lengths,   \* the lengths of plaintexts and associated data in the instance
  MaxSealed  \* bound: messages that are encrypted

VARIABLES
  sealed,    \* the messages encrypted so far, with their plaintexts
  opened     \* the last decryption: what was decrypted, and what was returned

gcmVars == <<sealed, opened>>

CipherBlock == IvBytes + CtrBytes
Positions == 1..CipherBlock

\* int counts fewer blocks than the counter has values.
ASSUME GcmAssumption ==
  /\ Byte \in Nat /\ Byte > 2 /\ IvBytes \in Nat /\ CtrBytes \in Nat \ {0} /\ INT_MAX \in Nat
  /\ INT_MAX \div CipherBlock + 1 < Values(CtrBytes)
  /\ IVs \subseteq [1..IvBytes -> 0..Byte - 1] /\ Lengths \subseteq Nat

-----------------------------------------------------------------------------
\* AES_CTR_Encrypt.

\* Mutant: the carry stops in the last byte.
LastByteOnly(counter) == [counter EXCEPT ![CipherBlock] = (@ + 1) % Byte]

\* The loop at the end of each block: adds one to the bytes as one number, from the
\* last byte on while there is a carry.
Incremented(counter) ==
  [k \in Positions |->
     IF \A j \in k + 1..CipherBlock : counter[j] = Byte - 1
     THEN (counter[k] + 1) % Byte ELSE counter[k]]

\* The counter blocks for n bytes, from an initial one. len is an int.
Counters(first, n) ==
  LET counter[b \in 1..(n + CipherBlock - 1) \div CipherBlock] ==
        IF b = 1 THEN first ELSE Incremented(counter[b - 1])
  IN  counter

Xor(byte, mask) == [byte EXCEPT !.masks = (@ \ {mask}) \cup ({mask} \ @)]

\* Byte number at of the block cipher of a counter block, ten rounds that are ideal here.
Cipher(counter, at) == [counter |-> counter, at |-> at]

AES_CTR_Encrypt(first, bytes) ==
  LET counters == Counters(first, Len(bytes))
  IN  [k \in 1..Len(bytes) |->
         Xor(bytes[k], Cipher(counters[1 + (k - 1) \div CipherBlock], k % CipherBlock))]

-----------------------------------------------------------------------------
\* aes-gcm.cpp.
Plain(value) == [value |-> value, masks |-> {}]
ZeroBytes(n) == [k \in 1..n |-> Plain(0)]

\* J0, and the counter block of the first bytes: only its last byte is incremented.
J0(iv) == [k \in Positions |-> IF k <= IvBytes THEN iv[k] ELSE IF k = CipherBlock THEN 1 ELSE 0]
J0_Incremented(iv) == [J0(iv) EXCEPT ![CipherBlock] = (@ + 1) % Byte]

\* Mutant: without the lengths.
GhashPadded(ad, ciphertext) ==
  ad \o ZeroBytes((-Len(ad)) % CipherBlock) \o ciphertext \o ZeroBytes((-Len(ciphertext)) % CipherBlock)

\* GHASH_input: each part is filled up to whole blocks, then the two lengths in bits.
GHASH_input(ad, ciphertext) ==
  ad \o ZeroBytes((-Len(ad)) % CipherBlock)
     \o ciphertext \o ZeroBytes((-Len(ciphertext)) % CipherBlock)
     \o <<Plain(8 * Len(ad)), Plain(8 * Len(ciphertext))>>

\* GHASH, with GF_Multiply: ideal, so bytes that differ have hashes that differ.
GHASH(bytes) == bytes

Tag(iv, ad, ciphertext) == [E_K_Y0 |-> J0(iv), S |-> GHASH(GHASH_input(ad, ciphertext))]

\* AES_Authenticated_Encryption_GCM.
Encryption(iv, ad, plaintext) ==
  LET ciphertext == AES_CTR_Encrypt(J0_Incremented(iv), plaintext)
  IN  [iv |-> iv, ad |-> ad, ciphertext |-> ciphertext, tag |-> Tag(iv, ad, ciphertext)]

\* AES_Authenticated_Decryption_GCM: writes the plaintext, whatever the tag is.
Decryption(m) ==
  [ok |-> m.tag = Tag(m.iv, m.ad, m.ciphertext),
   plaintext |-> AES_CTR_Encrypt(J0_Incremented(m.iv), m.ciphertext)]

-----------------------------------------------------------------------------
GcmInit == sealed = {} /\ opened = [ok |-> FALSE, plaintext |-> <<>>, message |-> <<>>]

\* A message is encrypted with an IV that was not used before.
Encrypt(iv, n, adLength) ==
  /\ Cardinality(sealed) < MaxSealed
  /\ n + CipherBlock - 1 <= INT_MAX
  /\ \A s \in sealed : s.message.iv # iv
  /\ LET plaintext == [k \in 1..n |-> Plain(-k)]
     IN  sealed' = sealed \cup {[message |-> Encryption(iv, ZeroBytes(adLength), plaintext),
                                 plaintext |-> plaintext]}
  /\ UNCHANGED opened

\* A message is decrypted whose parts are those of encrypted messages, though perhaps
\* not all of the same one.
Decrypt(a, b, c, d) ==
  /\ LET m == [iv |-> a.message.iv, ad |-> b.message.ad,
               ciphertext |-> c.message.ciphertext, tag |-> d.message.tag]
     IN  opened' = [ok |-> Decryption(m).ok, plaintext |-> Decryption(m).plaintext,
                    message |-> <<m>>]
  /\ UNCHANGED sealed

GcmNext ==
  \/ \E iv \in IVs, n \in Lengths, adLength \in Lengths : Encrypt(iv, n, adLength)
  \/ \E a, b, c, d \in sealed : Decrypt(a, b, c, d)
GcmSpec == GcmInit /\ [][GcmNext]_gcmVars
-----------------------------------------------------------------------------
\* The counter blocks that AES is applied to for a message: for the key of GHASH, for
\* the tag and for the keystream.
CounterBlocks(m) ==
  LET counters == Counters(J0_Incremented(m.iv), Len(m.ciphertext))
  IN  <<[k \in Positions |-> 0], J0(m.iv)>> \o [b \in DOMAIN counters |-> counters[b]]

\* AES is never applied to a block twice, except for the key of GHASH: neither within
\* a message nor in messages with different IVs, though the counter carries over all
\* bytes of the block, the IV included.
CounterBlocksDiffer ==
  /\ \A s \in sealed :
       LET blocks == CounterBlocks(s.message)
       IN  \A j, k \in DOMAIN blocks : blocks[j] = blocks[k] => j = k
  /\ \A s, t \in sealed : s # t =>
       \A j \in 2..Len(CounterBlocks(s.message)), k \in 2..Len(CounterBlocks(t.message)) :
         CounterBlocks(s.message)[j] # CounterBlocks(t.message)[k]

\* A message decrypts to its plaintext, and no other combination of IV, associated data
\* and ciphertext with its tag is accepted; also if they differ only in how many zeros
\* belong to the data and how many are padding.
OpensOnlyWhatWasSealed ==
  opened.message # <<>> =>
    LET m == Head(opened.message)
    IN  /\ opened.ok <=> \E s \in sealed : s.message = m
        /\ \A s \in sealed : s.message = m => opened.plaintext = s.plaintext
=============================================================================

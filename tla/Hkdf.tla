-------------------------------- MODULE Hkdf ---------------------------------
(***************************************************************************)
(* One call of HKDF (hkdf.cpp) with the hmac_sha256 (hmac.cpp) that it     *)
(* calls.  sha_256 is ideal here: byte k of the hash of x is the term      *)
(* <<"hash", x, k>>.  Numbers, inputs and exclusive ors are terms, too.    *)
(***************************************************************************)
EXTENDS Sha256

CONSTANTS
  HashBytes,   \* bytes of a hash (32)
  SaltLengths, \* lengths of the salts in the instance
  MaxOkm       \* bound: bytes that are asked for

\* A hash fits in a block.
ASSUME HkdfAssumption ==
  /\ HashBytes \in Nat \ {0} /\ HashBytes <= Block /\ MaxOkm \in Nat /\ SaltLengths \subseteq Nat

VARIABLES
  parameters,        \* the parameters: salt, salted, ikm, info, L_bytes
  prk,         \* the pseudorandom key of HKDF_Extract
  previous,    \* the locals of HKDF_Expand
  len_t,
  offset_okm,
  iteration,   \* i
  okm,         \* the output buffer
  hkdfPhase    \* of the call: idle, expanding, returned

hkdfVars == <<parameters, prk, previous, len_t, offset_okm, iteration, okm, hkdfPhase>>

Input(name, n) == [k \in 1..n |-> <<name, k>>]
Zeros(n) == [k \in 1..n |-> <<"byte", 0>>]
Uninitialised(n) == [k \in 1..n |-> <<"memory", k>>]
Digest(bytes) == [k \in 1..HashBytes |-> <<"hash", bytes, k>>]

-----------------------------------------------------------------------------
\* hmac_sha256: a key of more than a block is hashed, and filled up with zeros.
KeyBlock(key) ==
  LET short == IF Len(key) > Block THEN Digest(key) ELSE key
  IN  short \o Zeros(Block - Len(short))

Masked(block, pad) == [k \in DOMAIN block |-> <<"xor", block[k], pad>>]

hmac_sha256(key, bytes) ==
  Digest(Masked(KeyBlock(key), "opad") \o Digest(Masked(KeyBlock(key), "ipad") \o bytes))

\* HKDF_Extract: no salt is as many zeros as a hash has bytes.
HKDF_Extract(salted, salt, ikm) ==
  hmac_sha256(IF salted THEN salt ELSE Zeros(HashBytes), ikm)

\* number: the blocks that HKDF_Expand makes.
HashesFor(n) == (n + HashBytes - 1) \div HashBytes

HkdfInit ==
  /\ parameters = [salted |-> FALSE, salt |-> <<>>, ikm |-> <<>>, info |-> <<>>, L_bytes |-> 0]
  /\ prk = <<>> /\ okm = <<>>
  /\ previous = Uninitialised(HashBytes) /\ len_t = 0
  /\ offset_okm = 0 /\ iteration = 0 /\ hkdfPhase = "idle"

\* HKDF is called, up to the loop of HKDF_Expand.
HKDF(salted, saltLength, infoLength, n) ==
  /\ hkdfPhase = "idle"
  /\ parameters' = [salted |-> salted, salt |-> Input("salt", saltLength), ikm |-> Input("ikm", 1),
              info |-> Input("info", infoLength), L_bytes |-> n]
  /\ prk' = HKDF_Extract(salted, parameters'.salt, parameters'.ikm)
  /\ okm' = Uninitialised(n)
  /\ hkdfPhase' = "expanding"
  /\ UNCHANGED <<previous, len_t, offset_okm, iteration>>

\* Mutant: the counter starts at zero.
CounterFromZero == <<"byte", iteration % Byte>>

\* The last byte of data_con, (uint8_t)(i + 1).
Counter == <<"byte", (iteration + 1) % Byte>>

\* data_con: the previous block, the info and the counter.
data_con == SubSeq(previous, 1, len_t) \o Append(parameters.info, Counter)

\* len_t after a block: all of it goes into the next one.
ChainedBytes == HashBytes

\* An iteration of HKDF_Expand's loop.
HKDF_Expand ==
  LET T    == hmac_sha256(prk, data_con)
      copy == IF offset_okm + HashBytes <= parameters.L_bytes THEN HashBytes
              ELSE parameters.L_bytes - offset_okm
  IN  /\ hkdfPhase = "expanding" /\ iteration < HashesFor(parameters.L_bytes)
      /\ okm' = SubSeq(okm, 1, offset_okm) \o SubSeq(T, 1, copy)
                  \o SubSeq(okm, offset_okm + copy + 1, Len(okm))
      /\ previous' = T /\ len_t' = ChainedBytes
      /\ offset_okm' = offset_okm + copy /\ iteration' = iteration + 1
      /\ UNCHANGED <<parameters, prk, hkdfPhase>>

HkdfReturn ==
  /\ hkdfPhase = "expanding" /\ iteration >= HashesFor(parameters.L_bytes)
  /\ hkdfPhase' = "returned"
  /\ UNCHANGED <<parameters, prk, previous, len_t, offset_okm, iteration, okm>>

HkdfNext ==
  \/ \E salted \in BOOLEAN, s \in SaltLengths, j \in 0..1, n \in 1..MaxOkm :
       HKDF(salted, s, j, n)
  \/ HKDF_Expand \/ HkdfReturn
HkdfSpec == HkdfInit /\ [][HkdfNext]_hkdfVars
-----------------------------------------------------------------------------
\* T(0) is empty, and T(i) is the HMAC of T(i - 1), the info and the byte i.
StandardBlocks(key, info, n) ==
  LET T[i \in 0..n] ==
        IF i = 0 THEN <<>> ELSE hmac_sha256(key, T[i - 1] \o info \o <<<<"byte", i>>>>)
  IN  T

StandardOkm(key, info, n) ==
  LET T == StandardBlocks(key, info, HashesFor(n))
      blocks == [k \in 1..HashBytes * HashesFor(n) |->
                   T[1 + ((k - 1) \div HashBytes)][1 + ((k - 1) % HashBytes)]]
  IN  SubSeq(blocks, 1, n)

\* HKDF returns what the standard (RFC 5869) says, up to the largest output for which
\* it says anything, 255 hashes: the messenger's root and chain keys are its blocks.
ReturnsStandardOkm ==
  hkdfPhase = "returned" /\ HashesFor(parameters.L_bytes) < Byte =>
    okm = StandardOkm(prk, parameters.info, parameters.L_bytes)

\* Also for longer outputs, where the counter is back at zero and then at one, no
\* part of the output is repeated; nor is a byte of it left uninitialised.
OkmNeverRepeats ==
  hkdfPhase = "returned" =>
    \A j, k \in 1..parameters.L_bytes : okm[j][1] = "hash" /\ (okm[j] = okm[k] => j = k)

\* Both of what is returned.
ReturnsOkm == ReturnsStandardOkm /\ OkmNeverRepeats
=============================================================================

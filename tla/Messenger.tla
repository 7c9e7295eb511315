------------------------------ MODULE Messenger ------------------------------
(***************************************************************************)
(* The end-to-end encrypted messenger: two Messenger objects (messenger.cpp)*)
(* with a DoubleRatchet each (double-ratchet.cpp), and the Message objects *)
(* that their user carries from one to the other, oldest first.            *)
(*                                                                         *)
(* Cryptography is symbolic.  A key pair is a number, the secret key; the  *)
(* integer that two parties compute from their key pairs is the set of the *)
(* two, {k} stands for the public key of k.  What a KDF returns is a term  *)
(* that names its inputs, and a GCM tag names all that it authenticates.   *)
(*                                                                         *)
(* What is not ideal is how a number becomes bytes: key_to_uint8_t_array   *)
(* is right only for numbers of 511 or 512 hexadecimal digits, the length  *)
(* of most numbers modulo the 2048-bit prime.                              *)
(***************************************************************************)
EXTENDS Integers, Sequences

CONSTANTS
  MaxSent,      \* bound: messages each party sends
  MaxInFlight,  \* bound: messages of a party that are under way
  Short,        \* the numbers of fewer than 511 digits
  MayLose,      \* does a message get lost on its way?
  MaxRepeats    \* bound: messages that come late or again

ASSUME MessengerAssumption ==
  MaxSent \in Nat /\ MaxInFlight \in Nat /\ MaxRepeats \in Nat /\ MayLose \in BOOLEAN

Party == {"Alice", "Bob"}
Other(p) == IF p = "Alice" THEN "Bob" ELSE "Alice"
nullptr == 0

VARIABLES
  ratchet,   \* the DoubleRatchet of each party
  keys,      \* how many key pairs have been generated, the last one is keys
  net,       \* the messages of each party under way, oldest first
  gone,      \* the messages of each party that have arrived or were lost
  repeats,   \* how many messages came once more
  sent,      \* how many messages each party has sent
  plaintexts, \* what receive_message has returned to each party
  failed,    \* history: the chains of messages whose authentication failed
  gaps,      \* history: the chains from which a message was lost, or came once more
  astray,    \* history: has a message come once more that was out of order?
  used       \* history: the message keys that ENCRYPT has used

vars == <<ratchet, keys, net, gone, repeats, sent, plaintexts, failed, gaps, astray, used>>

-----------------------------------------------------------------------------
(* The functions of double-ratchet.cpp. *)

\* The possible results of key_to_uint8_t_array: beyond the end of a string of less
\* than 511 digits the code reads what happens to be in memory.
key_to_uint8_t_array(number) ==
  {[number |-> number, beyond |-> b] : b \in IF number \in Short THEN {0, 1} ELSE {0}}

\* The two parties compute the same number, each from its own secret key.
diffie_hellman(sk, pk) == {sk, pk}

DH(sk, pk) == key_to_uint8_t_array(diffie_hellman(sk, pk))

\* A key pair that nobody has, for a random secret key.
GENERATE_DH == keys + 1

KDF_RK(rk, dh_out) ==
  [RK |-> <<"RK", rk, dh_out>>, CK |-> [root |-> <<"CK", rk, dh_out>>, step |-> 0]]

\* KDF_CK: the message key is named by the chain key it comes from.
NextCK(ck) == [ck EXCEPT !.step = @ + 1]
MessageKey(ck) == ck

\* A KDF_key that no constructor writes.
Uninitialised(p) == [root |-> <<"memory", p>>, step |-> 0]

\* Mutants: the sending chain is left as it was; its root key is not replaced; the
\* shared number is computed before there is a new key pair, so it is the old one.
RatchetReceivingOnly(s, pk, key, out, newOut) ==
  [s EXCEPT !.DHs = key, !.DHr = pk, !.RK = KDF_RK(s.RK, out).RK, !.CKr = KDF_RK(s.RK, out).CK]
RatchetKeepsRoot(s, pk, key, out, newOut) ==
  LET receiving == KDF_RK(s.RK, out)
  IN  [DHs |-> key, DHr |-> pk, RK |-> receiving.RK,
       CKs |-> KDF_RK(receiving.RK, newOut).CK, CKr |-> receiving.CK]

RatchetWithOldNumber(s, pk, key, out, newOut) ==
  LET receiving == KDF_RK(s.RK, out)
      sending   == KDF_RK(receiving.RK, out)
  IN  [DHs |-> key, DHr |-> pk, RK |-> sending.RK, CKs |-> sending.CK, CKr |-> receiving.CK]

\* The DH ratchet of on_receiving_message: key is the new key pair, the other party's
\* public key is pk, and out and newOut are the bytes of the two shared numbers.
DHRatchet(s, pk, key, out, newOut) ==
  LET receiving == KDF_RK(s.RK, out)
      sending   == KDF_RK(receiving.RK, newOut)
  IN  [DHs |-> key, DHr |-> pk, RK |-> sending.RK, CKs |-> sending.CK, CKr |-> receiving.CK]

\* Mutant: only the first header does.
FirstHeader(s, pk) == s.DHr = nullptr

\* The header of a message makes the receiver ratchet.
NewHeader(s, pk) == s.DHr = nullptr \/ s.DHr # pk

-----------------------------------------------------------------------------
\* Both constructors: Alice begins with Bob's public key and ratchets once, Bob
\* with his key pair.  The apps give both the same SK.
Init ==
  /\ keys = 2
  /\ \E out \in DH(1, 2) :
       ratchet = [p \in Party |->
         IF p = "Alice"
         THEN [DHs |-> 1, DHr |-> 2, RK |-> KDF_RK(<<"SK">>, out).RK,
               CKs |-> KDF_RK(<<"SK">>, out).CK, CKr |-> Uninitialised(p)]
         ELSE [DHs |-> 2, DHr |-> nullptr, RK |-> <<"SK">>,
               CKs |-> Uninitialised(p), CKr |-> Uninitialised(p)]]
  /\ net = [p \in Party |-> <<>>]
  /\ gone = [p \in Party |-> {}] /\ repeats = 0
  /\ sent = [p \in Party |-> 0]
  /\ plaintexts = [p \in Party |-> <<>>]
  /\ failed = {} /\ gaps = {} /\ astray = FALSE /\ used = {}

\* Mutant: the chain key stays as it is.
KeepsChain(p) == ratchet' = ratchet

\* on_sending_message.
Sends(p) == ratchet' = [ratchet EXCEPT ![p].CKs = NextCK(@)]

\* send_message and ENCRYPT. The apps let Alice send the first message.
send_message(p) ==
  /\ sent[p] < MaxSent /\ Len(net[p]) < MaxInFlight
  /\ p = "Bob" => ratchet[p].DHr # nullptr
  /\ \E ad \in key_to_uint8_t_array({ratchet[p].DHs}) :
       net' = [net EXCEPT ![p] =
         Append(@, [DH_pub_key |-> ratchet[p].DHs, text |-> sent[p] + 1,
                    tag |-> [key |-> MessageKey(ratchet[p].CKs), ad |-> ad]])]
  /\ Sends(p)
  /\ used' = used \cup {MessageKey(ratchet[p].CKs)}
  /\ sent' = [sent EXCEPT ![p] = @ + 1]
  /\ UNCHANGED <<keys, gone, repeats, plaintexts, failed, gaps, astray>>

\* on_receiving_message, up to its KDF_CK: what the ratchet of p can become on a
\* message with public key pk. It is kept whatever DECRYPT finds.
on_receiving_message(p, pk) ==
  IF NewHeader(ratchet[p], pk)
  THEN {DHRatchet(ratchet[p], pk, GENERATE_DH, out, newOut) :
          out \in DH(ratchet[p].DHs, pk), newOut \in DH(GENERATE_DH, pk)}
  ELSE {ratchet[p]}

\* The oldest message of p that is under way is so no longer.
TakeOldest(p) ==
  /\ net[p] # <<>>
  /\ net' = [net EXCEPT ![p] = Tail(@)]
  /\ gone' = [gone EXCEPT ![p] = @ \cup {Head(net[p])}]

\* receive_message and DECRYPT.
receive_message(p) ==
  /\ TakeOldest(Other(p))
  /\ LET m == Head(net[Other(p)])
     IN  \E s \in on_receiving_message(p, m.DH_pub_key),
            ad \in key_to_uint8_t_array({m.DH_pub_key}) :
           /\ ratchet' = [ratchet EXCEPT ![p] = [s EXCEPT !.CKr = NextCK(@)]]
           /\ keys' = IF NewHeader(ratchet[p], m.DH_pub_key) THEN GENERATE_DH ELSE keys
           /\ IF m.tag = [key |-> MessageKey(s.CKr), ad |-> ad]
              THEN plaintexts' = [plaintexts EXCEPT ![p] = Append(@, m.text)] /\ UNCHANGED failed
              ELSE failed' = failed \cup {m.tag.key.root} /\ UNCHANGED plaintexts
  /\ UNCHANGED <<repeats, sent, gaps, astray, used>>

\* The oldest message of p does not arrive.
Lose(p) ==
  /\ MayLose /\ TakeOldest(p)
  /\ gaps' = gaps \cup {Head(net[p]).tag.key.root}
  /\ UNCHANGED <<ratchet, keys, repeats, sent, plaintexts, failed, astray, used>>

\* Message m of p keeps the order of the chains, if it is the next to arrive: it is of the
\* chain that the receiver is in, or of the present one with no message of an earlier
\* chain still to come.
InOrder(p, m) ==
  \/ m.DH_pub_key = ratchet[Other(p)].DHr
  \/ /\ m.DH_pub_key = ratchet[p].DHs
     /\ \A k \in DOMAIN net[p] : net[p][k].DH_pub_key = ratchet[p].DHs

\* A message of p that has arrived comes once more, or one that was lost comes late:
\* it is the next to arrive.
ComeAgain(p) ==
  /\ repeats < MaxRepeats /\ Len(net[p]) < MaxInFlight
  /\ repeats' = repeats + 1
  /\ \E m \in gone[p] :
       /\ net' = [net EXCEPT ![p] = <<m>> \o @]
       /\ gaps' = gaps \cup {m.tag.key.root}
       /\ astray' = (astray \/ ~InOrder(p, m))
  /\ UNCHANGED <<ratchet, keys, gone, sent, plaintexts, failed, used>>

Next ==
  \E p \in Party : send_message(p) \/ receive_message(p) \/ Lose(p) \/ ComeAgain(p)

Spec == Init /\ [][Next]_vars
-----------------------------------------------------------------------------
(* Properties. *)

\* Types: key pairs that exist, message numbers, chains that have had messages.
TypeOK ==
  /\ keys \in Nat /\ repeats \in 0..MaxRepeats /\ astray \in BOOLEAN
  /\ sent \in [Party -> 0..MaxSent]
  /\ failed \cup gaps \subseteq {key.root : key \in used}
  /\ \A p \in Party :
       /\ ratchet[p].DHs \in 1..keys /\ ratchet[p].DHr \in 0..keys
       /\ ratchet[p].CKs.step \in Nat /\ ratchet[p].CKr.step \in Nat
       /\ Len(net[p]) <= MaxInFlight
       /\ \A k \in DOMAIN net[p] : net[p][k].text \in 1..sent[p]
       /\ plaintexts[p] \in Seq(1..MaxSent)

\* "check res is 1" for each message, the output that the README of the third
\* homework calls correct (lines 36-59). No authentication fails, also when messages
\* of the two parties cross on their way; and a message that is lost or comes twice
\* spoils at most the rest of its own sending chain, as the root keys stay in step.
\* (One that comes again after its chain has ended puts them out of step for good.)
EveryCheckSucceeds == ~astray => failed \subseteq gaps

\* The chains of the two parties belong together: if q has seen p's present public
\* key, all messages under way are of one chain, which is q's receiving chain and p's
\* sending chain, q's behind by these messages if none of the chain was lost or came
\* twice.  The state has its types.
ChainsMatch ==
  /\ TypeOK
  /\ ~astray => \A p \in Party :
       LET q == Other(p)
           chain == ratchet[p].CKs.root
       IN  ratchet[q].DHr = ratchet[p].DHs /\ sent[p] > 0 =>
             /\ ratchet[q].CKr.root = chain
             /\ \A k \in DOMAIN net[p] : net[p][k].tag.key.root = chain
             /\ chain \notin gaps => ratchet[q].CKr.step + Len(net[p]) = ratchet[p].CKs.step

\* No two messages are encrypted with the same key (GCM must not be used so).
NoKeyTwice ==
  [][\A p \in Party : sent'[p] # sent[p] => MessageKey(ratchet[p].CKs) \notin used]_vars

\* The chain keys that a party has, or gets from its root key and key pair.
Derivable(p) ==
  LET roots == {<<"CK", ratchet[p].RK, out>> :
                  out \in UNION {DH(ratchet[p].DHs, k) : k \in 1..keys}}
  IN  {ratchet[p].CKs, ratchet[p].CKr} \cup {[root |-> r, step |-> 0] : r \in roots}

\* Forward security (question 1 of the README): once a message has been received, no
\* key that a party still has leads to its message key, as chains only go forward.
\* Nothing that comes late or twice changes that. (In a chain with a lost message the
\* receiver stays behind, with older keys.)
ForwardSecurity ==
  LET underWay == UNION {{net[p][k].tag.key : k \in DOMAIN net[p]} : p \in Party}
  IN  \A key \in used \ underWay : key.root \notin gaps =>
        \A p \in Party : ~\E ck \in Derivable(p) : ck.root = key.root /\ ck.step <= key.step

\* The messenger is the channel it is meant to be, broken only by messages that are lost
\* or come once more; and even these are never read twice or in a wrong order.
Channel == INSTANCE SecureChannel WITH
  read <- plaintexts, broken <- gaps # {},
  queue <- [p \in Party |-> [k \in DOMAIN net[p] |-> net[p][k].text]]
ImplementsChannel == Channel!Spec
=============================================================================

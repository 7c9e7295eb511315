-------------------------- MODULE Messenger_proofs --------------------------
(***************************************************************************)
(* Proofs about Messenger, for any number of messages that are sent, are   *)
(* under way, get lost and come late or again, and about BreakIn, where    *)
(* the keys of a party become known at any time.                           *)
(***************************************************************************)
EXTENDS BreakIn, Division, SequenceTheorems, TLAPS

\* What a number of the right length becomes.
Bytes(number) == [number |-> number, beyond |-> 0]

\* The messages that p has sent.
Messages(p) == {net[p][k] : k \in DOMAIN net[p]} \cup gone[p]

Key(m) == m.tag.key
Chain(m) == m.tag.key.root

IsKey(ck) == ck = [root |-> ck.root, step |-> ck.step] /\ ck.step \in Nat
IsRatchet(s) ==
  /\ s = [DHs |-> s.DHs, DHr |-> s.DHr, RK |-> s.RK, CKs |-> s.CKs, CKr |-> s.CKr]
  /\ IsKey(s.CKs) /\ IsKey(s.CKr)
IsMessage(m) ==
  /\ IsKey(Key(m)) /\ m.text \in Nat
  /\ m.tag = [key |-> Key(m), ad |-> m.tag.ad]

\* The variables are functions, records and sequences of the right form.
Shape ==
  /\ keys \in Nat /\ keys >= 2
  /\ DOMAIN ratchet = Party /\ ratchet = [p \in Party |-> ratchet[p]]
  /\ net = [p \in Party |-> net[p]]
  /\ gone = [p \in Party |-> gone[p]]
  /\ sent \in [Party -> Nat]
  /\ plaintexts \in [Party -> Seq(Nat)]
  /\ \A p \in Party :
       /\ IsRatchet(ratchet[p])
       /\ net[p] \in Seq(Messages(p))
       /\ \A m \in Messages(p) : IsMessage(m)

IsChain(root) == root[1] = "CK"

\* A root key or the root of a chain was made from no key pairs but the first n.
Old(term, n) == term[1] \in {"RK", "CK"} => term[3].number \subseteq 1..n

\* The terms of a ratchet.
AgesOf(s) ==
  /\ s.DHs \in 1..keys /\ s.DHr \in 0..keys
  /\ s.DHr # nullptr => IsChain(s.CKs.root)
  /\ Old(s.RK, keys) /\ Old(s.CKs.root, keys) /\ Old(s.CKr.root, keys)
  /\ IsChain(s.CKs.root) => Old(s.CKs.root[2], keys)

\* Every term was made from key pairs that exist, and every message from used keys.
Ages ==
  /\ \A p \in Party :
       /\ AgesOf(ratchet[p]) /\ (p = "Alice" => ratchet[p].DHr # nullptr)
       /\ \A m \in Messages(p) :
            /\ m.DH_pub_key \in 1..keys /\ m.text \in 1..sent[p]
            /\ IsChain(Chain(m)) /\ Old(Chain(m), keys) /\ Old(Chain(m)[2], keys)
            /\ Key(m) \in used
  /\ \A key \in used : \E p \in Party : \E m \in Messages(p) : Key(m) = key
  /\ gaps \cup failed \subseteq {key.root : key \in used}

\* The sending chain of ratchet s belongs to one key pair of one party; who has s cannot
\* get its keys back from the root key or the receiving chain, nor can the other party,
\* with ratchet t, when it has seen the public key of that pair.
Owns(s, t) ==
  /\ s.DHs # t.DHs /\ s.CKs.root # t.CKs.root
  /\ IsChain(s.CKs.root) =>
       /\ s.CKs.root[2] # s.RK /\ s.CKs.root # s.CKr.root
       /\ s.CKs.root[2] = t.RK => s.DHs # t.DHr
  /\ IsChain(s.CKr.root) => s.CKr.root[2] # s.RK

\* The same of the chain of a message m that was sent.
OwnsMessage(s, t, m) ==
  /\ Chain(m) # t.CKs.root /\ m.DH_pub_key # t.DHs
  /\ m.DH_pub_key = s.DHs <=> Chain(m) = s.CKs.root
  /\ Chain(m) = s.CKs.root => Key(m).step < s.CKs.step
  /\ Chain(m)[2] # s.RK /\ Chain(m) # s.CKr.root
  /\ Chain(m)[2] = t.RK => m.DH_pub_key # t.DHr

Owners ==
  \A p \in Party :
    /\ Owns(ratchet[p], ratchet[Other(p)])
    /\ \A m \in Messages(p) : OwnsMessage(ratchet[p], ratchet[Other(p)], m)

\* The messages of the present chain of p have been sent one by one.
AllSent(p) ==
  IsChain(ratchet[p].CKs.root) =>
    \A step \in 0..ratchet[p].CKs.step - 1 :
      \E m \in Messages(p) : Key(m) = [root |-> ratchet[p].CKs.root, step |-> step]

\* A message m that has arrived, if nothing of its chain was lost or came again: the
\* receiver, with ratchet t, has left its key behind.
Arrived(t, m) ==
  Chain(m) \notin gaps =>
    /\ Chain(m)[2] # t.RK
    /\ Chain(m) = t.CKr.root => Key(m).step < t.CKr.step

\* Before message k of the queue of p come those of its chain, from this step on.
Before(p, k, from) ==
  \A step \in from..Key(net[p][k]).step - 1 :
    \E j \in 1..k - 1 : Key(net[p][j]) = [root |-> Chain(net[p][k]), step |-> step]

\* A message under way, if nothing of its chain was lost or came again: those before it
\* that have not arrived are before it in the queue.
InLine(p, k) ==
  LET t == ratchet[Other(p)]
      root == Chain(net[p][k])
  IN  root \notin gaps =>
        /\ root[2] = t.RK => Before(p, k, 0)
        /\ root = t.CKr.root => Before(p, k, t.CKr.step)

Progress ==
  \A p \in Party :
    /\ AllSent(p)
    /\ \A m \in gone[p] : Arrived(ratchet[Other(p)], m)
    /\ \A k \in 1..Len(net[p]) : InLine(p, k)

\* Message m is newer than all that q has read.
Newer(q, m) == \A k \in DOMAIN plaintexts[q] : plaintexts[q][k] < m.text

\* What the other party can still read of p is newer than what it has read.
ReadingOf(p) ==
  LET q == Other(p)
      t == ratchet[q]
  IN  /\ \A k \in DOMAIN plaintexts[q] : plaintexts[q][k] \in 1..sent[p]
      /\ t.CKr.root = ratchet[p].CKs.root => \A m \in Messages(p) : Chain(m)[2] # t.RK
      /\ \A m \in Messages(p) :
           /\ Chain(m)[2] = t.RK => Newer(q, m)
           /\ Chain(m) = t.CKr.root /\ Key(m).step >= t.CKr.step => Newer(q, m)
           /\ \A n \in Messages(p) :
                /\ Chain(m) = t.CKr.root /\ Chain(n)[2] = t.RK => m.text < n.text
                /\ Chain(m) = Chain(n) /\ Key(m).step < Key(n).step => m.text < n.text

Reading == \A p \in Party : ReadingOf(p)

\* What the messages of p authenticate is what the receiver computes.
AuthenticData == \A p \in Party : \A m \in Messages(p) : m.tag.ad = Bytes({m.DH_pub_key})

\* Party p has the newest key pair, or the other has not used its own yet: the other has
\* still to ratchet to p's chain, and will then have p's root key.
Leads(p) ==
  LET s == ratchet[p]
      t == ratchet[Other(p)]
      out == Bytes({t.DHs, s.DHs})
  IN  /\ s.DHr = t.DHs /\ t.DHr # s.DHs
      /\ s.RK = <<"RK", t.RK, out>> /\ s.CKs.root = <<"CK", t.RK, out>>
      /\ t.DHr # nullptr => s.CKr.root = t.CKs.root
      /\ t.DHr = nullptr =>
           /\ Messages(Other(p)) = {} /\ sent[Other(p)] = 0
           /\ s.CKr.step = 0 /\ t.CKs.step = 0

\* The first o messages of p under way are of the chain that the other party is in, the
\* others of a chain that it has still to enter, without gaps if nothing was lost.
Queue(p, o) ==
  LET s == ratchet[p]
      t == ratchet[Other(p)]
  IN  /\ s.DHs = t.DHr => o = Len(net[p])
      /\ \A k \in 1..o :
           /\ net[p][k].DH_pub_key = t.DHr
           /\ Chain(net[p][k]) \notin gaps => Key(net[p][k]).step = t.CKr.step + (k - 1)
      /\ \A k \in o + 1..Len(net[p]) :
           /\ net[p][k].DH_pub_key = s.DHs
           /\ Chain(net[p][k]) \notin gaps => Key(net[p][k]).step = k - o - 1
      /\ s.CKs.root \notin gaps =>
           s.CKs.step = IF s.DHs = t.DHr THEN t.CKr.step + Len(net[p]) ELSE Len(net[p]) - o

\* The chains of the two parties are in step.
InStep ==
  /\ failed \subseteq gaps
  /\ \E p \in Party : Leads(p)
  /\ \A p \in Party :
       /\ \A m \in Messages(p) :
            m.DH_pub_key = ratchet[Other(p)].DHr => Chain(m) = ratchet[Other(p)].CKr.root
       /\ \E o \in 0..Len(net[p]) : Queue(p, o)

IInv == Shape /\ Ages /\ Owners /\ Progress /\ Reading
SyncInv == AuthenticData /\ (~astray => InStep) /\ (astray => gaps # {})

-----------------------------------------------------------------------------
(* What the steps do to the parts of the state. *)

\* There are two parties.
LEMMA Others ==
  ASSUME NEW p \in Party
  PROVE  /\ Other(p) \in Party /\ Other(p) # p /\ Other(Other(p)) = p
         /\ \A r \in Party : r = p \/ r = Other(p)
BY DEF Party, Other

\* Message m comes to the end of the queue of p.
Added(p, m) ==
  /\ Len(net'[p]) = Len(net[p]) + 1
  /\ \A k \in 1..Len(net[p]) : net'[p][k] = net[p][k]
  /\ net'[p][Len(net[p]) + 1] = m
  /\ net'[Other(p)] = net[Other(p)] /\ gone' = gone
  /\ Messages(p)' = Messages(p) \cup {m} /\ Messages(Other(p))' = Messages(Other(p))

\* p has sent m.
Sent(p, m) ==
  /\ m.DH_pub_key = ratchet[p].DHs /\ m.text = sent[p] + 1
  /\ Key(m) = ratchet[p].CKs /\ IsMessage(m)
  /\ m.tag.ad \in key_to_uint8_t_array({ratchet[p].DHs})
  /\ Added(p, m)
  /\ ratchet'[Other(p)] = ratchet[Other(p)]
  /\ ratchet'[p].DHs = ratchet[p].DHs /\ ratchet'[p].DHr = ratchet[p].DHr
  /\ ratchet'[p].RK = ratchet[p].RK /\ ratchet'[p].CKr = ratchet[p].CKr
  /\ ratchet'[p].CKs.root = ratchet[p].CKs.root
  /\ ratchet'[p].CKs.step = ratchet[p].CKs.step + 1
  /\ used' = used \cup {Key(m)}
  /\ sent'[p] = sent[p] + 1 /\ sent'[Other(p)] = sent[Other(p)]
  /\ p = "Bob" => ratchet[p].DHr # nullptr
  /\ UNCHANGED <<keys, gone, repeats, plaintexts, failed, gaps, astray>>

\* What send_message does.
LEMMA SendEffect ==
  ASSUME Shape, NEW p \in Party, send_message(p)
  PROVE  Shape' /\ \E m : Sent(p, m)
<1>1. PICK ad \in key_to_uint8_t_array({ratchet[p].DHs}) :
        net' = [net EXCEPT ![p] =
          Append(@, [DH_pub_key |-> ratchet[p].DHs, text |-> sent[p] + 1,
                     tag |-> [key |-> MessageKey(ratchet[p].CKs), ad |-> ad]])]
  BY DEF send_message
<1> DEFINE m == [DH_pub_key |-> ratchet[p].DHs, text |-> sent[p] + 1,
                 tag |-> [key |-> MessageKey(ratchet[p].CKs), ad |-> ad]]
           q == Other(p)
<1>2. q \in Party /\ q # p /\ \A r \in Party : r = p \/ r = q
  BY Others
<1>3. /\ m.DH_pub_key = ratchet[p].DHs /\ m.text = sent[p] + 1
      /\ Key(m) = ratchet[p].CKs /\ IsMessage(m) /\ m.tag.ad = ad
  BY DEF Key, IsMessage, MessageKey, Shape, IsRatchet
<1>4. net'[p] = Append(net[p], m) /\ net'[q] = net[q] /\ net' = [r \in Party |-> net'[r]]
  BY <1>1, <1>2 DEF Shape
<1>5. gone' = gone
  BY DEF send_message
<1> HIDE DEF m
<1>6. net[p] \in Seq(Messages(p) \cup {m}) /\ net[p] \in Seq(Messages(p))
  BY SeqMonotonic DEF Shape
<1>7. /\ net'[p] \in Seq(Messages(p) \cup {m})
      /\ Len(net'[p]) = Len(net[p]) + 1
      /\ \A k \in 1..Len(net[p]) : net'[p][k] = net[p][k]
      /\ net'[p][Len(net[p]) + 1] = m
  BY <1>4, <1>6, AppendProperties
<1>8. Messages(p)' = Messages(p) \cup {m} /\ Messages(q)' = Messages(q)
  BY <1>4, <1>5, <1>6, <1>7 DEF Messages
<1>9. Added(p, m)
  BY <1>4, <1>5, <1>7, <1>8 DEF Added, q
<1>10. /\ ratchet' = [ratchet EXCEPT ![p].CKs = NextCK(@)]
       /\ ratchet = [r \in Party |-> ratchet[r]] /\ IsRatchet(ratchet[p])
  BY DEF send_message, Sends, Shape
<1>11. /\ ratchet' = [r \in Party |-> ratchet'[r]] /\ ratchet'[q] = ratchet[q]
       /\ ratchet'[p] = [ratchet[p] EXCEPT !.CKs = NextCK(@)]
  BY <1>10, <1>2
<1>12. /\ ratchet'[p].DHs = ratchet[p].DHs /\ ratchet'[p].DHr = ratchet[p].DHr
       /\ ratchet'[p].RK = ratchet[p].RK /\ ratchet'[p].CKr = ratchet[p].CKr
       /\ ratchet'[p].CKs.root = ratchet[p].CKs.root
       /\ ratchet'[p].CKs.step = ratchet[p].CKs.step + 1
       /\ IsRatchet(ratchet'[p])
  BY <1>10, <1>11 DEF NextCK, IsRatchet, IsKey
<1>13. /\ used' = used \cup {Key(m)}
       /\ sent'[p] = sent[p] + 1 /\ sent'[q] = sent[q] /\ sent' \in [Party -> Nat]
       /\ p = "Bob" => ratchet[p].DHr # nullptr
       /\ UNCHANGED <<keys, gone, repeats, plaintexts, failed, gaps, astray>>
  BY <1>2, <1>3 DEF send_message, Shape, MessageKey
<1>14. Sent(p, m)
  BY <1>3, <1>9, <1>11, <1>12, <1>13 DEF Sent, q
<1>15. \A r \in Party : /\ IsRatchet(ratchet'[r])
                       /\ net'[r] \in Seq(Messages(r)')
                       /\ \A x \in Messages(r)' : IsMessage(x)
  <2> SUFFICES ASSUME NEW r \in Party
               PROVE  /\ IsRatchet(ratchet'[r])
                      /\ net'[r] \in Seq(Messages(r)')
                      /\ \A x \in Messages(r)' : IsMessage(x)
    OBVIOUS
  <2>1. CASE r = p
    BY <2>1, <1>3, <1>7, <1>8, <1>12 DEF Shape
  <2>2. CASE r = q
    BY <2>2, <1>2, <1>4, <1>8, <1>11 DEF Shape
  <2>. QED
    BY <2>1, <2>2, <1>2
<1>. QED
  BY <1>4, <1>5, <1>11, <1>13, <1>14, <1>15 DEF Shape

\* The oldest message m of p has come to the other end, or got lost.
Took(p, m) ==
  /\ Len(net[p]) >= 1 /\ m = net[p][1] /\ m \in Messages(p)
  /\ Len(net'[p]) = Len(net[p]) - 1
  /\ \A k \in 1..Len(net[p]) - 1 : net'[p][k] = net[p][k + 1]
  /\ net'[Other(p)] = net[Other(p)]
  /\ gone'[p] = gone[p] \cup {m} /\ gone'[Other(p)] = gone[Other(p)]
  /\ Messages(p)' = Messages(p) /\ Messages(Other(p))' = Messages(Other(p))

\* What TakeOldest does.
LEMMA TakeEffect ==
  ASSUME Shape, NEW p \in Party, TakeOldest(p)
  PROVE  /\ Took(p, Head(net[p]))
         /\ net' = [r \in Party |-> net'[r]] /\ gone' = [r \in Party |-> gone'[r]]
         /\ \A r \in Party : net'[r] \in Seq(Messages(r)')
<1> DEFINE q == Other(p)
           m == Head(net[p])
<1>1. q \in Party /\ q # p /\ \A r \in Party : r = p \/ r = q
  BY Others
<1>2. net[p] \in Seq(Messages(p)) /\ net[p] # <<>> /\ net[q] \in Seq(Messages(q))
  BY <1>1 DEF Shape, TakeOldest
<1>3. /\ net'[p] = Tail(net[p]) /\ net'[q] = net[q] /\ net' = [r \in Party |-> net'[r]]
      /\ gone'[p] = gone[p] \cup {m} /\ gone'[q] = gone[q] /\ gone' = [r \in Party |-> gone'[r]]
  BY <1>1 DEF Shape, TakeOldest
<1>4. /\ m = net[p][1] /\ Len(net[p]) >= 1 /\ Len(net[p]) \in Nat /\ DOMAIN net[p] = 1..Len(net[p])
  BY <1>2
<1>5. /\ Tail(net[p]) \in Seq(Messages(p)) /\ Len(Tail(net[p])) = Len(net[p]) - 1
      /\ \A k \in 1..Len(Tail(net[p])) : Tail(net[p])[k] = net[p][k + 1]
      /\ DOMAIN Tail(net[p]) = 1..Len(Tail(net[p]))
  BY <1>2, HeadTailProperties
<1> HIDE DEF m
<1>6. Messages(p)' = Messages(p)
  <2>1. ASSUME NEW x \in Messages(p) PROVE x \in Messages(p)'
    <3>1. CASE x \in gone[p]
      BY <3>1, <1>3 DEF Messages
    <3>2. CASE \E k \in 1..Len(net[p]) : x = net[p][k]
      <4>1. PICK k \in 1..Len(net[p]) : x = net[p][k]
        BY <3>2
      <4>2. CASE k = 1
        BY <4>1, <4>2, <1>3, <1>4 DEF Messages
      <4>3. CASE k # 1
        <5>1. k - 1 \in 1..Len(Tail(net[p])) /\ x = Tail(net[p])[k - 1]
          BY <4>1, <4>3, <1>4, <1>5
        <5>. QED
          BY <5>1, <1>3, <1>5 DEF Messages
      <4>. QED
        BY <4>2, <4>3
    <3>. QED
      BY <3>1, <3>2, <1>4 DEF Messages
  <2>2. ASSUME NEW x \in Messages(p)' PROVE x \in Messages(p)
    <3>1. CASE x \in gone'[p]
      BY <3>1, <1>3, <1>4 DEF Messages
    <3>2. CASE \E k \in DOMAIN net'[p] : x = net'[p][k]
      BY <3>2, <1>3, <1>4, <1>5 DEF Messages
    <3>. QED
      BY <3>1, <3>2 DEF Messages
  <2>. QED
    BY <2>1, <2>2
<1>7. Messages(q)' = Messages(q)
  BY <1>3 DEF Messages
<1>8. m \in Messages(p)
  BY <1>4 DEF Messages
<1>9. Took(p, m)
  BY <1>3, <1>4, <1>5, <1>6, <1>7, <1>8 DEF Took, q
<1>10. \A r \in Party : net'[r] \in Seq(Messages(r)')
  BY <1>1, <1>2, <1>3, <1>5, <1>6, <1>7
<1>. QED
  BY <1>3, <1>9, <1>10 DEF m

\* p goes on in its receiving chain for m.
Stays(p, m) ==
  /\ m.DH_pub_key = ratchet[p].DHr /\ ratchet[p].DHr # nullptr
  /\ ratchet'[p].DHs = ratchet[p].DHs /\ ratchet'[p].DHr = ratchet[p].DHr
  /\ ratchet'[p].RK = ratchet[p].RK /\ ratchet'[p].CKs = ratchet[p].CKs
  /\ ratchet'[p].CKr.root = ratchet[p].CKr.root
  /\ ratchet'[p].CKr.step = ratchet[p].CKr.step + 1
  /\ keys' = keys

\* p ratchets for m.
Enters(p, m, out, newOut) ==
  /\ m.DH_pub_key # ratchet[p].DHr \/ ratchet[p].DHr = nullptr
  /\ out \in DH(ratchet[p].DHs, m.DH_pub_key) /\ newOut \in DH(keys + 1, m.DH_pub_key)
  /\ ratchet'[p].DHs = keys + 1 /\ ratchet'[p].DHr = m.DH_pub_key
  /\ ratchet'[p].RK = <<"RK", <<"RK", ratchet[p].RK, out>>, newOut>>
  /\ ratchet'[p].CKs = [root |-> <<"CK", <<"RK", ratchet[p].RK, out>>, newOut>>, step |-> 0]
  /\ ratchet'[p].CKr = [root |-> <<"CK", ratchet[p].RK, out>>, step |-> 1]
  /\ keys' = keys + 1

\* p reads m.
Reads(p, m) ==
  /\ Key(m).root = ratchet'[p].CKr.root /\ Key(m).step = ratchet'[p].CKr.step - 1
  /\ plaintexts'[p] = Append(plaintexts[p], m.text)
  /\ plaintexts'[Other(p)] = plaintexts[Other(p)] /\ failed' = failed

\* p cannot read m.
Fails(p, m) ==
  /\ \/ Key(m).root # ratchet'[p].CKr.root \/ Key(m).step # ratchet'[p].CKr.step - 1
     \/ \E ad \in key_to_uint8_t_array({m.DH_pub_key}) : m.tag.ad # ad
  /\ failed' = failed \cup {Chain(m)} /\ plaintexts' = plaintexts

\* p has received m.
Received(p, m) ==
  /\ Took(Other(p), m) /\ ratchet'[Other(p)] = ratchet[Other(p)]
  /\ Stays(p, m) \/ \E out, newOut : Enters(p, m, out, newOut)
  /\ Reads(p, m) \/ Fails(p, m)
  /\ UNCHANGED <<repeats, sent, gaps, astray, used>>

\* A new ratchet whose receiving chain moves on.
LEMMA Advanced ==
  ASSUME NEW s, NEW DHs, NEW DHr, NEW RK, NEW CKs, NEW root,
         s = [DHs |-> DHs, DHr |-> DHr, RK |-> RK, CKs |-> CKs,
              CKr |-> [root |-> root, step |-> 0]]
  PROVE  [s EXCEPT !.CKr = NextCK(@)] =
           [DHs |-> DHs, DHr |-> DHr, RK |-> RK, CKs |-> CKs,
            CKr |-> [root |-> root, step |-> 1]]
<1>1. NextCK(s.CKr) = [root |-> root, step |-> 1]
  BY DEF NextCK
<1> DEFINE ck == NextCK(s.CKr)
<1> HIDE DEF ck
<1>2. [s EXCEPT !.CKr = ck] = [DHs |-> DHs, DHr |-> DHr, RK |-> RK, CKs |-> CKs, CKr |-> ck]
  OBVIOUS
<1>. QED
  BY <1>1, <1>2 DEF ck

\* What receive_message does.
LEMMA ReceiveEffect ==
  ASSUME Shape, NEW p \in Party, receive_message(p)
  PROVE  Shape' /\ Received(p, Head(net[Other(p)]))
<1> DEFINE q == Other(p)
           m == Head(net[q])
<1>1. q \in Party /\ q # p /\ Other(q) = p /\ \A r \in Party : r = p \/ r = q
  BY Others
<1>2. TakeOldest(q)
  BY DEF receive_message
<1>3. PICK s \in on_receiving_message(p, m.DH_pub_key),
           ad \in key_to_uint8_t_array({m.DH_pub_key}) :
        /\ ratchet' = [ratchet EXCEPT ![p] = [s EXCEPT !.CKr = NextCK(@)]]
        /\ keys' = IF NewHeader(ratchet[p], m.DH_pub_key) THEN GENERATE_DH ELSE keys
        /\ IF m.tag = [key |-> MessageKey(s.CKr), ad |-> ad]
           THEN plaintexts' = [plaintexts EXCEPT ![p] = Append(@, m.text)] /\ UNCHANGED failed
           ELSE failed' = failed \cup {m.tag.key.root} /\ UNCHANGED plaintexts
  BY DEF receive_message
<1>4. /\ Took(q, m)
      /\ net' = [r \in Party |-> net'[r]] /\ gone' = [r \in Party |-> gone'[r]]
      /\ \A r \in Party : net'[r] \in Seq(Messages(r)')
  BY <1>1, <1>2, TakeEffect
<1>5. UNCHANGED <<repeats, sent, gaps, astray, used>>
  BY DEF receive_message
<1> HIDE DEF m
<1>6. IsMessage(m)
  BY <1>1, <1>4 DEF Took, Shape
<1>7. /\ ratchet'[q] = ratchet[q] /\ ratchet' = [r \in Party |-> ratchet'[r]]
      /\ DOMAIN ratchet' = Party
      /\ ratchet'[p] = [s EXCEPT !.CKr = NextCK(@)]
  BY <1>1, <1>3 DEF Shape
<1>8. /\ IsRatchet(ratchet'[p]) /\ IsKey(s.CKr)
      /\ s.CKr.root = ratchet'[p].CKr.root /\ s.CKr.step = ratchet'[p].CKr.step - 1
      /\ Stays(p, m) \/ \E out, newOut : Enters(p, m, out, newOut)
      /\ keys' \in Nat /\ keys' >= 2
  <2>1. CASE ~NewHeader(ratchet[p], m.DH_pub_key)
    <3>1. s = ratchet[p] /\ IsRatchet(s)
      BY <2>1, <1>3 DEF on_receiving_message, Shape
    <3>2. /\ ratchet'[p].DHs = s.DHs /\ ratchet'[p].DHr = s.DHr
          /\ ratchet'[p].RK = s.RK /\ ratchet'[p].CKs = s.CKs
          /\ ratchet'[p].CKr.root = s.CKr.root /\ ratchet'[p].CKr.step = s.CKr.step + 1
          /\ IsRatchet(ratchet'[p])
      BY <1>7, <3>1 DEF NextCK, IsRatchet, IsKey
    <3>3. Stays(p, m)
      BY <3>1, <3>2, <2>1, <1>3 DEF Stays, NewHeader
    <3>. QED
      BY <3>1, <3>2, <3>3, <2>1, <1>3 DEF IsRatchet, IsKey, Shape
  <2>2. CASE NewHeader(ratchet[p], m.DH_pub_key)
    <3>1. PICK out \in DH(ratchet[p].DHs, m.DH_pub_key), newOut \in DH(GENERATE_DH, m.DH_pub_key) :
            s = DHRatchet(ratchet[p], m.DH_pub_key, GENERATE_DH, out, newOut)
      BY <2>2, <1>3 DEF on_receiving_message
    <3>2. /\ s = [DHs |-> keys + 1, DHr |-> m.DH_pub_key,
                  RK |-> <<"RK", <<"RK", ratchet[p].RK, out>>, newOut>>,
                  CKs |-> [root |-> <<"CK", <<"RK", ratchet[p].RK, out>>, newOut>>, step |-> 0],
                  CKr |-> [root |-> <<"CK", ratchet[p].RK, out>>, step |-> 0]]
      BY <3>1 DEF DHRatchet, KDF_RK, GENERATE_DH
    <3>3. /\ ratchet'[p] = [DHs |-> keys + 1, DHr |-> m.DH_pub_key,
                  RK |-> <<"RK", <<"RK", ratchet[p].RK, out>>, newOut>>,
                  CKs |-> [root |-> <<"CK", <<"RK", ratchet[p].RK, out>>, newOut>>, step |-> 0],
                  CKr |-> [root |-> <<"CK", ratchet[p].RK, out>>, step |-> 1]]
      <4> DEFINE rk == <<"RK", <<"RK", ratchet[p].RK, out>>, newOut>>
                 sending == [root |-> <<"CK", <<"RK", ratchet[p].RK, out>>, newOut>>, step |-> 0]
                 root == <<"CK", ratchet[p].RK, out>>
      <4> HIDE DEF rk, sending, root
      <4>1. s = [DHs |-> keys + 1, DHr |-> m.DH_pub_key, RK |-> rk, CKs |-> sending,
                 CKr |-> [root |-> root, step |-> 0]]
        BY <3>2 DEF rk, sending, root
      <4>2. [s EXCEPT !.CKr = NextCK(@)] =
              [DHs |-> keys + 1, DHr |-> m.DH_pub_key, RK |-> rk, CKs |-> sending,
               CKr |-> [root |-> root, step |-> 1]]
        BY <4>1, Advanced
      <4>. QED
        BY <1>7, <4>2 DEF rk, sending, root
    <3>4. Enters(p, m, out, newOut)
      BY <3>1, <3>3, <2>2, <1>3 DEF Enters, NewHeader, GENERATE_DH
    <3>5. IsRatchet(ratchet'[p])
      BY <3>3 DEF IsRatchet, IsKey
    <3>6. /\ s.CKr = [root |-> <<"CK", ratchet[p].RK, out>>, step |-> 0]
          /\ ratchet'[p].CKr = [root |-> <<"CK", ratchet[p].RK, out>>, step |-> 1]
      BY <3>2, <3>3
    <3>7. IsKey(s.CKr) /\ s.CKr.root = ratchet'[p].CKr.root /\ s.CKr.step = ratchet'[p].CKr.step - 1
      BY <3>6 DEF IsKey
    <3>8. keys' \in Nat /\ keys' >= 2
      BY <3>4 DEF Enters, Shape
    <3>. QED
      BY <3>4, <3>5, <3>7, <3>8
  <2>. QED
    BY <2>1, <2>2
<1>9. Reads(p, m) \/ Fails(p, m)
  <2>1. CASE m.tag = [key |-> MessageKey(s.CKr), ad |-> ad]
    <3>1. Key(m) = s.CKr
      BY <2>1 DEF Key, MessageKey
    <3>. QED
      BY <3>1, <2>1, <1>1, <1>3, <1>8 DEF Reads, Shape
  <2>2. CASE m.tag # [key |-> MessageKey(s.CKr), ad |-> ad]
    <3>1. Key(m) # s.CKr \/ m.tag.ad # ad
      BY <2>2, <1>6 DEF IsMessage, MessageKey
    <3>2. Key(m) # s.CKr => Key(m).root # s.CKr.root \/ Key(m).step # s.CKr.step
      BY <1>6, <1>8 DEF IsMessage, IsKey
    <3>. QED
      BY <3>1, <3>2, <2>2, <1>3, <1>8 DEF Fails, Chain
  <2>. QED
    BY <2>1, <2>2
<1>10. plaintexts' \in [Party -> Seq(Nat)]
  <2>1. plaintexts \in [Party -> Seq(Nat)] /\ m.text \in Nat
    BY <1>6 DEF Shape, IsMessage
  <2>2. plaintexts' = [plaintexts EXCEPT ![p] = Append(@, m.text)] \/ plaintexts' = plaintexts
    BY <1>3
  <2>3. Append(plaintexts[p], m.text) \in Seq(Nat)
    BY <2>1
  <2>. QED
    BY <2>1, <2>2, <2>3
<1>11. \A r \in Party : IsRatchet(ratchet'[r]) /\ \A x \in Messages(r)' : IsMessage(x)
  <2>1. \A r \in Party : Messages(r)' = Messages(r)
    BY <1>1, <1>4 DEF Took
  <2>2. IsRatchet(ratchet'[q])
    BY <1>1, <1>7 DEF Shape
  <2>. QED
    BY <2>1, <2>2, <1>1, <1>8 DEF Shape
<1>12. Shape'
  BY <1>4, <1>5, <1>7, <1>8, <1>10, <1>11 DEF Shape
<1>. QED
  BY <1>4, <1>5, <1>7, <1>8, <1>9, <1>12 DEF Received, m

\* Message m of p has got lost.
Lost(p, m) ==
  /\ Took(p, m) /\ gaps' = gaps \cup {Chain(m)}
  /\ UNCHANGED <<ratchet, keys, repeats, sent, plaintexts, failed, astray, used>>

\* What Lose does.
LEMMA LoseEffect ==
  ASSUME Shape, NEW p \in Party, Lose(p)
  PROVE  Shape' /\ Lost(p, Head(net[p]))
<1>1. TakeOldest(p)
  BY DEF Lose
<1>2. /\ Took(p, Head(net[p]))
      /\ net' = [r \in Party |-> net'[r]] /\ gone' = [r \in Party |-> gone'[r]]
      /\ \A r \in Party : net'[r] \in Seq(Messages(r)')
  BY <1>1, TakeEffect
<1>3. Lost(p, Head(net[p]))
  BY <1>2 DEF Lost, Lose, Chain
<1>4. \A r \in Party : Messages(r)' = Messages(r)
  BY <1>2, Others DEF Took
<1>. QED
  BY <1>2, <1>3, <1>4 DEF Shape, Lost

\* Message m of p comes once more.
Again(p, m) ==
  /\ m \in gone[p] /\ m \in Messages(p)
  /\ Len(net'[p]) = Len(net[p]) + 1 /\ net'[p][1] = m
  /\ \A k \in 1..Len(net[p]) : net'[p][k + 1] = net[p][k]
  /\ \A k \in 2..Len(net[p]) + 1 : net'[p][k] = net[p][k - 1]
  /\ net'[Other(p)] = net[Other(p)]
  /\ Messages(p)' = Messages(p) /\ Messages(Other(p))' = Messages(Other(p))
  /\ gaps' = gaps \cup {Chain(m)} /\ astray' = (astray \/ ~InOrder(p, m))
  /\ repeats' = repeats + 1 /\ repeats < MaxRepeats /\ Len(net[p]) < MaxInFlight
  /\ UNCHANGED <<ratchet, keys, gone, sent, plaintexts, failed, used>>

\* What ComeAgain does.
LEMMA AgainEffect ==
  ASSUME Shape, NEW p \in Party, ComeAgain(p)
  PROVE  Shape' /\ \E m : Again(p, m)
<1> DEFINE q == Other(p)
<1>1. q \in Party /\ q # p /\ \A r \in Party : r = p \/ r = q
  BY Others
<1>2. PICK m \in gone[p] :
        /\ net' = [net EXCEPT ![p] = <<m>> \o @]
        /\ gaps' = gaps \cup {m.tag.key.root}
        /\ astray' = (astray \/ ~InOrder(p, m))
  BY DEF ComeAgain
<1>3. /\ m \in Messages(p) /\ net[p] \in Seq(Messages(p)) /\ net[q] \in Seq(Messages(q))
      /\ gone' = gone
  BY <1>1 DEF Messages, Shape, ComeAgain
<1>4. <<m>> \in Seq(Messages(p)) /\ Len(<<m>>) = 1 /\ <<m>>[1] = m
  BY <1>3
<1>5. /\ net'[p] = <<m>> \o net[p] /\ net'[q] = net[q] /\ net' = [r \in Party |-> net'[r]]
  BY <1>1, <1>2 DEF Shape
<1>6. /\ net'[p] \in Seq(Messages(p)) /\ Len(net'[p]) = Len(net[p]) + 1
      /\ \A i \in 1..Len(net[p]) + 1 :
           net'[p][i] = IF i <= 1 THEN <<m>>[i] ELSE net[p][i - 1]
  BY <1>3, <1>4, <1>5, ConcatProperties
<1>7. /\ Len(net[p]) \in Nat /\ DOMAIN net[p] = 1..Len(net[p])
      /\ DOMAIN net'[p] = 1..Len(net[p]) + 1
  BY <1>3, <1>6
<1>8. /\ net'[p][1] = m
      /\ \A k \in 1..Len(net[p]) : net'[p][k + 1] = net[p][k]
      /\ \A k \in 2..Len(net[p]) + 1 : net'[p][k] = net[p][k - 1]
  BY <1>4, <1>6, <1>7
<1>9. Messages(p)' = Messages(p)
  <2>1. ASSUME NEW x \in Messages(p) PROVE x \in Messages(p)'
    <3>1. CASE x \in gone[p]
      BY <3>1, <1>3 DEF Messages
    <3>2. ASSUME NEW k \in 1..Len(net[p]), x = net[p][k] PROVE x \in Messages(p)'
      <4>1. k + 1 \in 1..Len(net[p]) + 1 /\ x = net'[p][k + 1]
        BY <3>2, <1>7, <1>8
      <4>. QED
        BY <4>1, <1>7 DEF Messages
    <3>. QED
      BY <3>1, <3>2, <1>7 DEF Messages
  <2>2. ASSUME NEW x \in Messages(p)' PROVE x \in Messages(p)
    BY <1>3, <1>6, <1>7, SMTT(30) DEF Messages
  <2>. QED
    BY <2>1, <2>2
<1>10. Messages(q)' = Messages(q)
  BY <1>3, <1>5 DEF Messages
<1>11. Again(p, m)
  BY <1>2, <1>3, <1>5, <1>6, <1>8, <1>9, <1>10 DEF Again, ComeAgain, Chain, q
<1>12. \A r \in Party : Messages(r)' = Messages(r) /\ net'[r] \in Seq(Messages(r)')
  BY <1>1, <1>3, <1>5, <1>6, <1>9, <1>10
<1>. QED
  BY <1>3, <1>5, <1>11, <1>12 DEF Shape, Again

-----------------------------------------------------------------------------
(* Ages. *)

\* The shared number that bytes come from.
LEMMA NumberOfBytes ==
  ASSUME NEW number, NEW out \in key_to_uint8_t_array(number)
  PROVE  out.number = number
BY DEF key_to_uint8_t_array

\* What is old stays old.
LEMMA StillOld ==
  ASSUME NEW term, NEW n \in Nat, Old(term, n)
  PROVE  Old(term, n + 1)
BY DEF Old

\* The terms that a ratchet makes, and their ages.
LEMMA NewTerms ==
  ASSUME NEW p \in Party, NEW m, NEW out, NEW newOut, Enters(p, m, out, newOut),
         keys \in Nat, ratchet[p].DHs \in 1..keys, m.DH_pub_key \in 1..keys
  PROVE  LET receiving == <<"RK", ratchet[p].RK, out>>
             s == ratchet'[p]
         IN  /\ s.RK = <<"RK", receiving, newOut>>
             /\ s.CKs = [root |-> <<"CK", receiving, newOut>>, step |-> 0]
             /\ s.CKr = [root |-> <<"CK", ratchet[p].RK, out>>, step |-> 1]
             /\ Old(receiving, keys) /\ Old(s.CKr.root, keys) /\ s.CKr.root[2] = ratchet[p].RK
             /\ Old(s.RK, keys + 1) /\ Old(s.CKs.root, keys + 1) /\ s.CKs.root[2] = receiving
             /\ IsChain(s.CKs.root) /\ IsChain(s.CKr.root)
             /\ ~Old(s.RK, keys) /\ ~Old(s.CKs.root, keys)
             /\ s.RK # receiving
<1> DEFINE receiving == <<"RK", ratchet[p].RK, out>>
<1>1. out.number = {ratchet[p].DHs, m.DH_pub_key} /\ newOut.number = {keys + 1, m.DH_pub_key}
  BY NumberOfBytes DEF Enters, DH, diffie_hellman
<1>2. /\ ratchet'[p].RK = <<"RK", receiving, newOut>>
      /\ ratchet'[p].CKs = [root |-> <<"CK", receiving, newOut>>, step |-> 0]
      /\ ratchet'[p].CKr = [root |-> <<"CK", ratchet[p].RK, out>>, step |-> 1]
  BY DEF Enters
<1>3. out.number \subseteq 1..keys /\ newOut.number \subseteq 1..keys + 1
      /\ ~(newOut.number \subseteq 1..keys)
  BY <1>1
<1>4. \A x, y : Old(<<"RK", x, y>>, keys) <=> y.number \subseteq 1..keys
  BY DEF Old
<1>5. \A x, y : Old(<<"CK", x, y>>, keys) <=> y.number \subseteq 1..keys
  BY DEF Old
<1>6. \A x, y : /\ Old(<<"RK", x, y>>, keys + 1) <=> y.number \subseteq 1..keys + 1
               /\ Old(<<"CK", x, y>>, keys + 1) <=> y.number \subseteq 1..keys + 1
  BY DEF Old
<1>7. \A x, y : IsChain(<<"CK", x, y>>) /\ <<"CK", x, y>>[2] = x
  BY DEF IsChain
<1>8. /\ ratchet'[p].CKs.root = <<"CK", receiving, newOut>>
      /\ ratchet'[p].CKr.root = <<"CK", ratchet[p].RK, out>>
  BY <1>2
<1>9. /\ Old(receiving, keys) /\ Old(ratchet'[p].CKr.root, keys)
      /\ ratchet'[p].CKr.root[2] = ratchet[p].RK
      /\ Old(ratchet'[p].RK, keys + 1) /\ Old(ratchet'[p].CKs.root, keys + 1)
      /\ ratchet'[p].CKs.root[2] = receiving
      /\ IsChain(ratchet'[p].CKs.root) /\ IsChain(ratchet'[p].CKr.root)
      /\ ~Old(ratchet'[p].RK, keys) /\ ~Old(ratchet'[p].CKs.root, keys)
  BY <1>2, <1>3, <1>4, <1>5, <1>6, <1>7, <1>8
<1>10. ratchet'[p].RK # receiving
  BY <1>9
<1>. QED
  BY <1>2, <1>9, <1>10

\* Initially.
LEMMA InitIInv == Init => IInv
<1> SUFFICES ASSUME Init PROVE IInv
  OBVIOUS
<1>1. PICK out \in DH(1, 2) :
        /\ ratchet = [p \in Party |->
             IF p = "Alice"
             THEN [DHs |-> 1, DHr |-> 2, RK |-> KDF_RK(<<"SK">>, out).RK,
                   CKs |-> KDF_RK(<<"SK">>, out).CK, CKr |-> Uninitialised(p)]
             ELSE [DHs |-> 2, DHr |-> nullptr, RK |-> <<"SK">>,
                   CKs |-> Uninitialised(p), CKr |-> Uninitialised(p)]]
  BY DEF Init
<1>2. out.number = {1, 2}
  BY NumberOfBytes DEF DH, diffie_hellman
<1>3. /\ ratchet["Alice"] = [DHs |-> 1, DHr |-> 2, RK |-> <<"RK", <<"SK">>, out>>,
           CKs |-> [root |-> <<"CK", <<"SK">>, out>>, step |-> 0],
           CKr |-> [root |-> <<"memory", "Alice">>, step |-> 0]]
      /\ ratchet["Bob"] = [DHs |-> 2, DHr |-> nullptr, RK |-> <<"SK">>,
           CKs |-> [root |-> <<"memory", "Bob">>, step |-> 0],
           CKr |-> [root |-> <<"memory", "Bob">>, step |-> 0]]
      /\ DOMAIN ratchet = Party /\ ratchet = [p \in Party |-> ratchet[p]]
  BY <1>1 DEF Party, KDF_RK, Uninitialised
<1>4. /\ keys = 2 /\ net = [p \in Party |-> <<>>] /\ gone = [p \in Party |-> {}]
      /\ sent = [p \in Party |-> 0] /\ plaintexts = [p \in Party |-> <<>>]
      /\ failed = {} /\ gaps = {} /\ used = {} /\ ~astray
  BY DEF Init
<1>5. \A p \in Party : Messages(p) = {} /\ net[p] = <<>>
  BY <1>4 DEF Messages
<1>6. Party = {"Alice", "Bob"} /\ Other("Alice") = "Bob" /\ Other("Bob") = "Alice"
  BY DEF Party, Other
<1>7. Shape
  BY <1>3, <1>4, <1>5, <1>6 DEF Shape, IsRatchet, IsKey
<1>8. Ages
  <2>1. Old(<<"SK">>, 2) /\ Old(<<"memory", "Alice">>, 2) /\ Old(<<"memory", "Bob">>, 2)
    BY DEF Old
  <2>2. Old(<<"RK", <<"SK">>, out>>, 2) /\ Old(<<"CK", <<"SK">>, out>>, 2)
    BY <1>2 DEF Old
  <2>3. IsChain(<<"CK", <<"SK">>, out>>) /\ <<"CK", <<"SK">>, out>>[2] = <<"SK">>
    BY DEF IsChain
  <2>4. ~IsChain(<<"memory", "Bob">>)
    BY DEF IsChain
  <2>. QED
    BY <2>1, <2>2, <2>3, <2>4, <1>3, <1>4, <1>5, <1>6 DEF Ages, AgesOf, nullptr
<1>9. Owners
  <2>1. <<"CK", <<"SK">>, out>>[2] = <<"SK">> /\ <<"SK">> # <<"RK", <<"SK">>, out>>
    OBVIOUS
  <2>2. ~IsChain(<<"memory", "Bob">>) /\ ~IsChain(<<"memory", "Alice">>)
    BY DEF IsChain
  <2>3. /\ <<"CK", <<"SK">>, out>> # <<"memory", "Alice">>
        /\ <<"CK", <<"SK">>, out>> # <<"memory", "Bob">>
    OBVIOUS
  <2>. QED
    BY <2>1, <2>2, <2>3, <1>3, <1>5, <1>6 DEF Owners, Owns, OwnsMessage, nullptr
<1>10. Progress
  <2>1. ~IsChain(<<"memory", "Bob">>)
    BY DEF IsChain
  <2>2. \A p \in Party : AllSent(p) /\ gone[p] = {} /\ Len(net[p]) = 0
    BY <2>1, <1>3, <1>4, <1>5, <1>6 DEF AllSent
  <2>. QED
    BY <2>2 DEF Progress
<1>11. Reading
  <2>1. \A p \in Party : plaintexts[p] = <<>>
    BY <1>4
  <2>. QED
    BY <2>1, <1>5, Others DEF Reading, ReadingOf
<1>. QED
  BY <1>7, <1>8, <1>9, <1>10, <1>11 DEF IInv

\* Sending keeps Ages.
LEMMA SentAges ==
  ASSUME Shape, Ages, NEW p \in Party, NEW m, Sent(p, m)
  PROVE  Ages'
<1> DEFINE q == Other(p)
<1>1. q \in Party /\ q # p /\ \A r \in Party : r = p \/ r = q
  BY Others
<1>2. ratchet[p].DHr # nullptr
  BY DEF Ages, Sent, Party
<1>3. /\ Messages(p)' = Messages(p) \cup {m} /\ Messages(q)' = Messages(q)
      /\ keys' = keys /\ sent'[p] = sent[p] + 1 /\ sent'[q] = sent[q] /\ sent[p] \in Nat
      /\ used' = used \cup {Key(m)} /\ gaps' = gaps /\ failed' = failed
  BY DEF Sent, Added, Shape
<1>4. \A r \in Party :
        /\ ratchet'[r].DHs = ratchet[r].DHs /\ ratchet'[r].DHr = ratchet[r].DHr
        /\ ratchet'[r].RK = ratchet[r].RK /\ ratchet'[r].CKs.root = ratchet[r].CKs.root
        /\ ratchet'[r].CKr.root = ratchet[r].CKr.root
  BY <1>1 DEF Sent
<1>5. m.DH_pub_key = ratchet[p].DHs /\ m.text = sent[p] + 1 /\ Chain(m) = ratchet[p].CKs.root
  BY DEF Sent, Key, Chain
<1>6. ASSUME NEW r \in Party, NEW x \in Messages(r)'
      PROVE  /\ x.DH_pub_key \in 1..keys /\ x.text \in 1..sent'[r]
             /\ IsChain(Chain(x)) /\ Old(Chain(x), keys) /\ Old(Chain(x)[2], keys)
             /\ Key(x) \in used'
  <2>1. CASE x \in Messages(r)
    BY <2>1, <1>1, <1>3 DEF Ages
  <2>2. CASE r = p /\ x = m
    BY <2>2, <1>2, <1>3, <1>5 DEF Ages, AgesOf
  <2>. QED
    BY <2>1, <2>2, <1>1, <1>3
<1>7. \A key \in used' : \E r \in Party : \E x \in Messages(r)' : Key(x) = key
  BY <1>1, <1>3 DEF Ages
<1>8. (gaps \cup failed \subseteq {key.root : key \in used})'
  BY <1>3 DEF Ages
<1>. QED
  BY <1>3, <1>4, <1>6, <1>7, <1>8 DEF Ages, AgesOf

\* Receiving keeps Ages.
LEMMA ReceivedAges ==
  ASSUME Shape, Ages, NEW p \in Party, NEW m, Received(p, m)
  PROVE  Ages'
<1> DEFINE q == Other(p)
<1>1. q \in Party /\ q # p /\ Other(q) = p /\ \A r \in Party : r = p \/ r = q
  BY Others
<1>2. /\ \A r \in Party : Messages(r)' = Messages(r)
      /\ m \in Messages(q) /\ ratchet'[q] = ratchet[q] /\ keys \in Nat
      /\ used' = used /\ sent' = sent /\ gaps' = gaps
  BY <1>1 DEF Received, Took, Shape
<1>3. keys' \in Nat /\ (keys' = keys \/ keys' = keys + 1)
  <2>1. Stays(p, m) => keys' = keys
    BY DEF Stays
  <2>2. (\E out, newOut : Enters(p, m, out, newOut)) => keys' = keys + 1
    BY DEF Enters
  <2>. QED
    BY <1>2, <2>1, <2>2 DEF Received
<1>4. \A term : Old(term, keys) => Old(term, keys')
  BY <1>2, <1>3, StillOld
<1>5. ASSUME NEW r \in Party, NEW x \in Messages(r)
      PROVE  /\ x.DH_pub_key \in 1..keys' /\ x.text \in 1..sent'[r]
             /\ IsChain(Chain(x)) /\ Old(Chain(x), keys') /\ Old(Chain(x)[2], keys')
             /\ Key(x) \in used'
  BY <1>2, <1>3, <1>4 DEF Ages
<1>6. ASSUME NEW s, AgesOf(s) PROVE AgesOf(s)'
  BY <1>2, <1>3, <1>4, <1>6 DEF AgesOf
<1>7. AgesOf(ratchet[p])' /\ (p = "Alice" => ratchet'[p].DHr # nullptr)
  <2>1. CASE Stays(p, m)
    BY <2>1, <1>3, <1>4 DEF Ages, AgesOf, Stays
  <2>2. ASSUME NEW out, NEW newOut, Enters(p, m, out, newOut)
        PROVE  AgesOf(ratchet[p])' /\ ratchet'[p].DHr # nullptr
    <3>1. /\ keys' = keys + 1 /\ ratchet'[p].DHs = keys + 1 /\ ratchet'[p].DHr = m.DH_pub_key
      BY <2>2 DEF Enters
    <3>2. m.DH_pub_key \in 1..keys /\ ratchet[p].DHs \in 1..keys
      BY <1>1, <1>2 DEF Ages, AgesOf
    <3>3. /\ Old(ratchet'[p].CKr.root, keys) /\ Old(ratchet'[p].CKs.root[2], keys)
          /\ Old(ratchet'[p].RK, keys + 1) /\ Old(ratchet'[p].CKs.root, keys + 1)
          /\ IsChain(ratchet'[p].CKs.root)
      BY <3>2, <2>2, <1>2, NewTerms
    <3>. QED
      BY <3>1, <3>2, <3>3, <1>2, <1>4 DEF nullptr, AgesOf
  <2>. QED
    BY <2>1, <2>2 DEF Received
<1>8. \A r \in Party : AgesOf(ratchet[r])' /\ (r = "Alice" => ratchet'[r].DHr # nullptr)
  BY <1>1, <1>2, <1>6, <1>7 DEF Ages
<1>9. \A key \in used' : \E r \in Party : \E x \in Messages(r)' : Key(x) = key
  BY <1>2 DEF Ages
<1>10. (gaps \cup failed \subseteq {key.root : key \in used})'
  <2>1. Chain(m) \in {key.root : key \in used}
    BY <1>1, <1>2 DEF Ages, Chain, Key
  <2>2. failed' \subseteq failed \cup {Chain(m)}
    BY DEF Received, Reads, Fails
  <2>. QED
    BY <2>1, <2>2, <1>2 DEF Ages
<1>. QED
  BY <1>2, <1>5, <1>8, <1>9, <1>10 DEF Ages

\* So do messages that get lost or come again.
LEMMA StrayAges ==
  ASSUME Shape, Ages, NEW p \in Party, NEW m, Lost(p, m) \/ Again(p, m)
  PROVE  Ages'
<1>1. /\ \A r \in Party : Messages(r)' = Messages(r)
      /\ m \in Messages(p) /\ gaps' = gaps \cup {Chain(m)}
      /\ UNCHANGED <<ratchet, keys, sent, failed, used>>
  BY Others DEF Lost, Again, Took
<1>2. Chain(m) \in {key.root : key \in used}
  BY <1>1 DEF Ages, Chain, Key
<1>. QED
  BY <1>1, <1>2 DEF Ages, AgesOf

-----------------------------------------------------------------------------
(* Owners. *)

\* Sending keeps Owners.
LEMMA SentOwners ==
  ASSUME Shape, Ages, Owners, NEW p \in Party, NEW m, Sent(p, m)
  PROVE  Owners'
<1> DEFINE q == Other(p)
<1>1. q \in Party /\ q # p /\ Other(q) = p /\ \A r \in Party : r = p \/ r = q
  BY Others
<1>2. ratchet[p].DHr # nullptr
  BY DEF Ages, Sent, Party
<1>3. /\ Messages(p)' = Messages(p) \cup {m} /\ Messages(q)' = Messages(q)
      /\ ratchet'[p].DHs = ratchet[p].DHs /\ ratchet'[p].DHr = ratchet[p].DHr
      /\ ratchet'[p].RK = ratchet[p].RK /\ ratchet'[p].CKs.root = ratchet[p].CKs.root
      /\ ratchet'[p].CKr = ratchet[p].CKr /\ ratchet'[q] = ratchet[q]
      /\ ratchet'[p].CKs.step = ratchet[p].CKs.step + 1 /\ ratchet[p].CKs.step \in Nat
  BY DEF Sent, Added, Shape, IsRatchet, IsKey
<1>4. /\ m.DH_pub_key = ratchet[p].DHs
      /\ Chain(m) = ratchet[p].CKs.root /\ Key(m).step = ratchet[p].CKs.step
  BY DEF Sent, Key, Chain
<1>5. IsChain(ratchet[p].CKs.root)
  BY <1>2 DEF Ages, AgesOf
<1>6. \A x \in Messages(p) : Key(x).step \in Nat
  BY DEF Shape, IsMessage, IsKey
<1>7. /\ \A r \in Party : Owns(ratchet[r], ratchet[Other(r)])
      /\ \A r \in Party : \A x \in Messages(r) : OwnsMessage(ratchet[r], ratchet[Other(r)], x)
  BY DEF Owners
<1>8. Owns(ratchet'[p], ratchet'[q]) /\ Owns(ratchet'[q], ratchet'[p])
  BY <1>1, <1>3, <1>7 DEF Owns
<1>9. \A x \in Messages(p)' : OwnsMessage(ratchet'[p], ratchet'[q], x)
  BY <1>1, <1>3, <1>4, <1>5, <1>6, <1>7 DEF Owns, OwnsMessage
<1>10. \A x \in Messages(q)' : OwnsMessage(ratchet'[q], ratchet'[p], x)
  BY <1>1, <1>3, <1>7 DEF OwnsMessage
<1>. QED
  BY <1>1, <1>8, <1>9, <1>10 DEF Owners

\* Receiving keeps Owners: a new chain is made from a new key pair, so it is no old one.
LEMMA ReceivedOwners ==
  ASSUME Shape, Ages, Owners, NEW p \in Party, NEW m, Received(p, m)
  PROVE  Owners'
<1> DEFINE q == Other(p)
           s == ratchet[p]
           t == ratchet[q]
<1>1. q \in Party /\ q # p /\ Other(q) = p /\ \A r \in Party : r = p \/ r = q
  BY Others
<1>2. /\ \A r \in Party : Messages(r)' = Messages(r)
      /\ m \in Messages(q) /\ ratchet'[q] = t /\ keys \in Nat
  BY <1>1 DEF Received, Took, Shape
<1>3. /\ Owns(s, t) /\ Owns(t, s)
      /\ \A x \in Messages(p) : OwnsMessage(s, t, x)
      /\ \A x \in Messages(q) : OwnsMessage(t, s, x)
  BY <1>1 DEF Owners
<1>4. /\ AgesOf(s) /\ AgesOf(t)
      /\ \A r \in Party : \A x \in Messages(r) :
           /\ x.DH_pub_key \in 1..keys /\ Old(Chain(x), keys) /\ Old(Chain(x)[2], keys)
  BY <1>1 DEF Ages
<1>5. CASE Stays(p, m)
  <2>1. Owns(ratchet'[p], t) /\ Owns(t, ratchet'[p])
    BY <1>3, <1>5 DEF Stays, Owns
  <2>2. /\ \A x \in Messages(p) : OwnsMessage(ratchet'[p], t, x)
        /\ \A x \in Messages(q) : OwnsMessage(t, ratchet'[p], x)
    BY <1>3, <1>5 DEF Stays, OwnsMessage
  <2>. QED
    BY <1>1, <1>2, <2>1, <2>2 DEF Owners
<1>6. ASSUME NEW out, NEW newOut, Enters(p, m, out, newOut) PROVE Owners'
  <2> DEFINE new == ratchet'[p]
  <2>1. /\ new.DHs = keys + 1 /\ new.DHr \in 1..keys
        /\ s.DHs \in 1..keys /\ t.DHs \in 1..keys /\ t.DHr \in 0..keys
    BY <1>1, <1>2, <1>4, <1>6 DEF Enters, AgesOf
  <2>2. /\ Old(new.CKr.root, keys) /\ new.CKr.root[2] = s.RK
        /\ Old(new.CKs.root[2], keys) /\ ~Old(new.RK, keys) /\ ~Old(new.CKs.root, keys)
        /\ IsChain(new.CKr.root) /\ new.CKs.root[2] # new.RK
    BY <1>1, <1>2, <1>4, <1>6, <2>1, NewTerms
  <2>3. Owns(new, t) /\ Owns(t, new)
    <3>1. /\ Old(s.RK, keys) /\ Old(t.CKs.root, keys)
          /\ IsChain(t.CKs.root) => Old(t.CKs.root[2], keys)
      BY <1>4 DEF AgesOf
    <3>2. /\ new.DHs # t.DHs /\ new.DHs # t.DHr
          /\ new.CKs.root # t.CKs.root /\ new.CKs.root # new.CKr.root
          /\ new.CKr.root[2] # new.RK
          /\ IsChain(t.CKs.root) => t.CKs.root[2] # new.RK
      BY <1>2, <2>1, <2>2, <3>1
    <3>. QED
      BY <1>3, <2>2, <3>2 DEF Owns
  <2>4. ASSUME NEW x \in Messages(p) PROVE OwnsMessage(new, t, x)
    <3>1. OwnsMessage(s, t, x)
      BY <1>3
    <3>2. x.DH_pub_key \in 1..keys /\ Old(Chain(x), keys) /\ Old(Chain(x)[2], keys)
      BY <1>4
    <3>3. x.DH_pub_key # new.DHs /\ Chain(x) # new.CKs.root /\ Chain(x)[2] # new.RK
      BY <1>2, <2>1, <2>2, <3>2
    <3>4. Chain(x) # new.CKr.root
      BY <2>2, <3>1 DEF OwnsMessage
    <3>. QED
      BY <3>1, <3>3, <3>4 DEF OwnsMessage
  <2>5. ASSUME NEW x \in Messages(q) PROVE OwnsMessage(t, new, x)
    <3>1. OwnsMessage(t, s, x)
      BY <1>3
    <3>2. x.DH_pub_key \in 1..keys /\ Old(Chain(x), keys) /\ Old(Chain(x)[2], keys)
      BY <1>1, <1>4
    <3>3. x.DH_pub_key # new.DHs /\ Chain(x) # new.CKs.root /\ Chain(x)[2] # new.RK
      BY <1>2, <2>1, <2>2, <3>2
    <3>. QED
      BY <3>1, <3>3 DEF OwnsMessage
  <2>. QED
    BY <1>1, <1>2, <2>3, <2>4, <2>5 DEF Owners
<1>. QED
  BY <1>5, <1>6 DEF Received

\* Messages that get lost or come again concern no ratchet.
LEMMA StrayOwners ==
  ASSUME Owners, NEW p \in Party, NEW m, Lost(p, m) \/ Again(p, m)
  PROVE  Owners'
<1>1. (\A r \in Party : Messages(r)' = Messages(r)) /\ UNCHANGED ratchet
  BY Others DEF Lost, Again, Took
<1>. QED
  BY <1>1 DEF Owners

-----------------------------------------------------------------------------
(* Progress. *)

\* Message m of p comes to the end of the queue: those before it in its chain are in it,
\* unless they have arrived and the other party has gone on.
LEMMA SentProgress ==
  ASSUME Shape, Ages, Owners, Progress, NEW p \in Party, NEW m, Sent(p, m)
  PROVE  Progress'
<1> DEFINE q == Other(p)
           t == ratchet[q]
<1>0. net[p] \in Seq(Messages(p))
  BY DEF Shape
<1> PICK l \in Nat : l = Len(net[p])
  BY <1>0
<1>1. q \in Party /\ q # p /\ Other(q) = p /\ \A r \in Party : r = p \/ r = q
  BY Others
<1>2. ratchet[p].DHr # nullptr
  BY DEF Ages, Sent, Party
<1>3. /\ Messages(p)' = Messages(p) \cup {m} /\ Messages(q)' = Messages(q)
      /\ ratchet'[p].RK = ratchet[p].RK /\ ratchet'[p].CKs.root = ratchet[p].CKs.root
      /\ ratchet'[p].CKr = ratchet[p].CKr /\ ratchet'[q] = ratchet[q]
      /\ ratchet'[p].CKs.step = ratchet[p].CKs.step + 1 /\ ratchet[p].CKs.step \in Nat
      /\ gone' = gone /\ gaps' = gaps
  BY DEF Sent, Added, Shape, IsRatchet, IsKey
<1>4. /\ Key(m) = ratchet[p].CKs /\ Chain(m) = ratchet[p].CKs.root
      /\ Key(m).step = ratchet[p].CKs.step
  BY DEF Sent, Key, Chain
<1>5. IsChain(ratchet[p].CKs.root)
  BY <1>2 DEF Ages, AgesOf
<1>6. /\ DOMAIN net[p] = 1..l /\ Len(net[p]) = l /\ DOMAIN net'[p] = 1..l + 1
      /\ Len(net'[p]) = l + 1 /\ \A k \in 1..l : net'[p][k] = net[p][k]
      /\ net'[p][l + 1] = m /\ net'[q] = net[q]
  BY DEF Sent, Added, Shape
<1>7. AllSent(p)'
  <2> SUFFICES ASSUME NEW step \in 0..ratchet'[p].CKs.step - 1
               PROVE  \E x \in Messages(p)' : Key(x) = [root |-> ratchet'[p].CKs.root, step |-> step]
    BY DEF AllSent
  <2>1. CASE step \in 0..ratchet[p].CKs.step - 1
    BY <2>1, <1>3, <1>5 DEF Progress, AllSent
  <2>2. CASE step = ratchet[p].CKs.step
    BY <2>2, <1>3, <1>4 DEF Shape, IsRatchet, IsKey
  <2>. QED
    BY <2>1, <2>2, <1>3
<1>8. AllSent(q)'
  BY <1>1, <1>3 DEF Progress, AllSent
<1>9. \A r \in Party : \A x \in gone'[r] : Arrived(ratchet[Other(r)], x)'
  BY <1>1, <1>3 DEF Progress, Arrived
<1>10. ASSUME NEW k \in 1..l PROVE InLine(p, k)'
  <2>1. \A n : Before(p, k, n) => Before(p, k, n)'
    BY <1>6 DEF Before
  <2>. QED
    BY <2>1, <1>1, <1>3, <1>6 DEF Progress, InLine
<1>11. InLine(p, l + 1)'
  <2>1. t.CKr.step \in Nat /\ Key(m).step \in Nat
    BY <1>1, <1>3, <1>4 DEF Shape, IsRatchet, IsKey
  <2>2. ASSUME NEW step \in 0..Key(m).step - 1, Chain(m) \notin gaps,
               Chain(m)[2] = t.RK \/ (Chain(m) = t.CKr.root /\ step >= t.CKr.step)
        PROVE  \E j \in 1..l : Key(net[p][j]) = [root |-> Chain(m), step |-> step]
    <3>1. PICK x \in Messages(p) : Key(x) = [root |-> Chain(m), step |-> step]
      BY <1>4, <1>5 DEF Progress, AllSent
    <3>2. x \notin gone[p]
      <4> SUFFICES ASSUME x \in gone[p] PROVE FALSE
        OBVIOUS
      <4>1. Arrived(t, x) /\ Chain(x) = Chain(m) /\ Key(x).step = step
        BY <3>1 DEF Progress, Chain, Key
      <4>. QED
        BY <4>1, <2>1, <2>2 DEF Arrived
    <3>. QED
      BY <3>1, <3>2, <1>6 DEF Messages
  <2>3. ASSUME NEW n \in Nat,
               \A step \in n..Key(m).step - 1 :
                 \E j \in 1..l : Key(net[p][j]) = [root |-> Chain(m), step |-> step]
        PROVE  Before(p, l + 1, n)'
    BY <2>3, <1>6 DEF Before
  <2>4. /\ net'[p][l + 1] = m /\ ratchet'[Other(p)] = t /\ gaps' = gaps
    BY <1>3, <1>6
  <2>5. CASE Chain(m) \in gaps
    BY <2>4, <2>5 DEF InLine
  <2>6. CASE Chain(m) \notin gaps
    <3>1. Chain(m)[2] = t.RK => Before(p, l + 1, 0)'
      BY <2>1, <2>2, <2>3, <2>6
    <3>2. Chain(m) = t.CKr.root => Before(p, l + 1, ratchet[Other(p)].CKr.step)'
      <4>1. Chain(m) = t.CKr.root =>
              \A step \in t.CKr.step..Key(m).step - 1 :
                 \E j \in 1..l : Key(net[p][j]) = [root |-> Chain(m), step |-> step]
        BY <2>1, <2>2, <2>6
      <4>. QED
        BY <4>1, <2>1, <2>3, <2>4
    <3>. QED
      BY <2>4, <3>1, <3>2 DEF InLine
  <2>. QED
    BY <2>5, <2>6
<1>12. ASSUME NEW k \in 1..Len(net[q]) PROVE InLine(q, k)'
  <2>1. \A n : Before(q, k, n) => Before(q, k, n)'
    BY <1>6 DEF Before
  <2>. QED
    BY <2>1, <1>1, <1>3, <1>6 DEF Progress, InLine
<1>. QED
  BY <1>1, <1>6, <1>7, <1>8, <1>9, <1>10, <1>11, <1>12 DEF Progress

\* When the oldest message m of q has been taken, what was before message k + 1 is before
\* the one that is now message k, but for m.
LEMMA Shifted ==
  ASSUME Shape, NEW q \in Party, NEW m, Took(q, m),
         NEW k \in 1..Len(net[q]) - 1, NEW n \in Nat, NEW i \in Nat, n <= i,
         Before(q, k + 1, n),
         Chain(m) = Chain(net[q][k + 1]) => Key(m).step < i
  PROVE  Before(q, k, i)' /\ net'[q][k] = net[q][k + 1]
<1>1. net[q] \in Seq(Messages(q)) /\ Len(net[q]) \in Nat
  BY DEF Shape
<1>2. /\ m = net[q][1] /\ net'[q][k] = net[q][k + 1]
      /\ \A j \in 1..Len(net[q]) - 1 : net'[q][j] = net[q][j + 1]
  BY DEF Took
<1>3. Key(net[q][k + 1]).step \in Nat
  <2>1. net[q][k + 1] \in Messages(q)
    BY <1>1
  <2>. QED
    BY <2>1 DEF Shape, IsMessage, IsKey
<1>4. ASSUME NEW step \in i..Key(net[q][k + 1]).step - 1
      PROVE  \E j \in 1..k - 1 : Key(net'[q][j]) = [root |-> Chain(net[q][k + 1]), step |-> step]
  <2>1. step \in n..Key(net[q][k + 1]).step - 1 /\ step >= i
    BY <1>3
  <2>2. PICK j \in 1..k : Key(net[q][j]) = [root |-> Chain(net[q][k + 1]), step |-> step]
    BY <2>1 DEF Before
  <2>3. j # 1
    <3> SUFFICES ASSUME j = 1 PROVE FALSE
      OBVIOUS
    <3>1. Key(m) = [root |-> Chain(net[q][k + 1]), step |-> step]
      BY <1>2, <2>2
    <3>2. Chain(m) = Chain(net[q][k + 1]) /\ Key(m).step = step
      BY <3>1 DEF Key, Chain
    <3>. QED
      BY <2>1, <3>2
  <2>4. j - 1 \in 1..k - 1 /\ j - 1 \in 1..Len(net[q]) - 1 /\ (j - 1) + 1 = j
    BY <1>1, <2>3
  <2>5. net'[q][j - 1] = net[q][j]
    BY <1>2, <2>4
  <2>. QED
    BY <2>2, <2>4, <2>5
<1>. QED
  BY <1>2, <1>4 DEF Before

\* The first message of a queue has none before it.
LEMMA FirstInLine ==
  ASSUME Shape, NEW q \in Party, NEW m, Took(q, m), NEW n \in Nat, Before(q, 1, n)
  PROVE  Key(m).step \in Nat /\ Key(m).step <= n
<1>1. Key(m).step \in Nat /\ m = net[q][1]
  BY DEF Took, Shape, IsMessage, IsKey
<1>. QED
  BY <1>1 DEF Before

\* Receiving keeps Progress.
LEMMA ReceivedProgress ==
  ASSUME Shape, Ages, Owners, Progress, NEW p \in Party, NEW m, Received(p, m)
  PROVE  Progress'
<1> DEFINE q == Other(p)
           s == ratchet[p]
           t == ratchet[q]
<1>1. q \in Party /\ q # p /\ Other(q) = p /\ \A r \in Party : r = p \/ r = q
  BY Others
<1>2. /\ \A r \in Party : Messages(r)' = Messages(r)
      /\ m \in Messages(q) /\ ratchet'[q] = t /\ keys \in Nat /\ gaps' = gaps
      /\ Took(q, m) /\ net'[p] = net[p] /\ gone'[p] = gone[p] /\ gone'[q] = gone[q] \cup {m}
      /\ Len(net'[q]) = Len(net[q]) - 1 /\ m = net[q][1] /\ Len(net[q]) >= 1
  BY <1>1 DEF Received, Took, Shape
<1>3. Len(net[q]) \in Nat
  <2>1. net[q] \in Seq(Messages(q))
    BY <1>1 DEF Shape
  <2>. QED
    BY <2>1
<1> PICK i \in Nat : i = s.CKr.step
  BY DEF Shape, IsRatchet, IsKey
<1>4. /\ \A x \in gone[q] : Arrived(s, x)
      /\ \A k \in 1..Len(net[q]) : InLine(q, k)
  BY <1>1 DEF Progress
<1>5. \A k \in 1..Len(net[q]) :
        Chain(net[q][k]) \notin gaps =>
          /\ Chain(net[q][k])[2] = s.RK => Before(q, k, 0)
          /\ Chain(net[q][k]) = s.CKr.root => Before(q, k, i)
  BY <1>1, <1>4 DEF InLine
<1>6. AllSent(q)' /\ \A x \in gone'[p] : Arrived(ratchet[Other(p)], x)'
  BY <1>1, <1>2 DEF Progress, AllSent, Arrived
<1>7. ASSUME NEW k \in 1..Len(net'[p]) PROVE InLine(p, k)'
  <2>1. \A n : Before(p, k, n) => Before(p, k, n)'
    BY <1>2 DEF Before
  <2>. QED
    BY <2>1, <1>1, <1>2 DEF Progress, InLine
<1>8. CASE Stays(p, m)
  <2> DEFINE new == ratchet'[p]
  <2>1. /\ new.RK = s.RK /\ new.CKr.root = s.CKr.root /\ new.CKr.step = i + 1
        /\ new.CKs = s.CKs /\ m.DH_pub_key = s.DHr
    BY <1>8 DEF Stays
  <2>2. AllSent(p)'
    BY <1>2, <2>1 DEF Progress, AllSent
  <2>3. Chain(m)[2] # s.RK
    BY <1>1, <1>2, <2>1 DEF Owners, OwnsMessage
  <2>4. Chain(m) \notin gaps /\ Chain(m) = s.CKr.root => Key(m).step < i + 1
    BY <1>1, <1>2, <1>3, <1>5, FirstInLine
  <2>5. ASSUME NEW x \in gone'[q] PROVE Arrived(ratchet[Other(q)], x)'
    <3>1. Key(x).step \in Nat
      BY <1>1, <1>2 DEF Shape, Messages, IsMessage, IsKey
    <3>2. CASE x \in gone[q]
      BY <3>1, <3>2, <1>1, <1>2, <1>3, <1>4, <2>1 DEF Arrived
    <3>3. CASE x = m
      BY <3>3, <1>1, <1>2, <2>1, <2>3, <2>4 DEF Arrived
    <3>. QED
      BY <3>2, <3>3, <1>2
  <2>6. ASSUME NEW k \in 1..Len(net'[q]) PROVE InLine(q, k)'
    <3>1. k \in 1..Len(net[q]) - 1 /\ k + 1 \in 1..Len(net[q])
      BY <1>2, <1>3
    <3> DEFINE root == Chain(net[q][k + 1])
    <3>2. net'[q][k] = net[q][k + 1]
      BY <1>2, <3>1 DEF Took
    <3>3. root \notin gaps /\ root[2] = s.RK => Before(q, k, 0)'
      <4> SUFFICES ASSUME root \notin gaps, root[2] = s.RK PROVE Before(q, k, 0)'
        OBVIOUS
      <4>1. Before(q, k + 1, 0) /\ Chain(m) # root
        BY <1>5, <2>3, <3>1
      <4>. QED
        BY <4>1, <1>1, <1>2, <3>1, Shifted
    <3>4. root \notin gaps /\ root = s.CKr.root => Before(q, k, i + 1)'
      <4> SUFFICES ASSUME root \notin gaps, root = s.CKr.root PROVE Before(q, k, i + 1)'
        OBVIOUS
      <4>1. Before(q, k + 1, i) /\ (Chain(m) = root => Key(m).step < i + 1)
        BY <1>5, <2>4, <3>1
      <4>2. i + 1 \in Nat /\ i <= i + 1
        OBVIOUS
      <4>. QED
        BY <4>1, <4>2, <1>1, <1>2, <3>1, Shifted
    <3>. QED
      BY <3>2, <3>3, <3>4, <1>1, <1>2, <2>1 DEF InLine
  <2>. QED
    BY <1>1, <1>6, <1>7, <2>2, <2>5, <2>6 DEF Progress
<1>9. ASSUME NEW out, NEW newOut, Enters(p, m, out, newOut) PROVE Progress'
  <2> DEFINE new == ratchet'[p]
  <2>1. s.DHs \in 1..keys /\ m.DH_pub_key \in 1..keys
    BY <1>1, <1>2 DEF Ages, AgesOf
  <2>2. /\ new.CKr.root[2] = s.RK /\ new.CKr.step = 1 /\ new.CKs.step = 0
        /\ ~Old(new.RK, keys)
    <3>1. /\ new.CKs = [root |-> <<"CK", <<"RK", s.RK, out>>, newOut>>, step |-> 0]
          /\ new.CKr = [root |-> <<"CK", s.RK, out>>, step |-> 1]
          /\ new.CKr.root[2] = s.RK /\ ~Old(new.RK, keys)
      BY <1>2, <1>9, <2>1, NewTerms
    <3>. QED
      BY <3>1
  <2>3. \A x \in Messages(q) : Chain(x)[2] # new.RK
    BY <1>1, <2>2 DEF Ages
  <2>4. AllSent(p)'
    BY <2>2 DEF AllSent
  <2>5. Chain(m) \notin gaps /\ Chain(m) = new.CKr.root => Key(m).step < 1
    BY <1>1, <1>2, <1>3, <1>5, <2>2, FirstInLine
  <2>6. ASSUME NEW x \in gone'[q] PROVE Arrived(ratchet[Other(q)], x)'
    <3>1. x \in Messages(q)
      BY <1>2 DEF Messages
    <3>2. CASE x \in gone[q]
      BY <3>1, <3>2, <1>1, <1>2, <1>4, <2>2, <2>3 DEF Arrived
    <3>3. CASE x = m
      BY <3>1, <3>3, <1>1, <1>2, <2>2, <2>3, <2>5 DEF Arrived
    <3>. QED
      BY <3>2, <3>3, <1>2
  <2>7. ASSUME NEW k \in 1..Len(net'[q]) PROVE InLine(q, k)'
    <3>1. k \in 1..Len(net[q]) - 1 /\ k + 1 \in 1..Len(net[q])
      BY <1>2, <1>3
    <3> DEFINE root == Chain(net[q][k + 1])
    <3>2. net'[q][k] = net[q][k + 1]
      BY <1>2, <3>1 DEF Took
    <3>3. root[2] # new.RK
      BY <2>3, <3>1, <1>1 DEF Messages, Shape
    <3>4. root \notin gaps /\ root = new.CKr.root => Before(q, k, 1)'
      <4> SUFFICES ASSUME root \notin gaps, root = new.CKr.root PROVE Before(q, k, 1)'
        OBVIOUS
      <4>1. Before(q, k + 1, 0) /\ (Chain(m) = root => Key(m).step < 1)
        BY <1>5, <2>2, <2>5, <3>1
      <4>. QED
        BY <4>1, <1>1, <1>2, <3>1, Shifted
    <3>. QED
      BY <3>2, <3>3, <3>4, <1>1, <1>2, <2>2 DEF InLine
  <2>. QED
    BY <1>1, <1>6, <1>7, <2>4, <2>6, <2>7 DEF Progress
<1>. QED
  BY <1>8, <1>9 DEF Received

\* So do messages that get lost or come again: their chains count no longer.
LEMMA StrayProgress ==
  ASSUME Shape, Progress, NEW p \in Party, NEW m, Lost(p, m) \/ Again(p, m)
  PROVE  Progress'
<1> DEFINE q == Other(p)
           t == ratchet[q]
<1>1. q \in Party /\ q # p /\ Other(q) = p /\ \A r \in Party : r = p \/ r = q
  BY Others
<1>2. /\ \A r \in Party : Messages(r)' = Messages(r)
      /\ m \in Messages(p) /\ ratchet' = ratchet /\ gaps' = gaps \cup {Chain(m)}
      /\ net'[q] = net[q] /\ gone'[q] = gone[q] /\ gone'[p] = gone[p] \cup {m}
  BY <1>1 DEF Lost, Again, Took
<1>3. Len(net[p]) \in Nat /\ t.CKr.step \in Nat
  <2>1. net[p] \in Seq(Messages(p)) /\ IsRatchet(t)
    BY <1>1 DEF Shape
  <2>2. Len(net[p]) \in Nat
    BY <2>1
  <2>. QED
    BY <2>1, <2>2 DEF IsRatchet, IsKey
<1>4. \A k \in 1..Len(net[p]) :
        Chain(net[p][k]) \notin gaps =>
          /\ Chain(net[p][k])[2] = t.RK => Before(p, k, 0)
          /\ Chain(net[p][k]) = t.CKr.root => Before(p, k, t.CKr.step)
  BY DEF Progress, InLine
<1>5. AllSent(p)' /\ AllSent(q)'
  BY <1>1, <1>2 DEF Progress, AllSent
<1>6. \A r \in Party : \A x \in gone'[r] : Arrived(ratchet[Other(r)], x)'
  BY <1>1, <1>2 DEF Progress, Arrived
<1>7. ASSUME NEW k \in 1..Len(net'[q]) PROVE InLine(q, k)'
  <2>1. \A n : Before(q, k, n) => Before(q, k, n)'
    BY <1>2 DEF Before
  <2>. QED
    BY <2>1, <1>1, <1>2 DEF Progress, InLine
<1>8. ASSUME Lost(p, m), NEW k \in 1..Len(net'[p]) PROVE InLine(p, k)'
  <2>1. Took(p, m) /\ k \in 1..Len(net[p]) - 1 /\ k + 1 \in 1..Len(net[p])
    BY <1>3, <1>8 DEF Lost, Took
  <2> DEFINE root == Chain(net[p][k + 1])
  <2>2. net'[p][k] = net[p][k + 1]
    BY <2>1 DEF Took
  <2>3. ASSUME NEW n \in Nat, Before(p, k + 1, n), Chain(m) # root PROVE Before(p, k, n)'
    <3>1. n <= n /\ (Chain(m) = Chain(net[p][k + 1]) => Key(m).step < n)
      BY <2>3
    <3> HIDE DEF root
    <3>. QED
      BY <3>1, <2>1, <2>3, Shifted
  <2>. QED
    BY <2>1, <2>2, <2>3, <1>2, <1>3, <1>4 DEF InLine
<1>9. ASSUME Again(p, m), NEW k \in 1..Len(net'[p]) PROVE InLine(p, k)'
  <2>1. /\ net'[p][1] = m /\ Len(net'[p]) = Len(net[p]) + 1
        /\ \A j \in 1..Len(net[p]) : net'[p][j + 1] = net[p][j]
        /\ \A j \in 2..Len(net[p]) + 1 : net'[p][j] = net[p][j - 1]
    BY <1>9 DEF Again
  <2>2. CASE k = 1
    BY <2>1, <2>2, <1>2 DEF InLine
  <2>3. CASE k # 1
    <3>1. k - 1 \in 1..Len(net[p]) /\ net'[p][k] = net[p][k - 1] /\ k \in Nat
      BY <2>1, <2>3, <1>3
    <3>2. ASSUME NEW n \in Nat, Before(p, k - 1, n) PROVE Before(p, k, n)'
      <4>1. ASSUME NEW step \in n..Key(net[p][k - 1]).step - 1
            PROVE  \E j \in 1..k - 1 :
                     Key(net'[p][j]) = [root |-> Chain(net[p][k - 1]), step |-> step]
        <5>1. PICK j \in 1..(k - 1) - 1 : Key(net[p][j]) = [root |-> Chain(net[p][k - 1]), step |-> step]
          BY <3>2 DEF Before
        <5>2. j + 1 \in 1..k - 1 /\ net'[p][j + 1] = net[p][j]
          BY <2>1, <3>1, <1>3
        <5>. QED
          BY <5>1, <5>2
      <4>. QED
        BY <4>1, <3>1 DEF Before
    <3>. QED
      BY <3>1, <3>2, <1>2, <1>3, <1>4 DEF InLine
  <2>. QED
    BY <2>2, <2>3
<1>. QED
  BY <1>1, <1>5, <1>6, <1>7, <1>8, <1>9 DEF Progress

-----------------------------------------------------------------------------
(* Reading. *)

\* Sending keeps Reading: the new message is the newest.
LEMMA SentReading ==
  ASSUME Shape, Ages, Owners, Reading, NEW p \in Party, NEW m, Sent(p, m)
  PROVE  Reading'
<1> DEFINE q == Other(p)
           s == ratchet[p]
           t == ratchet[q]
<1>1. q \in Party /\ q # p /\ Other(q) = p /\ \A r \in Party : r = p \/ r = q
  BY Others
<1>2. /\ Messages(p)' = Messages(p) \cup {m} /\ Messages(q)' = Messages(q)
      /\ ratchet'[p].RK = s.RK /\ ratchet'[p].CKs.root = s.CKs.root
      /\ ratchet'[p].CKr = s.CKr /\ ratchet'[q] = t
      /\ sent'[p] = sent[p] + 1 /\ sent'[q] = sent[q] /\ plaintexts' = plaintexts
  BY DEF Sent, Added
<1>3. /\ m.text = sent[p] + 1 /\ Chain(m) = s.CKs.root /\ Key(m).step = s.CKs.step
  BY DEF Sent, Key, Chain
<1>4. sent[p] \in Nat
  BY DEF Shape
<1>5. ReadingOf(p) /\ ReadingOf(q)
  BY <1>1 DEF Reading
<1>6. ReadingOf(q)'
  BY <1>1, <1>2, <1>5 DEF ReadingOf, Newer
<1>7. ReadingOf(p)'
  <2>1. \A k \in DOMAIN plaintexts[q] : plaintexts[q][k] \in 1..sent[p]
    BY <1>5 DEF ReadingOf
  <2>2. t.CKr.root = s.CKs.root => \A x \in Messages(p) \cup {m} : Chain(x)[2] # t.RK
    <3>1. s.DHr # nullptr
      BY DEF Ages, Sent, Party
    <3>2. IsChain(s.CKs.root) /\ (IsChain(t.CKr.root) => t.CKr.root[2] # t.RK)
      BY <3>1, <1>1 DEF Ages, AgesOf, Owners, Owns
    <3>. QED
      BY <3>2, <1>3, <1>5 DEF ReadingOf
  <2>3. Newer(q, m)
    BY <2>1, <1>3, <1>4 DEF Newer
  <2>4. ASSUME NEW x \in Messages(p)
        PROVE  x.text < m.text /\ ~(Chain(m) = Chain(x) /\ Key(m).step < Key(x).step)
    <3>1. x.text \in 1..sent[p]
      BY DEF Ages
    <3>2. Chain(x) = s.CKs.root => Key(x).step < s.CKs.step
      BY DEF Owners, OwnsMessage
    <3>3. s.CKs.step \in Nat /\ Key(x).step \in Nat
      BY DEF Shape, IsRatchet, IsMessage, IsKey
    <3>. QED
      BY <3>1, <3>2, <3>3, <1>3, <1>4
  <2>5. ~(Key(m).step < Key(m).step)
    <3>1. s.CKs.step \in Nat
      BY DEF Shape, IsRatchet, IsKey
    <3>. QED
      BY <3>1, <1>3
  <2>6. ASSUME NEW x \in Messages(p) \cup {m}
        PROVE  /\ Chain(x)[2] = t.RK => Newer(q, x)
               /\ Chain(x) = t.CKr.root /\ Key(x).step >= t.CKr.step => Newer(q, x)
    BY <2>3, <1>5 DEF ReadingOf
  <2>7. ASSUME NEW x \in Messages(p) \cup {m}, NEW n \in Messages(p) \cup {m}
        PROVE  /\ Chain(x) = t.CKr.root /\ Chain(n)[2] = t.RK => x.text < n.text
               /\ Chain(x) = Chain(n) /\ Key(x).step < Key(n).step => x.text < n.text
    <3>1. CASE x \in Messages(p) /\ n \in Messages(p)
      BY <3>1, <1>5 DEF ReadingOf
    <3>2. CASE x \in Messages(p) /\ n = m
      BY <3>2, <2>4
    <3>3. CASE x = m
      BY <3>3, <2>2, <2>4, <2>5, <1>3
    <3>. QED
      BY <3>1, <3>2, <3>3
  <2>8. \A k \in DOMAIN plaintexts[q] : plaintexts[q][k] \in 1..sent[p] + 1
    BY <2>1, <1>4
  <2>9. \A x : Newer(q, x)' <=> Newer(q, x)
    BY <1>2 DEF Newer
  <2>. QED
    BY <1>1, <1>2, <2>2, <2>6, <2>7, <2>8, <2>9 DEF ReadingOf
<1>. QED
  BY <1>1, <1>6, <1>7 DEF Reading

\* A message that is newer than what has been read, and than what is read now, stays newer.
LEMMA StillNewer ==
  ASSUME Shape, NEW p \in Party, NEW m, Received(p, m), NEW x, Newer(p, x),
         Reads(p, m) => m.text < x.text
  PROVE  Newer(p, x)'
<1>1. plaintexts[p] \in Seq(Nat)
  BY DEF Shape
<1>2. CASE Reads(p, m)
  BY <1>1, <1>2 DEF Newer, Reads
<1>3. CASE Fails(p, m)
  BY <1>3 DEF Newer, Fails
<1>. QED
  BY <1>2, <1>3 DEF Received

\* Receiving keeps Reading: what is read has its place before all that can still be.
LEMMA ReceivedReading ==
  ASSUME Shape, Ages, Owners, Reading, NEW p \in Party, NEW m, Received(p, m)
  PROVE  Reading'
<1> DEFINE q == Other(p)
           s == ratchet[p]
           t == ratchet[q]
           new == ratchet'[p]
<1>1. q \in Party /\ q # p /\ Other(q) = p /\ \A r \in Party : r = p \/ r = q
  BY Others
<1>2. /\ \A r \in Party : Messages(r)' = Messages(r)
      /\ m \in Messages(q) /\ ratchet'[q] = t /\ keys \in Nat
      /\ sent' = sent /\ plaintexts'[q] = plaintexts[q]
  BY <1>1 DEF Received, Took, Shape, Reads, Fails
<1>3. ReadingOf(p) /\ ReadingOf(q)
  BY <1>1 DEF Reading
<1>4. \A x \in Messages(q) : Key(x).step \in Nat
  BY <1>1 DEF Shape, IsMessage, IsKey
<1>5. \A k \in DOMAIN plaintexts'[p] : plaintexts'[p][k] \in 1..sent[q]
  <2>1. plaintexts[p] \in Seq(Nat) /\ m.text \in 1..sent[q]
    BY <1>1, <1>2 DEF Shape, Ages
  <2>2. \A k \in DOMAIN plaintexts[p] : plaintexts[p][k] \in 1..sent[q]
    BY <1>1, <1>3 DEF ReadingOf
  <2>3. plaintexts'[p] = plaintexts[p] \/ plaintexts'[p] = Append(plaintexts[p], m.text)
    BY DEF Received, Reads, Fails
  <2>. QED
    BY <2>1, <2>2, <2>3, SMTT(30)
<1>6. Reads(p, m) => Chain(m) = new.CKr.root /\ Key(m).step = new.CKr.step - 1
  BY DEF Reads, Key, Chain
<1>7. CASE Stays(p, m)
  <2>1. /\ new.RK = s.RK /\ new.CKs = s.CKs /\ new.CKr.root = s.CKr.root
        /\ new.CKr.step = s.CKr.step + 1 /\ s.CKr.step \in Nat
    BY <1>7 DEF Stays, Shape, IsRatchet, IsKey
  <2>2. ReadingOf(p)'
    BY <1>1, <1>2, <1>3, <2>1 DEF ReadingOf, Newer
  <2>3. ASSUME NEW x \in Messages(q)
        PROVE  /\ Chain(x)[2] = new.RK => Newer(p, x)'
               /\ Chain(x) = new.CKr.root /\ Key(x).step >= new.CKr.step => Newer(p, x)'
    <3>1. Key(x).step \in Nat
      BY <1>4
    <3>2. ASSUME Chain(x)[2] = s.RK PROVE Newer(p, x)'
      <4>1. Newer(p, x) /\ (Chain(m) = s.CKr.root => m.text < x.text)
        BY <3>2, <1>1, <1>2, <1>3 DEF ReadingOf
      <4>. QED
        BY <4>1, <1>6, <2>1, StillNewer
    <3>3. ASSUME Chain(x) = s.CKr.root, Key(x).step >= s.CKr.step + 1 PROVE Newer(p, x)'
      <4>1. /\ Newer(p, x)
            /\ Chain(m) = Chain(x) /\ Key(m).step < Key(x).step => m.text < x.text
        BY <3>1, <3>3, <2>1, <1>1, <1>2, <1>3 DEF ReadingOf
      <4>2. Reads(p, m) => Chain(m) = Chain(x) /\ Key(m).step < Key(x).step
        BY <3>1, <3>3, <2>1, <1>6
      <4>. QED
        BY <4>1, <4>2, StillNewer
    <3>. QED
      BY <3>2, <3>3, <2>1
  <2>4. ReadingOf(q)'
    BY <1>1, <1>2, <1>3, <1>5, <2>1, <2>3 DEF ReadingOf
  <2>. QED
    BY <1>1, <2>2, <2>4 DEF Reading
<1>8. ASSUME NEW out, NEW newOut, Enters(p, m, out, newOut) PROVE Reading'
  <2>1. s.DHs \in 1..keys /\ m.DH_pub_key \in 1..keys /\ Old(t.CKr.root, keys)
    BY <1>1, <1>2 DEF Ages, AgesOf
  <2>2. /\ new.CKr = [root |-> <<"CK", s.RK, out>>, step |-> 1]
        /\ new.CKr.root[2] = s.RK /\ ~Old(new.RK, keys) /\ ~Old(new.CKs.root, keys)
    BY <1>2, <1>8, <2>1, NewTerms
  <2>3. new.CKr.step = 1
    BY <2>2
  <2>4. \A x \in Messages(q) : Chain(x)[2] # new.RK
    BY <1>1, <2>2 DEF Ages
  <2>5. ReadingOf(p)'
    BY <1>1, <1>2, <1>3, <2>1, <2>2 DEF ReadingOf, Newer
  <2>6. ASSUME NEW x \in Messages(q), Chain(x) = new.CKr.root, Key(x).step >= new.CKr.step
        PROVE  Newer(p, x)'
    <3>1. Newer(p, x)
      BY <2>2, <2>6, <1>1, <1>3 DEF ReadingOf
    <3>2. Reads(p, m) => Chain(m) = Chain(x) /\ Key(m).step < Key(x).step
      BY <2>3, <2>6, <1>4, <1>6
    <3>3. Chain(m) = Chain(x) /\ Key(m).step < Key(x).step => m.text < x.text
      BY <1>1, <1>2, <1>3 DEF ReadingOf
    <3>. QED
      BY <3>1, <3>2, <3>3, StillNewer
  <2>7. ReadingOf(q)'
    BY <1>1, <1>2, <1>3, <1>5, <2>4, <2>6 DEF ReadingOf
  <2>. QED
    BY <1>1, <2>5, <2>7 DEF Reading
<1>. QED
  BY <1>7, <1>8 DEF Received

\* Messages that get lost or come again are read when they are received.
LEMMA StrayReading ==
  ASSUME Reading, NEW p \in Party, NEW m, Lost(p, m) \/ Again(p, m)
  PROVE  Reading'
<1>1. (\A r \in Party : Messages(r)' = Messages(r)) /\ UNCHANGED <<ratchet, sent, plaintexts>>
  BY Others DEF Lost, Again, Took
<1>. QED
  BY <1>1, Others DEF Reading, ReadingOf, Newer

-----------------------------------------------------------------------------
(* What follows for every execution. *)

\* A step keeps the invariant.
LEMMA NextIInv == IInv /\ [Next]_vars => IInv'
<1> SUFFICES ASSUME IInv, [Next]_vars PROVE IInv'
  OBVIOUS
<1>1. Shape /\ Ages /\ Owners /\ Progress /\ Reading
  BY DEF IInv
<1>2. ASSUME NEW p \in Party, send_message(p) PROVE IInv'
  <2>1. PICK m : Shape' /\ Sent(p, m)
    BY <1>1, <1>2, SendEffect
  <2>. QED
    BY <1>1, <2>1, SentAges, SentOwners, SentProgress, SentReading DEF IInv
<1>3. ASSUME NEW p \in Party, receive_message(p) PROVE IInv'
  <2>1. PICK m : Shape' /\ Received(p, m)
    BY <1>1, <1>3, ReceiveEffect
  <2>. QED
    BY <1>1, <2>1, ReceivedAges, ReceivedOwners, ReceivedProgress, ReceivedReading DEF IInv
<1>4. ASSUME NEW p \in Party, Lose(p) \/ ComeAgain(p) PROVE IInv'
  <2>1. PICK m : Shape' /\ (Lost(p, m) \/ Again(p, m))
    BY <1>1, <1>4, LoseEffect, AgainEffect
  <2>. QED
    BY <1>1, <2>1, StrayAges, StrayOwners, StrayProgress, StrayReading DEF IInv
<1>5. CASE UNCHANGED vars
  <2>1. \A p \in Party : Messages(p)' = Messages(p)
    BY <1>5 DEF vars, Messages
  <2>2. Shape' /\ Ages'
    BY <1>1, <1>5, <2>1 DEF vars, Shape, Ages, AgesOf
  <2>3. Owners'
    BY <1>1, <1>5, <2>1 DEF vars, Owners
  <2>4. Progress'
    <3>1. \A p \in Party : AllSent(p)' /\ gone'[p] = gone[p] /\ net'[p] = net[p]
      BY <1>1, <1>5, <2>1 DEF vars, Progress, AllSent
    <3>2. \A p \in Party : \A m \in gone[p] : Arrived(ratchet[Other(p)], m)'
      BY <1>1, <1>5 DEF vars, Progress, Arrived
    <3>3. \A p \in Party : \A k \in 1..Len(net[p]) : InLine(p, k)'
      BY <1>1, <1>5 DEF vars, Progress, InLine, Before
    <3>. QED
      BY <3>1, <3>2, <3>3 DEF Progress
  <2>5. Reading'
    BY <1>1, <1>5, <2>1, Others DEF vars, Reading, ReadingOf, Newer
  <2>. QED
    BY <2>2, <2>3, <2>4, <2>5 DEF IInv
<1>. QED
  BY <1>2, <1>3, <1>4, <1>5 DEF Next

\* The inductive invariant of the messenger (on_sending_message, on_receiving_message,
\* whatever becomes of the messages): every key pair has one sending chain, old keys do not
\* come back, what has arrived is behind the receiver and what is under way is in line.
THEOREM Invariance == Spec => []IInv
<1>. QED
  BY InitIInv, NextIInv, PTL DEF Spec

\* No two messages are encrypted with the same key (ENCRYPT in on_sending_message).
THEOREM KeysAreFresh == Spec => NoKeyTwice
<1>1. ASSUME IInv, [Next]_vars
      PROVE  [\A p \in Party : sent'[p] # sent[p] => MessageKey(ratchet[p].CKs) \notin used]_vars
  <2>1. Shape /\ Ages /\ Owners
    BY <1>1 DEF IInv
  <2>2. ASSUME NEW p \in Party, sent'[p] # sent[p], ratchet[p].CKs \in used PROVE FALSE
    <3>1. ASSUME NEW r \in Party, NEW m, Sent(r, m) PROVE FALSE
      <4>1. r = p /\ ratchet[p].DHr # nullptr
        <5>1. r = p
          BY <3>1, <2>2, Others DEF Sent
        <5>. QED
          BY <5>1, <3>1, <2>1 DEF Ages, Sent, Party
      <4>2. PICK o \in Party : \E x \in Messages(o) : Key(x) = ratchet[p].CKs
        BY <2>1, <2>2 DEF Ages
      <4>3. PICK x \in Messages(o) : Key(x) = ratchet[p].CKs
        BY <4>2
      <4>4. Chain(x) = ratchet[p].CKs.root /\ Key(x).step = ratchet[p].CKs.step
        BY <4>3 DEF Key, Chain
      <4>5. CASE o = p
        <5>1. Key(x).step < ratchet[p].CKs.step
          BY <4>4, <4>5, <2>1 DEF Owners, OwnsMessage
        <5>2. ratchet[p].CKs.step \in Nat
          BY <2>1 DEF Shape, IsRatchet, IsKey
        <5>. QED
          BY <5>1, <5>2, <4>4
      <4>6. CASE o = Other(p)
        BY <4>4, <4>6, <2>1, Others DEF Owners, OwnsMessage
      <4>. QED
        BY <4>5, <4>6, Others
    <3>2. CASE \E r \in Party : send_message(r)
      BY <3>1, <3>2, <2>1, SendEffect
    <3>3. CASE \E r \in Party : receive_message(r) \/ Lose(r) \/ ComeAgain(r)
      BY <3>3, <2>2 DEF receive_message, Lose, ComeAgain
    <3>4. CASE UNCHANGED vars
      BY <3>4, <2>2 DEF vars
    <3>. QED
      BY <3>2, <3>3, <3>4, <1>1 DEF Next
  <2>. QED
    BY <2>2 DEF MessageKey
<1>. QED
  BY <1>1, Invariance, PTL DEF Spec, NoKeyTwice

\* Forward security: no key that a party has left leads to the key of a message that has
\* arrived (KDF_CK and KDF_RK cannot be turned back), also when messages of other chains
\* get lost, come again, or cannot be read.
THEOREM ForwardSecure == Spec => []ForwardSecurity
<1>1. ASSUME IInv PROVE ForwardSecurity
  <2>1. Shape /\ Ages /\ Owners /\ Progress
    BY <1>1 DEF IInv
  <2> SUFFICES ASSUME NEW key \in used,
                      key \notin UNION {{net[p][k].tag.key : k \in DOMAIN net[p]} : p \in Party},
                      key.root \notin gaps,
                      NEW p \in Party, NEW ck \in Derivable(p),
                      ck.root = key.root, ck.step <= key.step
               PROVE  FALSE
    BY DEF ForwardSecurity
  <2>2. PICK r \in Party : \E m \in Messages(r) : Key(m) = key
    BY <2>1 DEF Ages
  <2>3. PICK m \in Messages(r) : Key(m) = key
    BY <2>2
  <2>4. m \in gone[r]
    BY <2>3 DEF Messages, Key
  <2>5. /\ Chain(m) = key.root /\ Key(m).step = key.step
        /\ IsChain(key.root) /\ key.step \in Nat
    BY <2>1, <2>3 DEF Chain, Key, Ages, Shape, IsMessage, IsKey
  <2>6. OwnsMessage(ratchet[r], ratchet[Other(r)], m) /\ Arrived(ratchet[Other(r)], m)
    BY <2>1, <2>4 DEF Owners, Progress
  <2>7. p = r \/ p = Other(r)
    BY Others
  <2>8. /\ ratchet[p].CKs.step \in Nat /\ ratchet[p].CKr.step \in Nat
    BY <2>1 DEF Shape, IsRatchet, IsKey
  <2>9. CASE ck = ratchet[p].CKs
    <3>1. CASE p = r
      BY <2>5, <2>6, <2>8, <2>9, <3>1 DEF OwnsMessage
    <3>2. CASE p = Other(r)
      BY <2>5, <2>6, <2>9, <3>2 DEF OwnsMessage
    <3>. QED
      BY <3>1, <3>2, <2>7
  <2>10. CASE ck = ratchet[p].CKr
    <3>1. CASE p = r
      BY <2>5, <2>6, <2>10, <3>1 DEF OwnsMessage
    <3>2. CASE p = Other(r)
      BY <2>5, <2>6, <2>8, <2>10, <3>2 DEF Arrived
    <3>. QED
      BY <3>1, <3>2, <2>7
  <2>11. CASE \E out : ck = [root |-> <<"CK", ratchet[p].RK, out>>, step |-> 0]
    <3>1. Chain(m)[2] = ratchet[p].RK
      BY <2>5, <2>11
    <3>2. CASE p = r
      BY <2>6, <3>1, <3>2 DEF OwnsMessage
    <3>3. CASE p = Other(r)
      BY <2>5, <2>6, <3>1, <3>3 DEF Arrived
    <3>. QED
      BY <3>2, <3>3, <2>7
  <2>. QED
    BY <2>9, <2>10, <2>11 DEF Derivable
<1>. QED
  BY <1>1, Invariance, PTL

-----------------------------------------------------------------------------
(* The chains of the two parties stay in step, if every number has the length that *)
(* key_to_uint8_t_array is right for.                                              *)

\* A number of the right length always becomes the same bytes.
LEMMA RightLength ==
  ASSUME Short = {}, NEW number
  PROVE  key_to_uint8_t_array(number) = {Bytes(number)}
BY DEF key_to_uint8_t_array, Bytes

\* The messages under way have been sent.
LEMMA UnderWay ==
  ASSUME Shape, NEW p \in Party
  PROVE  /\ Len(net[p]) \in Nat /\ DOMAIN net[p] = 1..Len(net[p])
         /\ \A k \in 1..Len(net[p]) : net[p][k] \in Messages(p) /\ Key(net[p][k]).step \in Nat
<1>1. net[p] \in Seq(Messages(p))
  BY DEF Shape
<1>2. \A m \in Messages(p) : Key(m).step \in Nat
  BY DEF Shape, IsMessage, IsKey
<1>. QED
  BY <1>1, <1>2

\* Initially Alice leads: Bob has not ratcheted yet.
LEMMA InitSync ==
  ASSUME Init, Short = {}
  PROVE  SyncInv
<1>1. PICK out \in DH(1, 2) :
        /\ ratchet = [p \in Party |->
             IF p = "Alice"
             THEN [DHs |-> 1, DHr |-> 2, RK |-> KDF_RK(<<"SK">>, out).RK,
                   CKs |-> KDF_RK(<<"SK">>, out).CK, CKr |-> Uninitialised(p)]
             ELSE [DHs |-> 2, DHr |-> nullptr, RK |-> <<"SK">>,
                   CKs |-> Uninitialised(p), CKr |-> Uninitialised(p)]]
  BY DEF Init
<1>2. out = Bytes({2, 1})
  <2>1. {1, 2} = {2, 1}
    OBVIOUS
  <2>. QED
    BY <2>1, RightLength DEF DH, diffie_hellman
<1>3. /\ ratchet["Alice"] = [DHs |-> 1, DHr |-> 2, RK |-> <<"RK", <<"SK">>, out>>,
           CKs |-> [root |-> <<"CK", <<"SK">>, out>>, step |-> 0],
           CKr |-> [root |-> <<"memory", "Alice">>, step |-> 0]]
      /\ ratchet["Bob"] = [DHs |-> 2, DHr |-> nullptr, RK |-> <<"SK">>,
           CKs |-> [root |-> <<"memory", "Bob">>, step |-> 0],
           CKr |-> [root |-> <<"memory", "Bob">>, step |-> 0]]
  BY <1>1 DEF Party, KDF_RK, Uninitialised
<1>4. /\ net = [p \in Party |-> <<>>] /\ gone = [p \in Party |-> {}]
      /\ sent = [p \in Party |-> 0] /\ failed = {} /\ ~astray
  BY DEF Init
<1>5. \A p \in Party : Messages(p) = {} /\ Len(net[p]) = 0 /\ sent[p] = 0
  BY <1>4 DEF Messages
<1>6. Party = {"Alice", "Bob"} /\ Other("Alice") = "Bob" /\ Other("Bob") = "Alice"
  BY DEF Party, Other
<1>7. /\ ratchet["Alice"].DHs = 1 /\ ratchet["Alice"].DHr = 2
      /\ ratchet["Alice"].RK = <<"RK", <<"SK">>, out>>
      /\ ratchet["Alice"].CKs.root = <<"CK", <<"SK">>, out>> /\ ratchet["Alice"].CKs.step = 0
      /\ ratchet["Alice"].CKr.step = 0
      /\ ratchet["Bob"].DHs = 2 /\ ratchet["Bob"].DHr = 0 /\ ratchet["Bob"].RK = <<"SK">>
      /\ ratchet["Bob"].CKs.step = 0 /\ ratchet["Bob"].CKr.step = 0
  BY <1>3 DEF nullptr
<1>8. Leads("Alice")
  <2>1. Bytes({ratchet["Bob"].DHs, ratchet["Alice"].DHs}) = out
    BY <1>2, <1>7
  <2>2. /\ Other("Alice") = "Bob" /\ Messages("Bob") = {} /\ sent["Bob"] = 0
    BY <1>5, <1>6
  <2>3. /\ ratchet["Alice"].RK = <<"RK", ratchet["Bob"].RK, out>>
        /\ ratchet["Alice"].CKs.root = <<"CK", ratchet["Bob"].RK, out>>
        /\ ratchet["Alice"].DHr = ratchet["Bob"].DHs /\ ratchet["Bob"].DHr # ratchet["Alice"].DHs
        /\ ratchet["Bob"].DHr = nullptr
        /\ ratchet["Alice"].CKr.step = 0 /\ ratchet["Bob"].CKs.step = 0
    BY <1>7 DEF nullptr
  <2>. QED
    BY <2>1, <2>2, <2>3 DEF Leads
<1>9. Queue("Alice", 0) /\ Queue("Bob", 0)
  BY <1>5, <1>6, <1>7 DEF Queue
<1>10. InStep
  BY <1>4, <1>5, <1>6, <1>8, <1>9 DEF InStep
<1>. QED
  BY <1>4, <1>5, <1>10 DEF SyncInv, AuthenticData

\* Sending keeps the chains in step.
LEMMA SentInStep ==
  ASSUME Shape, Ages, Owners, InStep, NEW p \in Party, NEW m, Sent(p, m)
  PROVE  InStep'
<1> DEFINE q == Other(p)
           s == ratchet[p]
           t == ratchet[q]
<1>0. /\ Len(net[p]) \in Nat /\ DOMAIN net[p] = 1..Len(net[p])
      /\ \A k \in 1..Len(net[p]) : net[p][k] \in Messages(p) /\ Key(net[p][k]).step \in Nat
  BY UnderWay
<1> PICK l \in Nat : l = Len(net[p])
  BY <1>0
<1>1. q \in Party /\ q # p /\ Other(q) = p /\ \A r \in Party : r = p \/ r = q
  BY Others
<1>2. s.DHr # nullptr
  BY DEF Ages, Sent, Party
<1>3. /\ Messages(p)' = Messages(p) \cup {m} /\ Messages(q)' = Messages(q)
      /\ ratchet'[p].DHs = s.DHs /\ ratchet'[p].DHr = s.DHr
      /\ ratchet'[p].RK = s.RK /\ ratchet'[p].CKs.root = s.CKs.root
      /\ ratchet'[p].CKr = s.CKr /\ ratchet'[q] = t
      /\ ratchet'[p].CKs.step = s.CKs.step + 1 /\ s.CKs.step \in Nat
      /\ sent'[q] = sent[q] /\ gaps' = gaps /\ failed' = failed
  BY DEF Sent, Added, Shape, IsRatchet, IsKey
<1>4. /\ Len(net'[p]) = l + 1 /\ \A k \in 1..l : net'[p][k] = net[p][k]
      /\ net'[p][l + 1] = m /\ net'[q] = net[q]
  BY DEF Sent, Added
<1>5. m.DH_pub_key = s.DHs /\ Chain(m) = s.CKs.root /\ Key(m).step = s.CKs.step
  BY DEF Sent, Key, Chain
<1> PICK i \in Nat : i = t.CKr.step
  BY <1>1 DEF Shape, IsRatchet, IsKey
<1> PICK c \in Nat : c = s.CKs.step
  BY DEF Shape, IsRatchet, IsKey
<1>6. ratchet'[p].CKs.step = c + 1 /\ Key(m).step = c
  BY <1>3, <1>5
<1>7. failed' \subseteq gaps'
  BY <1>3 DEF InStep
<1>8. \E r \in Party : Leads(r)'
  <2>1. Leads(p) => Leads(p)'
    BY <1>1, <1>3 DEF Leads
  <2>2. Leads(q) => Leads(q)'
    BY <1>1, <1>2, <1>3 DEF Leads
  <2>. QED
    BY <2>1, <2>2, <1>1 DEF InStep
<1>9. s.DHs = t.DHr => Chain(m) = t.CKr.root
  BY <1>1, <1>2, <1>5 DEF InStep, Leads
<1>10. \A r \in Party : \A x \in Messages(r)' :
         x.DH_pub_key = ratchet'[Other(r)].DHr => Chain(x) = ratchet'[Other(r)].CKr.root
  BY <1>1, <1>3, <1>5, <1>9 DEF InStep
<1>11. \E o \in 0..Len(net[q])' : Queue(q, o)'
  <2>1. PICK o \in 0..Len(net[q]) : Queue(q, o)
    BY <1>1 DEF InStep
  <2>2. Queue(q, o)'
    BY <2>1, <1>1, <1>3, <1>4 DEF Queue
  <2>. QED
    BY <2>2, <1>4
<1>12. \E o \in 0..Len(net[p])' : Queue(p, o)'
  <2>1. PICK o \in 0..l : Queue(p, o)
    BY DEF InStep
  <2>2. CASE s.DHs = t.DHr
    <3>1. o = l /\ (s.CKs.root \notin gaps => c = i + l)
      BY <2>1, <2>2 DEF Queue
    <3>2. ASSUME NEW k \in 1..l + 1
          PROVE  /\ net'[p][k].DH_pub_key = t.DHr
                 /\ Chain(net'[p][k]) \notin gaps => Key(net'[p][k]).step = i + (k - 1)
      <4>1. CASE k \in 1..l
        BY <2>1, <3>1, <4>1, <1>4 DEF Queue
      <4>2. CASE k = l + 1
        BY <2>2, <3>1, <4>2, <1>4, <1>5, <1>6
      <4>. QED
        BY <4>1, <4>2
    <3>3. s.CKs.root \notin gaps => c + 1 = i + (l + 1)
      BY <3>1, <1>6, SMTT(30)
    <3>4. Queue(p, l + 1)'
      BY <2>2, <3>2, <3>3, <1>1, <1>3, <1>4, <1>6, SMTT(30) DEF Queue
    <3>. QED
      BY <3>4, <1>4
  <2>3. CASE s.DHs # t.DHr
    <3>1. s.CKs.root \notin gaps => c = l - o
      BY <2>1, <2>3 DEF Queue
    <3>2. ASSUME NEW k \in 1..o
          PROVE  /\ net'[p][k].DH_pub_key = t.DHr
                 /\ Chain(net'[p][k]) \notin gaps => Key(net'[p][k]).step = i + (k - 1)
      <4>1. k \in 1..l
        OBVIOUS
      <4>. QED
        BY <2>1, <4>1, <1>4 DEF Queue
    <3>3. ASSUME NEW k \in o + 1..l + 1
          PROVE  /\ net'[p][k].DH_pub_key = s.DHs
                 /\ Chain(net'[p][k]) \notin gaps => Key(net'[p][k]).step = k - o - 1
      <4>1. CASE k \in o + 1..l
        BY <2>1, <4>1, <1>4 DEF Queue
      <4>2. CASE k = l + 1
        BY <3>1, <4>2, <1>4, <1>5, <1>6
      <4>. QED
        BY <4>1, <4>2
    <3>4. s.CKs.root \notin gaps => c + 1 = (l + 1) - o
      BY <3>1
    <3>5. Queue(p, o)'
      BY <2>3, <3>2, <3>3, <3>4, <1>1, <1>3, <1>4, <1>6 DEF Queue
    <3>. QED
      BY <3>5, <1>4
  <2>. QED
    BY <2>2, <2>3
<1>. QED
  BY <1>1, <1>7, <1>8, <1>10, <1>11, <1>12 DEF InStep

\* Receiving keeps the chains in step: a receiver that ratchets takes the lead, and enters
\* the chain of the message with the key it was encrypted with.
LEMMA ReceivedInStep ==
  ASSUME Shape, Ages, Owners, AuthenticData, InStep, Short = {},
         NEW p \in Party, NEW m, Received(p, m)
  PROVE  InStep'
<1> DEFINE q == Other(p)
           s == ratchet[p]
           t == ratchet[q]
           new == ratchet'[p]
<1>0. /\ Len(net[q]) \in Nat
      /\ \A k \in 1..Len(net[q]) : net[q][k] \in Messages(q) /\ Key(net[q][k]).step \in Nat
  BY UnderWay, Others
<1> PICK l \in Nat : l = Len(net[q])
  BY <1>0
<1> PICK i \in Nat : i = s.CKr.step
  BY DEF Shape, IsRatchet, IsKey
<1>1. q \in Party /\ q # p /\ Other(q) = p /\ \A r \in Party : r = p \/ r = q
  BY Others
<1>2. /\ \A r \in Party : Messages(r)' = Messages(r)
      /\ m \in Messages(q) /\ ratchet'[q] = t /\ keys \in Nat
      /\ sent' = sent /\ gaps' = gaps /\ net'[p] = net[p]
      /\ Len(net'[q]) = l - 1 /\ m = net[q][1] /\ l >= 1
      /\ \A k \in 1..l - 1 : net'[q][k] = net[q][k + 1]
  BY <1>1 DEF Received, Took, Shape
<1>3. /\ s.DHs \in 1..keys /\ t.DHs \in 1..keys /\ s.DHr \in 0..keys /\ t.DHr \in 0..keys
      /\ m.DH_pub_key \in 1..keys
  BY <1>1, <1>2 DEF Ages, AgesOf
<1>4. \A x \in Messages(q) : x.DH_pub_key = t.DHs <=> Chain(x) = t.CKs.root
  BY <1>1 DEF Owners, OwnsMessage
<1>5. /\ \A x \in Messages(q) : x.DH_pub_key = s.DHr => Chain(x) = s.CKr.root
      /\ \A x \in Messages(p) : x.DH_pub_key = t.DHr => Chain(x) = t.CKr.root
  BY <1>1 DEF InStep
<1>6. PICK o \in 0..l : Queue(q, o)
  BY <1>1 DEF InStep
<1>7. /\ t.DHs = s.DHr => o = l
      /\ \A k \in 1..o :
           /\ net[q][k].DH_pub_key = s.DHr
           /\ Chain(net[q][k]) \notin gaps => Key(net[q][k]).step = i + (k - 1)
      /\ \A k \in o + 1..l :
           /\ net[q][k].DH_pub_key = t.DHs
           /\ Chain(net[q][k]) \notin gaps => Key(net[q][k]).step = k - o - 1
      /\ t.CKs.root \notin gaps => t.CKs.step = IF t.DHs = s.DHr THEN i + l ELSE l - o
  BY <1>1, <1>6 DEF Queue
<1>8. PICK o2 \in 0..Len(net[p]) : Queue(p, o2)
  BY DEF InStep
<1>9. \A ad \in key_to_uint8_t_array({m.DH_pub_key}) : m.tag.ad = ad
  <2>1. m.tag.ad = Bytes({m.DH_pub_key})
    BY <1>1, <1>2 DEF AuthenticData
  <2>2. key_to_uint8_t_array({m.DH_pub_key}) = {Bytes({m.DH_pub_key})}
    BY RightLength
  <2>. QED
    BY <2>1, <2>2
<1>10. ASSUME Chain(m) \notin gaps => Key(m).root = new.CKr.root /\ Key(m).step = new.CKr.step - 1
       PROVE  failed' \subseteq gaps'
  <2>1. failed \subseteq gaps
    BY DEF InStep
  <2>2. CASE Reads(p, m)
    BY <2>1, <2>2, <1>2 DEF Reads
  <2>3. CASE Fails(p, m)
    <3>1. Chain(m) \in gaps
      BY <2>3, <1>9, <1>10 DEF Fails
    <3>. QED
      BY <2>1, <2>3, <3>1, <1>2 DEF Fails
  <2>. QED
    BY <2>2, <2>3 DEF Received
<1>11. ASSUME \E r \in Party : Leads(r)', failed' \subseteq gaps',
              \A x \in Messages(q) : x.DH_pub_key = new.DHr => Chain(x) = new.CKr.root,
              \E n \in 0..l - 1 : Queue(q, n)', \E n \in 0..Len(net[p]) : Queue(p, n)'
       PROVE  InStep'
  <2>1. \A r \in Party : \A x \in Messages(r)' :
          x.DH_pub_key = ratchet'[Other(r)].DHr => Chain(x) = ratchet'[Other(r)].CKr.root
    BY <1>1, <1>2, <1>5, <1>11
  <2>2. \A r \in Party : \E n \in 0..Len(net[r])' : Queue(r, n)'
    BY <1>1, <1>2, <1>11
  <2>. QED
    BY <1>11, <2>1, <2>2 DEF InStep
<1>12. CASE Stays(p, m)
  <2>1. /\ new.DHs = s.DHs /\ new.DHr = s.DHr /\ new.RK = s.RK /\ new.CKs = s.CKs
        /\ new.CKr.root = s.CKr.root /\ new.CKr.step = i + 1
        /\ m.DH_pub_key = s.DHr /\ s.DHr # nullptr
    BY <1>12 DEF Stays
  <2>2. o >= 1
    BY <2>1, <1>2, <1>7
  <2>3. failed' \subseteq gaps'
    <3>1. Chain(m) = s.CKr.root /\ (Chain(m) \notin gaps => Key(m).step = i)
      BY <2>1, <2>2, <1>2, <1>5, <1>7
    <3>. QED
      BY <3>1, <2>1, <1>10 DEF Key, Chain
  <2>4. \E r \in Party : Leads(r)'
    <3>1. Leads(p) => Leads(p)'
      BY <1>1, <1>2, <2>1 DEF Leads
    <3>2. Leads(q) => Leads(q)'
      BY <1>1, <1>2, <2>1 DEF Leads
    <3>. QED
      BY <3>1, <3>2, <1>1 DEF InStep
  <2>5. Queue(q, o - 1)'
    <3>1. ASSUME NEW k \in 1..o - 1
          PROVE  /\ net'[q][k].DH_pub_key = s.DHr
                 /\ Chain(net'[q][k]) \notin gaps => Key(net'[q][k]).step = (i + 1) + (k - 1)
      <4>1. k \in 1..l - 1 /\ k + 1 \in 1..o /\ i + ((k + 1) - 1) = (i + 1) + (k - 1)
        OBVIOUS
      <4>. QED
        BY <4>1, <1>2, <1>7
    <3>2. ASSUME NEW k \in (o - 1) + 1..l - 1
          PROVE  /\ net'[q][k].DH_pub_key = t.DHs
                 /\ Chain(net'[q][k]) \notin gaps => Key(net'[q][k]).step = k - (o - 1) - 1
      <4>1. k \in 1..l - 1 /\ k + 1 \in o + 1..l /\ (k + 1) - o - 1 = k - (o - 1) - 1
        BY <2>2
      <4>. QED
        BY <4>1, <1>2, <1>7
    <3>3. t.CKs.root \notin gaps =>
            t.CKs.step = IF t.DHs = s.DHr THEN (i + 1) + (l - 1) ELSE (l - 1) - (o - 1)
      <4>1. i + l = (i + 1) + (l - 1) /\ l - o = (l - 1) - (o - 1)
        BY SMTT(30)
      <4>. QED
        BY <4>1, <1>7
    <3>4. t.DHs = s.DHr => o - 1 = l - 1
      BY <1>7
    <3>. QED
      BY <1>1, <1>2, <2>1, <3>1, <3>2, <3>3, <3>4 DEF Queue
  <2>6. Queue(p, o2)'
    BY <1>1, <1>2, <1>8, <2>1 DEF Queue
  <2>. QED
    BY <1>5, <1>11, <2>1, <2>2, <2>3, <2>4, <2>5, <2>6
<1>13. ASSUME NEW out, NEW newOut, Enters(p, m, out, newOut) PROVE InStep'
  <2>1. o = 0
    BY <1>2, <1>3, <1>7, <1>13 DEF Enters, nullptr
  <2>2. m.DH_pub_key = t.DHs /\ t.DHs # s.DHr
    BY <2>1, <1>2, <1>7
  <2>3. /\ t.DHr = s.DHs /\ t.CKs.root = <<"CK", s.RK, Bytes({s.DHs, t.DHs})>>
        /\ t.RK = <<"RK", s.RK, Bytes({s.DHs, t.DHs})>>
    BY <2>2, <1>1 DEF InStep, Leads
  <2>4. out = Bytes({s.DHs, t.DHs}) /\ newOut = Bytes({keys + 1, t.DHs})
    BY <2>2, <1>13, RightLength DEF Enters, DH, diffie_hellman
  <2>5. /\ new.DHs = keys + 1 /\ new.DHr = t.DHs
        /\ new.CKr = [root |-> t.CKs.root, step |-> 1]
        /\ new.CKs = [root |-> <<"CK", t.RK, newOut>>, step |-> 0]
        /\ new.RK = <<"RK", t.RK, newOut>>
    BY <2>2, <2>3, <2>4, <1>13 DEF Enters
  <2>6. /\ new.CKr.root = t.CKs.root /\ new.CKr.step = 1
        /\ new.CKs.root = <<"CK", t.RK, newOut>> /\ new.CKs.step = 0
    BY <2>5
  <2>7. failed' \subseteq gaps'
    <3>1. Chain(m) = t.CKs.root /\ (Chain(m) \notin gaps => Key(m).step = 0)
      BY <2>1, <2>2, <1>2, <1>4, <1>7
    <3>. QED
      BY <3>1, <2>6, <1>10 DEF Key, Chain
  <2>8. Leads(p)'
    <3>1. newOut = Bytes({t.DHs, new.DHs})
      <4>1. {keys + 1, t.DHs} = {t.DHs, keys + 1}
        OBVIOUS
      <4>. QED
        BY <4>1, <2>4, <2>5
    <3>2. t.DHr # nullptr /\ t.DHr # new.DHs
      BY <2>3, <2>5, <1>2, <1>3 DEF nullptr
    <3>. QED
      BY <3>1, <3>2, <2>5, <2>6, <1>1, <1>2 DEF Leads
  <2>9. Queue(q, l - 1)'
    <3>1. ASSUME NEW k \in 1..l - 1
          PROVE  /\ net'[q][k].DH_pub_key = t.DHs
                 /\ Chain(net'[q][k]) \notin gaps => Key(net'[q][k]).step = 1 + (k - 1)
      <4>1. k + 1 \in o + 1..l /\ (k + 1) - o - 1 = 1 + (k - 1)
        BY <2>1
      <4>. QED
        BY <4>1, <1>2, <1>7
    <3>2. t.CKs.root \notin gaps => t.CKs.step = 1 + (l - 1)
      BY <2>1, <2>2, <1>7
    <3>3. \A k \in (l - 1) + 1..l - 1 : FALSE
      OBVIOUS
    <3>. QED
      BY <1>1, <1>2, <2>5, <2>6, <3>1, <3>2, <3>3 DEF Queue
  <2>10. Queue(p, o2)'
    <3>1. o2 \in Nat /\ Len(net'[p]) = o2
      BY <2>3, <1>2, <1>8, UnderWay DEF Queue
    <3>2. ASSUME NEW k \in o2 + 1..o2 PROVE FALSE
      BY <3>1, <3>2
    <3>3. new.DHs # t.DHr
      BY <2>5, <1>2, <1>3
    <3>4. \A k \in 1..o2 :
            /\ net'[p][k].DH_pub_key = t.DHr
            /\ Chain(net'[p][k]) \notin gaps => Key(net'[p][k]).step = t.CKr.step + (k - 1)
      BY <1>2, <1>8 DEF Queue
    <3>5. gaps' = gaps /\ ratchet'[Other(p)] = t
      BY <1>2
    <3>6. new.CKs.step = o2 - o2
      BY <2>6, <3>1
    <3>. QED
      BY <3>1, <3>2, <3>3, <3>4, <3>5, <3>6 DEF Queue
  <2>11. \A x \in Messages(q) : x.DH_pub_key = new.DHr => Chain(x) = new.CKr.root
    BY <2>5, <2>6, <1>4
  <2>12. l - 1 \in 0..l - 1
    BY <1>2
  <2>. QED
    BY <1>11, <2>7, <2>8, <2>9, <2>10, <2>11, <2>12
<1>. QED
  BY <1>12, <1>13 DEF Received

\* A lost message leaves a gap in its chain only.
LEMMA LostInStep ==
  ASSUME Shape, Ages, Owners, InStep, NEW p \in Party, NEW m, Lost(p, m)
  PROVE  InStep'
<1> DEFINE q == Other(p)
           s == ratchet[p]
           t == ratchet[q]
<1>0. /\ Len(net[p]) \in Nat
      /\ \A k \in 1..Len(net[p]) : net[p][k] \in Messages(p) /\ Key(net[p][k]).step \in Nat
  BY UnderWay
<1> PICK l \in Nat : l = Len(net[p])
  BY <1>0
<1> PICK i \in Nat : i = t.CKr.step
  BY Others DEF Shape, IsRatchet, IsKey
<1>1. q \in Party /\ q # p /\ Other(q) = p /\ \A r \in Party : r = p \/ r = q
  BY Others
<1>2. /\ \A r \in Party : Messages(r)' = Messages(r)
      /\ m \in Messages(p) /\ ratchet' = ratchet /\ sent' = sent /\ failed' = failed
      /\ gaps' = gaps \cup {Chain(m)} /\ net'[q] = net[q]
      /\ Len(net'[p]) = l - 1 /\ m = net[p][1] /\ l >= 1
      /\ \A k \in 1..l - 1 : net'[p][k] = net[p][k + 1]
  BY <1>1 DEF Lost, Took
<1>3. \A x \in Messages(p) : /\ x.DH_pub_key = s.DHs <=> Chain(x) = s.CKs.root
                             /\ x.DH_pub_key = t.DHr => Chain(x) = t.CKr.root
  BY DEF Owners, OwnsMessage, InStep
<1>4. PICK o \in 0..l : Queue(p, o)
  BY DEF InStep
<1>5. /\ s.DHs = t.DHr => o = l
      /\ \A k \in 1..o :
           /\ net[p][k].DH_pub_key = t.DHr
           /\ Chain(net[p][k]) \notin gaps => Key(net[p][k]).step = i + (k - 1)
      /\ \A k \in o + 1..l :
           /\ net[p][k].DH_pub_key = s.DHs
           /\ Chain(net[p][k]) \notin gaps => Key(net[p][k]).step = k - o - 1
      /\ s.CKs.root \notin gaps => s.CKs.step = IF s.DHs = t.DHr THEN i + l ELSE l - o
  BY <1>4 DEF Queue
<1>6. \E r \in Party : Leads(r)'
  BY <1>1, <1>2 DEF InStep, Leads
<1>7. \E n \in 0..Len(net'[q]) : Queue(q, n)'
  <2>1. PICK n \in 0..Len(net[q]) : Queue(q, n)
    BY <1>1 DEF InStep
  <2>2. Queue(q, n)'
    BY <2>1, <1>1, <1>2 DEF Queue
  <2>. QED
    BY <2>2, <1>2
<1>8. \E n \in 0..l - 1 : Queue(p, n)'
  <2>1. CASE o >= 1
    <3>1. m.DH_pub_key = t.DHr /\ Chain(m) = t.CKr.root
      BY <2>1, <1>2, <1>3, <1>5
    <3>2. ASSUME NEW k \in 1..o - 1
          PROVE  /\ net'[p][k].DH_pub_key = t.DHr /\ Chain(net'[p][k]) \in gaps'
      <4>1. k \in 1..l - 1 /\ k + 1 \in 1..o /\ k + 1 \in 1..l
        OBVIOUS
      <4>2. net'[p][k] = net[p][k + 1] /\ net[p][k + 1].DH_pub_key = t.DHr
        BY <4>1, <1>2, <1>5
      <4>3. Chain(net[p][k + 1]) = t.CKr.root
        BY <4>1, <4>2, <1>0, <1>3
      <4>. QED
        BY <3>1, <4>2, <4>3, <1>2
    <3>3. ASSUME NEW k \in (o - 1) + 1..l - 1
          PROVE  /\ net'[p][k].DH_pub_key = s.DHs
                 /\ Chain(net'[p][k]) \notin gaps' => Key(net'[p][k]).step = k - (o - 1) - 1
      <4>1. k \in 1..l - 1 /\ k + 1 \in o + 1..l /\ (k + 1) - o - 1 = k - (o - 1) - 1
        BY <2>1
      <4>. QED
        BY <4>1, <1>2, <1>5
    <3>4. s.CKs.root \notin gaps' => s.DHs # t.DHr /\ s.CKs.step = (l - 1) - (o - 1)
      <4>1. s.DHs = t.DHr => Chain(m) = s.CKs.root
        BY <3>1, <1>2, <1>3
      <4>2. l - o = (l - 1) - (o - 1)
        OBVIOUS
      <4>. QED
        BY <4>1, <4>2, <1>2, <1>5
    <3>5. s.DHs = t.DHr => o - 1 = l - 1
      BY <1>5
    <3>6. Queue(p, o - 1)'
      BY <3>2, <3>3, <3>4, <3>5, <1>1, <1>2 DEF Queue
    <3>7. o - 1 \in 0..l - 1
      BY <2>1
    <3>. QED
      BY <3>6, <3>7
  <2>2. CASE o = 0
    <3>1. s.DHs # t.DHr
      BY <2>2, <1>2, <1>5
    <3>2. s.CKs.root \in gaps'
      BY <2>2, <1>2, <1>3, <1>5
    <3>3. ASSUME NEW k \in 1..l - 1
          PROVE  /\ net'[p][k].DH_pub_key = s.DHs /\ Chain(net'[p][k]) \in gaps'
      <4>1. k + 1 \in o + 1..l /\ k + 1 \in 1..l
        BY <2>2
      <4>2. net'[p][k] = net[p][k + 1] /\ net[p][k + 1].DH_pub_key = s.DHs
        BY <4>1, <1>2, <1>5
      <4>3. Chain(net[p][k + 1]) = s.CKs.root
        BY <4>1, <4>2, <1>0, <1>3
      <4>. QED
        BY <3>2, <4>2, <4>3
    <3>4. Queue(p, 0)'
      BY <3>1, <3>2, <3>3, <1>1, <1>2 DEF Queue
    <3>5. 0 \in 0..l - 1
      BY <1>2
    <3>. QED
      BY <3>4, <3>5
  <2>. QED
    BY <2>1, <2>2
<1>9. /\ failed' \subseteq gaps'
      /\ \A r \in Party : \A x \in Messages(r)' :
           x.DH_pub_key = ratchet'[Other(r)].DHr => Chain(x) = ratchet'[Other(r)].CKr.root
  BY <1>2 DEF InStep
<1>. QED
  BY <1>1, <1>2, <1>6, <1>7, <1>8, <1>9 DEF InStep

\* A message that comes once more leaves the chains in step if it keeps their order.
LEMMA AgainInStep ==
  ASSUME Shape, Ages, Owners, InStep, NEW p \in Party, NEW m, Again(p, m), InOrder(p, m)
  PROVE  InStep'
<1> DEFINE q == Other(p)
           s == ratchet[p]
           t == ratchet[q]
<1>0. /\ Len(net[p]) \in Nat /\ DOMAIN net[p] = 1..Len(net[p])
      /\ \A k \in 1..Len(net[p]) : net[p][k] \in Messages(p) /\ Key(net[p][k]).step \in Nat
  BY UnderWay
<1> PICK l \in Nat : l = Len(net[p])
  BY <1>0
<1> PICK i \in Nat : i = t.CKr.step
  BY Others DEF Shape, IsRatchet, IsKey
<1>1. q \in Party /\ q # p /\ Other(q) = p /\ \A r \in Party : r = p \/ r = q
  BY Others
<1>2. /\ \A r \in Party : Messages(r)' = Messages(r)
      /\ m \in Messages(p) /\ ratchet' = ratchet /\ sent' = sent /\ failed' = failed
      /\ gaps' = gaps \cup {Chain(m)} /\ net'[q] = net[q]
      /\ Len(net'[p]) = l + 1 /\ net'[p][1] = m
      /\ \A k \in 2..l + 1 : net'[p][k] = net[p][k - 1]
  BY <1>1 DEF Again
<1>3. \A x \in Messages(p) : /\ x.DH_pub_key = s.DHs <=> Chain(x) = s.CKs.root
                             /\ x.DH_pub_key = t.DHr => Chain(x) = t.CKr.root
  BY DEF Owners, OwnsMessage, InStep
<1>4. PICK o \in 0..l : Queue(p, o)
  BY DEF InStep
<1>5. /\ s.DHs = t.DHr => o = l
      /\ \A k \in 1..o :
           /\ net[p][k].DH_pub_key = t.DHr
           /\ Chain(net[p][k]) \notin gaps => Key(net[p][k]).step = i + (k - 1)
      /\ \A k \in o + 1..l :
           /\ net[p][k].DH_pub_key = s.DHs
           /\ Chain(net[p][k]) \notin gaps => Key(net[p][k]).step = k - o - 1
      /\ s.CKs.root \notin gaps => s.CKs.step = IF s.DHs = t.DHr THEN i + l ELSE l - o
  BY <1>4 DEF Queue
<1>6. \E r \in Party : Leads(r)'
  BY <1>1, <1>2 DEF InStep, Leads
<1>7. \E n \in 0..Len(net'[q]) : Queue(q, n)'
  <2>1. PICK n \in 0..Len(net[q]) : Queue(q, n)
    BY <1>1 DEF InStep
  <2>2. Queue(q, n)'
    BY <2>1, <1>1, <1>2 DEF Queue
  <2>. QED
    BY <2>2, <1>2
<1>8. \E n \in 0..l + 1 : Queue(p, n)'
  <2>1. CASE m.DH_pub_key = t.DHr
    <3>1. Chain(m) = t.CKr.root
      BY <2>1, <1>2, <1>3
    <3>2. ASSUME NEW k \in 1..o + 1
          PROVE  /\ net'[p][k].DH_pub_key = t.DHr /\ Chain(net'[p][k]) \in gaps'
      <4>1. CASE k = 1
        BY <2>1, <4>1, <1>2
      <4>2. CASE k # 1
        <5>1. k \in 2..l + 1 /\ k - 1 \in 1..o /\ k - 1 \in 1..l
          BY <4>2
        <5>2. net'[p][k] = net[p][k - 1] /\ net[p][k - 1].DH_pub_key = t.DHr
          BY <5>1, <1>2, <1>5
        <5>3. Chain(net[p][k - 1]) = t.CKr.root
          BY <5>1, <5>2, <1>0, <1>3
        <5>. QED
          BY <3>1, <5>2, <5>3, <1>2
      <4>. QED
        BY <4>1, <4>2
    <3>3. ASSUME NEW k \in (o + 1) + 1..l + 1
          PROVE  /\ net'[p][k].DH_pub_key = s.DHs
                 /\ Chain(net'[p][k]) \notin gaps' => Key(net'[p][k]).step = k - (o + 1) - 1
      <4>1. k \in 2..l + 1 /\ k - 1 \in o + 1..l /\ (k - 1) - o - 1 = k - (o + 1) - 1
        OBVIOUS
      <4>. QED
        BY <4>1, <1>2, <1>5
    <3>4. s.CKs.root \notin gaps' => s.DHs # t.DHr /\ s.CKs.step = (l + 1) - (o + 1)
      <4>1. s.DHs = t.DHr => Chain(m) = s.CKs.root
        BY <2>1, <1>2, <1>3
      <4>2. l - o = (l + 1) - (o + 1)
        OBVIOUS
      <4>. QED
        BY <4>1, <4>2, <1>2, <1>5
    <3>5. s.DHs = t.DHr => o + 1 = l + 1
      BY <1>5
    <3>6. Queue(p, o + 1)'
      BY <3>2, <3>3, <3>4, <3>5, <1>1, <1>2 DEF Queue
    <3>. QED
      BY <3>6
  <2>2. CASE m.DH_pub_key # t.DHr
    <3>1. /\ m.DH_pub_key = s.DHs /\ s.DHs # t.DHr
          /\ \A k \in 1..l : net[p][k].DH_pub_key = s.DHs
      BY <2>2, <1>0 DEF InOrder
    <3>2. Chain(m) = s.CKs.root /\ s.CKs.root \in gaps'
      BY <3>1, <1>2, <1>3
    <3>3. ASSUME NEW k \in 1..l + 1
          PROVE  /\ net'[p][k].DH_pub_key = s.DHs /\ Chain(net'[p][k]) \in gaps'
      <4>1. CASE k = 1
        BY <3>1, <3>2, <4>1, <1>2
      <4>2. CASE k # 1
        <5>1. k \in 2..l + 1 /\ k - 1 \in 1..l
          BY <4>2
        <5>2. net'[p][k] = net[p][k - 1] /\ net[p][k - 1].DH_pub_key = s.DHs
          BY <3>1, <5>1, <1>2
        <5>3. Chain(net[p][k - 1]) = s.CKs.root
          BY <5>1, <5>2, <1>0, <1>3
        <5>. QED
          BY <3>2, <5>2, <5>3
      <4>. QED
        BY <4>1, <4>2
    <3>4. Queue(p, 0)'
      BY <3>1, <3>2, <3>3, <1>1, <1>2 DEF Queue
    <3>. QED
      BY <3>4
  <2>. QED
    BY <2>1, <2>2
<1>9. /\ failed' \subseteq gaps'
      /\ \A r \in Party : \A x \in Messages(r)' :
           x.DH_pub_key = ratchet'[Other(r)].DHr => Chain(x) = ratchet'[Other(r)].CKr.root
  BY <1>2 DEF InStep
<1>. QED
  BY <1>1, <1>2, <1>6, <1>7, <1>8, <1>9 DEF InStep

\* Every step keeps the chains in step.
LEMMA NextSync ==
  ASSUME IInv, SyncInv, Short = {}, [Next]_vars
  PROVE  SyncInv'
<1>1. Shape /\ Ages /\ Owners
  BY DEF IInv
<1>2. AuthenticData /\ (~astray => InStep) /\ (astray => gaps # {})
  BY DEF SyncInv
<1>0. ASSUME \A p \in Party : Messages(p)' = Messages(p) PROVE AuthenticData'
  BY <1>0, <1>2 DEF AuthenticData
<1>3. ASSUME NEW p \in Party, send_message(p) PROVE SyncInv'
  <2>1. PICK m : Sent(p, m)
    BY <1>1, <1>3, SendEffect
  <2>2. m.tag.ad = Bytes({m.DH_pub_key})
    <3>1. key_to_uint8_t_array({ratchet[p].DHs}) = {Bytes({ratchet[p].DHs})}
      BY RightLength
    <3>. QED
      BY <2>1, <3>1 DEF Sent
  <2>3. AuthenticData'
    <3>1. Messages(p)' = Messages(p) \cup {m} /\ Messages(Other(p))' = Messages(Other(p))
      BY <2>1 DEF Sent, Added
    <3>2. \A r \in Party : r = p \/ r = Other(p)
      BY Others
    <3>. QED
      BY <3>1, <3>2, <2>2, <1>2 DEF AuthenticData
  <2>. QED
    BY <2>1, <2>3, <1>1, <1>2, SentInStep DEF SyncInv, Sent
<1>4. ASSUME NEW p \in Party, receive_message(p) PROVE SyncInv'
  <2>1. PICK m : Received(p, m)
    BY <1>1, <1>4, ReceiveEffect
  <2>2. AuthenticData'
    <3>1. \A r \in Party : Messages(r)' = Messages(r)
      BY <2>1, Others DEF Received, Took
    <3>. QED
      BY <3>1, <1>0
  <2>3. astray' = astray /\ gaps' = gaps
    BY <2>1 DEF Received
  <2>. QED
    BY <2>1, <2>2, <2>3, <1>1, <1>2, ReceivedInStep DEF SyncInv
<1>5. ASSUME NEW p \in Party, Lose(p) PROVE SyncInv'
  <2>1. PICK m : Lost(p, m)
    BY <1>1, <1>5, LoseEffect
  <2>2. AuthenticData'
    <3>1. \A r \in Party : Messages(r)' = Messages(r)
      BY <2>1, Others DEF Lost, Took
    <3>. QED
      BY <3>1, <1>0
  <2>3. astray' = astray /\ gaps' # {}
    BY <2>1 DEF Lost
  <2>. QED
    BY <2>1, <2>2, <2>3, <1>1, <1>2, LostInStep DEF SyncInv
<1>6. ASSUME NEW p \in Party, ComeAgain(p) PROVE SyncInv'
  <2>1. PICK m : Again(p, m)
    BY <1>1, <1>6, AgainEffect
  <2>2. AuthenticData'
    <3>1. \A r \in Party : Messages(r)' = Messages(r)
      BY <2>1, Others DEF Again
    <3>. QED
      BY <3>1, <1>0
  <2>3. astray' = (astray \/ ~InOrder(p, m)) /\ gaps' # {}
    BY <2>1 DEF Again
  <2>. QED
    BY <2>1, <2>2, <2>3, <1>1, <1>2, AgainInStep DEF SyncInv
<1>7. CASE UNCHANGED vars
  <2>1. \A p \in Party : Messages(p)' = Messages(p)
    BY <1>7 DEF vars, Messages
  <2>2. InStep => InStep'
    <3>1. \A p \in Party : Leads(p) => Leads(p)'
      BY <1>7, <2>1, Others DEF vars, Leads
    <3>2. \A p \in Party : \A o : Queue(p, o) => Queue(p, o)'
      BY <1>7 DEF vars, Queue
    <3>. QED
      BY <1>7, <2>1, <3>1, <3>2 DEF vars, InStep
  <2>3. AuthenticData'
    BY <2>1, <1>0
  <2>. QED
    BY <1>2, <1>7, <2>2, <2>3 DEF vars, SyncInv
<1>. QED
  BY <1>3, <1>4, <1>5, <1>6, <1>7 DEF Next

\* If key_to_uint8_t_array is right for all numbers, the chains of the two parties stay in
\* step, until a message comes once more out of order. (A number that is short spoils
\* the check on one side only, so nothing of this holds if Short is not empty.)
THEOREM Synchronised == ASSUME Short = {} PROVE Spec => []SyncInv
<1>1. Init => IInv /\ SyncInv
  BY InitIInv, InitSync
<1>2. IInv /\ SyncInv /\ [Next]_vars => (IInv /\ SyncInv)'
  BY NextIInv, NextSync
<1>. QED
  BY <1>1, <1>2, PTL DEF Spec

\* What follows from SyncInv: a failed authentication (check_res of DECRYPT) has its reason
\* in a message of the same chain that was lost or came again.
THEOREM ChecksSucceed == ASSUME Short = {} PROVE Spec => []EveryCheckSucceeds
<1>1. SyncInv => EveryCheckSucceeds
  BY DEF SyncInv, InStep, EveryCheckSucceeds
<1>. QED
  BY <1>1, Synchronised, PTL

\* The bounds that the guards keep.
Bounds ==
  /\ repeats \in 0..MaxRepeats /\ astray \in BOOLEAN
  /\ \A p \in Party : sent[p] <= MaxSent /\ Len(net[p]) <= MaxInFlight

\* Every step keeps the bounds.
LEMMA NextBounds ==
  ASSUME IInv, Bounds, [Next]_vars
  PROVE  Bounds'
<1> USE MessengerAssumption
<1>1. Shape
  BY DEF IInv
<1>2. \A p \in Party : sent[p] \in Nat /\ Len(net[p]) \in Nat
  BY <1>1, UnderWay DEF Shape
<1>3. ASSUME NEW p \in Party, send_message(p) PROVE Bounds'
  <2>1. PICK m : Sent(p, m)
    BY <1>1, <1>3, SendEffect
  <2>2. sent[p] < MaxSent /\ Len(net[p]) < MaxInFlight
    BY <1>3 DEF send_message
  <2>. QED
    BY <2>1, <2>2, <1>2, Others DEF Bounds, Sent, Added
<1>4. ASSUME NEW p \in Party, receive_message(p) PROVE Bounds'
  <2>1. PICK m : Received(p, m)
    BY <1>1, <1>4, ReceiveEffect
  <2>. QED
    BY <2>1, <1>2, Others DEF Bounds, Received, Took
<1>5. ASSUME NEW p \in Party, Lose(p) PROVE Bounds'
  <2>1. PICK m : Lost(p, m)
    BY <1>1, <1>5, LoseEffect
  <2>. QED
    BY <2>1, <1>2, Others DEF Bounds, Lost, Took
<1>6. ASSUME NEW p \in Party, ComeAgain(p) PROVE Bounds'
  <2>1. PICK m : Again(p, m)
    BY <1>1, <1>6, AgainEffect
  <2>. QED
    BY <2>1, <1>2, Others DEF Bounds, Again
<1>7. CASE UNCHANGED vars
  BY <1>7 DEF vars, Bounds
<1>. QED
  BY <1>3, <1>4, <1>5, <1>6, <1>7 DEF Next

\* Types: key pairs exist, message numbers have been sent, and failures and gaps are of
\* chains that have had messages.
THEOREM Types == Spec => []TypeOK
<1>1. Init => Bounds
  <2> SUFFICES ASSUME Init PROVE Bounds
    OBVIOUS
  <2>1. \A p \in Party : sent[p] = 0 /\ Len(net[p]) = 0
    BY DEF Init
  <2>2. repeats \in 0..MaxRepeats
    BY MessengerAssumption DEF Init
  <2>3. astray \in BOOLEAN
    BY DEF Init
  <2>4. \A p \in Party : sent[p] <= MaxSent /\ Len(net[p]) <= MaxInFlight
    BY <2>1, MessengerAssumption
  <2>. QED
    BY <2>2, <2>3, <2>4 DEF Bounds
<1>2. IInv /\ Bounds /\ [Next]_vars => Bounds'
  BY NextBounds
<1>3. IInv /\ Bounds => TypeOK
  <2> SUFFICES ASSUME IInv, Bounds PROVE TypeOK
    OBVIOUS
  <2>1. Shape /\ Ages /\ Reading
    BY DEF IInv
  <2>2. sent \in [Party -> 0..MaxSent]
    BY <2>1, MessengerAssumption DEF Shape, Bounds
  <2>3. ASSUME NEW p \in Party
        PROVE  /\ ratchet[p].DHs \in 1..keys /\ ratchet[p].DHr \in 0..keys
               /\ ratchet[p].CKs.step \in Nat /\ ratchet[p].CKr.step \in Nat
               /\ Len(net[p]) <= MaxInFlight
               /\ \A k \in DOMAIN net[p] : net[p][k].text \in 1..sent[p]
               /\ plaintexts[p] \in Seq(1..MaxSent)
    <3>1. ratchet[p].DHs \in 1..keys /\ ratchet[p].DHr \in 0..keys
      BY <2>1 DEF Ages, AgesOf
    <3>2. ratchet[p].CKs.step \in Nat /\ ratchet[p].CKr.step \in Nat
      BY <2>1 DEF Shape, IsRatchet, IsKey
    <3>3. \A k \in DOMAIN net[p] : net[p][k].text \in 1..sent[p]
      BY <2>1, UnderWay DEF Ages
    <3>4. plaintexts[p] \in Seq(1..MaxSent)
      <4>1. plaintexts[p] \in Seq(Nat)
        BY <2>1 DEF Shape
      <4>2. \A k \in DOMAIN plaintexts[p] : plaintexts[p][k] \in 1..sent[Other(p)]
        BY <2>1, Others DEF Reading, ReadingOf
      <4>3. sent[Other(p)] \in 0..MaxSent
        BY <2>2, Others
      <4>4. \A k \in 1..Len(plaintexts[p]) : plaintexts[p][k] \in 1..MaxSent
        BY <4>1, <4>2, <4>3, MessengerAssumption
      <4>5. PICK n \in Nat : plaintexts[p] \in [1..n -> Nat] /\ Len(plaintexts[p]) = n
        BY <4>1
      <4>6. plaintexts[p] \in [1..n -> 1..MaxSent]
        BY <4>4, <4>5
      <4>. QED
        BY <4>6, SeqDef
    <3>. QED
      BY <3>1, <3>2, <3>3, <3>4 DEF Bounds
  <2>4. failed \cup gaps \subseteq {key.root : key \in used}
    BY <2>1 DEF Ages
  <2>. QED
    BY <2>1, <2>2, <2>3, <2>4 DEF Shape, Bounds, TypeOK
<1>. QED
  BY <1>1, <1>2, <1>3, Invariance, PTL DEF Spec

\* The chains of the two parties belong together (CKr of the one, CKs of the other, after
\* on_receiving_message), behind each other by what is under way.
THEOREM ChainsBelongTogether == ASSUME Short = {} PROVE Spec => []ChainsMatch
<1>1. IInv /\ SyncInv /\ TypeOK => ChainsMatch
  <2> SUFFICES ASSUME IInv, SyncInv, ~astray, NEW p \in Party,
                      ratchet[Other(p)].DHr = ratchet[p].DHs, sent[p] > 0
               PROVE  LET q == Other(p)
                          chain == ratchet[p].CKs.root
                      IN  /\ ratchet[q].CKr.root = chain
                          /\ \A k \in DOMAIN net[p] : net[p][k].tag.key.root = chain
                          /\ chain \notin gaps =>
                               ratchet[q].CKr.step + Len(net[p]) = ratchet[p].CKs.step
    BY DEF ChainsMatch
  <2> DEFINE q == Other(p)
             s == ratchet[p]
             t == ratchet[q]
  <2>1. Shape /\ Owners /\ InStep
    BY DEF IInv, SyncInv
  <2>2. q \in Party /\ Other(q) = p /\ \A r \in Party : r = p \/ r = q
    BY Others
  <2>3. Leads(q)
    BY <2>1, <2>2 DEF InStep, Leads
  <2>4. s.DHr # nullptr
    BY <2>2, <2>3 DEF Leads
  <2>5. t.CKr.root = s.CKs.root
    BY <2>2, <2>3, <2>4 DEF Leads
  <2>6. PICK o \in 0..Len(net[p]) : Queue(p, o)
    BY <2>1 DEF InStep
  <2>7. o = Len(net[p]) /\ (s.CKs.root \notin gaps => s.CKs.step = t.CKr.step + Len(net[p]))
    BY <2>6 DEF Queue
  <2>8. ASSUME NEW k \in DOMAIN net[p] PROVE net[p][k].tag.key.root = s.CKs.root
    <3>1. k \in 1..Len(net[p]) /\ net[p][k] \in Messages(p)
      BY <2>1, UnderWay
    <3>2. net[p][k].DH_pub_key = s.DHs
      BY <3>1, <2>6, <2>7 DEF Queue
    <3>. QED
      BY <3>1, <3>2, <2>1 DEF Owners, OwnsMessage, Chain
  <2>. QED
    BY <2>5, <2>7, <2>8
<1>. QED
  BY <1>1, Invariance, Synchronised, Types, PTL

-----------------------------------------------------------------------------
(* Messenger implements SecureChannel. *)

\* The texts of the messages of a queue.
TextsOf(queue) == [k \in DOMAIN queue |-> queue[k].text]

LEMMA TextsAreSeq ==
  ASSUME NEW S, NEW queue \in Seq(S), \A m \in S : m.text \in Nat
  PROVE  /\ TextsOf(queue) \in Seq(Nat) /\ Len(TextsOf(queue)) = Len(queue)
         /\ \A k \in 1..Len(queue) : TextsOf(queue)[k] = queue[k].text
<1>1. DOMAIN queue = 1..Len(queue) /\ Len(queue) \in Nat
  OBVIOUS
<1>2. \A k \in 1..Len(queue) : queue[k].text \in Nat
  BY ElementOfSeq
<1>3. TextsOf(queue) \in [1..Len(queue) -> Nat]
  BY <1>1, <1>2 DEF TextsOf
<1>4. TextsOf(queue) \in Seq(Nat)
  BY <1>1, <1>3, SeqDef
<1>5. Len(TextsOf(queue)) = Len(queue)
  BY <1>1, <1>3, <1>4
<1>. QED
  BY <1>1, <1>4, <1>5 DEF TextsOf

\* A message at the end of a queue.
LEMMA TextsOfAppend ==
  ASSUME NEW S, NEW before \in Seq(S), NEW after \in Seq(S), NEW m \in S,
         \A x \in S : x.text \in Nat,
         Len(after) = Len(before) + 1, after[Len(before) + 1] = m,
         \A k \in 1..Len(before) : after[k] = before[k]
  PROVE  TextsOf(after) = Append(TextsOf(before), m.text)
<1>1. /\ TextsOf(before) \in Seq(Nat) /\ Len(TextsOf(before)) = Len(before)
      /\ \A k \in 1..Len(before) : TextsOf(before)[k] = before[k].text
      /\ TextsOf(after) \in Seq(Nat) /\ Len(TextsOf(after)) = Len(before) + 1
      /\ \A k \in 1..Len(before) + 1 : TextsOf(after)[k] = after[k].text
  BY TextsAreSeq
<1> DEFINE longer == Append(TextsOf(before), m.text)
<1>2. /\ longer \in Seq(Nat) /\ Len(longer) = Len(before) + 1
      /\ \A k \in 1..Len(before) : longer[k] = before[k].text
      /\ longer[Len(before) + 1] = m.text
  BY <1>1, AppendProperties
<1>3. Len(before) \in Nat
  OBVIOUS
<1> HIDE DEF longer
<1>4. ASSUME NEW k \in 1..Len(before) + 1 PROVE longer[k] = TextsOf(after)[k]
  <2>1. TextsOf(after)[k] = after[k].text
    BY <1>1
  <2>2. CASE k = Len(before) + 1
    BY <2>1, <2>2, <1>2
  <2>3. CASE k # Len(before) + 1
    <3>1. k \in 1..Len(before)
      BY <2>3, <1>3
    <3>. QED
      BY <2>1, <3>1, <1>2
  <2>. QED
    BY <2>2, <2>3
<1>. QED
  BY <1>1, <1>2, <1>4, SeqEqual DEF longer

\* The first message of a queue that is taken.
LEMMA TextsOfTail ==
  ASSUME NEW S, NEW before \in Seq(S), NEW after \in Seq(S),
         \A x \in S : x.text \in Nat,
         Len(before) >= 1, Len(after) = Len(before) - 1,
         \A k \in 1..Len(before) - 1 : after[k] = before[k + 1]
  PROVE  /\ TextsOf(before) # <<>> /\ Head(TextsOf(before)) = before[1].text
         /\ TextsOf(after) = Tail(TextsOf(before))
<1>1. /\ TextsOf(before) \in Seq(Nat) /\ Len(TextsOf(before)) = Len(before)
      /\ \A k \in 1..Len(before) : TextsOf(before)[k] = before[k].text
      /\ TextsOf(after) \in Seq(Nat) /\ Len(TextsOf(after)) = Len(before) - 1
      /\ \A k \in 1..Len(before) - 1 : TextsOf(after)[k] = after[k].text
  BY TextsAreSeq
<1>2. Len(before) \in Nat
  OBVIOUS
<1>3. TextsOf(before) # <<>> /\ Head(TextsOf(before)) = before[1].text
  BY <1>1, <1>2
<1> DEFINE shorter == Tail(TextsOf(before))
<1>4. /\ shorter \in Seq(Nat) /\ Len(shorter) = Len(before) - 1
      /\ \A k \in 1..Len(before) - 1 : shorter[k] = TextsOf(before)[k + 1]
  BY <1>1, <1>3, HeadTailProperties
<1> HIDE DEF shorter
<1>5. ASSUME NEW k \in 1..Len(before) - 1 PROVE shorter[k] = TextsOf(after)[k]
  <2>1. k + 1 \in 1..Len(before)
    BY <1>2
  <2>2. TextsOf(after)[k] = after[k].text /\ TextsOf(before)[k + 1] = before[k + 1].text
    BY <1>1, <2>1
  <2>. QED
    BY <2>2, <1>4
<1>6. shorter = TextsOf(after)
  BY <1>1, <1>4, <1>5, SeqEqual
<1>. QED
  BY <1>3, <1>6 DEF shorter

\* A message that comes to the front of a queue.
LEMMA TextsOfFront ==
  ASSUME NEW S, NEW before \in Seq(S), NEW after \in Seq(S), NEW m \in S,
         \A x \in S : x.text \in Nat,
         Len(after) = Len(before) + 1, after[1] = m,
         \A k \in 2..Len(before) + 1 : after[k] = before[k - 1]
  PROVE  TextsOf(after) = <<m.text>> \o TextsOf(before)
<1>1. /\ TextsOf(before) \in Seq(Nat) /\ Len(TextsOf(before)) = Len(before)
      /\ \A k \in 1..Len(before) : TextsOf(before)[k] = before[k].text
      /\ TextsOf(after) \in Seq(Nat) /\ Len(TextsOf(after)) = Len(before) + 1
      /\ \A k \in 1..Len(before) + 1 : TextsOf(after)[k] = after[k].text
  BY TextsAreSeq
<1>2. /\ Len(before) \in Nat
      /\ <<m.text>> \in Seq(Nat) /\ Len(<<m.text>>) = 1 /\ <<m.text>>[1] = m.text
  OBVIOUS
<1> DEFINE longer == <<m.text>> \o TextsOf(before)
<1>3. /\ longer \in Seq(Nat) /\ Len(longer) = 1 + Len(before)
      /\ \A k \in 1..1 + Len(before) :
           longer[k] = IF k <= 1 THEN <<m.text>>[k] ELSE TextsOf(before)[k - 1]
  BY <1>1, <1>2, ConcatProperties
<1> HIDE DEF longer
<1>4. ASSUME NEW k \in 1..Len(before) + 1 PROVE longer[k] = TextsOf(after)[k]
  <2>1. CASE k = 1
    BY <2>1, <1>1, <1>2, <1>3
  <2>2. CASE k # 1
    <3>1. k \in 2..Len(before) + 1 /\ k - 1 \in 1..Len(before)
      BY <2>2, <1>2
    <3>2. longer[k] = TextsOf(before)[k - 1]
      BY <2>2, <1>2, <1>3
    <3>3. TextsOf(after)[k] = after[k].text /\ TextsOf(before)[k - 1] = before[k - 1].text
      BY <3>1, <1>1
    <3>. QED
      BY <3>1, <3>2, <3>3
  <2>. QED
    BY <2>1, <2>2
<1>5. Len(longer) = Len(TextsOf(after))
  BY <1>1, <1>2, <1>3
<1>. QED
  BY <1>1, <1>3, <1>4, <1>5, SeqEqual DEF longer

\* The queues of the channel.
Queues == [p \in Party |-> TextsOf(net[p])]

\* Only the queue of p changes.
LEMMA OneQueue ==
  ASSUME NEW p \in Party, net'[Other(p)] = net[Other(p)]
  PROVE  Queues' = [Queues EXCEPT ![p] = TextsOf(net'[p])]
BY Others DEF Queues

\* Sending is sending.
LEMMA SendStep ==
  ASSUME IInv, NEW p \in Party, send_message(p)
  PROVE  Channel!Send(p)
<1>1. Shape
  BY DEF IInv
<1>2. PICK m : Shape' /\ Sent(p, m)
  BY <1>1, SendEffect
<1>3. /\ \A x \in Messages(p)' : x.text \in Nat
      /\ net'[p] \in Seq(Messages(p)') /\ net[p] \in Seq(Messages(p)')
      /\ m \in Messages(p)' /\ m.text = sent[p] + 1
  BY <1>1, <1>2, SeqMonotonic DEF Shape, IsMessage, Sent, Added
<1>4. TextsOf(net'[p]) = Append(TextsOf(net[p]), m.text)
  <2>1. /\ Len(net'[p]) = Len(net[p]) + 1 /\ net'[p][Len(net[p]) + 1] = m
        /\ \A k \in 1..Len(net[p]) : net'[p][k] = net[p][k]
    BY <1>2 DEF Sent, Added
  <2>. QED
    BY <1>3, <2>1, TextsOfAppend
<1>5. Queues' = [Queues EXCEPT ![p] = Append(@, sent[p] + 1)]
  <2>1. net'[Other(p)] = net[Other(p)]
    BY <1>2 DEF Sent, Added
  <2>2. Queues[p] = TextsOf(net[p])
    BY DEF Queues
  <2>. QED
    BY <1>3, <1>4, <2>1, <2>2, OneQueue
<1>6. sent' = [sent EXCEPT ![p] = @ + 1] /\ plaintexts' = plaintexts /\ gaps' = gaps
  BY DEF send_message
<1>. QED
  BY <1>5, <1>6 DEF Channel!Send, Queues, TextsOf

\* Taking a message from its queue is taking one.
LEMMA TakeStep ==
  ASSUME Shape, Shape', NEW p \in Party, NEW m, Took(p, m), sent' = sent
  PROVE  Channel!TakeOldest(p) /\ Head(Queues[p]) = m.text
<1>1. /\ \A x \in Messages(p) : x.text \in Nat
      /\ net'[p] \in Seq(Messages(p)) /\ net[p] \in Seq(Messages(p))
  BY DEF Shape, IsMessage, Took
<1>2. /\ Len(net[p]) >= 1 /\ Len(net'[p]) = Len(net[p]) - 1 /\ net[p][1] = m
      /\ \A k \in 1..Len(net[p]) - 1 : net'[p][k] = net[p][k + 1]
      /\ net'[Other(p)] = net[Other(p)]
  BY DEF Took
<1>3. /\ TextsOf(net[p]) # <<>> /\ Head(TextsOf(net[p])) = m.text
      /\ TextsOf(net'[p]) = Tail(TextsOf(net[p]))
  BY <1>1, <1>2, TextsOfTail
<1>4. Queues[p] = TextsOf(net[p])
  BY DEF Queues
<1>5. Queues' = [Queues EXCEPT ![p] = Tail(@)]
  BY <1>2, <1>3, <1>4, OneQueue
<1>6. Queues[p] # <<>> /\ Queues' = [Queues EXCEPT ![p] = Tail(@)] /\ sent' = sent
  BY <1>3, <1>4, <1>5
<1>7. Channel!TakeOldest(p)
  BY <1>6 DEF Channel!TakeOldest, Queues, TextsOf
<1>. QED
  BY <1>3, <1>4, <1>7

\* Receiving is reading, in the order of sending; or a message is spoilt, but only after one
\* was lost or came again.
LEMMA ReceiveStep ==
  ASSUME IInv, SyncInv, SyncInv', NEW p \in Party, receive_message(p)
  PROVE  Channel!Read(Other(p), p) \/ Channel!Spoil(Other(p))
<1> DEFINE q == Other(p)
<1>1. Shape /\ Reading
  BY DEF IInv
<1>2. PICK m : Shape' /\ Received(p, m)
  BY <1>1, ReceiveEffect
<1>3. q \in Party /\ q # p /\ Other(q) = p
  BY Others
<1>4. Took(q, m) /\ gaps' = gaps /\ sent' = sent /\ m \in Messages(q)
  BY <1>2 DEF Received, Took
<1>5. Channel!TakeOldest(q) /\ Head(Queues[q]) = m.text
  BY <1>1, <1>2, <1>3, <1>4, TakeStep
<1>6. CASE Reads(p, m)
  <2>1. Newer(p, m)
    <3>1. ReadingOf(q) /\ Key(m).step \in Nat /\ ratchet[p].CKr.step \in Nat
      BY <1>1, <1>3, <1>4 DEF Reading, Shape, IsMessage, IsRatchet, IsKey
    <3>2. Chain(m) = ratchet'[p].CKr.root /\ Key(m).step = ratchet'[p].CKr.step - 1
      BY <1>6 DEF Reads, Chain, Key
    <3>3. CASE Stays(p, m)
      <4>1. Chain(m) = ratchet[p].CKr.root /\ Key(m).step = ratchet[p].CKr.step
        BY <3>1, <3>2, <3>3 DEF Stays
      <4>. QED
        BY <3>1, <4>1, <1>3, <1>4 DEF ReadingOf
    <3>4. ASSUME NEW out, NEW newOut, Enters(p, m, out, newOut) PROVE Newer(p, m)
      <4>1. Chain(m) = <<"CK", ratchet[p].RK, out>>
        BY <3>2, <3>4 DEF Enters
      <4>2. Chain(m)[2] = ratchet[p].RK
        BY <4>1
      <4>. QED
        BY <3>1, <4>2, <1>3, <1>4 DEF ReadingOf
    <3>. QED
      BY <3>3, <3>4, <1>2 DEF Received
  <2>2. \A k \in DOMAIN plaintexts[p] : plaintexts[p][k] < Head(Queues[q])
    BY <2>1, <1>5 DEF Newer
  <2>3. plaintexts' = [plaintexts EXCEPT ![p] = Append(@, Head(Queues[q]))]
    <3>1. /\ plaintexts'[p] = Append(plaintexts[p], m.text) /\ plaintexts'[q] = plaintexts[q]
      BY <1>6 DEF Reads
    <3>2. plaintexts \in [Party -> Seq(Nat)] /\ plaintexts' \in [Party -> Seq(Nat)]
      BY <1>1, <1>2 DEF Shape
    <3>3. plaintexts' = [plaintexts EXCEPT ![p] = Append(plaintexts[p], m.text)]
      BY <3>1, <3>2, Others
    <3>. QED
      BY <3>3, <1>5
  <2>. QED
    BY <2>2, <2>3, <1>3, <1>4, <1>5 DEF Channel!Read, Queues, TextsOf
<1>7. CASE Fails(p, m)
  <2>1. failed' = failed \cup {Chain(m)} /\ plaintexts' = plaintexts
    BY <1>7 DEF Fails
  <2>2. gaps # {}
    <3>1. CASE astray'
      BY <3>1, <1>4 DEF SyncInv
    <3>2. CASE ~astray'
      <4>1. failed' \subseteq gaps'
        BY <3>2 DEF SyncInv, InStep
      <4>. QED
        BY <4>1, <2>1, <1>4
    <3>. QED
      BY <3>1, <3>2
  <2>. QED
    BY <2>1, <2>2, <1>4, <1>5 DEF Channel!Spoil
<1>. QED
  BY <1>2, <1>6, <1>7 DEF Received

\* Losing a message is losing one.
LEMMA LoseStep ==
  ASSUME IInv, NEW p \in Party, Lose(p)
  PROVE  Channel!Lose(p)
<1>1. Shape
  BY DEF IInv
<1>2. PICK m : Shape' /\ Lost(p, m)
  BY <1>1, LoseEffect
<1>3. Took(p, m) /\ sent' = sent /\ plaintexts' = plaintexts /\ gaps' # {}
  BY <1>2 DEF Lost
<1>4. Channel!TakeOldest(p)
  BY <1>1, <1>2, <1>3, TakeStep
<1>. QED
  BY <1>3, <1>4 DEF Channel!Lose

\* A message that comes once more is one that was sent.
LEMMA AgainStep ==
  ASSUME IInv, NEW p \in Party, ComeAgain(p)
  PROVE  \E number \in 1..sent[p] : Channel!ComeAgain(p, number)
<1>1. Shape /\ Ages
  BY DEF IInv
<1>2. PICK m : Shape' /\ Again(p, m)
  BY <1>1, AgainEffect
<1>3. /\ \A x \in Messages(p) : x.text \in Nat
      /\ net'[p] \in Seq(Messages(p)) /\ net[p] \in Seq(Messages(p))
      /\ m \in Messages(p) /\ m.text \in 1..sent[p]
  BY <1>1, <1>2 DEF Shape, IsMessage, Ages, Again
<1>4. /\ Len(net'[p]) = Len(net[p]) + 1 /\ net'[p][1] = m
      /\ \A k \in 2..Len(net[p]) + 1 : net'[p][k] = net[p][k - 1]
      /\ net'[Other(p)] = net[Other(p)]
      /\ sent' = sent /\ plaintexts' = plaintexts /\ gaps' # {}
  BY <1>2 DEF Again
<1>5. TextsOf(net'[p]) = <<m.text>> \o TextsOf(net[p])
  BY <1>3, <1>4, TextsOfFront
<1>6. Queues' = [Queues EXCEPT ![p] = <<m.text>> \o @]
  <2>1. Queues[p] = TextsOf(net[p])
    BY DEF Queues
  <2>. QED
    BY <1>4, <1>5, <2>1, OneQueue
<1>7. Channel!ComeAgain(p, m.text)
  BY <1>4, <1>6 DEF Channel!ComeAgain, Queues, TextsOf
<1>. QED
  BY <1>3, <1>7

\* The two messengers (send_message, receive_message) are a channel on which messages are
\* read once and in the order of sending, broken only by those that get lost or come again.
THEOREM MessengerImplementsChannel == ASSUME Short = {} PROVE Spec => ImplementsChannel
<1>1. Init => Channel!Init
  <2> SUFFICES ASSUME Init PROVE Channel!Init
    OBVIOUS
  <2>1. /\ sent = [p \in Party |-> 0] /\ plaintexts = [p \in Party |-> <<>>] /\ gaps = {}
        /\ net = [p \in Party |-> <<>>]
    BY DEF Init
  <2>2. \A p \in Party : [k \in DOMAIN net[p] |-> net[p][k].text] = <<>>
    BY <2>1
  <2>3. [p \in Party |-> [k \in DOMAIN net[p] |-> net[p][k].text]] = [p \in Party |-> <<>>]
    BY <2>2
  <2>. QED
    BY <2>1, <2>3 DEF Channel!Init
<1>2. IInv /\ SyncInv /\ SyncInv' /\ [Next]_vars => [Channel!Next]_Channel!vars
  <2> SUFFICES ASSUME IInv, SyncInv, SyncInv', [Next]_vars PROVE [Channel!Next]_Channel!vars
    OBVIOUS
  <2>1. ASSUME NEW p \in Party, send_message(p) PROVE Channel!Next
    BY <2>1, SendStep DEF Channel!Next
  <2>2. ASSUME NEW p \in Party, receive_message(p) PROVE Channel!Next
    BY <2>2, ReceiveStep, Others DEF Channel!Next
  <2>3. ASSUME NEW p \in Party, Lose(p) PROVE Channel!Next
    BY <2>3, LoseStep DEF Channel!Next
  <2>4. ASSUME NEW p \in Party, ComeAgain(p) PROVE Channel!Next
    BY <2>4, AgainStep DEF Channel!Next
  <2>5. CASE UNCHANGED vars
    BY <2>5 DEF vars, Channel!vars
  <2>. QED
    BY <2>1, <2>2, <2>3, <2>4, <2>5 DEF Next
<1>. QED
  BY <1>1, <1>2, Invariance, Synchronised, PTL DEF Spec, ImplementsChannel, Channel!Spec

-----------------------------------------------------------------------------
(* Recovery from a break-in. *)

\* The secret and public keys that a root key or the root of a chain was last made from.
Number(term) == term[3].number

\* The terms of a party are made from its present key pair and the last public key that it
\* has seen, those of its receiving chain from another pair of its own.
PairsOf(p) ==
  LET s == ratchet[p]
      t == ratchet[Other(p)]
  IN  /\ s.DHs # s.DHr /\ s.DHr <= t.DHs
      /\ s.DHr # nullptr => /\ s.RK[1] = "RK" /\ Number(s.RK) = {s.DHs, s.DHr}
                            /\ Number(s.CKs.root) = {s.DHs, s.DHr}
      /\ IsChain(s.CKr.root) => \E k : Number(s.CKr.root) = {k, s.DHr} /\ k # t.DHs
      /\ \A m \in Messages(p) : m.DH_pub_key <= s.DHs

Pairs == \A p \in Party : PairsOf(p)

\* The first n key pairs had been generated when a ratchet became known: what is known is
\* made from these, and of what the parties have since then made their own, nothing is made
\* from the secret key that is known, except with a public key of the same age.
Learnt(n) ==
  LET old == known.ratchet
      p   == known.party
      s   == ratchet[p]
      t   == ratchet[Other(p)]
  IN  /\ p \in Party /\ old.DHs \in 1..n
      /\ Old(old.RK, n) /\ Old(old.CKs.root, n) /\ Old(old.CKr.root, n)
      /\ s.DHs = old.DHs \/ (s.DHs > n /\ s.DHr # nullptr)
      /\ old.DHs # s.DHr /\ old.DHs # t.DHs
      /\ t.DHr <= old.DHs \/ t.DHr > n
      /\ \A m \in Messages(p) : m.DH_pub_key <= old.DHs \/ m.DH_pub_key > n
      /\ \A m \in Messages(Other(p)) : m.DH_pub_key # old.DHs
      /\ IsChain(t.CKr.root) => \E k : Number(t.CKr.root) = {k, t.DHr} /\ k # old.DHs
      /\ ~IsChain(t.CKr.root) => t.DHr <= old.DHs

BreakInInv == IInv /\ Pairs /\ (known # Nobody => \E n \in 1..keys : Learnt(n))

\* The keys of r stay what they are, but for their steps.
Kept(r) ==
  /\ ratchet'[r].DHs = ratchet[r].DHs /\ ratchet'[r].DHr = ratchet[r].DHr
  /\ ratchet'[r].RK = ratchet[r].RK
  /\ ratchet'[r].CKs.root = ratchet[r].CKs.root /\ ratchet'[r].CKr.root = ratchet[r].CKr.root

\* Nobody ratchets.
Calm ==
  /\ keys' = keys
  /\ \A r \in Party :
       /\ Kept(r)
       /\ \A m \in Messages(r)' : m \in Messages(r) \/ m.DH_pub_key = ratchet[r].DHs

\* p ratchets.
Turn(p) ==
  /\ Kept(Other(p)) /\ \A r \in Party : Messages(r)' = Messages(r)
  /\ \E m \in Messages(Other(p)) : \E out, newOut : Enters(p, m, out, newOut)

\* Whatever happens, at most one party ratchets, for a message of the other.
LEMMA CalmOrTurn ==
  ASSUME IInv, [Next]_vars
  PROVE  Calm \/ \E p \in Party : Turn(p)
<1>1. Shape
  BY DEF IInv
<1>2. ASSUME NEW p \in Party, send_message(p) PROVE Calm
  <2>1. PICK m : Sent(p, m)
    BY <1>1, <1>2, SendEffect
  <2>2. \A r \in Party : r = p \/ r = Other(p)
    BY Others
  <2>3. \A r \in Party : Kept(r)
    BY <2>1, <2>2 DEF Sent, Kept
  <2>4. \A r \in Party : \A x \in Messages(r)' : x \in Messages(r) \/ x.DH_pub_key = ratchet[r].DHs
    BY <2>1, <2>2 DEF Sent, Added
  <2>. QED
    BY <2>1, <2>3, <2>4 DEF Calm, Sent
<1>3. ASSUME NEW p \in Party, receive_message(p) PROVE Calm \/ Turn(p)
  <2> DEFINE q == Other(p)
  <2>1. PICK m : Received(p, m)
    BY <1>1, <1>3, ReceiveEffect
  <2>2. q \in Party /\ q # p /\ Other(q) = p /\ \A r \in Party : r = p \/ r = q
    BY Others
  <2>3. m \in Messages(q) /\ \A r \in Party : Messages(r)' = Messages(r)
    BY <2>1, <2>2 DEF Received, Took
  <2>4. Kept(q)
    BY <2>1 DEF Received, Kept
  <2>5. CASE Stays(p, m)
    <3>1. Kept(p) /\ keys' = keys
      BY <2>5 DEF Stays, Kept
    <3>. QED
      BY <2>2, <2>3, <2>4, <3>1 DEF Calm
  <2>6. CASE \E out, newOut : Enters(p, m, out, newOut)
    BY <2>3, <2>4, <2>6 DEF Turn
  <2>. QED
    BY <2>1, <2>5, <2>6 DEF Received
<1>4. ASSUME NEW p \in Party, Lose(p) \/ ComeAgain(p) PROVE Calm
  <2>1. PICK m : Lost(p, m) \/ Again(p, m)
    BY <1>1, <1>4, LoseEffect, AgainEffect
  <2>2. (\A r \in Party : Messages(r)' = Messages(r)) /\ UNCHANGED <<ratchet, keys>>
    BY <2>1, Others DEF Lost, Again, Took
  <2>. QED
    BY <2>2 DEF Calm, Kept
<1>5. CASE UNCHANGED vars
  BY <1>5 DEF vars, Calm, Kept, Messages
<1>. QED
  BY <1>2, <1>3, <1>4, <1>5 DEF Next

\* The keys and terms of a party that has ratcheted.
LEMMA TurnTerms ==
  ASSUME Shape, Ages, NEW p \in Party, Turn(p)
  PROVE  \E m \in Messages(Other(p)) :
           LET s == ratchet'[p]
           IN  /\ m.DH_pub_key \in 1..keys /\ keys \in Nat /\ keys' = keys + 1
               /\ s.DHs = keys + 1 /\ s.DHr = m.DH_pub_key /\ s.RK[1] = "RK"
               /\ Number(s.RK) = {s.DHs, s.DHr} /\ Number(s.CKs.root) = {s.DHs, s.DHr}
               /\ IsChain(s.CKr.root) /\ Number(s.CKr.root) = {ratchet[p].DHs, s.DHr}
<1>1. PICK m \in Messages(Other(p)) : \E out, newOut : Enters(p, m, out, newOut)
  BY DEF Turn
<1>2. PICK out, newOut : Enters(p, m, out, newOut)
  BY <1>1
<1>3. m.DH_pub_key \in 1..keys /\ keys \in Nat
  BY <1>1, Others DEF Ages, Shape
<1>4. out.number = {ratchet[p].DHs, m.DH_pub_key} /\ newOut.number = {keys + 1, m.DH_pub_key}
  BY <1>2, NumberOfBytes DEF Enters, DH, diffie_hellman
<1>5. /\ keys' = keys + 1
      /\ ratchet'[p].DHs = keys + 1 /\ ratchet'[p].DHr = m.DH_pub_key
      /\ ratchet'[p].RK = <<"RK", <<"RK", ratchet[p].RK, out>>, newOut>>
      /\ ratchet'[p].CKs.root = <<"CK", <<"RK", ratchet[p].RK, out>>, newOut>>
      /\ ratchet'[p].CKr.root = <<"CK", ratchet[p].RK, out>>
  BY <1>2 DEF Enters
<1>6. \A kind, root, x : /\ <<kind, root, x>>[1] = kind
                        /\ Number(<<kind, root, x>>) = x.number
  BY DEF Number
<1>7. \A root, x : IsChain(<<"CK", root, x>>)
  BY DEF IsChain
<1>8. /\ ratchet'[p].RK[1] = "RK"
      /\ Number(ratchet'[p].RK) = {ratchet'[p].DHs, ratchet'[p].DHr}
      /\ Number(ratchet'[p].CKs.root) = {ratchet'[p].DHs, ratchet'[p].DHr}
      /\ IsChain(ratchet'[p].CKr.root)
      /\ Number(ratchet'[p].CKr.root) = {ratchet[p].DHs, ratchet'[p].DHr}
  BY <1>4, <1>5, <1>6, <1>7
<1>. QED
  BY <1>3, <1>5, <1>8

\* Initially.
LEMMA InitPairs == Init => Pairs
<1> SUFFICES ASSUME Init PROVE Pairs
  OBVIOUS
<1>1. PICK out \in DH(1, 2) :
        ratchet = [p \in Party |->
          IF p = "Alice"
          THEN [DHs |-> 1, DHr |-> 2, RK |-> KDF_RK(<<"SK">>, out).RK,
                CKs |-> KDF_RK(<<"SK">>, out).CK, CKr |-> Uninitialised(p)]
          ELSE [DHs |-> 2, DHr |-> nullptr, RK |-> <<"SK">>,
                CKs |-> Uninitialised(p), CKr |-> Uninitialised(p)]]
  BY DEF Init
<1>2. out.number = {1, 2}
  BY NumberOfBytes DEF DH, diffie_hellman
<1>3. /\ ratchet["Alice"] = [DHs |-> 1, DHr |-> 2, RK |-> <<"RK", <<"SK">>, out>>,
           CKs |-> [root |-> <<"CK", <<"SK">>, out>>, step |-> 0],
           CKr |-> [root |-> <<"memory", "Alice">>, step |-> 0]]
      /\ ratchet["Bob"] = [DHs |-> 2, DHr |-> nullptr, RK |-> <<"SK">>,
           CKs |-> [root |-> <<"memory", "Bob">>, step |-> 0],
           CKr |-> [root |-> <<"memory", "Bob">>, step |-> 0]]
  BY <1>1 DEF Party, KDF_RK, Uninitialised
<1>4. \A p \in Party : Messages(p) = {}
  BY DEF Init, Messages
<1>5. Party = {"Alice", "Bob"} /\ Other("Alice") = "Bob" /\ Other("Bob") = "Alice"
  BY DEF Party, Other
<1>6. /\ ~IsChain(<<"memory", "Alice">>) /\ ~IsChain(<<"memory", "Bob">>)
      /\ <<"RK", <<"SK">>, out>>[1] = "RK" /\ Number(<<"RK", <<"SK">>, out>>) = {1, 2}
      /\ Number(<<"CK", <<"SK">>, out>>) = {1, 2}
  BY <1>2 DEF IsChain, Number
<1>7. PairsOf("Alice")
  BY <1>3, <1>4, <1>5, <1>6 DEF PairsOf, nullptr
<1>8. PairsOf("Bob")
  BY <1>3, <1>4, <1>5, <1>6 DEF PairsOf, nullptr
<1>. QED
  BY <1>5, <1>7, <1>8 DEF Pairs

\* No step disturbs Pairs.
LEMMA NextPairs ==
  ASSUME IInv, Pairs, [Next]_vars
  PROVE  Pairs'
<1>1. Shape /\ Ages /\ Owners
  BY DEF IInv
<1>2. CASE Calm
  <2> SUFFICES ASSUME NEW p \in Party PROVE PairsOf(p)'
    BY DEF Pairs
  <2>1. PairsOf(p) /\ Other(p) \in Party
    BY Others DEF Pairs
  <2>2. Kept(p) /\ Kept(Other(p))
    BY <1>2, <2>1 DEF Calm
  <2>3. ratchet[p].DHs \in Int
    BY <1>1 DEF Ages, AgesOf
  <2>4. \A m \in Messages(p)' : m.DH_pub_key <= ratchet'[p].DHs
    BY <1>2, <2>1, <2>2, <2>3 DEF Calm, Kept, PairsOf
  <2>. QED
    BY <2>1, <2>2, <2>4 DEF Kept, PairsOf
<1>3. ASSUME NEW p \in Party, Turn(p) PROVE Pairs'
  <2> DEFINE q == Other(p)
             s == ratchet'[p]
             t == ratchet[q]
  <2>1. q \in Party /\ q # p /\ Other(q) = p /\ \A r \in Party : r = p \/ r = q
    BY Others
  <2>2. PairsOf(p) /\ PairsOf(q)
    BY <2>1 DEF Pairs
  <2>3. PICK m \in Messages(q) :
          /\ m.DH_pub_key \in 1..keys /\ keys \in Nat
          /\ s.DHs = keys + 1 /\ s.DHr = m.DH_pub_key /\ s.RK[1] = "RK"
          /\ Number(s.RK) = {s.DHs, s.DHr} /\ Number(s.CKs.root) = {s.DHs, s.DHr}
          /\ IsChain(s.CKr.root) /\ Number(s.CKr.root) = {ratchet[p].DHs, s.DHr}
    BY <1>1, <1>3, TurnTerms
  <2>4. Kept(q) /\ \A r \in Party : Messages(r)' = Messages(r)
    BY <1>3 DEF Turn
  <2>5. /\ ratchet[p].DHs \in 1..keys /\ t.DHs \in 1..keys /\ t.DHr \in 0..keys
        /\ ratchet[p].DHs # t.DHs /\ Old(t.CKr.root, keys)
    BY <1>1, <2>1 DEF Ages, AgesOf, Owners, Owns
  <2>6. m.DH_pub_key <= t.DHs
    BY <2>1, <2>2, <2>3 DEF PairsOf
  <2>7. PairsOf(p)'
    <3>1. \A x \in Messages(p)' : x.DH_pub_key <= s.DHs
      <4>1. ASSUME NEW x \in Messages(p) PROVE x.DH_pub_key <= s.DHs
        BY <1>1, <2>3 DEF Ages
      <4>. QED
        BY <2>4, <4>1
    <3>2. s.DHs # s.DHr /\ s.DHr <= ratchet'[q].DHs
      BY <2>3, <2>4, <2>6 DEF Kept
    <3>3. \E k : Number(s.CKr.root) = {k, s.DHr} /\ k # ratchet'[q].DHs
      BY <2>3, <2>4, <2>5 DEF Kept
    <3>. QED
      BY <2>3, <3>1, <3>2, <3>3 DEF PairsOf
  <2>8. PairsOf(q)'
    <3>1. \A x \in Messages(q)' : x.DH_pub_key <= ratchet'[q].DHs
      <4>1. \A x \in Messages(q) : x.DH_pub_key <= t.DHs
        BY <2>2 DEF PairsOf
      <4>2. Messages(q)' = Messages(q) /\ ratchet'[q].DHs = t.DHs
        BY <2>1, <2>4 DEF Kept
      <4>. QED
        BY <4>1, <4>2
    <3>2. t.DHs # t.DHr /\ t.DHr <= s.DHs
      BY <2>2, <2>3, <2>5 DEF PairsOf
    <3>3. IsChain(t.CKr.root) => \E k : Number(t.CKr.root) = {k, t.DHr} /\ k # s.DHs
      <4> SUFFICES ASSUME IsChain(t.CKr.root)
                   PROVE  \E k : Number(t.CKr.root) = {k, t.DHr} /\ k # s.DHs
        OBVIOUS
      <4>1. PICK k : Number(t.CKr.root) = {k, t.DHr}
        BY <2>1, <2>2 DEF PairsOf
      <4>2. Number(t.CKr.root) \subseteq 1..keys
        BY <2>5 DEF Old, IsChain, Number
      <4>. QED
        BY <2>3, <4>1, <4>2
    <3>4. t.DHr # nullptr => /\ t.RK[1] = "RK" /\ Number(t.RK) = {t.DHs, t.DHr}
                             /\ Number(t.CKs.root) = {t.DHs, t.DHr}
      BY <2>2 DEF PairsOf
    <3>. QED
      BY <2>1, <2>4, <3>1, <3>2, <3>3, <3>4 DEF PairsOf, Kept
  <2>. QED
    BY <2>1, <2>7, <2>8 DEF Pairs
<1>. QED
  BY <1>2, <1>3, CalmOrTurn

\* What a party that becomes known has is made from the keys that exist.
LEMMA BecomesKnown ==
  ASSUME IInv, Pairs, NEW p \in Party, BreakIn(p)
  PROVE  Learnt(keys)' /\ keys' = keys /\ keys \in 1..keys
<1> DEFINE q == Other(p)
           s == ratchet[p]
           t == ratchet[q]
<1>1. Shape /\ Ages /\ Owners
  BY DEF IInv
<1>2. q \in Party /\ q # p /\ Other(q) = p
  BY Others
<1>3. /\ known' = [party |-> p, ratchet |-> s] /\ ratchet' = ratchet /\ keys' = keys
      /\ \A r \in Party : Messages(r)' = Messages(r)
  BY DEF BreakIn, vars, Messages
<1>4. known'.party = p /\ known'.ratchet = s
  BY <1>3
<1>5. PairsOf(p) /\ PairsOf(q) /\ AgesOf(s) /\ AgesOf(t) /\ s.DHs # t.DHs
  BY <1>1, <1>2 DEF Pairs, Ages, Owners, Owns
<1>6. keys \in Nat /\ keys \in 1..keys
  BY <1>1 DEF Shape
<1>7. \A m \in Messages(q) : m.DH_pub_key # s.DHs
  BY <1>1, <1>2 DEF Owners, OwnsMessage
<1>8. /\ s.DHs \in 1..keys /\ Old(s.RK, keys) /\ Old(s.CKs.root, keys) /\ Old(s.CKr.root, keys)
      /\ s.DHs # s.DHr /\ t.DHr <= s.DHs
      /\ \A m \in Messages(p) : m.DH_pub_key <= s.DHs
      /\ IsChain(t.CKr.root) => \E k : Number(t.CKr.root) = {k, t.DHr} /\ k # s.DHs
  BY <1>2, <1>5 DEF AgesOf, PairsOf
<1>. QED
  BY <1>2, <1>3, <1>4, <1>5, <1>6, <1>7, <1>8 DEF Learnt

\* No step of the messengers makes anything from it but what Learnt allows.
LEMMA StaysLearnt ==
  ASSUME IInv, Pairs, [Next]_vars, UNCHANGED known, NEW n \in 1..keys, Learnt(n)
  PROVE  Learnt(n)' /\ n \in 1..keys'
<1> DEFINE old == known.ratchet
           p == known.party
           q == Other(p)
           s == ratchet[p]
           t == ratchet[q]
<1>1. Shape /\ Ages /\ Owners
  BY DEF IInv
<1>2. /\ p \in Party /\ q \in Party /\ q # p /\ Other(q) = p
      /\ \A r \in Party : r = p \/ r = q
  BY Others DEF Learnt
<1>3. /\ keys \in Nat /\ s.DHs \in 1..keys /\ t.DHs \in 1..keys
      /\ s.DHr \in 0..keys /\ t.DHr \in 0..keys
  BY <1>1, <1>2 DEF Shape, Ages, AgesOf
<1>4. /\ old.DHs \in 1..n
      /\ Old(old.RK, n) /\ Old(old.CKs.root, n) /\ Old(old.CKr.root, n)
      /\ s.DHs = old.DHs \/ (s.DHs > n /\ s.DHr # nullptr)
      /\ old.DHs # s.DHr /\ old.DHs # t.DHs
      /\ t.DHr <= old.DHs \/ t.DHr > n
      /\ \A m \in Messages(p) : m.DH_pub_key <= old.DHs \/ m.DH_pub_key > n
      /\ \A m \in Messages(q) : m.DH_pub_key # old.DHs
      /\ IsChain(t.CKr.root) => \E k : Number(t.CKr.root) = {k, t.DHr} /\ k # old.DHs
      /\ ~IsChain(t.CKr.root) => t.DHr <= old.DHs
  BY DEF Learnt
<1>5. CASE Calm
  <2>1. Kept(p) /\ Kept(q) /\ keys' = keys
    BY <1>2, <1>5 DEF Calm
  <2>2. ASSUME NEW m \in Messages(p)' PROVE m.DH_pub_key <= old.DHs \/ m.DH_pub_key > n
    <3>1. m \in Messages(p) \/ m.DH_pub_key = s.DHs
      BY <1>2, <1>5, <2>2 DEF Calm
    <3>. QED
      BY <1>3, <1>4, <3>1
  <2>3. ASSUME NEW m \in Messages(q)' PROVE m.DH_pub_key # old.DHs
    <3>1. m \in Messages(q) \/ m.DH_pub_key = t.DHs
      BY <1>2, <1>5, <2>3 DEF Calm
    <3>. QED
      BY <1>4, <3>1
  <2>4. known' = known
    OBVIOUS
  <2>. QED
    BY <1>2, <1>4, <2>1, <2>2, <2>3, <2>4 DEF Learnt, Kept
<1>6. CASE Turn(p)
  <2>1. PICK m \in Messages(q) :
          LET new == ratchet'[p]
          IN  /\ m.DH_pub_key \in 1..keys /\ keys' = keys + 1
              /\ new.DHs = keys + 1 /\ new.DHr = m.DH_pub_key
    BY <1>1, <1>2, <1>6, TurnTerms
  <2>2. Kept(q) /\ \A r \in Party : Messages(r)' = Messages(r)
    BY <1>6 DEF Turn
  <2>3. ratchet'[p].DHs > n /\ ratchet'[p].DHr # nullptr /\ old.DHs # ratchet'[p].DHr
    BY <1>3, <1>4, <2>1 DEF nullptr
  <2>4. n \in 1..keys'
    BY <1>3, <2>1
  <2>. QED
    BY <1>2, <1>4, <2>2, <2>3, <2>4 DEF Learnt, Kept
<1>7. CASE Turn(q)
  <2>1. PICK m \in Messages(p) :
          LET new == ratchet'[q]
          IN  /\ m.DH_pub_key \in 1..keys /\ keys' = keys + 1
              /\ new.DHs = keys + 1 /\ new.DHr = m.DH_pub_key
              /\ IsChain(new.CKr.root) /\ Number(new.CKr.root) = {t.DHs, new.DHr}
    BY <1>1, <1>2, <1>7, TurnTerms
  <2>2. Kept(p) /\ \A r \in Party : Messages(r)' = Messages(r)
    BY <1>2, <1>7 DEF Turn
  <2>3. /\ old.DHs # ratchet'[q].DHs
        /\ ratchet'[q].DHr <= old.DHs \/ ratchet'[q].DHr > n
        /\ \E k : Number(ratchet'[q].CKr.root) = {k, ratchet'[q].DHr} /\ k # old.DHs
    BY <1>3, <1>4, <2>1
  <2>4. n \in 1..keys'
    BY <1>3, <2>1
  <2>. QED
    BY <1>2, <1>4, <2>1, <2>2, <2>3, <2>4 DEF Learnt, Kept
<1>. QED
  BY <1>2, <1>5, <1>6, <1>7, CalmOrTurn

\* The inductive invariant of the messengers with somebody who learns the keys of a party.
LEMMA InitBreakInInv == BreakInInit => BreakInInv
BY InitIInv, InitPairs DEF BreakInInit, BreakInInv

\* Neither the messengers' steps nor the break-in disturb it.
LEMMA NextBreakInInv == BreakInInv /\ [BreakInNext]_breakInVars => BreakInInv'
<1> SUFFICES ASSUME BreakInInv, [BreakInNext]_breakInVars PROVE BreakInInv'
  OBVIOUS
<1>1. IInv /\ Pairs
  BY DEF BreakInInv
<1>2. [Next]_vars
  BY DEF BreakInNext, BreakIn, breakInVars
<1>3. IInv' /\ Pairs'
  BY <1>1, <1>2, NextIInv, NextPairs
<1>4. CASE UNCHANGED known
  <2>1. ASSUME known # Nobody PROVE \E n \in 1..keys' : Learnt(n)'
    <3>1. PICK n \in 1..keys : Learnt(n)
      BY <2>1 DEF BreakInInv
    <3>. QED
      BY <1>1, <1>2, <1>4, <3>1, StaysLearnt
  <2>. QED
    BY <1>3, <1>4, <2>1 DEF BreakInInv, Nobody
<1>5. ASSUME NEW p \in Party, BreakIn(p) PROVE BreakInInv'
  <2>1. \E n \in 1..keys' : Learnt(n)'
    BY <1>1, <1>5, BecomesKnown
  <2>. QED
    BY <1>3, <2>1 DEF BreakInInv
<1>. QED
  BY <1>4, <1>5 DEF BreakInNext, breakInVars

\* The lineage of a root key is well defined, and it begins with that key.
LEMMA LineageBegins ==
  ASSUME NEW rk
  PROVE  Lineage(rk)[0] = rk
<1> DEFINE Previous(root) == IF root[1] = "RK" THEN root[2] ELSE root
           Equation(f) == f = [n \in Nat |-> IF n = 0 THEN rk ELSE Previous(f[n - 1])]
           Back(n, f) ==
             /\ DOMAIN f = 0..n /\ f[0] = rk
             /\ \A k \in Nat : k < n => f[k + 1] = Previous(f[k])
           Without == {n \in Nat : ~ \E f : Back(n, f)}
<1> HIDE DEF Previous
<1>1. Without = {}
  <2> SUFFICES ASSUME Without # {} PROVE FALSE
    OBVIOUS
  <2>1. PICK n \in Without : \A m \in Without : n <= m
    BY LeastNumber
  <2>2. CASE n = 0
    <3>1. Back(0, [k \in 0..0 |-> rk])
      OBVIOUS
    <3>. QED
      BY <2>1, <2>2, <3>1
  <2>3. CASE n # 0
    <3>1. n - 1 \in Nat /\ n - 1 \notin Without
      BY <2>1, <2>3
    <3>2. PICK f : Back(n - 1, f)
      BY <3>1
    <3> DEFINE h == [k \in 0..n |-> IF k = n THEN Previous(f[n - 1]) ELSE f[k]]
    <3>3. DOMAIN h = 0..n /\ h[0] = rk
      BY <2>1, <2>3, <3>1, <3>2
    <3>4. ASSUME NEW k \in Nat, k < n PROVE h[k + 1] = Previous(h[k])
      <4>1. h[k] = f[k] /\ k + 1 \in 0..n
        BY <2>1, <3>4
      <4>2. CASE k + 1 = n
        BY <4>1, <4>2
      <4>3. CASE k + 1 # n
        BY <3>1, <3>2, <3>4, <4>1, <4>3
      <4>. QED
        BY <4>2, <4>3
    <3>5. Back(n, h)
      BY <3>3, <3>4
    <3>. QED
      BY <2>1, <3>5
  <2>. QED
    BY <2>2, <2>3
<1>2. ASSUME NEW n \in Nat, NEW f, NEW h, Back(n, f), Back(n + 1, h) PROVE f[n] = h[n]
  <2> DEFINE Differ == {j \in Nat : j <= n /\ f[j] # h[j]}
  <2>1. Differ = {}
    <3> SUFFICES ASSUME Differ # {} PROVE FALSE
      OBVIOUS
    <3>1. PICK j \in Differ : \A i \in Differ : j <= i
      BY LeastNumber
    <3>2. j # 0
      BY <1>2, <3>1
    <3>3. j - 1 \in Nat /\ j - 1 \notin Differ
      BY <3>1, <3>2
    <3>4. f[j - 1] = h[j - 1]
      BY <3>1, <3>3
    <3>5. f[(j - 1) + 1] = Previous(f[j - 1]) /\ h[(j - 1) + 1] = Previous(h[j - 1])
      BY <1>2, <3>1, <3>3
    <3>. QED
      BY <3>1, <3>4, <3>5
  <2>. QED
    BY <2>1
<1> DEFINE Of(n) == CHOOSE f : Back(n, f)
           F == [n \in Nat |-> Of(n)[n]]
<1>3. \A n \in Nat : Back(n, Of(n))
  BY <1>1
<1> HIDE DEF Of
<1>4. ASSUME NEW n \in Nat PROVE F[n] = IF n = 0 THEN rk ELSE Previous(F[n - 1])
  <2>1. CASE n = 0
    BY <1>3, <2>1
  <2>2. CASE n # 0
    <3>1. n - 1 \in Nat /\ (n - 1) + 1 = n
      BY <2>2
    <3>2. Back(n, Of(n)) /\ Back(n - 1, Of(n - 1))
      BY <1>3, <3>1
    <3>3. Of(n - 1)[n - 1] = Of(n)[n - 1]
      BY <1>2, <3>1, <3>2
    <3>4. Of(n)[n] = Previous(Of(n)[n - 1])
      BY <3>1, <3>2
    <3>. QED
      BY <2>2, <3>1, <3>3, <3>4
  <2>. QED
    BY <2>1, <2>2
<1>5. Equation(F)
  BY <1>4
<1> DEFINE older == CHOOSE f : Equation(f)
<1>6. Lineage(rk) = older
  BY DEF Lineage, Previous
<1>7. Equation(older)
  BY <1>5
<1> HIDE DEF older
<1>. QED
  BY <1>6, <1>7

\* A root key is not known if its number is not, and it was not known by itself.
LEMMA RootNotKnown ==
  ASSUME NEW rk, keys \in Nat, ~SharedNumberKnown(rk[3]), rk # known.ratchet.RK
  PROVE  ~RootKnown(rk)
<1> SUFFICES ASSUME RootKnown(rk) PROVE FALSE
  OBVIOUS
<1>1. PICK n \in 0..2 * keys :
        /\ Lineage(rk)[n] = known.ratchet.RK
        /\ \A k \in 0..n - 1 :
             Lineage(rk)[k][1] = "RK" /\ SharedNumberKnown(Lineage(rk)[k][3])
  BY DEF RootKnown
<1>2. Lineage(rk)[0] = rk
  BY LineageBegins
<1>3. n # 0
  BY <1>1, <1>2
<1>4. 0 \in 0..n - 1
  BY <1>3
<1>5. SharedNumberKnown(Lineage(rk)[0][3])
  BY <1>1, <1>4
<1>. QED
  BY <1>2, <1>5

\* Nor is a chain.
LEMMA ChainNotKnown ==
  ASSUME NEW ck, ~SharedNumberKnown(ck.root[3]),
         ck.root # known.ratchet.CKs.root, ck.root # known.ratchet.CKr.root
  PROVE  ~ChainKnown(ck)
BY DEF ChainKnown

\* Terms with a number that has a new key were not known by themselves.
LEMMA NewIsNotOld ==
  ASSUME NEW n, NEW old, NEW term, NEW key \in Int, key > n, n \in Int, key \in Number(term),
         term[1] \in {"RK", "CK"}, Old(old, n)
  PROVE  term # old
BY DEF Old, Number

\* What Learnt allows is recovery: the keys that have a new key pair, or its public key, in
\* their number do not follow from what is known.
LEMMA LearntRecovers == BreakInInv => RecoversFromBreakIn
<1> SUFFICES ASSUME BreakInInv, known # Nobody PROVE RecoversFromBreakIn
  BY DEF RecoversFromBreakIn
<1> DEFINE old == known.ratchet
           p == known.party
           q == Other(p)
           s == ratchet[p]
           t == ratchet[q]
<1>1. PICK n \in 1..keys : Learnt(n)
  BY DEF BreakInInv
<1>2. Shape /\ Ages /\ Pairs
  BY DEF BreakInInv, IInv
<1>3. p \in Party /\ q \in Party /\ Other(q) = p
  BY <1>1, Others DEF Learnt
<1>4. /\ old.DHs \in 1..n
      /\ Old(old.RK, n) /\ Old(old.CKs.root, n) /\ Old(old.CKr.root, n)
      /\ s.DHs = old.DHs \/ (s.DHs > n /\ s.DHr # nullptr)
      /\ old.DHs # s.DHr /\ old.DHs # t.DHs
      /\ t.DHr <= old.DHs \/ t.DHr > n
      /\ IsChain(t.CKr.root) => \E k : Number(t.CKr.root) = {k, t.DHr} /\ k # old.DHs
      /\ ~IsChain(t.CKr.root) => t.DHr <= old.DHs
  BY <1>1 DEF Learnt
<1>5. /\ keys \in Nat /\ AgesOf(s) /\ AgesOf(t) /\ PairsOf(p) /\ PairsOf(q)
  BY <1>2, <1>3 DEF Shape, Ages, Pairs
<1>6. \A term : SharedNumberKnown(term[3]) <=> old.DHs \in Number(term)
  BY DEF SharedNumberKnown, Number
<1>7. ASSUME s.DHs > old.DHs PROVE ~RootKnown(s.RK) /\ ~ChainKnown(s.CKs)
  <2>1. s.DHs > n /\ s.DHr # nullptr /\ s.DHs \in 1..keys
    BY <1>4, <1>5, <1>7 DEF AgesOf
  <2>2. /\ s.RK[1] = "RK" /\ Number(s.RK) = {s.DHs, s.DHr}
        /\ IsChain(s.CKs.root) /\ Number(s.CKs.root) = {s.DHs, s.DHr}
    BY <1>5, <2>1 DEF AgesOf, PairsOf
  <2>3. s.RK # old.RK /\ s.CKs.root # old.CKs.root /\ s.CKs.root # old.CKr.root
    BY <1>4, <2>1, <2>2, NewIsNotOld DEF IsChain
  <2>4. ~SharedNumberKnown(s.RK[3]) /\ ~SharedNumberKnown(s.CKs.root[3])
    BY <1>4, <1>6, <1>7, <2>1, <2>2
  <2>. QED
    BY <1>5, <2>3, <2>4, RootNotKnown, ChainNotKnown
<1>8. ASSUME t.DHr > old.DHs
      PROVE  ~RootKnown(t.RK) /\ ~ChainKnown(t.CKs) /\ ~ChainKnown(t.CKr)
  <2>1. t.DHr > n /\ t.DHr \in 0..keys /\ t.DHr # nullptr
    BY <1>4, <1>5, <1>8 DEF AgesOf, nullptr
  <2>2. /\ t.RK[1] = "RK" /\ Number(t.RK) = {t.DHs, t.DHr}
        /\ IsChain(t.CKs.root) /\ Number(t.CKs.root) = {t.DHs, t.DHr}
    BY <1>5, <2>1 DEF AgesOf, PairsOf
  <2>3. IsChain(t.CKr.root)
    BY <1>4, <1>5, <1>8 DEF AgesOf
  <2>4. PICK k : Number(t.CKr.root) = {k, t.DHr} /\ k # old.DHs
    BY <1>4, <2>3
  <2>5. /\ t.RK # old.RK /\ t.CKs.root # old.CKs.root /\ t.CKs.root # old.CKr.root
        /\ t.CKr.root # old.CKs.root /\ t.CKr.root # old.CKr.root
    BY <1>4, <2>1, <2>2, <2>3, <2>4, NewIsNotOld DEF IsChain
  <2>6. /\ ~SharedNumberKnown(t.RK[3]) /\ ~SharedNumberKnown(t.CKs.root[3])
        /\ ~SharedNumberKnown(t.CKr.root[3])
    BY <1>4, <1>6, <1>8, <2>1, <2>2, <2>4
  <2>. QED
    BY <1>5, <2>5, <2>6, RootNotKnown, ChainNotKnown
<1>. QED
  BY <1>7, <1>8 DEF RecoversFromBreakIn

\* Whenever the DoubleRatchet of a party becomes known, the conversation heals
\* (on_receiving_message makes the new root keys from a new key pair): once the party has
\* generated its next key pair, no key that its messages are encrypted with follows from
\* what is known, and once the other party has seen the new public key, neither does any
\* of its own, whatever gets lost, comes again or crosses on the way.
THEOREM BreakInHeals == BreakInSpec => []RecoversFromBreakIn
<1>. QED
  BY InitBreakInInv, NextBreakInInv, LearntRecovers, PTL DEF BreakInSpec
=============================================================================

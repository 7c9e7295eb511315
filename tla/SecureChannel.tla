---------------------------- MODULE SecureChannel ----------------------------
(***************************************************************************)
(* What the messenger promises its two users: each message that is sent is *)
(* read by the other party, once and in the order of sending.  Only after  *)
(* a message was lost on its way, or came once more, may others go unread; *)
(* but what is read is always newer than all that was read before.         *)
(***************************************************************************)
EXTENDS Integers, Sequences

CONSTANT Party

VARIABLES
  sent,    \* how many messages each party has sent: their numbers are 1..sent[p]
  queue,   \* those that are under way
  read,    \* those that each party has read
  broken

vars == <<sent, queue, read, broken>>

Init ==
  /\ sent = [p \in Party |-> 0]
  /\ queue = [p \in Party |-> <<>>]
  /\ read = [p \in Party |-> <<>>]
  /\ broken = FALSE

Send(p) ==
  /\ sent' = [sent EXCEPT ![p] = @ + 1]
  /\ queue' = [queue EXCEPT ![p] = Append(@, sent[p] + 1)]
  /\ UNCHANGED <<read, broken>>

TakeOldest(p) ==
  /\ queue[p] # <<>>
  /\ queue' = [queue EXCEPT ![p] = Tail(@)]
  /\ UNCHANGED sent

\* Party q reads the oldest message of p.
Read(p, q) ==
  /\ p # q /\ TakeOldest(p)
  /\ \A k \in DOMAIN read[q] : read[q][k] < Head(queue[p])
  /\ read' = [read EXCEPT ![q] = Append(@, Head(queue[p]))]
  /\ UNCHANGED broken

Lose(p) == TakeOldest(p) /\ broken' = TRUE /\ UNCHANGED read

\* An old message of p arrives next.
ComeAgain(p, number) ==
  /\ queue' = [queue EXCEPT ![p] = <<number>> \o @]
  /\ broken' = TRUE
  /\ UNCHANGED <<sent, read>>

\* A message arrives and cannot be read.
Spoil(p) == broken /\ TakeOldest(p) /\ UNCHANGED <<read, broken>>

Next ==
  \/ \E p, q \in Party : Read(p, q)
  \/ \E p \in Party :
       Send(p) \/ Lose(p) \/ Spoil(p) \/ \E number \in 1..sent[p] : ComeAgain(p, number)

Spec == Init /\ [][Next]_vars
=============================================================================

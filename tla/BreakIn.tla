------------------------------- MODULE BreakIn -------------------------------
(***************************************************************************)
(* What the double ratchet promises when the keys of a party become known  *)
(* to somebody else: the conversation heals (question 2 of the README of   *)
(* the third homework, "Break-in Recovery").  The messengers of Messenger  *)
(* go on as before; once, somebody learns the DoubleRatchet object of a    *)
(* party, and knows all public keys.                                       *)
(***************************************************************************)
EXTENDS Messenger

VARIABLE known   \* whose DoubleRatchet became known, and what it was

Nobody == [party |-> nullptr]

breakInVars == <<vars, known>>

\* The ratchet of p becomes known.
BreakIn(p) ==
  /\ known = Nobody
  /\ known' = [party |-> p, ratchet |-> ratchet[p]]
  /\ UNCHANGED vars

BreakInNext ==
  \/ Next /\ UNCHANGED known
  \/ \E p \in Party : BreakIn(p)

BreakInInit == Init /\ known = Nobody

BreakInSpec == BreakInInit /\ [][BreakInNext]_breakInVars

-----------------------------------------------------------------------------
(* What follows from what is known: with a secret key and a public key the number that
   two parties share, and with a root key and that number the next root key and a chain. *)

SharedNumberKnown(out) == known.ratchet.DHs \in out.number

\* The root keys that rk was made from, beginning with rk itself.
Lineage(rk) ==
  LET Previous(root) == IF root[1] = "RK" THEN root[2] ELSE root
      older[n \in Nat] == IF n = 0 THEN rk ELSE Previous(older[n - 1])
  IN  older

\* One of them is known, and so are the numbers that lead on from it. No root key is made
\* from more than two for each key pair.
RootKnown(rk) ==
  \E n \in 0..2 * keys :
    /\ Lineage(rk)[n] = known.ratchet.RK
    /\ \A k \in 0..n - 1 :
         Lineage(rk)[k][1] = "RK" /\ SharedNumberKnown(Lineage(rk)[k][3])

ChainKnown(ck) ==
  \/ \E old \in {known.ratchet.CKs, known.ratchet.CKr} :
       ck.root = old.root /\ ck.step >= old.step
  \/ ck.root[1] = "CK" /\ SharedNumberKnown(ck.root[3]) /\ RootKnown(ck.root[2])

\* Break-in recovery: the party whose keys became known has only to generate its next
\* key pair, which it does on the first answer to the present one, for its own messages to be
\* secret again; and when the other party has seen the new public key, all is.
RecoversFromBreakIn ==
  known # Nobody =>
    LET p == known.party
        q == Other(p)
        Renewed(key) == key > known.ratchet.DHs
    IN  /\ Renewed(ratchet[p].DHs) =>
             ~RootKnown(ratchet[p].RK) /\ ~ChainKnown(ratchet[p].CKs)
        /\ Renewed(ratchet[q].DHr) =>
             /\ ~RootKnown(ratchet[q].RK)
             /\ ~ChainKnown(ratchet[q].CKs) /\ ~ChainKnown(ratchet[q].CKr)
=============================================================================

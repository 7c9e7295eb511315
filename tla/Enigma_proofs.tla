---------------------------- MODULE Enigma_proofs ----------------------------
(* Proofs about Enigma and the search for its loops, for every alphabet, wiring, reflector, *)
(* plug board and setting. *)
EXTENDS EnigmaLoops, Division, FiniteSetTheorems

Position == [Slot -> Letter]

EnteredOK == [order : [Slot -> Rotor], ring : [Slot -> Letter], initial : Position, plugs : BOOLEAN]

-----------------------------------------------------------------------------
(* Lemmas about one letter. *)

\* Letters are integers, and there are at least three.
LEMMA KIsLarge == K \in Int /\ K > 2 /\ Letter \subseteq Int
  BY EnigmaAssumption DEF Letter

\* A remainder by K is a letter.
LEMMA ModLetter ==
  ASSUME NEW x \in Int
  PROVE  x % K \in Letter
  BY KIsLarge, DivMod DEF Letter

\* What is added modulo K can be taken away again.
LEMMA ShiftBack ==
  ASSUME NEW x \in Letter, NEW t \in Int
  PROVE  (((x + t) % K) - t) % K = x
<1> DEFINE q == (x + t) \div K
           y == (x + t) % K
<1>1. x \in Int /\ x + t \in Int /\ x \in 0..K - 1
  BY KIsLarge DEF Letter
<1>2. q \in Int /\ y \in 0..K - 1 /\ x + t = K * q + y
  BY <1>1, KIsLarge, DivMod
<1> HIDE DEF q, y
<1>3. K * (-q) = -(K * q) /\ K * q \in Int /\ -q \in Int
  BY <1>2, KIsLarge, Products
<1>4. y - t \in Int /\ y - t = K * (-q) + x
  BY <1>1, <1>2, <1>3
<1> DEFINE z == y - t
           e == -q
<1>5. z \in Int /\ e \in Int /\ z = K * e + x /\ K \in Int /\ K > 0
  BY <1>3, <1>4, KIsLarge
<1> HIDE DEF z, e
<1>6. z % K = x
  BY <1>1, <1>5, DivUnique
<1> QED
  BY <1>6 DEF y, z

\* Into a rotor and out of it are inverse to each other.
LEMMA IntoOutOf ==
  ASSUME NEW s \in EnteredOK, NEW p \in Position, NEW slot \in Slot, NEW x \in Letter
  PROVE  /\ Into(s, p, slot, x) \in Letter /\ OutOf(s, p, slot, x) \in Letter
         /\ Into(s, p, slot, OutOf(s, p, slot, x)) = x
         /\ OutOf(s, p, slot, Into(s, p, slot, x)) = x
<1> DEFINE t == p[slot] - s.ring[slot]
<1>1. p[slot] \in Int /\ s.ring[slot] \in Int /\ x \in Int /\ t \in Int /\ -t \in Int
  <2>1. p[slot] \in Letter /\ s.ring[slot] \in Letter
    BY DEF EnteredOK, Position
  <2>2. p[slot] \in Int /\ s.ring[slot] \in Int /\ x \in Int
    BY <2>1, KIsLarge
  <2> QED
    BY <2>2
<1>2. \A y \in Int : /\ y + p[slot] - s.ring[slot] = y + t /\ y + t = y - (-t)
                     /\ y - p[slot] + s.ring[slot] = y - t /\ y - t = y + (-t)
                     /\ y + t \in Int /\ y - t \in Int
  BY <1>1
<1>3. \A y \in Int : Into(s, p, slot, y) = (y + t) % K /\ OutOf(s, p, slot, y) = (y - t) % K
  BY <1>2 DEF Into, OutOf
<1> HIDE DEF t
<1>4. (x + t) % K \in Letter /\ (x - t) % K \in Letter
  BY <1>1, <1>2, ModLetter
<1>5. (((x + t) % K) - t) % K = x
  BY <1>1, ShiftBack
<1>6. (((x + (-t)) % K) - (-t)) % K = x
  BY <1>1, ShiftBack
<1>7. (((x - t) % K) + t) % K = x
  BY <1>1, <1>2, <1>4, <1>6, KIsLarge
<1> QED
  BY <1>1, <1>3, <1>4, <1>5, <1>7, KIsLarge

\* The way back through a wiring is inverse to the way there.
LEMMA IndexInverts ==
  ASSUME NEW s \in EnteredOK, NEW slot \in Slot, NEW x \in Letter
  PROVE  /\ Wiring(s, slot)[x] \in Letter /\ Index(Wiring(s, slot), x) \in Letter
         /\ Wiring(s, slot)[Index(Wiring(s, slot), x)] = x
         /\ Index(Wiring(s, slot), Wiring(s, slot)[x]) = x
<1>1. s.order[slot] \in Rotor
  BY DEF EnteredOK
<1> DEFINE w == Wiring(s, slot)
<1>2. /\ w \in [Letter -> Letter]
      /\ \A y \in Letter : \E u \in Letter : w[u] = y
      /\ \A u, v \in Letter : w[u] = w[v] => u = v
  BY <1>1, EnigmaAssumption DEF Wiring
<1> HIDE DEF w
<1>3. w[x] \in Letter
  BY <1>2
<1>4. \A y \in Letter : Index(w, y) \in Letter /\ w[Index(w, y)] = y
  BY <1>2 DEF Index
<1>5. Index(w, w[x]) = x
  BY <1>2, <1>3, <1>4
<1> QED
  BY <1>3, <1>4, <1>5 DEF w

\* The way back through a rotor undoes the way there, and the other way around.
LEMMA ThereAndBack ==
  ASSUME NEW s \in EnteredOK, NEW p \in Position, NEW slot \in Slot, NEW x \in Letter
  PROVE  /\ There(s, p, slot, x) \in Letter /\ Back(s, p, slot, x) \in Letter
         /\ Back(s, p, slot, There(s, p, slot, x)) = x
         /\ There(s, p, slot, Back(s, p, slot, x)) = x
<1> DEFINE y == Into(s, p, slot, x)
           u == Wiring(s, slot)[y]
           v == Index(Wiring(s, slot), y)
<1>1. y \in Letter /\ OutOf(s, p, slot, y) = x
  BY IntoOutOf
<1>2. u \in Letter /\ Index(Wiring(s, slot), u) = y /\ v \in Letter /\ Wiring(s, slot)[v] = y
  BY <1>1, IndexInverts
<1>3. There(s, p, slot, x) = OutOf(s, p, slot, u) /\ Back(s, p, slot, x) = OutOf(s, p, slot, v)
  BY DEF There, Back
<1> HIDE DEF y, u, v
<1>4. There(s, p, slot, x) \in Letter /\ Back(s, p, slot, x) \in Letter
  BY <1>2, <1>3, IntoOutOf
<1>5. Into(s, p, slot, There(s, p, slot, x)) = u /\ Into(s, p, slot, Back(s, p, slot, x)) = v
  BY <1>2, <1>3, IntoOutOf
<1>6. Back(s, p, slot, There(s, p, slot, x)) = OutOf(s, p, slot, Index(Wiring(s, slot), u))
  BY <1>5 DEF Back
<1>7. There(s, p, slot, Back(s, p, slot, x)) = OutOf(s, p, slot, Wiring(s, slot)[v])
  BY <1>5 DEF There
<1> QED
  BY <1>1, <1>2, <1>4, <1>6, <1>7

\* At one position the machine pairs the letters.
LEMMA RotorPairs ==
  ASSUME NEW s \in EnteredOK, NEW p \in Position, NEW x \in Letter
  PROVE  /\ rotor(s, x, p) \in Letter /\ rotor(s, rotor(s, x, p), p) = x
         /\ rotor(s, x, p) # x
<1> DEFINE T(c) == There(s, p, 0, There(s, p, 1, There(s, p, 2, c)))
           U(c) == Back(s, p, 2, Back(s, p, 1, Back(s, p, 0, c)))
<1>0. 0 \in Slot /\ 1 \in Slot /\ 2 \in Slot
  BY DEF Slot
<1>1. \A c \in Letter : T(c) \in Letter /\ U(c) \in Letter
  BY <1>0, ThereAndBack
<1>2. \A c \in Letter : U(T(c)) = c
  BY <1>0, ThereAndBack
<1>3. \A c \in Letter : T(U(c)) = c
  BY <1>0, ThereAndBack
<1>4. \A c : rotor(s, c, p) = U(reflector[T(c)])
  BY DEF rotor
<1> HIDE DEF T, U
<1>5. \A c \in Letter : reflector[c] \in Letter /\ reflector[reflector[c]] = c /\ reflector[c] # c
  BY EnigmaAssumption
<1>6. U(reflector[T(x)]) # x
  BY <1>1, <1>3, <1>5
<1> QED
  BY <1>1, <1>2, <1>3, <1>4, <1>5, <1>6

\* At one position, what a letter is turned into is turned into the letter.
LEMMA EncryptedTwice ==
  ASSUME NEW s \in EnteredOK, NEW p \in Position, NEW x \in Letter
  PROVE  Encrypted(s, x, p) \in Letter /\ Encrypted(s, Encrypted(s, x, p), p) = x
<1> DEFINE P(c) == through_plug_board(s, c)
<1>1. \A c \in Letter : P(c) \in Letter /\ P(P(c)) = c
  BY EnigmaAssumption DEF through_plug_board
<1>2. \A c \in Letter : rotor(s, c, p) \in Letter /\ rotor(s, rotor(s, c, p), p) = c
  BY RotorPairs
<1>3. \A c \in Letter : Encrypted(s, c, p) = P(rotor(s, P(c), p))
  BY DEF Encrypted
<1> HIDE DEF P
<1>4. /\ P(x) \in Letter /\ rotor(s, P(x), p) \in Letter
      /\ P(rotor(s, P(x), p)) \in Letter
  BY <1>1, <1>2
<1> QED
  BY <1>1, <1>2, <1>3, <1>4

\* A turn changes the letter of its rotor, and of no other.
LEMMA TurnsTyped ==
  ASSUME NEW p \in Position, NEW slot \in Slot
  PROVE  Turns(p, slot, 1) \in Position /\ Turns(p, slot, 1)[slot] # p[slot]
         /\ \A other \in Slot : other # slot => Turns(p, slot, 1)[other] = p[other]
<1>1. p[slot] \in 0..K - 1 /\ p[slot] + 1 \in Int /\ p[slot] \in Int
  BY KIsLarge DEF Position, Letter
<1>2. (p[slot] + 1) % K \in Letter
  BY <1>1, ModLetter
<1>3. (p[slot] + 1) % K # p[slot]
  <2>1. CASE p[slot] + 1 = K
    <3>1. 0 \in 0..K - 1 /\ p[slot] + 1 = K * 1 + 0
      BY <2>1, KIsLarge
    <3>2. (p[slot] + 1) % K = 0
      BY <1>1, <3>1, KIsLarge, DivUnique
    <3> QED
      BY <2>1, <3>2, KIsLarge
  <2>2. CASE p[slot] + 1 # K
    <3>1. p[slot] + 1 \in 0..K - 1 /\ p[slot] + 1 = K * 0 + (p[slot] + 1)
      BY <1>1, <2>2, KIsLarge
    <3>2. (p[slot] + 1) % K = p[slot] + 1
      BY <1>1, <3>1, KIsLarge, DivUnique
    <3> QED
      BY <1>1, <3>2
  <2> QED
    BY <2>1, <2>2
<1> QED
  BY <1>2, <1>3 DEF Turns, Position

\* After a change the middle and the low rotor are not both on their carry.
LEMMA ChangeTyped ==
  ASSUME NEW s \in EnteredOK, NEW p \in Position
  PROVE  /\ rotor_change(s, p) \in Position
         /\ ~(AtCarry(s, rotor_change(s, p), 1) /\ AtCarry(s, rotor_change(s, p), 2))
<1> DEFINE mid == IF AtCarry(s, p, 1) THEN Turns(Turns(p, 0, 1), 1, 1) ELSE p
           low == IF AtCarry(s, p, 2) THEN Turns(mid, 1, 1) ELSE mid
<1>0. 0 \in Slot /\ 1 \in Slot /\ 2 \in Slot /\ 0 # 1 /\ 0 # 2 /\ 1 # 2
  BY DEF Slot
<1>1. rotor_change(s, p) = Turns(low, 2, 1)
  BY DEF rotor_change
<1>2. mid \in Position /\ mid[2] = p[2] /\ (AtCarry(s, p, 1) => mid[1] # p[1])
  <2>1. Turns(p, 0, 1) \in Position /\ Turns(p, 0, 1)[1] = p[1] /\ Turns(p, 0, 1)[2] = p[2]
    BY <1>0, TurnsTyped
  <2> DEFINE o == Turns(p, 0, 1)
  <2> HIDE DEF o
  <2>2. o \in Position /\ o[1] = p[1] /\ o[2] = p[2]
    BY <2>1 DEF o
  <2>3. Turns(o, 1, 1) \in Position /\ Turns(o, 1, 1)[1] # o[1] /\ Turns(o, 1, 1)[2] = o[2]
    BY <1>0, <2>2, TurnsTyped
  <2> QED
    BY <2>2, <2>3 DEF o
<1>3. ~AtCarry(s, p, 1) => mid = p
  OBVIOUS
<1> HIDE DEF mid
<1>4. low \in Position /\ low[2] = p[2] /\ (~AtCarry(s, p, 2) => low = mid)
  BY <1>0, <1>2, TurnsTyped
<1> HIDE DEF low
<1>5. /\ Turns(low, 2, 1) \in Position /\ Turns(low, 2, 1)[2] # low[2]
      /\ Turns(low, 2, 1)[1] = low[1]
  BY <1>0, <1>4, TurnsTyped
<1>6. ASSUME AtCarry(s, rotor_change(s, p), 1), AtCarry(s, rotor_change(s, p), 2)
      PROVE  FALSE
  <2>1. ~AtCarry(s, p, 2)
    BY <1>1, <1>4, <1>5, <1>6 DEF AtCarry
  <2>2. rotor_change(s, p)[1] = mid[1]
    BY <1>1, <1>4, <1>5, <2>1
  <2> QED
    BY <1>2, <1>3, <1>6, <2>2 DEF AtCarry
<1> QED
  BY <1>1, <1>5, <1>6

-----------------------------------------------------------------------------
(* The inductive invariant.  The second run repeats the positions of the first because  *)
(* each position follows from the one before it, and what was printed is that history. *)

\* Position k of a history is the rotors' change from the one before it.
Follows(s, history) ==
  \A k \in 1..Len(history) :
    history[k] = rotor_change(s, IF k = 1 THEN s.initial ELSE history[k - 1])

Turned(s, text, history, result) ==
  \A k \in 1..Len(result) : result[k] = Encrypted(s, text[k], history[k])

Typed ==
  /\ entered \in EnteredOK /\ times \in {1, 2} /\ current_position \in Position
  /\ letters \in Seq(Letter) /\ cipher \in Seq(Letter) /\ printed \in Seq(Position)
  /\ first.letters \in Seq(Letter) /\ first.printed \in Seq(Position)

ThisRun ==
  /\ Len(printed) = Len(cipher) /\ Len(cipher) <= Len(letters)
  /\ current_position =
       IF Len(printed) = 0 THEN entered.initial ELSE printed[Len(printed)]
  /\ Follows(entered, printed) /\ Turned(entered, letters, printed, cipher)

FirstRun ==
  times = 2 =>
    /\ Len(first.printed) = Len(letters) /\ Len(first.letters) = Len(letters)
    /\ Follows(entered, first.printed)
    /\ Turned(entered, first.letters, first.printed, letters)
    /\ \A k \in 1..Len(printed) : printed[k] = first.printed[k]

Inv == Typed /\ ThisRun /\ FirstRun

\* The first run begins with an empty history.
LEMMA InitInv == EnigmaInit => Inv
<1> SUFFICES ASSUME EnigmaInit PROVE Inv
  OBVIOUS
<1>1. Typed
  BY EnigmaAssumption DEF EnigmaInit, Typed, Settings, EnteredOK, Position
<1>2. Len(cipher) = 0 /\ Len(printed) = 0 /\ Len(letters) \in Nat
  BY <1>1 DEF EnigmaInit, Typed
<1>3. ThisRun
  BY <1>1, <1>2 DEF EnigmaInit, ThisRun, Follows, Turned
<1> QED
  BY <1>1, <1>3 DEF EnigmaInit, Inv, FirstRun

\* A letter extends the history, and in the second run as in the first.
LEMMA EncryptInv ==
  ASSUME Inv, encrypt
  PROVE  Inv'
<1> DEFINE n == Len(cipher)
           p == rotor_change(entered, current_position)
           c == Encrypted(entered, letters[n + 1], p)
<1>1. Typed /\ ThisRun /\ FirstRun
  BY DEF Inv
<1>2. /\ n < Len(letters) /\ current_position' = p
      /\ printed' = Append(printed, p) /\ cipher' = Append(cipher, c)
      /\ UNCHANGED <<entered, times, letters, first>>
  BY DEF encrypt
<1>3. n \in Nat /\ Len(letters) \in Nat /\ Len(printed) = n /\ letters[n + 1] \in Letter
  BY <1>1, <1>2 DEF Typed, ThisRun
<1>4. p \in Position /\ c \in Letter
  BY <1>1, <1>3, ChangeTyped, EncryptedTwice DEF Typed
<1>5. p = rotor_change(entered, IF n + 1 = 1 THEN entered.initial ELSE printed[n])
  BY <1>1, <1>3 DEF ThisRun
<1>6. c = Encrypted(entered, letters[n + 1], p)
  OBVIOUS
<1> HIDE DEF c, p
<1>7. /\ Len(printed') = n + 1 /\ printed'[n + 1] = p
      /\ \A k \in 1..n : printed'[k] = printed[k]
      /\ Len(cipher') = n + 1 /\ cipher'[n + 1] = c
      /\ \A k \in 1..n : cipher'[k] = cipher[k]
  BY <1>1, <1>2, <1>3, <1>4 DEF Typed
<1>8. Typed'
  BY <1>1, <1>2, <1>4 DEF Typed
<1> HIDE DEF n
<1>9. Follows(entered, printed)'
  <2> SUFFICES ASSUME NEW k \in 1..n + 1
               PROVE  printed'[k] = rotor_change(entered, IF k = 1 THEN entered.initial ELSE printed'[k - 1])
    BY <1>2, <1>7 DEF Follows
  <2>1. CASE k = n + 1
    <3>1. k # 1 => printed'[k - 1] = printed[n]
      BY <1>3, <1>7, <2>1
    <3> QED
      BY <1>3, <1>5, <1>7, <2>1, <3>1
  <2>2. CASE k # n + 1
    <3>1. k \in 1..n /\ (k # 1 => k - 1 \in 1..n)
      BY <1>3, <2>2
    <3>2. printed[k] = rotor_change(entered, IF k = 1 THEN entered.initial ELSE printed[k - 1])
      BY <1>1, <1>3, <3>1 DEF ThisRun, Follows
    <3> QED
      BY <1>7, <3>1, <3>2
  <2> QED
    BY <2>1, <2>2
<1>10. Turned(entered, letters, printed, cipher)'
  <2> SUFFICES ASSUME NEW k \in 1..n + 1
               PROVE  cipher'[k] = Encrypted(entered, letters[k], printed'[k])
    BY <1>2, <1>7 DEF Turned
  <2>1. CASE k = n + 1
    BY <1>6, <1>7, <2>1
  <2>2. CASE k # n + 1
    <3>1. k \in 1..n /\ n = Len(cipher)
      BY <1>3, <2>2 DEF n
    <3> QED
      BY <1>1, <1>7, <3>1 DEF ThisRun, Turned
  <2> QED
    BY <2>1, <2>2
<1>11. ThisRun'
  BY <1>2, <1>3, <1>7, <1>9, <1>10 DEF ThisRun
<1>12. FirstRun'
  <2> SUFFICES ASSUME times = 2
               PROVE  \A k \in 1..n + 1 : printed'[k] = first.printed[k]
    BY <1>1, <1>2, <1>7 DEF FirstRun
  <2>1. Len(first.printed) = Len(letters) /\ Follows(entered, first.printed)
        /\ \A k \in 1..n : printed[k] = first.printed[k]
    BY <1>1, <1>3 DEF FirstRun
  <2>2. n + 1 \in 1..Len(first.printed)
    BY <1>2, <1>3, <2>1
  <2>3. first.printed[n + 1]
          = rotor_change(entered, IF n + 1 = 1 THEN entered.initial ELSE first.printed[(n + 1) - 1])
    BY <2>1, <2>2 DEF Follows
  <2>4. n + 1 # 1 => first.printed[(n + 1) - 1] = printed[n]
    BY <1>3, <2>1
  <2>5. first.printed[n + 1] = p
    BY <1>5, <2>3, <2>4
  <2> QED
    BY <1>3, <1>7, <2>1, <2>5
<1> QED
  BY <1>8, <1>11, <1>12 DEF Inv

\* The end of the first run is the beginning of the second.
LEMMA RerunInv ==
  ASSUME Inv, Rerun
  PROVE  Inv'
<1>1. Typed /\ ThisRun
  BY DEF Inv
<1>2. /\ Len(cipher) = Len(letters) /\ times' = 2 /\ letters' = cipher
      /\ current_position' = entered.initial /\ cipher' = <<>> /\ printed' = <<>>
      /\ first' = [letters |-> letters, printed |-> printed] /\ entered' = entered
  BY DEF Rerun
<1>3. Typed'
  BY <1>1, <1>2 DEF Typed, EnteredOK
<1>4. /\ Len(cipher') = 0 /\ Len(printed') = 0 /\ Len(letters') \in Nat
      /\ first'.letters = letters /\ first'.printed = printed
  BY <1>1, <1>2 DEF Typed
<1>5. ThisRun'
  BY <1>2, <1>4 DEF ThisRun, Follows, Turned
<1>6. FirstRun'
  BY <1>1, <1>2, <1>4 DEF FirstRun, ThisRun, Follows, Turned
<1> QED
  BY <1>3, <1>5, <1>6 DEF Inv

\* The invariant holds in every state of both runs.
LEMMA AlwaysInv == EnigmaSpec => []Inv
<1>1. Inv /\ UNCHANGED enigmaVars => Inv'
  BY DEF enigmaVars, Inv, Typed, ThisRun, FirstRun, Follows, Turned
<1>2. Inv /\ [EnigmaNext]_enigmaVars => Inv'
  BY <1>1, EncryptInv, RerunInv DEF EnigmaNext
<1> QED
  BY <1>2, InitInv, PTL DEF EnigmaSpec

-----------------------------------------------------------------------------
(* The theorems. *)

\* The second run prints the letters of the first text again.
THEOREM Reciprocal == EnigmaSpec => []DecryptsBack
<1>1. Inv => DecryptsBack
  <2> SUFFICES ASSUME Inv, times = 2, NEW k \in 1..Len(cipher)
               PROVE  cipher[k] = first.letters[k]
    BY DEF DecryptsBack
  <2>1. Typed /\ ThisRun /\ FirstRun
    BY DEF Inv
  <2>2. k \in 1..Len(letters) /\ k \in 1..Len(printed) /\ k \in 1..Len(first.letters)
        /\ k \in 1..Len(first.printed)
    BY <2>1 DEF Typed, ThisRun, FirstRun
  <2>3. /\ cipher[k] = Encrypted(entered, letters[k], printed[k])
        /\ letters[k] = Encrypted(entered, first.letters[k], first.printed[k])
        /\ printed[k] = first.printed[k]
    BY <2>1, <2>2 DEF ThisRun, FirstRun, Turned
  <2>4. entered \in EnteredOK /\ first.letters[k] \in Letter /\ first.printed[k] \in Position
    BY <2>1, <2>2 DEF Typed
  <2> QED
    BY <2>3, <2>4, EncryptedTwice
<1> QED
  BY <1>1, AlwaysInv, PTL

\* After the first letter the middle and the low rotor are never both on their carry, so
\* that the middle one moves at most once for a letter.
THEOREM MiddleMovesOnce == EnigmaSpec => []MovesOnce
<1>1. EnigmaInit => MovesOnce
  BY DEF EnigmaInit, MovesOnce
<1>2. Inv /\ MovesOnce /\ [EnigmaNext]_enigmaVars => MovesOnce'
  <2> SUFFICES ASSUME Inv, MovesOnce, [EnigmaNext]_enigmaVars PROVE MovesOnce'
    OBVIOUS
  <2>1. CASE encrypt
    BY <2>1, ChangeTyped DEF encrypt, Inv, Typed, MovesOnce
  <2>2. CASE Rerun
    BY <2>2 DEF Rerun, MovesOnce
  <2>3. CASE UNCHANGED enigmaVars
    BY <2>3 DEF enigmaVars, MovesOnce
  <2> QED
    BY <2>1, <2>2, <2>3 DEF EnigmaNext
<1> QED
  BY <1>1, <1>2, AlwaysInv, PTL DEF EnigmaSpec

-----------------------------------------------------------------------------
(* The loops of the product of two pairings. *)

\* A pairing of the letters.
Pairing(a) == a \in [Letter -> Letter] /\ \A x \in Letter : a[a[x]] = x /\ a[x] # x

\* p is one pairing after another.
ProductOf(p, a, b) == Pairing(a) /\ Pairing(b) /\ \A x \in Letter : p[x] = b[a[x]]

\* q is a loop of p, or part of one.
Path(p, q) ==
  /\ q \in Seq(Letter) /\ q # <<>>
  /\ \A j, k \in 1..Len(q) : q[j] = q[k] => j = k
  /\ \A j \in 1..Len(q) - 1 : p[q[j]] = q[j + 1]
Cycle(p, q) == Path(p, q) /\ p[q[Len(q)]] = q[1]

On(q, x) == \E j \in 1..Len(q) : q[j] = x

\* The product is injective, and takes what the first pairing makes of it back.
LEMMA ProductTurns ==
  ASSUME NEW p, NEW a, NEW b, ProductOf(p, a, b)
  PROVE  /\ \A x \in Letter : a[x] \in Letter /\ a[a[x]] = x /\ p[x] \in Letter
         /\ \A x \in Letter : p[a[p[x]]] = a[x]
         /\ \A x, y \in Letter : p[x] = p[y] => x = y
         /\ \A x \in Letter : a[x] # x /\ p[x] # a[x]
<1>1. /\ \A x \in Letter : a[x] \in Letter /\ a[a[x]] = x /\ a[x] # x
      /\ \A x \in Letter : b[x] \in Letter /\ b[b[x]] = x /\ b[x] # x
      /\ \A x \in Letter : p[x] = b[a[x]]
  BY DEF ProductOf, Pairing
<1>2. \A x \in Letter : p[x] \in Letter
  BY <1>1
<1>3. ASSUME NEW x \in Letter PROVE p[a[p[x]]] = a[x]
  <2>1. p[x] \in Letter /\ a[p[x]] \in Letter
    BY <1>1, <1>2
  <2>2. p[a[p[x]]] = b[a[a[p[x]]]] /\ a[a[p[x]]] = p[x]
    BY <1>1, <2>1
  <2>3. p[x] = b[a[x]] /\ b[b[a[x]]] = a[x]
    BY <1>1
  <2>. QED
    BY <2>2, <2>3
<1>4. ASSUME NEW x \in Letter, NEW y \in Letter, p[x] = p[y] PROVE x = y
  <2>1. a[x] \in Letter /\ a[y] \in Letter /\ b[a[x]] = b[a[y]]
    BY <1>1, <1>4
  <2>2. a[x] = a[y]
    BY <1>1, <2>1
  <2>. QED
    BY <1>1, <2>2
<1>5. ASSUME NEW x \in Letter PROVE p[x] # a[x]
  <2>1. a[x] \in Letter /\ p[x] = b[a[x]] /\ b[a[x]] # a[x]
    BY <1>1
  <2>. QED
    BY <2>1
<1>. QED
  BY <1>1, <1>2, <1>3, <1>4, <1>5

\* What p takes to a letter on a loop of p is on the loop: the letter before it.
LEMMA LoopBefore ==
  ASSUME NEW p, NEW a, NEW b, ProductOf(p, a, b), NEW q, Cycle(p, q),
         NEW y \in Letter, NEW m \in 1..Len(q), p[y] = q[m]
  PROVE  On(q, y) /\ (m > 1 => y = q[m - 1])
<1>1. /\ q \in Seq(Letter) /\ q # <<>> /\ p[q[Len(q)]] = q[1]
      /\ \A j \in 1..Len(q) - 1 : p[q[j]] = q[j + 1]
  BY DEF Cycle, Path
<1>2. Len(q) \in Nat /\ Len(q) # 0 /\ \A j \in 1..Len(q) : q[j] \in Letter
  BY <1>1
<1>3. \A u, v \in Letter : p[u] = p[v] => u = v
  BY ProductTurns
<1>4. CASE m > 1
  <2>1. m - 1 \in 1..Len(q) - 1 /\ m - 1 \in 1..Len(q) /\ (m - 1) + 1 = m
    BY <1>2, <1>4
  <2>2. p[q[m - 1]] = q[m]
    BY <1>1, <2>1
  <2>3. y = q[m - 1]
    BY <1>2, <1>3, <2>1, <2>2
  <2>. QED
    BY <2>1, <2>3 DEF On
<1>5. CASE ~(m > 1)
  <2>1. m = 1 /\ Len(q) \in 1..Len(q)
    BY <1>2, <1>5
  <2>2. y = q[Len(q)]
    BY <1>1, <1>2, <1>3, <2>1
  <2>. QED
    BY <1>5, <2>1, <2>2 DEF On
<1>. QED
  BY <1>4, <1>5

\* What p takes a letter on a loop of p to is on the loop.
LEMMA LoopAfter ==
  ASSUME NEW p, NEW q, Cycle(p, q), NEW m \in 1..Len(q)
  PROVE  On(q, p[q[m]])
<1>1. /\ q \in Seq(Letter) /\ q # <<>> /\ p[q[Len(q)]] = q[1]
      /\ \A j \in 1..Len(q) - 1 : p[q[j]] = q[j + 1]
  BY DEF Cycle, Path
<1>2. Len(q) \in Nat /\ Len(q) # 0
  BY <1>1
<1>3. CASE m = Len(q)
  BY <1>1, <1>2, <1>3 DEF On
<1>4. CASE m # Len(q)
  <2>1. m \in 1..Len(q) - 1 /\ m + 1 \in 1..Len(q)
    BY <1>2, <1>4
  <2>. QED
    BY <1>1, <2>1 DEF On
<1>. QED
  BY <1>3, <1>4

\* The first pairing takes either all letters of a loop into another one, or none.
LEMMA LoopToLoop ==
  ASSUME NEW p, NEW a, NEW b, ProductOf(p, a, b), NEW q, NEW r, Cycle(p, q), Cycle(p, r)
  PROVE  \A j \in 1..Len(q) : On(r, a[q[j]]) <=> On(r, a[q[1]])
<1> DEFINE S == {k \in Nat : k + 1 \in 1..Len(q) => (On(r, a[q[k + 1]]) <=> On(r, a[q[1]]))}
<1>1. /\ q \in Seq(Letter) /\ Len(q) \in Nat /\ \A j \in 1..Len(q) - 1 : p[q[j]] = q[j + 1]
      /\ \A j \in 1..Len(q) : q[j] \in Letter
  BY DEF Cycle, Path
<1>2. 0 \in S
  OBVIOUS
<1>3. ASSUME NEW k \in Nat, k \in S PROVE k + 1 \in S
  <2> SUFFICES ASSUME (k + 1) + 1 \in 1..Len(q)
               PROVE  On(r, a[q[(k + 1) + 1]]) <=> On(r, a[q[1]])
    OBVIOUS
  <2>1. k + 1 \in 1..Len(q) /\ k + 1 \in 1..Len(q) - 1
    BY <1>1
  <2> DEFINE x == q[k + 1]
             y == a[p[x]]
  <2>2. q[(k + 1) + 1] = p[x] /\ x \in Letter
    BY <1>1, <2>1
  <2>3. p[x] \in Letter /\ y \in Letter /\ p[y] = a[x]
    BY <2>2, ProductTurns
  <2>4. On(r, a[x]) <=> On(r, a[q[1]])
    BY <1>3, <2>1
  <2> HIDE DEF x, y
  <2>5. On(r, a[x]) => On(r, y)
    BY <2>3, LoopBefore DEF On
  <2>6. On(r, y) => On(r, a[x])
    BY <2>3, LoopAfter DEF On
  <2>. QED
    BY <2>2, <2>4, <2>5, <2>6 DEF y
<1> HIDE DEF S
<1>4. \A k \in Nat : k \in S
  BY <1>2, <1>3, Inductive
<1> SUFFICES ASSUME NEW j \in 1..Len(q) PROVE On(r, a[q[j]]) <=> On(r, a[q[1]])
  OBVIOUS
<1>5. j - 1 \in Nat /\ (j - 1) + 1 = j /\ j - 1 \in S
  BY <1>1, <1>4
<1>. QED
  BY <1>5 DEF S

\* The first pairing takes no letter of a loop into the same loop.
LEMMA LoopApart ==
  ASSUME NEW p, NEW a, NEW b, ProductOf(p, a, b), NEW q, Cycle(p, q)
  PROVE  ~On(q, a[q[1]])
<1> SUFFICES ASSUME NEW m \in 1..Len(q), q[m] = a[q[1]] PROVE FALSE
  BY DEF On
<1> DEFINE S == {k \in Nat : k + 1 \in 1..m => a[q[k + 1]] = q[m - k]}
<1>1. /\ q \in Seq(Letter) /\ Len(q) \in Nat /\ \A j \in 1..Len(q) - 1 : p[q[j]] = q[j + 1]
      /\ \A j \in 1..Len(q) : q[j] \in Letter
  BY DEF Cycle, Path
<1>2. 0 \in S
  OBVIOUS
<1>3. ASSUME NEW k \in Nat, k \in S PROVE k + 1 \in S
  <2> SUFFICES ASSUME (k + 1) + 1 \in 1..m PROVE a[q[(k + 1) + 1]] = q[m - (k + 1)]
    OBVIOUS
  <2>1. k + 1 \in 1..m /\ k + 1 \in 1..Len(q) - 1 /\ k + 1 \in 1..Len(q) /\ m - k \in 1..Len(q)
        /\ m - k > 1 /\ (m - k) - 1 = m - (k + 1)
    BY <1>1
  <2> DEFINE x == q[k + 1]
             y == a[p[x]]
  <2>2. q[(k + 1) + 1] = p[x] /\ x \in Letter
    BY <1>1, <2>1
  <2>3. p[x] \in Letter /\ y \in Letter /\ p[y] = a[x]
    BY <2>2, ProductTurns
  <2>4. p[y] = q[m - k]
    BY <1>3, <2>1, <2>3
  <2> HIDE DEF x, y
  <2>5. y = q[(m - k) - 1]
    BY <2>1, <2>3, <2>4, LoopBefore
  <2>. QED
    BY <2>1, <2>2, <2>5 DEF y
<1> HIDE DEF S
<1>4. \A k \in Nat : k \in S
  BY <1>2, <1>3, Inductive
<1>5. ASSUME NEW j \in 1..m PROVE a[q[j]] = q[(m + 1) - j]
  <2>1. j - 1 \in Nat /\ (j - 1) + 1 = j /\ j - 1 \in S /\ m - (j - 1) = (m + 1) - j
    BY <1>1, <1>4
  <2>. QED
    BY <2>1 DEF S
<1>6. PICK h \in Nat : m = 2 * h \/ m = 2 * h + 1
  <2>1. m \in Int /\ m > 0
    OBVIOUS
  <2>2. m = 2 * (m \div 2) + (m % 2) /\ m % 2 \in 0..1 /\ m \div 2 \in Int
    BY <2>1, DivMod
  <2>3. m \div 2 \in Nat
    BY <2>1, <2>2
  <2>. QED
    BY <2>2, <2>3
<1>7. CASE m = 2 * h + 1
  <2>1. h + 1 \in 1..m /\ (m + 1) - (h + 1) = h + 1 /\ h + 1 \in 1..Len(q)
    BY <1>1, <1>6, <1>7
  <2>2. a[q[h + 1]] = q[h + 1] /\ q[h + 1] \in Letter
    BY <1>1, <1>5, <2>1
  <2>. QED
    BY <2>2, ProductTurns
<1>8. CASE m = 2 * h
  <2>1. h \in 1..m /\ (m + 1) - h = h + 1 /\ h \in 1..Len(q) - 1 /\ h \in 1..Len(q)
    BY <1>1, <1>6, <1>8
  <2>2. a[q[h]] = q[h + 1] /\ q[h] \in Letter /\ p[q[h]] = q[h + 1]
    BY <1>1, <1>5, <2>1
  <2>. QED
    BY <2>2, ProductTurns
<1>. QED
  BY <1>6, <1>7, <1>8

\* The numbers from 1 to n are n.
LEMMA CountTo ==
  \A n \in Nat : IsFiniteSet(1..n) /\ Cardinality(1..n) = n
<1> SUFFICES ASSUME NEW n \in Nat PROVE IsFiniteSet(1..n) /\ Cardinality(1..n) = n
  OBVIOUS
<1>1. IsFiniteSet(1..n) /\ Cardinality(1..n) = IF 1 > n THEN 0 ELSE n - 1 + 1
  BY FS_Interval
<1>. QED
  BY <1>1

\* A loop that the first pairing takes a letter of into another is not longer than that.
LEMMA LoopFits ==
  ASSUME NEW p, NEW a, NEW b, ProductOf(p, a, b), NEW q, NEW r, Cycle(p, q), Cycle(p, r),
         \A j \in 1..Len(q) : On(r, a[q[j]])
  PROVE  Len(q) <= Len(r)
<1>1. /\ q \in Seq(Letter) /\ Len(q) \in Nat /\ Len(r) \in Nat
      /\ \A j \in 1..Len(q) : q[j] \in Letter
      /\ \A j, k \in 1..Len(q) : q[j] = q[k] => j = k
  BY DEF Cycle, Path
<1> DEFINE at == [j \in 1..Len(q) |-> CHOOSE k \in 1..Len(r) : r[k] = a[q[j]]]
<1>2. \A j \in 1..Len(q) : at[j] \in 1..Len(r) /\ r[at[j]] = a[q[j]]
  BY DEF On
<1>3. at \in [1..Len(q) -> 1..Len(r)]
  BY <1>2
<1>4. ASSUME NEW j \in 1..Len(q), NEW k \in 1..Len(q), at[j] = at[k] PROVE j = k
  <2>1. a[q[j]] = a[q[k]]
    BY <1>2, <1>4
  <2>2. q[j] = q[k]
    BY <1>1, <2>1, ProductTurns
  <2>. QED
    BY <1>1, <2>2
<1> HIDE DEF at
<1>5. at \in Injection(1..Len(q), 1..Len(r))
  BY <1>3, <1>4 DEF Injection, IsInjective
<1>6. /\ IsFiniteSet(1..Len(q)) /\ Cardinality(1..Len(q)) = Len(q)
      /\ IsFiniteSet(1..Len(r)) /\ Cardinality(1..Len(r)) = Len(r)
  BY <1>1, CountTo
<1>7. Cardinality(1..Len(q)) <= Cardinality(1..Len(r))
  BY <1>5, <1>6, FS_Injection
<1>. QED
  BY <1>6, <1>7

-----------------------------------------------------------------------------
(* Sets whose elements are paired, and lists of which equal entries are. *)

\* f pairs the elements of S.
Pairs(S, f) == f \in [S -> S] /\ \A x \in S : f[f[x]] = x /\ f[x] # x

\* A finite set whose elements are paired has an even number of them.
LEMMA PairedIsEven ==
  ASSUME NEW S, NEW f, IsFiniteSet(S), Pairs(S, f)
  PROVE  Cardinality(S) % 2 = 0
<1> DEFINE Odd(n) == \E T, g : IsFiniteSet(T) /\ Pairs(T, g) /\ Cardinality(T) = n /\ n % 2 # 0
           Wrong == {n \in Nat : Odd(n)}
<1> SUFFICES ASSUME Wrong # {} PROVE FALSE
  BY FS_CardinalityType
<1>1. PICK n \in Wrong : \A k \in Wrong : n <= k
  <2>1. Wrong \subseteq Nat
    OBVIOUS
  <2> HIDE DEF Wrong
  <2>. QED
    BY <2>1, LeastNumber
<1>2. PICK T, g : IsFiniteSet(T) /\ Pairs(T, g) /\ Cardinality(T) = n /\ n % 2 # 0
  BY <1>1
<1>3. PICK x \in T : TRUE
  <2>1. n # 0
    BY <1>2
  <2>. QED
    BY <1>2, <2>1, FS_EmptySet
<1>4. g[x] \in T /\ g[x] # x /\ g[g[x]] = x
  BY <1>2 DEF Pairs
<1> DEFINE U == (T \ {x}) \ {g[x]}
           h == [y \in U |-> g[y]]
<1>5. IsFiniteSet(U) /\ Cardinality(U) = n - 2
  <2>1. IsFiniteSet(T \ {x}) /\ Cardinality(T \ {x}) = n - 1
    BY <1>2, FS_RemoveElement
  <2>2. g[x] \in T \ {x}
    BY <1>4
  <2>3. IsFiniteSet(U) /\ Cardinality(U) = (n - 1) - 1
    BY <2>1, <2>2, FS_RemoveElement
  <2>. QED
    BY <1>1, <2>3
<1>6. Pairs(U, h)
  <2>1. ASSUME NEW y \in U PROVE g[y] \in U /\ g[g[y]] = y /\ g[y] # y
    <3>1. y \in T /\ y # x /\ y # g[x]
      OBVIOUS
    <3>2. g[y] \in T /\ g[g[y]] = y /\ g[y] # y
      BY <1>2, <3>1 DEF Pairs
    <3>3. g[y] # x /\ g[y] # g[x]
      BY <1>2, <1>4, <3>1, <3>2 DEF Pairs
    <3>. QED
      BY <3>2, <3>3
  <2>2. h \in [U -> U]
    BY <2>1
  <2>. QED
    BY <2>1, <2>2 DEF Pairs
<1>7. n - 2 \in Nat /\ (n - 2) % 2 # 0
  <2>1. n - 2 \in Nat
    BY <1>5, FS_CardinalityType
  <2>. QED
    BY <1>1, <1>2, <2>1
<1>8. n - 2 \in Wrong
  BY <1>5, <1>6, <1>7
<1>. QED
  BY <1>1, <1>8

\* v is in ascending order, and f pairs its entries, each with an equal one.
SortedWithPairs(n, v, f) ==
  /\ Pairs(1..n, f) /\ \A j \in 1..n : v[j] \in Nat /\ v[f[j]] = v[j]
  /\ \A j, k \in 1..n : j < k => v[j] <= v[k]

\* Then equal entries are next to each other.
LEMMA SortedPairs ==
  ASSUME NEW n \in Nat, NEW v, NEW f, SortedWithPairs(n, v, f)
  PROVE  n % 2 = 0 /\ \A j \in 1..n \div 2 : v[2 * j - 1] = v[2 * j]
<1>0. /\ Pairs(1..n, f) /\ \A j \in 1..n : v[j] \in Nat /\ v[f[j]] = v[j]
      /\ \A j, k \in 1..n : j < k => v[j] <= v[k]
  BY DEF SortedWithPairs
<1>1. n % 2 = 0
  BY <1>0, CountTo, PairedIsEven
<1>2. ASSUME NEW j \in 1..n \div 2, v[2 * j - 1] # v[2 * j] PROVE FALSE
  <2> DEFINE i == 2 * j - 1
             g == [k \in 1..i |-> f[k]]
  <2>1. n \div 2 \in Int /\ 2 * (n \div 2) <= n
    OBVIOUS
  <2>2. j \in Nat /\ i \in Nat /\ i \in 1..n /\ i + 1 \in 1..n /\ 2 * j = i + 1 /\ i % 2 = 1
    BY <2>1
  <2> HIDE DEF i
  <2>3. v[i] < v[i + 1]
    BY <1>0, <1>2, <2>2 DEF i
  <2>4. ASSUME NEW k \in 1..i PROVE f[k] \in 1..i
    <3>1. k \in 1..n /\ f[k] \in 1..n
      BY <1>0, <2>2 DEF Pairs
    <3>2. v[f[k]] <= v[i]
      BY <1>0, <2>2, <3>1
    <3>3. ~(f[k] >= i + 1)
      BY <1>0, <2>2, <2>3, <3>1, <3>2
    <3>. QED
      BY <2>2, <3>1, <3>3
  <2>5. Pairs(1..i, g)
    <3>1. g \in [1..i -> 1..i]
      BY <2>4
    <3>2. \A k \in 1..i : g[g[k]] = k /\ g[k] # k
      BY <1>0, <2>2, <2>4 DEF Pairs
    <3>. QED
      BY <3>1, <3>2 DEF Pairs
  <2>6. i % 2 = 0
    BY <2>2, <2>5, CountTo, PairedIsEven
  <2>. QED
    BY <2>2, <2>6
<1>. QED
  BY <1>1, <1>2

\* Different numbers from 1 to n for different ones are all of them.
LEMMA OneToOneIsOnto ==
  ASSUME NEW n \in Nat, NEW f \in [1..n -> 1..n], \A j, k \in 1..n : f[j] = f[k] => j = k
  PROVE  \A i \in 1..n : \E j \in 1..n : f[j] = i
<1>1. f \in Injection(1..n, 1..n)
  BY DEF Injection, IsInjective
<1>2. IsFiniteSet(1..n)
  BY CountTo
<1>3. f \in Surjection(1..n, 1..n)
  BY <1>1, <1>2, FS_Injection
<1>. QED
  BY <1>3 DEF Surjection

\* A list is put in ascending order by an order of its entries.
LEMMA SortingExists ==
  ASSUME NEW n \in Nat, NEW v, \A j \in 1..n : v[j] \in Nat
  PROVE  \E f \in [1..n -> 1..n] :
           /\ \A j, k \in 1..n : j < k => v[f[j]] <= v[f[k]]
           /\ \A j, k \in 1..n : f[j] = f[k] => j = k
<1> DEFINE Upto(j) == {k \in 1..n : v[k] < v[j] \/ (v[k] = v[j] /\ k <= j)}
           rank == [j \in 1..n |-> Cardinality(Upto(j))]
<1>1. \A j \in 1..n : v[j] \in Nat /\ j \in Nat
  OBVIOUS
<1>2. \A j \in 1..n : Upto(j) \in SUBSET (1..n) /\ j \in Upto(j)
  BY <1>1
<1>3. \A j, k \in 1..n : Upto(j) \subseteq Upto(k) \/ Upto(k) \subseteq Upto(j)
  BY <1>1
<1>4. \A j, k \in 1..n : Upto(j) \subseteq Upto(k) => v[j] <= v[k] /\ (v[j] = v[k] => j <= k)
  BY <1>1
<1> HIDE DEF Upto
<1>5. IsFiniteSet(1..n) /\ Cardinality(1..n) = n
  BY CountTo
<1>6. ASSUME NEW j \in 1..n
      PROVE  IsFiniteSet(Upto(j)) /\ rank[j] = Cardinality(Upto(j)) /\ rank[j] \in 1..n
  <2>1. IsFiniteSet(Upto(j)) /\ Cardinality(Upto(j)) <= n
    BY <1>2, <1>5, FS_Subset
  <2>2. Cardinality(Upto(j)) \in Nat /\ Cardinality(Upto(j)) # 0
    BY <1>2, <2>1, FS_CardinalityType, FS_EmptySet
  <2>. QED
    BY <2>1, <2>2
<1>7. ASSUME NEW j \in 1..n, NEW k \in 1..n, Upto(j) \subseteq Upto(k)
      PROVE  rank[j] <= rank[k] /\ (rank[j] = rank[k] => j = k)
  <2>1. Cardinality(Upto(j)) <= Cardinality(Upto(k))
        /\ (Cardinality(Upto(k)) = Cardinality(Upto(j)) => Upto(k) = Upto(j))
    BY <1>6, <1>7, FS_Subset
  <2>2. Upto(k) = Upto(j) => v[j] <= v[k] /\ v[k] <= v[j] /\ (v[j] = v[k] => j <= k /\ k <= j)
    BY <1>4
  <2>3. Upto(k) = Upto(j) => j = k
    BY <1>1, <2>2
  <2>. QED
    BY <1>6, <2>1, <2>3
<1> HIDE DEF rank
<1>8. rank \in [1..n -> 1..n] /\ \A j, k \in 1..n : rank[j] = rank[k] => j = k
  <2>1. \A j, k \in 1..n : rank[j] = rank[k] => j = k
    BY <1>3, <1>7
  <2>2. rank \in [1..n -> 1..n]
    BY <1>6 DEF rank
  <2>. QED
    BY <2>1, <2>2
<1>9. \A i \in 1..n : \E j \in 1..n : rank[j] = i
  BY <1>8, OneToOneIsOnto
<1> DEFINE f == [i \in 1..n |-> CHOOSE j \in 1..n : rank[j] = i]
<1>10. \A i \in 1..n : f[i] \in 1..n /\ rank[f[i]] = i
  BY <1>9
<1>11. f \in [1..n -> 1..n]
  BY <1>10
<1> HIDE DEF f
<1>12. \A j, k \in 1..n : f[j] = f[k] => j = k
  BY <1>10
<1>13. ASSUME NEW j \in 1..n, NEW k \in 1..n, j < k PROVE v[f[j]] <= v[f[k]]
  <2>1. ~(Upto(f[k]) \subseteq Upto(f[j]))
    <3>1. f[j] \in 1..n /\ f[k] \in 1..n /\ rank[f[j]] = j /\ rank[f[k]] = k
      BY <1>10
    <3>2. Upto(f[k]) \subseteq Upto(f[j]) => rank[f[k]] <= rank[f[j]]
      BY <1>7, <3>1
    <3>. QED
      BY <1>13, <3>1, <3>2
  <2>2. Upto(f[j]) \subseteq Upto(f[k])
    BY <1>3, <1>10, <2>1
  <2>. QED
    BY <1>4, <1>10, <2>2
<1>. QED
  BY <1>11, <1>12, <1>13

\* sort() puts the entries in another order, which is ascending.
LEMMA AscendingSorts ==
  ASSUME NEW w \in Seq(Nat)
  PROVE  \E f \in [1..Len(w) -> 1..Len(w)] :
           /\ Ascending(w) = [j \in 1..Len(w) |-> w[f[j]]]
           /\ \A j, k \in 1..Len(w) : j < k => w[f[j]] <= w[f[k]]
           /\ \A j, k \in 1..Len(w) : f[j] = f[k] => j = k
<1> DEFINE n == Len(w)
           Sorting(f) == /\ \A j, k \in 1..n : j < k => w[f[j]] <= w[f[k]]
                         /\ \A j, k \in 1..n : f[j] = f[k] => j = k
           f0 == CHOOSE f \in [1..n -> 1..n] : Sorting(f)
<1>1. n \in Nat /\ \A j \in 1..n : w[j] \in Nat
  OBVIOUS
<1>2. Ascending(w) = [j \in 1..n |-> w[f0[j]]]
  BY DEF Ascending
<1>3. \E f \in [1..n -> 1..n] : Sorting(f)
  BY <1>1, SortingExists
<1> HIDE DEF Sorting
<1>4. f0 \in [1..n -> 1..n] /\ Sorting(f0)
  BY <1>3
<1> HIDE DEF f0
<1>5. Sorting(f0) => /\ \A j, k \in 1..n : j < k => w[f0[j]] <= w[f0[k]]
                     /\ \A j, k \in 1..n : f0[j] = f0[k] => j = k
  BY DEF Sorting
<1>. QED
  BY <1>2, <1>4, <1>5

-----------------------------------------------------------------------------
(* The lengths of all loops of a product of two pairings. *)

\* qs are loops of p without a letter in common, and w are their lengths.
LoopsOf(p, qs, w) ==
  /\ qs \in Seq(Seq(Letter)) /\ w \in Seq(Nat) /\ Len(w) = Len(qs)
  /\ \A j \in 1..Len(qs) : Cycle(p, qs[j]) /\ w[j] = Len(qs[j])
  /\ \A j, k \in 1..Len(qs) : \A x \in Letter : On(qs[j], x) /\ On(qs[k], x) => j = k

OnSome(qs, x) == \E j \in 1..Len(qs) : On(qs[j], x)

\* The letters that the first pairing takes those of a loop to are another loop, of the
\* same length.
LEMMA LoopsPaired ==
  ASSUME NEW p, NEW a, NEW b, ProductOf(p, a, b), NEW qs, NEW w, LoopsOf(p, qs, w),
         \A x \in Letter : OnSome(qs, x)
  PROVE  \E f : Pairs(1..Len(qs), f) /\ \A j \in 1..Len(qs) : w[f[j]] = w[j]
<1> DEFINE n == Len(qs)
           Into1(j, k) == On(qs[k], a[qs[j][1]])
           f == [j \in 1..n |-> CHOOSE k \in 1..n : Into1(j, k)]
<1>1. /\ n \in Nat /\ \A j \in 1..n : Cycle(p, qs[j]) /\ w[j] = Len(qs[j]) /\ qs[j] \in Seq(Letter)
      /\ \A j, k \in 1..n : \A x \in Letter : On(qs[j], x) /\ On(qs[k], x) => j = k
  BY DEF LoopsOf
<1>2. \A j \in 1..n : Len(qs[j]) \in Nat /\ 1 \in 1..Len(qs[j])
                      /\ \A i \in 1..Len(qs[j]) : qs[j][i] \in Letter
  BY <1>1 DEF Cycle, Path
<1>3. \A j \in 1..n : \E k \in 1..n : Into1(j, k)
  BY <1>2, ProductTurns DEF OnSome
<1> HIDE DEF Into1
<1>4. \A j \in 1..n : f[j] \in 1..n /\ Into1(j, f[j])
  BY <1>3
<1>5. f \in [1..n -> 1..n]
  BY <1>4
<1> HIDE DEF f
<1>6. ASSUME NEW j \in 1..n, NEW k \in 1..n, Into1(j, k)
      PROVE  \A i \in 1..Len(qs[j]) : On(qs[k], a[qs[j][i]])
  BY <1>1, <1>6, LoopToLoop DEF Into1
<1>7. ASSUME NEW j \in 1..n, NEW k \in 1..n, Into1(j, k) PROVE Into1(k, j)
  <2> DEFINE x == qs[j][1]
  <2>1. x \in Letter /\ a[x] \in Letter /\ a[a[x]] = x /\ On(qs[j], x)
    BY <1>2, ProductTurns DEF On
  <2> HIDE DEF x
  <2>2. On(qs[k], a[x])
    BY <1>7 DEF Into1, x
  <2>3. PICK m \in 1..Len(qs[k]) : qs[k][m] = a[x]
    BY <2>2 DEF On
  <2>4. On(qs[j], a[qs[k][m]])
    BY <2>1, <2>3
  <2>5. Cycle(p, qs[k]) /\ Cycle(p, qs[j])
    BY <1>1
  <2>6. On(qs[j], a[qs[k][1]])
    BY <2>4, <2>5, LoopToLoop
  <2>. QED
    BY <2>6 DEF Into1
<1>8. ASSUME NEW j \in 1..n, NEW k \in 1..n, Into1(j, k) PROVE k = f[j]
  <2>1. a[qs[j][1]] \in Letter
    BY <1>2, ProductTurns
  <2>. QED
    BY <1>1, <1>4, <1>8, <2>1 DEF Into1
<1>9. \A j \in 1..n : f[f[j]] = j
  BY <1>4, <1>7, <1>8
<1>10. \A j \in 1..n : f[j] # j
  BY <1>1, <1>4, LoopApart DEF Into1
<1>11. ASSUME NEW j \in 1..n, NEW k \in 1..n, Into1(j, k) PROVE Len(qs[j]) <= Len(qs[k])
  BY <1>1, <1>6, <1>11, LoopFits
<1>12. ASSUME NEW j \in 1..n PROVE w[f[j]] = w[j]
  <2>1. Len(qs[j]) <= Len(qs[f[j]]) /\ Len(qs[f[j]]) <= Len(qs[j])
    BY <1>4, <1>7, <1>11
  <2>. QED
    BY <1>1, <1>2, <1>4, <2>1
<1>. QED
  BY <1>5, <1>9, <1>10, <1>12 DEF Pairs

\* The lengths of the loops, in ascending order, are the same two by two, and as many as
\* there are letters together.
LEMMA LengthsInPairs ==
  ASSUME NEW p, NEW a, NEW b, ProductOf(p, a, b), NEW qs, NEW w, LoopsOf(p, qs, w),
         \A x \in Letter : OnSome(qs, x)
  PROVE  /\ Ascending(w) \in Seq(Nat) /\ Total(Ascending(w)) = K
         /\ Len(Ascending(w)) % 2 = 0
         /\ \A j \in 1..Len(Ascending(w)) \div 2 : Ascending(w)[2 * j - 1] = Ascending(w)[2 * j]
<1> DEFINE n == Len(w)
<1>1. /\ n \in Nat /\ n = Len(qs) /\ w \in Seq(Nat)
      /\ \A j \in 1..n : Cycle(p, qs[j]) /\ w[j] = Len(qs[j]) /\ w[j] \in Nat
      /\ \A j, k \in 1..n : \A x \in Letter : On(qs[j], x) /\ On(qs[k], x) => j = k
  BY DEF LoopsOf
<1>2. \A j \in 1..n : /\ \A i \in 1..w[j] : qs[j][i] \in Letter
                      /\ \A i, k \in 1..w[j] : qs[j][i] = qs[j][k] => i = k
  BY <1>1 DEF Cycle, Path
<1>3. PICK o \in [1..n -> 1..n] :
        /\ Ascending(w) = [j \in 1..n |-> w[o[j]]]
        /\ \A j, k \in 1..n : j < k => w[o[j]] <= w[o[k]]
        /\ \A j, k \in 1..n : o[j] = o[k] => j = k
  BY <1>1, AscendingSorts
<1> DEFINE v == Ascending(w)
<1>4. v \in Seq(Nat) /\ Len(v) = n /\ \A j \in 1..n : v[j] = w[o[j]] /\ v[j] \in Nat
  <2>1. \A j \in 1..n : v[j] = w[o[j]] /\ v[j] \in Nat
    BY <1>1, <1>3
  <2>2. v = [j \in 1..n |-> v[j]]
    BY <1>3
  <2> HIDE DEF v
  <2>3. v \in [1..n -> Nat]
    BY <2>1, <2>2
  <2>4. v \in Seq(Nat) /\ DOMAIN v = 1..n
    BY <1>1, <2>3
  <2>5. DOMAIN v = 1..Len(v) /\ Len(v) \in Nat
    BY <2>4
  <2>6. Len(v) = n
    BY <1>1, <2>4, <2>5
  <2>. QED
    BY <2>1, <2>4, <2>6
<1>5. \A i \in 1..n : \E j \in 1..n : o[j] = i
  BY <1>1, <1>3, OneToOneIsOnto
<1> DEFINE inv == [i \in 1..n |-> CHOOSE j \in 1..n : o[j] = i]
<1>6. \A i \in 1..n : inv[i] \in 1..n /\ o[inv[i]] = i
  BY <1>5
<1> HIDE DEF inv, v
<1>7. \A j \in 1..n : inv[o[j]] = j
  BY <1>3, <1>6
<1>8. PICK f : Pairs(1..n, f) /\ \A j \in 1..n : w[f[j]] = w[j]
  BY <1>1, LoopsPaired
<1> DEFINE g == [j \in 1..n |-> inv[f[o[j]]]]
<1>9. ASSUME NEW j \in 1..n PROVE g[j] \in 1..n /\ g[g[j]] = j /\ g[j] # j /\ v[g[j]] = v[j]
  <2>1. o[j] \in 1..n /\ f[o[j]] \in 1..n /\ f[f[o[j]]] = o[j] /\ f[o[j]] # o[j]
    BY <1>8 DEF Pairs
  <2>2. g[j] \in 1..n /\ o[g[j]] = f[o[j]]
    BY <1>6, <2>1
  <2>3. g[g[j]] = inv[f[o[g[j]]]]
    BY <2>2
  <2>4. g[g[j]] = j
    BY <1>7, <2>1, <2>2, <2>3
  <2>5. v[g[j]] = w[o[g[j]]] /\ v[j] = w[o[j]] /\ w[f[o[j]]] = w[o[j]]
    BY <1>4, <1>8, <2>1, <2>2
  <2>6. g[j] # j
    BY <2>1, <2>2
  <2>. QED
    BY <2>2, <2>4, <2>5, <2>6
<1>10. Pairs(1..n, g)
  <2>1. g \in [1..n -> 1..n]
    BY <1>9
  <2> HIDE DEF g
  <2>. QED
    BY <1>9, <2>1 DEF Pairs
<1> HIDE DEF g
<1>11. \A j, k \in 1..n : j < k => v[j] <= v[k]
  BY <1>3, <1>4
<1>12. n % 2 = 0 /\ \A j \in 1..n \div 2 : v[2 * j - 1] = v[2 * j]
  <2>1. n \in Nat /\ SortedWithPairs(n, v, g)
    BY <1>1, <1>4, <1>9, <1>10, <1>11 DEF SortedWithPairs
  <2>. QED
    BY <2>1, SortedPairs
<1>13. Total(v) = K
  <2> DEFINE Cells == UNION {{j} \X (1..v[j]) : j \in 1..n}
             at == [c \in Cells |-> qs[o[c[1]]][c[2]]]
  <2>1. ASSUME NEW c \in Cells
        PROVE  c[1] \in 1..n /\ c[2] \in 1..v[c[1]] /\ c = <<c[1], c[2]>>
    OBVIOUS
  <2>2. \A j \in 1..n : \A i \in 1..v[j] : <<j, i>> \in Cells
    OBVIOUS
  <2> HIDE DEF Cells
  <2>3. ASSUME NEW c \in Cells
        PROVE  at[c] \in Letter /\ On(qs[o[c[1]]], at[c])
    <3>1. o[c[1]] \in 1..n /\ c[2] \in 1..w[o[c[1]]] /\ at[c] = qs[o[c[1]]][c[2]]
      BY <1>4, <2>1
    <3>. QED
      BY <1>1, <1>2, <3>1 DEF On
  <2>4. at \in [Cells -> Letter]
    BY <2>3
  <2>5. ASSUME NEW c \in Cells, NEW d \in Cells, at[c] = at[d] PROVE c = d
    <3>1. o[c[1]] \in 1..n /\ o[d[1]] \in 1..n
      BY <2>1
    <3>2. o[c[1]] = o[d[1]]
      BY <1>1, <2>3, <2>5, <3>1
    <3>3. c[1] = d[1]
      BY <1>3, <2>1, <3>2
    <3>4. c[2] \in 1..w[o[c[1]]] /\ d[2] \in 1..w[o[c[1]]]
          /\ qs[o[c[1]]][c[2]] = qs[o[c[1]]][d[2]]
      BY <1>4, <2>1, <2>5, <3>2, <3>3
    <3>5. c[2] = d[2]
      BY <1>2, <3>1, <3>4
    <3>. QED
      BY <2>1, <3>3, <3>5
  <2>6. ASSUME NEW x \in Letter PROVE \E c \in Cells : at[c] = x
    <3>1. PICK j \in 1..n : On(qs[j], x)
      BY <1>1 DEF OnSome
    <3>2. PICK i \in 1..w[j] : qs[j][i] = x
      BY <1>1, <3>1 DEF On
    <3> DEFINE c == <<inv[j], i>>
    <3>3. inv[j] \in 1..n /\ o[inv[j]] = j /\ v[inv[j]] = w[j]
      BY <1>4, <1>6
    <3>4. c \in Cells /\ c[1] = inv[j] /\ c[2] = i
      BY <2>2, <3>3
    <3>5. at[c] = qs[o[c[1]]][c[2]]
      BY <3>4
    <3> HIDE DEF c
    <3>6. at[c] = x
      BY <3>2, <3>3, <3>4, <3>5
    <3>. QED
      BY <3>4, <3>6
  <2> HIDE DEF at
  <2>7. at \in Injection(Cells, Letter) /\ at \in Surjection(Cells, Letter)
    BY <2>4, <2>5, <2>6 DEF Injection, Surjection, IsInjective
  <2>8. IsFiniteSet(Letter) /\ Cardinality(Letter) = K
    <3>1. K \in Int /\ K > 2 /\ K - 1 \in Int
      BY KIsLarge
    <3>2. IsFiniteSet(0..K - 1) /\ Cardinality(0..K - 1) = IF 0 > K - 1 THEN 0 ELSE (K - 1) - 0 + 1
      BY <3>1, FS_Interval
    <3>. QED
      BY <3>1, <3>2 DEF Letter
  <2>9. Cardinality(Cells) = Cardinality(Letter)
    BY <2>7, <2>8, FS_Injection
  <2>10. Total(v) = Cardinality(Cells)
    BY <1>4 DEF Total, Cells
  <2>. QED
    BY <2>8, <2>9, <2>10
<1>. QED
  BY <1>4, <1>12, <1>13 DEF v

-----------------------------------------------------------------------------
(* The search for the loops of one map. *)

\* qs are the loops found, w their lengths, path the loop being followed, which goes on
\* with c, and seen the letters of all of them.
SoFar(p, qs, w, path, c, seen) ==
  /\ LoopsOf(p, qs, w) /\ path \in Seq(Letter)
  /\ seen = {x \in Letter : OnSome(qs, x) \/ On(path, x)}
  /\ \A x \in Letter : ~(OnSome(qs, x) /\ On(path, x))
  /\ path # <<>> => Path(p, path) /\ c = p[path[Len(path)]]

\* The search begins with nothing found.
LEMMA NothingFound == \A p, c : SoFar(p, <<>>, <<>>, <<>>, c, {})
  BY DEF SoFar, LoopsOf, On, OnSome

\* A letter that was not seen begins a loop.
LEMMA LoopBegins ==
  ASSUME NEW p, NEW qs, NEW w, NEW c, NEW seen, SoFar(p, qs, w, <<>>, c, seen),
         NEW x \in Letter, x \notin seen
  PROVE  SoFar(p, qs, w, <<x>>, p[x], seen \union {x})
<1>1. /\ LoopsOf(p, qs, w) /\ seen = {y \in Letter : OnSome(qs, y) \/ On(<<>>, y)}
  BY DEF SoFar
<1>2. \A y : ~On(<<>>, y) /\ (On(<<x>>, y) <=> y = x)
  BY DEF On
<1>3. ~OnSome(qs, x)
  BY <1>1
<1>4. Path(p, <<x>>)
  BY DEF Path
<1>5. seen \union {x} = {y \in Letter : OnSome(qs, y) \/ On(<<x>>, y)}
  BY <1>1, <1>2
<1>. QED
  BY <1>1, <1>2, <1>3, <1>4, <1>5 DEF SoFar

\* The letter a loop goes on with is on none, unless it is the first of this one.
LEMMA LoopGoesOn ==
  ASSUME NEW p, NEW a, NEW b, ProductOf(p, a, b), NEW qs, NEW w, NEW path, NEW c, NEW seen,
         SoFar(p, qs, w, path, c, seen), path # <<>>, c # path[1]
  PROVE  c \in Letter /\ SoFar(p, qs, w, Append(path, c), p[c], seen \union {c})
<1> DEFINE n == Len(path)
           longer == Append(path, c)
<1>1. /\ LoopsOf(p, qs, w) /\ path \in Seq(Letter) /\ Path(p, path) /\ c = p[path[n]]
      /\ seen = {x \in Letter : OnSome(qs, x) \/ On(path, x)}
      /\ \A x \in Letter : ~(OnSome(qs, x) /\ On(path, x))
  BY DEF SoFar
<1>2. /\ n \in Nat /\ n \in 1..n /\ \A j \in 1..n : path[j] \in Letter
      /\ \A j, k \in 1..n : path[j] = path[k] => j = k
      /\ \A j \in 1..n - 1 : p[path[j]] = path[j + 1]
  BY <1>1 DEF Path
<1>3. c \in Letter /\ \A x, y \in Letter : p[x] = p[y] => x = y
  BY <1>1, <1>2, ProductTurns
<1>4. ASSUME NEW j \in 1..n, path[j] = c PROVE FALSE
  <2>1. j # 1 /\ j - 1 \in 1..n - 1 /\ j - 1 \in 1..n /\ (j - 1) + 1 = j
    BY <1>2, <1>4
  <2>2. p[path[j - 1]] = p[path[n]]
    BY <1>1, <1>2, <1>4, <2>1
  <2>3. j - 1 = n
    BY <1>2, <1>3, <2>1, <2>2
  <2>. QED
    BY <1>2, <2>1, <2>3
<1>5. ASSUME OnSome(qs, c) PROVE FALSE
  <2>1. PICK k \in 1..Len(qs) : On(qs[k], c)
    BY <1>5 DEF OnSome
  <2>2. PICK m \in 1..Len(qs[k]) : qs[k][m] = p[path[n]]
    BY <1>1, <2>1 DEF On
  <2>3. Cycle(p, qs[k]) /\ path[n] \in Letter
    BY <1>1, <1>2 DEF LoopsOf
  <2>4. On(qs[k], path[n])
    BY <2>2, <2>3, LoopBefore
  <2>5. OnSome(qs, path[n]) /\ On(path, path[n])
    BY <1>2, <2>4 DEF OnSome, On
  <2>. QED
    BY <1>1, <2>3, <2>5
<1>6. /\ longer \in Seq(Letter) /\ Len(longer) = n + 1 /\ longer[n + 1] = c
      /\ \A j \in 1..n : longer[j] = path[j]
  BY <1>1, <1>2, <1>3
<1> HIDE DEF longer
<1>7. \A x : On(longer, x) <=> On(path, x) \/ x = c
  <2>1. \A j : j \in 1..n + 1 <=> j \in 1..n \/ j = n + 1
    BY <1>2
  <2>. QED
    BY <1>6, <2>1 DEF On
<1>8. Path(p, longer)
  <2>1. \A j, k \in 1..n + 1 : longer[j] = longer[k] => j = k
    <3>1. \A j \in 1..n + 1 : j \in 1..n \/ j = n + 1
      BY <1>2
    <3>. QED
      BY <1>2, <1>4, <1>6, <3>1
  <2>2. \A j \in 1..n : p[longer[j]] = longer[j + 1]
    <3>1. \A j \in 1..n : j \in 1..n - 1 \/ j = n
      BY <1>2
    <3>2. \A j \in 1..n - 1 : j + 1 \in 1..n /\ j \in 1..n
      BY <1>2
    <3>3. \A j \in 1..n - 1 : p[longer[j]] = longer[j + 1]
      BY <1>2, <1>6, <3>2
    <3>4. p[longer[n]] = longer[n + 1]
      BY <1>1, <1>2, <1>6
    <3>. QED
      BY <3>1, <3>3, <3>4
  <2>3. (n + 1) - 1 = n /\ longer # <<>>
    BY <1>2, <1>6
  <2>. QED
    BY <1>6, <2>1, <2>2, <2>3 DEF Path
<1>9. seen \union {c} = {x \in Letter : OnSome(qs, x) \/ On(longer, x)}
  BY <1>1, <1>3, <1>7
<1>10. \A x \in Letter : ~(OnSome(qs, x) /\ On(longer, x))
  BY <1>1, <1>5, <1>7
<1>11. p[c] = p[longer[Len(longer)]]
  BY <1>6
<1>. QED
  BY <1>1, <1>3, <1>6, <1>8, <1>9, <1>10, <1>11 DEF SoFar, longer

\* A path that leads back to its first letter is a loop.
LEMMA LoopCloses ==
  ASSUME NEW p, NEW qs, NEW w, NEW path, NEW c, NEW seen,
         SoFar(p, qs, w, path, c, seen), path # <<>>, c = path[1]
  PROVE  SoFar(p, Append(qs, path), Append(w, Len(path)), <<>>, c, seen)
<1> DEFINE n == Len(qs)
           more == Append(qs, path)
           v == Append(w, Len(path))
<1>1. /\ LoopsOf(p, qs, w) /\ path \in Seq(Letter) /\ Cycle(p, path)
      /\ seen = {x \in Letter : OnSome(qs, x) \/ On(path, x)}
      /\ \A x \in Letter : ~(OnSome(qs, x) /\ On(path, x))
  BY DEF SoFar, Cycle
<1>2. /\ qs \in Seq(Seq(Letter)) /\ w \in Seq(Nat) /\ n \in Nat /\ Len(w) = n
      /\ \A j \in 1..n : Cycle(p, qs[j]) /\ w[j] = Len(qs[j])
      /\ \A j, k \in 1..n : \A x \in Letter : On(qs[j], x) /\ On(qs[k], x) => j = k
  BY <1>1 DEF LoopsOf
<1>3. /\ more \in Seq(Seq(Letter)) /\ Len(more) = n + 1 /\ more[n + 1] = path
      /\ \A j \in 1..n : more[j] = qs[j]
      /\ v \in Seq(Nat) /\ Len(v) = n + 1 /\ v[n + 1] = Len(path)
      /\ \A j \in 1..n : v[j] = w[j]
  <2>1. Len(path) \in Nat
    BY <1>1
  <2>. QED
    BY <1>1, <1>2, <2>1
<1> HIDE DEF more, v
<1>4. \A j : j \in 1..n + 1 <=> j \in 1..n \/ j = n + 1
  BY <1>2
<1> HIDE DEF n
<1>5. \A x : OnSome(more, x) <=> OnSome(qs, x) \/ On(path, x)
  BY <1>3, <1>4 DEF OnSome, n
<1>6. \A j \in 1..n : \A x \in Letter : ~(On(qs[j], x) /\ On(path, x))
  BY <1>1 DEF OnSome, n
<1>7. ASSUME NEW j \in 1..n + 1, NEW k \in 1..n + 1, NEW x \in Letter,
             On(more[j], x), On(more[k], x)
      PROVE  j = k
  <2>1. j \in 1..n => On(qs[j], x)
    BY <1>3, <1>7
  <2>2. k \in 1..n => On(qs[k], x)
    BY <1>3, <1>7
  <2>3. j = n + 1 => On(path, x)
    BY <1>3, <1>7
  <2>4. k = n + 1 => On(path, x)
    BY <1>3, <1>7
  <2>. QED
    BY <1>2, <1>4, <1>6, <2>1, <2>2, <2>3, <2>4
<1>8. \A j \in 1..n + 1 : Cycle(p, more[j]) /\ v[j] = Len(more[j])
  BY <1>1, <1>2, <1>3, <1>4
<1>9. LoopsOf(p, more, v)
  BY <1>3, <1>7, <1>8 DEF LoopsOf
<1>10. \A x : ~On(<<>>, x)
  BY DEF On
<1>. QED
  BY <1>1, <1>5, <1>9, <1>10 DEF SoFar, more, v

-----------------------------------------------------------------------------
(* The three maps. *)

\* pos are the positions that follow one from another with the settings s.
PositionsAre(s, pos) ==
  pos = [k \in 0..6 |-> IF k = 0 THEN s.initial ELSE rotor_change(s, pos[k - 1])]

\* There are such positions.
LEMMA PositionsExist ==
  ASSUME NEW s \in EnteredOK
  PROVE  \E pos : PositionsAre(s, pos)
<1> DEFINE begin == s.initial
           G == [x \in Position |-> rotor_change(s, x)]
<1>1. begin \in Position /\ G \in [Position -> Position]
  BY ChangeTyped DEF EnteredOK
<1> HIDE DEF begin, G
<1>2. PICK h \in [Nat -> Position] : h[0] = begin /\ \A k \in Nat : h[k + 1] = G[h[k]]
  <2>1. \A V : \A x \in V : \A F \in [V -> V] :
          \E f \in [Nat -> V] : f[0] = x /\ \A k \in Nat : f[k + 1] = F[f[k]]
    BY IteratesExist
  <2>2. \A x \in Position : \A F \in [Position -> Position] :
          \E f \in [Nat -> Position] : f[0] = x /\ \A k \in Nat : f[k + 1] = F[f[k]]
    BY <2>1
  <2>. QED
    BY <1>1, <2>2
<1> DEFINE pos == [k \in 0..6 |-> h[k]]
<1>3. ASSUME NEW k \in 0..6 PROVE pos[k] = IF k = 0 THEN s.initial ELSE rotor_change(s, pos[k - 1])
  <2>1. CASE k = 0
    BY <1>2, <2>1 DEF begin
  <2>2. CASE k # 0
    <3>1. k - 1 \in Nat /\ k - 1 \in 0..6 /\ (k - 1) + 1 = k
      BY <2>2
    <3>2. h[k] = G[h[k - 1]] /\ h[k - 1] \in Position
      BY <1>2, <3>1
    <3>. QED
      BY <2>2, <3>1, <3>2 DEF G
  <2>. QED
    BY <2>1, <2>2
<1>. QED
  BY <1>3 DEF PositionsAre

\* They are positions.
LEMMA PositionsAreTyped ==
  ASSUME NEW s \in EnteredOK, NEW pos, PositionsAre(s, pos)
  PROVE  \A k \in 0..6 : pos[k] \in Position
<1>1. \A k \in 0..6 : pos[k] = IF k = 0 THEN s.initial ELSE rotor_change(s, pos[k - 1])
  BY DEF PositionsAre
<1> DEFINE S == {k \in Nat : k \in 0..6 => pos[k] \in Position}
<1>2. 0 \in S
  BY <1>1 DEF EnteredOK
<1>3. ASSUME NEW k \in Nat, k \in S PROVE k + 1 \in S
  <2> SUFFICES ASSUME k + 1 \in 0..6 PROVE pos[k + 1] \in Position
    OBVIOUS
  <2>1. k \in 0..6 /\ (k + 1) - 1 = k /\ k + 1 # 0
    OBVIOUS
  <2>2. pos[k + 1] = rotor_change(s, pos[k]) /\ pos[k] \in Position
    BY <1>1, <1>3, <2>1
  <2>. QED
    BY <2>2, ChangeTyped
<1> HIDE DEF S
<1>4. \A k \in Nat : k \in S
  BY <1>2, <1>3, Inductive
<1> SUFFICES ASSUME NEW k \in 0..6 PROVE pos[k] \in Position
  OBVIOUS
<1>5. k \in Nat /\ k \in S
  BY <1>4
<1>. QED
  BY <1>5 DEF S

\* The rotors have a position for each letter of a text, and one before it.
LEMMA PositionsTyped ==
  ASSUME entered \in EnteredOK
  PROVE  \A k \in 0..6 : PositionsFrom(entered.initial)[k] \in Position
<1>1. PositionsFrom(entered.initial) = CHOOSE pos : PositionsAre(entered, pos)
  BY DEF PositionsFrom, PositionsAre
<1>2. \E pos : PositionsAre(entered, pos)
  BY PositionsExist
<1>3. PositionsAre(entered, PositionsFrom(entered.initial))
  BY <1>1, <1>2
<1>. QED
  BY <1>3, PositionsAreTyped

\* What each letter is turned into at place k of a text.
ComesOut(k) == [x \in Letter |-> rotor(entered, x, PositionsFrom(entered.initial)[k + 1])]

\* Each place pairs the letters.
LEMMA PlacesPair ==
  ASSUME entered \in EnteredOK, NEW k \in 0..5
  PROVE  Pairing(ComesOut(k))
<1>1. PositionsFrom(entered.initial)[k + 1] \in Position
  <2>1. k + 1 \in 0..6
    OBVIOUS
  <2>. QED
    BY <2>1, PositionsTyped
<1>. QED
  BY <1>1, RotorPairs DEF Pairing, ComesOut

\* A map takes what a makes of the first n letters to what b makes of them.
Takes(map, a, b, n) ==
  DOMAIN map = {a[x] : x \in 0..n - 1} /\ \A x \in 0..n - 1 : map[a[x]] = b[x]

\* The maps hold the letters encrypted so far.
MapsFilled ==
  \A k \in Places : Takes(dictions[k], ComesOut(k), ComesOut(k + 3), nextText)

\* A map that holds all letters is one pairing after another.
LEMMA MapsAreProducts ==
  ASSUME entered \in EnteredOK, MapsFilled, nextText = K, NEW k \in Places
  PROVE  ProductOf(dictions[k], ComesOut(k), ComesOut(k + 3))
<1> DEFINE a == ComesOut(k)
           b == ComesOut(k + 3)
<1>1. k \in 0..5 /\ k + 3 \in 0..5
  BY DEF Places
<1>2. Pairing(a) /\ Pairing(b)
  BY <1>1, PlacesPair
<1> HIDE DEF a, b
<1>3. \A x \in Letter : dictions[k][a[x]] = b[x]
  BY DEF MapsFilled, Takes, Letter, a, b
<1>4. \A x \in Letter : a[x] \in Letter /\ a[a[x]] = x
  BY <1>2 DEF Pairing
<1>5. \A x \in Letter : dictions[k][x] = b[a[x]]
  BY <1>3, <1>4
<1>. QED
  BY <1>2, <1>5 DEF ProductOf, a, b

-----------------------------------------------------------------------------
(* The inductive invariant of the search. *)

LoopsTyped ==
  /\ entered \in EnteredOK /\ nextText \in 0..K /\ place \in 0..3 /\ nextChar \in 0..K
  /\ three_loop \in Seq(Seq(Nat))

\* The search has not begun.
NotBegun ==
  /\ place = 0 /\ nextChar = 0 /\ loop = <<>> /\ letter_in_loop = {}
  /\ one_loop = <<>> /\ three_loop = <<>>

\* Loops without a letter in common were found, the letters before the next are on them.
Search ==
  /\ nextText < K => NotBegun
  /\ place \notin Places => loop = <<>>
  /\ place \in Places =>
       /\ \E qs : SoFar(dictions[place], qs, one_loop, loop, char, letter_in_loop)
       /\ 0..nextChar - 1 \subseteq letter_in_loop

LoopsInv == LoopsTyped /\ MapsFilled /\ Search /\ LoopsInPairs

\* It holds before the first letter.
LEMMA LoopsInitInv == LoopsInit => LoopsInv
<1> SUFFICES ASSUME LoopsInit PROVE LoopsInv
  OBVIOUS
<1>1. K \in Int /\ K > 2
  BY KIsLarge
<1>2. entered \in EnteredOK
  BY EnigmaAssumption DEF LoopsInit, Settings, EnteredOK, Position
<1>3. LoopsTyped
  BY <1>1, <1>2 DEF LoopsInit, LoopsTyped
<1>4. MapsFilled
  <2>1. nextText = 0 /\ \A k \in Places : DOMAIN dictions[k] = {}
    BY DEF LoopsInit
  <2>2. 0..nextText - 1 = {}
    BY <2>1
  <2>. QED
    BY <2>1, <2>2 DEF MapsFilled, Takes
<1>5. Search
  <2>1. NotBegun /\ 0..nextChar - 1 = {}
    BY DEF LoopsInit, NotBegun
  <2>2. place \in Places
    BY DEF LoopsInit, Places
  <2>. QED
    BY <2>1, <2>2, NothingFound DEF NotBegun, Search
<1>6. LoopsInPairs
  <2>1. 1..Len(three_loop) = {}
    BY DEF LoopsInit
  <2>. QED
    BY <2>1 DEF LoopsInPairs
<1>. QED
  BY <1>3, <1>4, <1>5, <1>6 DEF LoopsInv

\* A letter is added to the maps before the search.
LEMMA FillInv ==
  ASSUME LoopsInv, Fill, entered' = entered
  PROVE  LoopsInv'
<1> DEFINE n == nextText
           pos == PositionsFrom(entered.initial)
           out(k) == rotor(entered, n, pos[k + 1])
<1>1. LoopsTyped /\ MapsFilled /\ Search /\ LoopsInPairs
  BY DEF LoopsInv
<1>2. /\ n < K /\ nextText' = n + 1
      /\ dictions' = [k \in Places |->
           [x \in DOMAIN dictions[k] \union {out(k)} |->
              IF x = out(k) THEN out(k + 3) ELSE dictions[k][x]]]
      /\ UNCHANGED <<place, nextChar, loop, char, letter_in_loop, one_loop, three_loop>>
  BY DEF Fill
<1>3. K \in Int /\ n \in Nat /\ n \in Letter /\ 0..n - 1 \subseteq Letter
      /\ 0..(n + 1) - 1 = (0..n - 1) \union {n}
  BY <1>1, <1>2, KIsLarge DEF LoopsTyped, Letter
<1>4. LoopsTyped'
  BY <1>1, <1>2, <1>3 DEF LoopsTyped
<1>5. \A k : ComesOut(k)' = ComesOut(k)
  BY DEF ComesOut, PositionsFrom
<1>6. \A k : out(k) = ComesOut(k)[n]
  BY <1>3 DEF ComesOut
<1> HIDE DEF out
<1>7. ASSUME NEW k \in Places
      PROVE  Takes(dictions'[k], ComesOut(k), ComesOut(k + 3), n + 1)
  <2> DEFINE a == ComesOut(k)
             b == ComesOut(k + 3)
  <2>1. Pairing(a)
    <3>1. k \in 0..5
      BY DEF Places
    <3>. QED
      BY <1>1, <3>1, PlacesPair DEF LoopsTyped
  <2>2. /\ DOMAIN dictions[k] = {a[x] : x \in 0..n - 1}
        /\ \A x \in 0..n - 1 : dictions[k][a[x]] = b[x]
    BY <1>1 DEF MapsFilled, Takes
  <2>3. dictions'[k] = [x \in DOMAIN dictions[k] \union {a[n]} |->
                          IF x = a[n] THEN b[n] ELSE dictions[k][x]]
    BY <1>2, <1>6
  <2> HIDE DEF a, b
  <2>4. \A x, y \in Letter : a[x] = a[y] => x = y
    BY <2>1 DEF Pairing
  <2>5. 0..n = (0..n - 1) \union {n} /\ n \notin 0..n - 1
    BY <1>3
  <2>6. DOMAIN dictions'[k] = {a[x] : x \in 0..n}
    BY <2>2, <2>3, <2>5
  <2>7. ASSUME NEW x \in 0..n - 1 PROVE dictions'[k][a[x]] = b[x]
    <3>1. a[x] # a[n]
      BY <1>3, <2>4, <2>5
    <3>2. a[x] \in DOMAIN dictions[k]
      BY <2>2
    <3>. QED
      BY <2>2, <2>3, <3>1, <3>2
  <2>8. dictions'[k][a[n]] = b[n]
    BY <2>3
  <2>. QED
    BY <1>3, <2>5, <2>6, <2>7, <2>8 DEF Takes, a, b
<1>8. MapsFilled'
  BY <1>2, <1>5, <1>7 DEF MapsFilled
<1>9. NotBegun /\ NotBegun'
  BY <1>1, <1>2 DEF Search, NotBegun
<1>10. Search'
  <2>1. 0..nextChar' - 1 = {}
    BY <1>9 DEF NotBegun
  <2>2. place' \in Places
    BY <1>9 DEF NotBegun, Places
  <2>3. SoFar(dictions'[place'], <<>>, one_loop', loop', char', letter_in_loop')
    BY <1>9, NothingFound DEF NotBegun
  <2>. QED
    BY <1>9, <2>1, <2>2, <2>3 DEF Search
<1>11. LoopsInPairs'
  BY <1>1, <1>2 DEF LoopsInPairs
<1>. QED
  BY <1>4, <1>8, <1>10, <1>11 DEF LoopsInv

\* The steps after the maps are filled leave them as they are.
LEMMA MapsStay ==
  ASSUME LoopsInv, UNCHANGED <<entered, dictions, nextText>>
  PROVE  MapsFilled'
<1>1. \A k : ComesOut(k)' = ComesOut(k)
  BY DEF ComesOut, PositionsFrom
<1>. QED
  BY <1>1 DEF LoopsInv, MapsFilled

\* A loop begins with a letter, or the letter is on one.
LEMMA BeginInv ==
  ASSUME LoopsInv, Begin, entered' = entered
  PROVE  LoopsInv'
<1>1. LoopsTyped /\ Search /\ LoopsInPairs
  BY DEF LoopsInv
<1>2. /\ nextText = K /\ place \in Places /\ loop = <<>> /\ nextChar < K /\ nextChar' = nextChar + 1
      /\ UNCHANGED <<dictions, nextText, place, one_loop, three_loop>>
  BY DEF Begin
<1>3. K \in Int /\ nextChar \in Letter /\ nextChar \in Nat
      /\ 0..nextChar' - 1 = (0..nextChar - 1) \union {nextChar}
  BY <1>1, <1>2, KIsLarge DEF LoopsTyped, Letter
<1>4. LoopsTyped'
  BY <1>1, <1>2, <1>3 DEF LoopsTyped
<1>5. PICK qs : SoFar(dictions[place], qs, one_loop, <<>>, char, letter_in_loop)
  BY <1>1, <1>2 DEF Search
<1>6. 0..nextChar - 1 \subseteq letter_in_loop
  BY <1>1, <1>2 DEF Search
<1>7. CASE nextChar \in letter_in_loop
  <2>1. UNCHANGED <<loop, char, letter_in_loop>>
    BY <1>7 DEF Begin
  <2>2. SoFar(dictions'[place'], qs, one_loop', loop', char', letter_in_loop')
    BY <1>2, <1>5, <2>1
  <2>3. Search'
    BY <1>2, <1>3, <1>6, <1>7, <2>1, <2>2 DEF Search
  <2>. QED
    BY <1>1, <1>2, <1>4, <2>3, MapsStay DEF LoopsInv, LoopsInPairs
<1>8. CASE nextChar \notin letter_in_loop
  <2>1. /\ loop' = <<nextChar>> /\ letter_in_loop' = letter_in_loop \union {nextChar}
        /\ char' = dictions[place][nextChar]
    BY <1>8 DEF Begin
  <2>2. SoFar(dictions'[place'], qs, one_loop', loop', char', letter_in_loop')
    BY <1>2, <1>3, <1>5, <1>8, <2>1, LoopBegins
  <2>3. Search'
    BY <1>2, <1>3, <1>6, <2>1, <2>2 DEF Search
  <2>. QED
    BY <1>1, <1>2, <1>4, <2>3, MapsStay DEF LoopsInv, LoopsInPairs
<1>. QED
  BY <1>7, <1>8

\* A loop goes on with a letter that was not seen.
LEMMA FollowInv ==
  ASSUME LoopsInv, Follow, entered' = entered
  PROVE  LoopsInv'
<1>1. LoopsTyped /\ MapsFilled /\ Search /\ LoopsInPairs
  BY DEF LoopsInv
<1>2. /\ loop # <<>> /\ char # loop[1]
      /\ loop' = Append(loop, char) /\ letter_in_loop' = letter_in_loop \union {char}
      /\ char' = dictions[place][char]
      /\ UNCHANGED <<dictions, nextText, place, nextChar, one_loop, three_loop>>
  BY DEF Follow
<1>3. nextText = K /\ place \in Places
  BY <1>1, <1>2, KIsLarge DEF Search, NotBegun, LoopsTyped
<1>4. ProductOf(dictions[place], ComesOut(place), ComesOut(place + 3))
  BY <1>1, <1>3, MapsAreProducts DEF LoopsTyped
<1>5. PICK qs : SoFar(dictions[place], qs, one_loop, loop, char, letter_in_loop)
  BY <1>1, <1>3 DEF Search
<1>6. SoFar(dictions[place], qs, one_loop, loop', char', letter_in_loop')
  BY <1>2, <1>4, <1>5, LoopGoesOn
<1>7. SoFar(dictions'[place'], qs, one_loop', loop', char', letter_in_loop')
  BY <1>2, <1>6
<1>8. Search'
  BY <1>1, <1>2, <1>3, <1>7, KIsLarge DEF Search
<1>9. LoopsTyped'
  BY <1>1, <1>2 DEF LoopsTyped
<1>. QED
  BY <1>1, <1>2, <1>8, <1>9, MapsStay DEF LoopsInv, LoopsInPairs

\* A loop closes.
LEMMA CloseInv ==
  ASSUME LoopsInv, Close, entered' = entered
  PROVE  LoopsInv'
<1>1. LoopsTyped /\ MapsFilled /\ Search /\ LoopsInPairs
  BY DEF LoopsInv
<1>2. /\ loop # <<>> /\ char = loop[1] /\ one_loop' = Append(one_loop, Len(loop)) /\ loop' = <<>>
      /\ UNCHANGED <<dictions, nextText, place, nextChar, char, letter_in_loop, three_loop>>
  BY DEF Close
<1>3. nextText = K /\ place \in Places
  BY <1>1, <1>2, KIsLarge DEF Search, NotBegun, LoopsTyped
<1>4. PICK qs : SoFar(dictions[place], qs, one_loop, loop, char, letter_in_loop)
  BY <1>1, <1>3 DEF Search
<1>5. SoFar(dictions[place], Append(qs, loop), one_loop', <<>>, char, letter_in_loop)
  BY <1>2, <1>4, LoopCloses
<1>6. SoFar(dictions'[place'], Append(qs, loop), one_loop', loop', char', letter_in_loop')
  BY <1>2, <1>5
<1>7. Search'
  BY <1>1, <1>2, <1>3, <1>6, KIsLarge DEF Search
<1>8. LoopsTyped'
  BY <1>1, <1>2 DEF LoopsTyped
<1>. QED
  BY <1>1, <1>2, <1>7, <1>8, MapsStay DEF LoopsInv, LoopsInPairs

\* When all letters were seen, the lengths of the loops come in pairs.
LEMMA NextMapInv ==
  ASSUME LoopsInv, NextMap, entered' = entered
  PROVE  LoopsInv'
<1> DEFINE lengths == Ascending(one_loop)
<1>1. LoopsTyped /\ MapsFilled /\ Search /\ LoopsInPairs
  BY DEF LoopsInv
<1>2. /\ nextText = K /\ place \in Places /\ loop = <<>> /\ nextChar = K
      /\ three_loop' = Append(three_loop, lengths)
      /\ place' = place + 1 /\ nextChar' = 0 /\ letter_in_loop' = {} /\ one_loop' = <<>>
      /\ UNCHANGED <<dictions, nextText, loop, char>>
  BY DEF NextMap
<1>3. ProductOf(dictions[place], ComesOut(place), ComesOut(place + 3))
  BY <1>1, <1>2, MapsAreProducts DEF LoopsTyped
<1>4. PICK qs : SoFar(dictions[place], qs, one_loop, <<>>, char, letter_in_loop)
  BY <1>1, <1>2 DEF Search
<1>5. \A x \in Letter : OnSome(qs, x)
  <2>1. \A x : ~On(<<>>, x)
    BY DEF On
  <2>2. Letter \subseteq letter_in_loop
    BY <1>1, <1>2 DEF Search, Letter
  <2>. QED
    BY <1>4, <2>1, <2>2 DEF SoFar
<1>6. LoopsOf(dictions[place], qs, one_loop)
  BY <1>4 DEF SoFar
<1>7. /\ lengths \in Seq(Nat) /\ Total(lengths) = K /\ Len(lengths) % 2 = 0
      /\ \A j \in 1..Len(lengths) \div 2 : lengths[2 * j - 1] = lengths[2 * j]
  BY <1>3, <1>5, <1>6, LengthsInPairs
<1> HIDE DEF lengths
<1>8. /\ Len(three_loop') = Len(three_loop) + 1 /\ three_loop'[Len(three_loop) + 1] = lengths
      /\ \A k \in 1..Len(three_loop) : three_loop'[k] = three_loop[k]
      /\ three_loop' \in Seq(Seq(Nat)) /\ Len(three_loop) \in Nat
  BY <1>1, <1>2, <1>7 DEF LoopsTyped
<1>9. LoopsInPairs'
  <2>1. \A k \in 1..Len(three_loop) + 1 : k \in 1..Len(three_loop) \/ k = Len(three_loop) + 1
    BY <1>8
  <2> DEFINE InPairs(list) == /\ Total(list) = K
                              /\ Len(list) % 2 = 0
                              /\ \A j \in 1..Len(list) \div 2 : list[2 * j - 1] = list[2 * j]
  <2>2. InPairs(lengths) /\ \A k \in 1..Len(three_loop) : InPairs(three_loop[k])
    BY <1>1, <1>7 DEF LoopsInPairs
  <2>3. LoopsInPairs' <=> \A k \in 1..Len(three_loop') : InPairs(three_loop'[k])
    BY DEF LoopsInPairs
  <2> HIDE DEF InPairs
  <2>. QED
    BY <1>8, <2>1, <2>2, <2>3
<1>10. LoopsTyped'
  <2>1. place + 1 \in 0..3 /\ K \in Int /\ K > 2
    BY <1>2, KIsLarge DEF Places
  <2>. QED
    BY <1>1, <1>2, <1>8, <2>1 DEF LoopsTyped
<1>11. Search'
  <2>1. 0..nextChar' - 1 = {} /\ ~(nextText' < K)
    BY <1>2, KIsLarge
  <2>2. SoFar(dictions'[place'], <<>>, one_loop', loop', char', letter_in_loop')
    BY <1>2, NothingFound
  <2>. QED
    BY <1>2, <2>1, <2>2 DEF Search
<1>. QED
  BY <1>2, <1>9, <1>10, <1>11, MapsStay DEF LoopsInv

\* The loops of each of the three maps come in pairs of the same length, and hold all
\* letters, whatever the wiring, the reflector, the order of the rotors and their position.
THEOREM PairedLoops == LoopsSpec => []LoopsInPairs
<1>1. LoopsInv /\ UNCHANGED <<entered, loopVars>> => LoopsInv'
  <2> SUFFICES ASSUME LoopsInv, UNCHANGED <<entered, loopVars>> PROVE LoopsInv'
    OBVIOUS
  <2>1. UNCHANGED <<entered, dictions, nextText, place, nextChar, loop, char, letter_in_loop,
                    one_loop, three_loop>>
    BY DEF loopVars
  <2>2. MapsFilled'
    BY <2>1, MapsStay
  <2>. QED
    BY <2>1, <2>2 DEF LoopsInv, LoopsTyped, Search, NotBegun, LoopsInPairs
<1>2. LoopsInv /\ [LoopsNext /\ UNCHANGED entered]_<<entered, loopVars>> => LoopsInv'
  BY <1>1, FillInv, BeginInv, FollowInv, CloseInv, NextMapInv DEF LoopsNext
<1>3. LoopsInv => LoopsInPairs
  BY DEF LoopsInv
<1>. QED
  BY <1>2, <1>3, LoopsInitInv, PTL DEF LoopsSpec
=============================================================================

------------------------------- MODULE Enigma --------------------------------
(***************************************************************************)
(* enigma.py: the machine with three rotors, and the program that a user   *)
(* runs twice, the second time on what it printed the first time.  Letters *)
(* are numbers.  Rotors are numbered 2, 1 and 0 in the order in which the  *)
(* current enters them: the low, the middle and the high level rotor.      *)
(***************************************************************************)
EXTENDS Integers, Sequences

CONSTANTS
  K,            \* letters of the alphabet (26)
  rotor_list,   \* the wiring of each rotor: rotor_list[n][x] is the letter x goes to
  reflector,
  carry_over,   \* the letter of each rotor on which it carries over
  plug_board,
  Orders,       \* what the user may enter: an order of the rotors,
  Rings,        \* a ring setting,
  Initials,     \* an initial position,
  Texts         \* and a text

Letter == 0..K - 1
Slot == 0..2
Rotor == DOMAIN rotor_list

ASSUME EnigmaAssumption ==
  /\ K \in Nat /\ K > 2
  /\ \A n \in Rotor :
       /\ rotor_list[n] \in [Letter -> Letter]
       /\ \A y \in Letter : \E x \in Letter : rotor_list[n][x] = y
       /\ \A x, y \in Letter : rotor_list[n][x] = rotor_list[n][y] => x = y
  /\ reflector \in [Letter -> Letter]
  /\ \A x \in Letter : reflector[reflector[x]] = x /\ reflector[x] # x
  /\ plug_board \in [Letter -> Letter] /\ \A x \in Letter : plug_board[plug_board[x]] = x
  /\ carry_over \in [Rotor -> Letter]
  /\ Orders \subseteq [Slot -> Rotor] /\ Rings \subseteq [Slot -> Letter]
  /\ Initials \subseteq [Slot -> Letter] /\ Texts \subseteq Seq(Letter)

\* What the user enters before the text: rotor_order, ring_setting, initial_position and
\* turn_on_plug_board.
Settings == [order : Orders, ring : Rings, initial : Initials, plugs : BOOLEAN]

VARIABLES
  entered,            \* the settings
  times,              \* which run of the program it is: 1 or 2
  letters,            \* the text entered
  current_position,   \* of the rotors
  cipher,             \* what the text was turned into so far
  printed,            \* the position printed for each letter
  first               \* of the first run: its letters and what it printed

enigmaVars == <<entered, times, letters, current_position, cipher, printed, first>>

-----------------------------------------------------------------------------
through_plug_board(s, char) == IF s.plugs THEN plug_board[char] ELSE char

AtCarry(s, position, slot) == position[slot] = carry_over[s.order[slot]]

Turns(position, slot, n) == [position EXCEPT ![slot] = (@ + n) % K]

\* Mutant: the low rotor is moved before the middle one is.
LowFirst(s, position) ==
  LET low == Turns(position, 2, 1)
      mid == IF AtCarry(s, low, 1) THEN Turns(Turns(low, 0, 1), 1, 1) ELSE low
  IN  IF AtCarry(s, low, 2) THEN Turns(mid, 1, 1) ELSE mid

\* The middle rotor on its carry moves the high one and itself; the low rotor on its
\* carry moves the middle one; the low rotor always moves.
rotor_change(s, position) ==
  LET mid == IF AtCarry(s, position, 1) THEN Turns(Turns(position, 0, 1), 1, 1) ELSE position
      low == IF AtCarry(s, position, 2) THEN Turns(mid, 1, 1) ELSE mid
  IN  Turns(low, 2, 1)

Index(wiring, y) == CHOOSE x \in Letter : wiring[x] = y

\* A letter enters a rotor that has turned, and leaves it.
Into(s, position, slot, char) == (char + position[slot] - s.ring[slot]) % K
OutOf(s, position, slot, char) == (char - position[slot] + s.ring[slot]) % K

Wiring(s, slot) == rotor_list[s.order[slot]]

There(s, position, slot, char) ==
  OutOf(s, position, slot, Wiring(s, slot)[Into(s, position, slot, char)])

\* Mutant: on its way back the letter enters the rotor the way it leaves it.
BackUnturned(s, position, slot, char) ==
  OutOf(s, position, slot, Index(Wiring(s, slot), OutOf(s, position, slot, char)))

Back(s, position, slot, char) ==
  OutOf(s, position, slot, Index(Wiring(s, slot), Into(s, position, slot, char)))

\* Through the three rotors, the reflector and back.
rotor(s, char, position) ==
  LET reflected == reflector[There(s, position, 0, There(s, position, 1, There(s, position, 2, char)))]
  IN  Back(s, position, 2, Back(s, position, 1, Back(s, position, 0, reflected)))

\* A letter of a text that is encrypted at a position.
Encrypted(s, char, position) ==
  through_plug_board(s, rotor(s, through_plug_board(s, char), position))

-----------------------------------------------------------------------------
EnigmaInit ==
  /\ entered \in Settings
  /\ times = 1 /\ letters \in Texts
  /\ current_position = entered.initial
  /\ cipher = <<>> /\ printed = <<>>
  /\ first = [letters |-> <<>>, printed |-> <<>>]

\* encrypt, for one letter.
encrypt ==
  /\ Len(cipher) < Len(letters)
  /\ current_position' = rotor_change(entered, current_position)
  /\ printed' = Append(printed, current_position')
  /\ cipher' = Append(cipher, Encrypted(entered, letters[Len(cipher) + 1], current_position'))
  /\ UNCHANGED <<entered, times, letters, first>>

\* The user enters the same settings again, and what was printed as text.
Rerun ==
  /\ times = 1 /\ Len(cipher) = Len(letters)
  /\ times' = 2 /\ letters' = cipher
  /\ current_position' = entered.initial
  /\ cipher' = <<>> /\ printed' = <<>>
  /\ first' = [letters |-> letters, printed |-> printed]
  /\ UNCHANGED entered

EnigmaNext == encrypt \/ Rerun
EnigmaSpec == EnigmaInit /\ [][EnigmaNext]_enigmaVars

-----------------------------------------------------------------------------
\* The machine is reciprocal: with the same settings the second run turns the cipher
\* into the text again, whatever the rotors, rings and plugs, because it turns the
\* rotors the same way and each position pairs the letters.
DecryptsBack ==
  times = 2 => \A k \in 1..Len(cipher) : cipher[k] = first.letters[k]

\* The double step and a carry of the low rotor never move the middle rotor twice for
\* one letter, except for the first if the text starts with both rotors on their carry.
MovesOnce ==
  printed # <<>> => ~(AtCarry(entered, current_position, 1) /\ AtCarry(entered, current_position, 2))
=============================================================================

----------------------------- MODULE EnigmaLoops -----------------------------
(***************************************************************************)
(* decrypt of enigma.py: for one order of the rotors and one initial       *)
(* position it encrypts every letter six times, which maps the letter that *)
(* comes out at each of the first three places to the one that comes out   *)
(* three places later, and takes the lengths of the loops of the three     *)
(* maps.  An iteration depends on no other: the position is reset for      *)
(* every text.                                                             *)
(***************************************************************************)
EXTENDS Enigma, FiniteSets

VARIABLES
  dictions,         \* the three maps
  nextText,         \* the letter to be encrypted next
  place,            \* the map whose loops are being found
  nextChar,         \* the letter a loop may start with next
  loop, char,       \* the loop being followed, and where it goes on
  letter_in_loop,   \* the letters seen
  one_loop,         \* the lengths of the loops of this map
  three_loop        \* of the maps before it, sorted

loopVars == <<dictions, nextText, place, nextChar, loop, char, letter_in_loop, one_loop, three_loop>>

Places == 0..2

\* The positions of the rotors for the letters of a text, from 1.
PositionsFrom(initial) ==
  LET position[k \in 0..6] == IF k = 0 THEN initial ELSE rotor_change(entered, position[k - 1])
  IN  position

LoopsInit ==
  /\ entered \in {s \in Settings : ~s.plugs}
  /\ dictions = [k \in Places |-> [c \in {} |-> 0]] /\ nextText = 0
  /\ place = 0 /\ nextChar = 0 /\ loop = <<>> /\ char = 0
  /\ letter_in_loop = {} /\ one_loop = <<>> /\ three_loop = <<>>

\* text = chr(char + 65) * 6 is encrypted and goes into the maps.
Fill ==
  /\ nextText < K
  /\ LET position == PositionsFrom(entered.initial)
         out(k) == rotor(entered, nextText, position[k + 1])
     IN  dictions' = [k \in Places |->
           [c \in DOMAIN dictions[k] \union {out(k)} |->
              IF c = out(k) THEN out(k + 3) ELSE dictions[k][c]]]
  /\ nextText' = nextText + 1
  /\ UNCHANGED <<place, nextChar, loop, char, letter_in_loop, one_loop, three_loop>>

\* A loop starts with a letter that is in none yet.
Begin ==
  /\ nextText = K /\ place \in Places /\ loop = <<>> /\ nextChar < K
  /\ nextChar' = nextChar + 1
  /\ IF nextChar \in letter_in_loop
     THEN UNCHANGED <<loop, char, letter_in_loop>>
     ELSE /\ loop' = <<nextChar>>
          /\ letter_in_loop' = letter_in_loop \union {nextChar}
          /\ char' = dictions[place][nextChar]
  /\ UNCHANGED <<dictions, nextText, place, one_loop, three_loop>>

Follow ==
  /\ loop # <<>> /\ char # loop[1]
  /\ loop' = Append(loop, char)
  /\ letter_in_loop' = letter_in_loop \union {char}
  /\ char' = dictions[place][char]
  /\ UNCHANGED <<dictions, nextText, place, nextChar, one_loop, three_loop>>

Close ==
  /\ loop # <<>> /\ char = loop[1]
  /\ one_loop' = Append(one_loop, Len(loop))
  /\ loop' = <<>>
  /\ UNCHANGED <<dictions, nextText, place, nextChar, char, letter_in_loop, three_loop>>

\* sort()
Ascending(list) ==
  LET Entries == 1..Len(list)
      order == CHOOSE f \in [Entries -> Entries] :
                 /\ \A j, k \in Entries : j < k => list[f[j]] <= list[f[k]]
                 /\ \A j, k \in Entries : f[j] = f[k] => j = k
  IN  [j \in Entries |-> list[order[j]]]

\* Mutant: letter_in_loop is not made anew.
NextMapKeepsLetters ==
  /\ nextText = K /\ place \in Places /\ loop = <<>> /\ nextChar = K
  /\ three_loop' = Append(three_loop, Ascending(one_loop))
  /\ place' = place + 1 /\ nextChar' = 0
  /\ one_loop' = <<>>
  /\ UNCHANGED <<dictions, nextText, loop, char, letter_in_loop>>

\* one_loop.sort(); three_loop.append(one_loop); and the next map, with fresh lists.
NextMap ==
  /\ nextText = K /\ place \in Places /\ loop = <<>> /\ nextChar = K
  /\ three_loop' = Append(three_loop, Ascending(one_loop))
  /\ place' = place + 1 /\ nextChar' = 0
  /\ letter_in_loop' = {} /\ one_loop' = <<>>
  /\ UNCHANGED <<dictions, nextText, loop, char>>

LoopsNext == Fill \/ Begin \/ Follow \/ Close \/ NextMap

LoopsSpec == LoopsInit /\ [][LoopsNext /\ UNCHANGED entered]_<<entered, loopVars>>

-----------------------------------------------------------------------------
\* The sum of a list: as many as there are pairs of a place of it and a number up to what is there.
Total(list) == Cardinality(UNION {{j} \X (1..list[j]) : j \in 1..Len(list)})

\* Each map is the product of two pairings of the letters, so its loops come in pairs of
\* the same length and together hold all letters: what the search for the key compares
\* is such a list of lengths for every setting.
LoopsInPairs ==
  \A k \in 1..Len(three_loop) :
    LET lengths == three_loop[k]
    IN  /\ Total(lengths) = K
        /\ Len(lengths) % 2 = 0
        /\ \A j \in 1..Len(lengths) \div 2 : lengths[2 * j - 1] = lengths[2 * j]
=============================================================================

----------------------------- MODULE MCPrimitives -----------------------------
(***************************************************************************)
(* The functions of the homeworks on cryptography, with small numbers,      *)
(* small blocks and a small alphabet.  They share nothing, so in each       *)
(* behaviour a program uses only one of them: one of MCBigint or of these.  *)
(***************************************************************************)
EXTENDS MCBigint, EnigmaLoops, HexText, Hkdf, Sha3, Gcm

OneByteIVs == {<<0>>, <<1>>}
SomeCounter == <<0, 2, 3, 3>>

machineVars == <<enigmaVars, loopVars>>
blockVars == <<shaVars, hexVars, hkdfVars, spongeVars, gcmVars>>
allVars == <<using, numberVars, blockVars, machineVars>>

\* Six letters, and three rotors whose wirings are no involutions.
Six(a, b, c, d, e, f) == [x \in 0..5 |-> <<a, b, c, d, e, f>>[x + 1]]
Wirings == <<Six(4, 0, 5, 1, 3, 2), Six(0, 3, 1, 5, 2, 4), Six(1, 3, 5, 0, 2, 4)>>
Reflector == Six(3, 5, 4, 0, 2, 1)
Carries == <<4, 0, 2>>
Plugs == Six(1, 0, 2, 3, 5, 4)
ThreeSlots(a, b, c) == [slot \in 0..2 |-> <<a, b, c>>[slot + 1]]
SomeOrders == {ThreeSlots(1, 2, 3), ThreeSlots(3, 1, 2), ThreeSlots(2, 3, 1)}
SomeRings == {ThreeSlots(0, 0, 0), ThreeSlots(3, 4, 1)}
SomeInitials == {ThreeSlots(h, mid, low) : h \in {5}, mid, low \in 0..5}
SomeTexts == {<<>>, <<2>>, <<0, 1, 2, 3, 4, 5, 5, 4, 0, 0>>}

NoMachine == entered = 0 /\ current_position = 0
NoRun ==
  /\ times = 1 /\ letters = <<>> /\ cipher = <<>> /\ printed = <<>>
  /\ first = [letters |-> <<>>, printed |-> <<>>]
NoLoops ==
  /\ dictions = <<>> /\ nextText = 0
  /\ place = 0 /\ nextChar = 0 /\ loop = <<>> /\ char = 0
  /\ letter_in_loop = {} /\ one_loop = <<>> /\ three_loop = <<>>

MachineInit ==
  IF using = "Enigma" THEN EnigmaInit /\ NoLoops
  ELSE IF using = "loops" THEN LoopsInit /\ NoRun /\ current_position = entered.initial
  ELSE NoMachine /\ NoRun /\ NoLoops

AllInit ==
  /\ \/ MCInit
     \/ using \in {"sha_256", "hex", "HKDF", "sponge", "GCM", "Enigma", "loops"} /\ NoNumbers
  /\ ShaInit /\ HexInit
  /\ HkdfInit /\ SpongeInit /\ GcmInit /\ MachineInit

BlockNext ==
  /\ UNCHANGED using
  /\ \/ using = "sha_256" /\ ShaNext /\ UNCHANGED <<hexVars, hkdfVars, spongeVars, gcmVars>>
     \/ using = "hex" /\ HexNext /\ UNCHANGED <<shaVars, hkdfVars, spongeVars, gcmVars>>
     \/ using = "HKDF" /\ HkdfNext /\ UNCHANGED <<shaVars, hexVars, spongeVars, gcmVars>>
     \/ using = "sponge" /\ SpongeNext /\ UNCHANGED <<shaVars, hexVars, hkdfVars, gcmVars>>
     \/ using = "GCM" /\ GcmNext /\ UNCHANGED <<shaVars, hexVars, hkdfVars, spongeVars>>

MachineNext ==
  /\ UNCHANGED using
  /\ \/ using = "Enigma" /\ EnigmaNext /\ UNCHANGED loopVars
     \/ using = "loops" /\ LoopsNext /\ UNCHANGED enigmaVars

AllNext ==
  \/ MCNext /\ UNCHANGED <<blockVars, machineVars>>
  \/ BlockNext /\ UNCHANGED <<numberVars, machineVars>>
  \/ MachineNext /\ UNCHANGED <<numberVars, blockVars>>

AllSpec == AllInit /\ [][AllNext]_allVars
\* A call of BigIntegerAlgorithms runs.
FairAllSpec == AllSpec /\ WF_allVars(using = "BigAlgorithms" /\ AllNext)
=============================================================================

------------------------------- MODULE MCBigint -------------------------------
(* The parts of bigint on small numbers.  A behaviour uses one of them: the state of *)
(* the others stays as it is.                                                        *)
EXTENDS BigInteger, BigAlgorithms, BigUnsignedInABase

CONSTANTS
  IntBits, MaxLength, MaxLengths, ShiftsZero,   \* of BigUnsigned
  Parts,          \* the parts in use
  MaxMagnitude    \* bound on the integers of BigInteger

VARIABLES
  using,
  num, ucall, uout   \* of BigUnsigned

XYZ == {"x", "y", "z"}
SmallTypes == [bits : 1..N, signed : BOOLEAN]
Unsigned == INSTANCE BigUnsigned WITH
  Types <- SmallTypes, call <- ucall, out <- uout

SmallIntegers == -12..12
Symbol1 == {<<"-", 0>>, <<"+", 0>>, <<"0", 0>>, <<"0", 1>>, <<"0", 9>>,
            <<"A", 0>>, <<"a", 5>>, <<"other", 0>>}
ShortStrings == UNION {[1..l -> Symbol1] : l \in 0..3}
DigitArraysTo3 == UNION {[1..l -> {0, 1, 9, 36}] : l \in 0..3}
UpTo70 == -70..70

unsignedVars == <<num, ucall, uout>>
intVars == <<int, call, out>>
numberVars == <<unsignedVars, intVars, algVars, baseVars>>

NoUnsigned ==
  num = [this \in Reg |-> Unsigned!Zero] /\ ucall = [op |-> "none"] /\ uout = Returned(0)
NoCall == alg = "none" /\ arg = <<>> /\ at = "returned" /\ Start(0, 0) /\ ans = 0 /\ i = 0
NoString ==
  /\ written = 0 /\ base = 0 /\ left = 0 /\ room = 0 /\ blk = <<>> /\ string = <<>>
  /\ readBack = 0 /\ did = "none"

NoNumbers == Init /\ NoUnsigned /\ NoCall /\ NoString

MCInit ==
  /\ using \in Parts
  /\ Init
  /\ IF using = "BigUnsigned" THEN Unsigned!Init ELSE NoUnsigned
  /\ IF using = "BigAlgorithms" THEN AlgInit ELSE NoCall
  /\ IF using = "BigUnsignedInABase" THEN BaseInit ELSE NoString

MCNext ==
  /\ UNCHANGED using
  /\ \/ using = "BigUnsigned" /\ Unsigned!Next /\ UNCHANGED <<intVars, algVars, baseVars>>
     \/ /\ using = "BigInteger" /\ Next /\ UNCHANGED <<unsignedVars, algVars, baseVars>>
        /\ \A this \in Reg : int'[this].mag <= MaxMagnitude
     \/ using = "BigAlgorithms" /\ AlgNext /\ UNCHANGED <<unsignedVars, intVars, baseVars>>
     \/ using = "BigUnsignedInABase" /\ BaseNext /\ UNCHANGED <<unsignedVars, intVars, algVars>>

MCSpec == MCInit /\ [][MCNext]_<<using, numberVars>>

\* BigUnsigned leaves no leading zero (see BigUnsigned).
Canonical == Unsigned!Canonical
\* BigUnsigned computes with natural numbers, and no call leaves a leading zero (see
\* BigUnsigned).
ComputesWithNumbers == Unsigned!ComputesWithNumbers /\ [][Unsigned!Canonical']_unsignedVars
=============================================================================

------------------------------- MODULE Blocks -------------------------------
(* The blocks that bigint's numbers are made of. *)
EXTENDS Integers, Powers

CONSTANT N   \* bits in a block (64)

ASSUME BlockAssumption == N \in Nat \ {0}

\* How many values a block has.
Radix == Power(2, N)
=============================================================================

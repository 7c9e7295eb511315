------------------------------- MODULE Bytes --------------------------------
(* The numbers that the cryptographic functions are made of. *)
EXTENDS Integers, Powers

CONSTANTS
  Byte,    \* how many values a byte has (256)
  INT_MAX  \* the largest int

\* How many values k bytes have.
Values(k) == Power(Byte, k)
=============================================================================

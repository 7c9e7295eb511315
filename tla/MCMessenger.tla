----------------------------- MODULE MCMessenger -----------------------------
(* The messenger with a few messages of each party. *)
EXTENDS BreakIn

\* For the run in which the second key pair of Bob (3) and that of Alice (4) give a
\* number of less than 511 digits, as one in 256 is.
OneShortNumber == {{3, 4}}
=============================================================================

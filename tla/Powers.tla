------------------------------- MODULE Powers -------------------------------
(* Powers, by the recursion that the proofs need; 2^e and x^e where nothing is proved. *)
EXTENDS Integers

Power(x, e) ==
  LET P[k \in Nat] == IF k = 0 THEN 1 ELSE x * P[k - 1]
  IN  P[e]
=============================================================================

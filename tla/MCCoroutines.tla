---------------------------- MODULE MCCoroutines ----------------------------
(* The coroutine pool with the history of turns, on a few coroutines. *)
EXTENDS CoroutineTurns

\* For the run in which somebody sets the system clock back or forth.
BackAndForth == {-1, 1}
=============================================================================

--------------------------- MODULE CoroutineTurns ---------------------------
(***************************************************************************)
(* CoroutinePool with a history variable: passed[c] is the set of the      *)
(* coroutines that were resumed while coroutine c could have been.         *)
(***************************************************************************)
EXTENDS CoroutinePool

VARIABLE passed

\* Coroutine c is not running and would be resumed if the scan came to it.
Waiting(c) ==
  /\ mode \in {"scan", "run"} /\ c \in Pool /\ ~finished[c]
  /\ ready[c] \/ Elapsed(c)
  /\ ~(mode = "run" /\ running = c)

Resumed(d) == mode = "scan" /\ mode' = "run" /\ context_id' = d

TurnsInit == Init /\ passed = [c \in Coroutines |-> {}]

Count ==
  passed' = [c \in Coroutines |->
               IF Waiting(c) /\ Waiting(c)'
               THEN passed[c] \cup {d \in Pool : Resumed(d)} ELSE {}]

TurnsSpec == TurnsInit /\ [][Next /\ Count]_<<vars, passed>>

FairTurnsSpec == TurnsSpec /\ Fairness

\* Turns are fair: nobody is resumed twice while another coroutine waits, so two
\* bodies that only yield take turns, as the output of sample in the README shows
\* (README.md:39-60).
NobodyOvertakesTwice ==
  [][\A c, d \in Pool : Waiting(c) /\ Resumed(d) /\ c # d => d \notin passed[c]]_<<vars, passed>>
=============================================================================

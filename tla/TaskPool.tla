------------------------------ MODULE TaskPool ------------------------------
(***************************************************************************)
(* What the coroutine library promises to the bodies it runs serially: at  *)
(* most one has the processor, it keeps it until it gives it up, one that  *)
(* sleeps does not run again before its time, and nothing is deleted as    *)
(* long as a body has not ended.  Who runs next is left open.              *)
(***************************************************************************)
EXTENDS Integers

CONSTANTS Tasks, SleepTimes, MaxTime

VARIABLES status, need, elapsed

vars == <<status, need, elapsed>>

States == {"absent", "ready", "asleep", "running", "finished"}

Init ==
  /\ status = [t \in Tasks |-> "absent"]
  /\ need = [t \in Tasks |-> 0]
  /\ elapsed = [t \in Tasks |-> 0]

Move(t, from, to) == status[t] \in from /\ status' = [status EXCEPT ![t] = to]

Add(t) == Move(t, {"absent"}, "ready") /\ UNCHANGED <<need, elapsed>>

Run(t) ==
  /\ \A u \in Tasks : status[u] # "running"
  /\ status[t] = "asleep" => elapsed[t] >= need[t]
  /\ Move(t, {"ready", "asleep"}, "running")
  /\ need' = [need EXCEPT ![t] = 0]
  /\ elapsed' = [elapsed EXCEPT ![t] = 0]

Yield(t) == Move(t, {"running"}, "ready") /\ UNCHANGED <<need, elapsed>>

Sleep(t) ==
  /\ Move(t, {"running"}, "asleep")
  /\ \E d \in SleepTimes : need' = [need EXCEPT ![t] = d]
  /\ UNCHANGED elapsed

End(t) == Move(t, {"running"}, "finished") /\ UNCHANGED <<need, elapsed>>

DeleteAll ==
  /\ \A t \in Tasks : status[t] \in {"absent", "finished"}
  /\ status' = [t \in Tasks |-> "absent"]
  /\ UNCHANGED <<need, elapsed>>

Tick ==
  /\ elapsed' = [t \in Tasks |->
                   IF status[t] = "asleep" /\ elapsed[t] < MaxTime THEN elapsed[t] + 1
                   ELSE elapsed[t]]
  /\ UNCHANGED <<status, need>>

Next ==
  \/ \E t \in Tasks : Add(t) \/ Run(t) \/ Yield(t) \/ Sleep(t) \/ End(t)
  \/ DeleteAll
  \/ Tick

Spec == Init /\ [][Next]_vars
=============================================================================

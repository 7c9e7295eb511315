---------------------------- MODULE CoroutinePool ----------------------------
(***************************************************************************)
(* The coroutine library of coroutinelab: the pool's two ways to run its   *)
(* coroutines (coroutine_pool.h), the calls a coroutine body makes, yield  *)
(* and sleep (common.h), and how a body starts and ends (coroutine_main in *)
(* context.h).  Coroutines are numbered as in the pool's vector.           *)
(*                                                                         *)
(* serial_execute_all is one thread that goes round the vector again and   *)
(* again; a coroutine runs until it switches back.  parallel_execute_all   *)
(* gives each coroutine a thread, and the same bodies run with a yield     *)
(* that does nothing and a sleep that spins.                               *)
(*                                                                         *)
(* A body is any sequence of yields, sleeps and calls of new_coroutine.    *)
(* Time is kept per sleep: real[c] is the time since coroutine c went to   *)
(* sleep, wall[c] the difference of the two readings of system_clock,      *)
(* which follows the real time unless somebody sets the clock.             *)
(***************************************************************************)
EXTENDS Integers

CONSTANTS
  MaxCoroutines,  \* bound: coroutines in the pool
  SleepTimes,     \* the arguments of sleep, in milliseconds
  MaxTime,        \* bound: elapsed times are not told apart from there on
  ClockSteps,     \* by how much the system clock may be set back or forth
  Unsigned        \* 2^64 in the code: a negative difference wraps modulo this

ASSUME PoolAssumption ==
  /\ MaxCoroutines \in Nat
  /\ MaxTime \in Nat
  /\ SleepTimes \subseteq 0..MaxTime
  /\ ClockSteps \subseteq Int
  /\ Unsigned \in Nat /\ Unsigned > MaxTime

VARIABLES
  n,              \* coroutines.size()
  finished, ready,  \* the flags of basic_context
  ms,             \* the argument that the last sleep left in ready_func
  real, wall,     \* the time since then, in truth and by the system clock
  saved,          \* whose stack coroutines[c]->callee_registers hold
  is_parallel, context_id,
  i, all_finished,  \* locals of serial_execute_all
  mode,           \* "main", "scan", "run" (a coroutine), "threads"
  running,        \* the coroutine whose stack is in use in mode "run"
  thread          \* of each coroutine: "none", "on", "sleep", "exit"

vars == <<n, finished, ready, ms, real, wall, saved, is_parallel, context_id,
          i, all_finished, mode, running, thread>>
contexts == <<n, finished, ready, ms, saved>>
clocks == <<real, wall>>
scan == <<i, all_finished>>

Coroutines == 0..(MaxCoroutines - 1)
Pool == {c \in Coroutines : c < n}

-----------------------------------------------------------------------------
Init ==
  /\ n = 0
  /\ finished = [c \in Coroutines |-> FALSE]
  /\ ready = [c \in Coroutines |-> TRUE]
  /\ ms = [c \in Coroutines |-> 0]
  /\ real = [c \in Coroutines |-> 0]
  /\ wall = [c \in Coroutines |-> 0]
  /\ saved = [c \in Coroutines |-> c]
  /\ is_parallel \in BOOLEAN      \* not initialised by the code
  /\ context_id = 0
  /\ i = 0 /\ all_finished = FALSE
  /\ mode = "main" /\ running = 0
  /\ thread = [c \in Coroutines |-> "none"]

\* coroutines.push_back(new coroutine_context(...)), by main before it runs the
\* pool or by a coroutine that has the processor.
new_coroutine ==
  /\ mode \in {"main", "run"} /\ n < MaxCoroutines
  /\ n' = n + 1
  /\ finished' = [finished EXCEPT ![n] = FALSE]
  /\ ready' = [ready EXCEPT ![n] = TRUE]
  /\ saved' = [saved EXCEPT ![n] = n]
  /\ UNCHANGED <<ms, clocks, is_parallel, context_id, scan, mode, running, thread>>

-----------------------------------------------------------------------------
(* serial_execute_all. *)

\* Mutant: is_parallel is not reset.
SerialKeepsFlag ==
  /\ mode = "main"
  /\ mode' = "scan" /\ i' = 0 /\ all_finished' = TRUE
  /\ UNCHANGED <<contexts, clocks, is_parallel, context_id, running, thread>>

serial_execute_all ==
  /\ mode = "main"
  /\ mode' = "scan" /\ is_parallel' = FALSE
  /\ i' = 0 /\ all_finished' = TRUE       \* the first pass begins
  /\ UNCHANGED <<contexts, clocks, context_id, running, thread>>

\* Mutant: the time is rounded up.
ElapsedRoundedUp(c) == (wall[c] % Unsigned) + 1 >= ms[c]

\* ready_func: count() is signed and ms is uint64_t, so the comparison is unsigned.
Elapsed(c) == wall[c] % Unsigned >= ms[c]

\* Mutants: ready_func is never called; its result is ignored.
DueWithoutPolling == ~finished[i] /\ ready[i]
DueAtOnce == ~finished[i]

\* Coroutine i is due: not finished, and ready or found ready now.
Due == ~finished[i] /\ (ready[i] \/ Elapsed(i))

\* Mutant: a coroutine that sleeps does not count as unfinished.
SkipKeepsFlag ==
  /\ mode = "scan" /\ i < n /\ ~Due
  /\ i' = i + 1
  /\ UNCHANGED <<contexts, clocks, is_parallel, context_id, all_finished, mode, running, thread>>

\* The body of the for loop when it does not resume coroutine i.
SkipCoroutine ==
  /\ mode = "scan" /\ i < n /\ ~Due
  /\ i' = i + 1
  /\ all_finished' = (all_finished /\ finished[i])
  /\ UNCHANGED <<contexts, clocks, is_parallel, context_id, mode, running, thread>>

\* Coroutine c's last sleep is over; nothing reads its times any more.
Forget(c) ==
  /\ ms' = [ms EXCEPT ![c] = 0]
  /\ real' = [real EXCEPT ![c] = 0]
  /\ wall' = [wall EXCEPT ![c] = 0]

\* context->resume(): the stack saved in context i takes over.
resume ==
  /\ mode = "scan" /\ i < n /\ Due
  /\ all_finished' = FALSE
  /\ ready' = [ready EXCEPT ![i] = TRUE]
  /\ Forget(i)
  /\ context_id' = i
  /\ mode' = "run" /\ running' = saved[i]
  /\ UNCHANGED <<n, finished, saved, is_parallel, i, thread>>

\* Mutant: all_finished is not set at the start of a pass.
NextPassKeepsFlag ==
  /\ mode = "scan" /\ i >= n /\ ~all_finished
  /\ i' = 0
  /\ UNCHANGED <<contexts, clocks, is_parallel, context_id, all_finished, mode, running, thread>>

NextPass ==
  /\ mode = "scan" /\ i >= n /\ ~all_finished
  /\ i' = 0 /\ all_finished' = TRUE
  /\ UNCHANGED <<contexts, clocks, is_parallel, context_id, mode, running, thread>>

\* Mutant: the pool returns after its first pass.
ReturnAfterPass ==
  /\ mode = "scan" /\ i >= n
  /\ n' = 0 /\ mode' = "main"
  /\ UNCHANGED <<finished, ready, ms, saved, clocks, is_parallel, context_id,
                 scan, running, thread>>

\* Every coroutine was found finished in this pass: delete them all and return.
Return ==
  /\ mode = "scan" /\ i >= n /\ all_finished
  /\ n' = 0 /\ mode' = "main"
  /\ UNCHANGED <<finished, ready, ms, saved, clocks, is_parallel, context_id,
                 scan, running, thread>>

-----------------------------------------------------------------------------
(* A coroutine that has the processor. *)

\* Mutants: the next coroutine is left out; the pass begins again at the first.
SwitchBackTwo(c) ==
  /\ saved' = [saved EXCEPT ![c] = running]
  /\ mode' = "scan" /\ i' = i + 2
SwitchBackToFirst(c) ==
  /\ saved' = [saved EXCEPT ![c] = running]
  /\ mode' = "scan" /\ i' = 0

\* coroutine_switch(callee_registers, caller_registers) of context c: its callee
\* registers now hold the stack in use, and the for loop goes on after resume().
SwitchBack(c) ==
  /\ saved' = [saved EXCEPT ![c] = running]
  /\ mode' = "scan" /\ i' = i + 1

yield ==
  /\ mode = "run" /\ ~is_parallel
  /\ SwitchBack(context_id)
  /\ UNCHANGED <<n, finished, ready, ms, clocks, is_parallel, context_id,
                 all_finished, running, thread>>

sleep(t) ==
  /\ mode = "run" /\ ~is_parallel
  /\ ready' = [ready EXCEPT ![context_id] = FALSE]
  /\ ms' = [ms EXCEPT ![context_id] = t]
  /\ real' = [real EXCEPT ![context_id] = 0]
  /\ wall' = [wall EXCEPT ![context_id] = 0]
  /\ SwitchBack(context_id)
  /\ UNCHANGED <<n, finished, is_parallel, context_id, all_finished, running, thread>>

\* coroutine_main after run() returned; it holds its own context.
coroutine_main ==
  /\ mode = "run"
  /\ finished' = [finished EXCEPT ![running] = TRUE]
  /\ SwitchBack(running)
  /\ UNCHANGED <<n, ready, ms, clocks, is_parallel, context_id,
                 all_finished, running, thread>>

-----------------------------------------------------------------------------
(* parallel_execute_all: run() in a thread each, without coroutine_main. *)

parallel_execute_all ==
  /\ mode = "main"
  /\ mode' = "threads" /\ is_parallel' = TRUE
  /\ thread' = [c \in Coroutines |-> IF c \in Pool THEN "on" ELSE "none"]
  /\ UNCHANGED <<contexts, clocks, context_id, scan, running>>

\* sleep spins on the clock; yield has nothing to do.
ThreadSleep(c, t) ==
  /\ mode = "threads" /\ thread[c] = "on" /\ is_parallel
  /\ thread' = [thread EXCEPT ![c] = "sleep"]
  /\ ms' = [ms EXCEPT ![c] = t]
  /\ real' = [real EXCEPT ![c] = 0]
  /\ wall' = [wall EXCEPT ![c] = 0]
  /\ UNCHANGED <<n, finished, ready, saved, is_parallel, context_id, scan, mode, running>>

ThreadWake(c) ==
  /\ mode = "threads" /\ thread[c] = "sleep" /\ Elapsed(c)
  /\ thread' = [thread EXCEPT ![c] = "on"]
  /\ Forget(c)
  /\ UNCHANGED <<n, finished, ready, saved, is_parallel, context_id, scan, mode, running>>

ThreadExit(c) ==
  /\ mode = "threads" /\ thread[c] = "on"
  /\ thread' = [thread EXCEPT ![c] = "exit"]
  /\ UNCHANGED <<contexts, clocks, is_parallel, context_id, scan, mode, running>>

\* Every thread has been joined; the pool keeps its coroutines.
JoinAll ==
  /\ mode = "threads" /\ \A c \in Pool : thread[c] = "exit"
  /\ mode' = "main"
  /\ thread' = [c \in Coroutines |-> "none"]
  /\ UNCHANGED <<contexts, clocks, is_parallel, context_id, scan, running>>

-----------------------------------------------------------------------------
(* The clocks. *)

Asleep(c) ==
  \/ mode \in {"scan", "run"} /\ c \in Pool /\ ~finished[c] /\ ~ready[c]
  \/ thread[c] = "sleep"

\* Times stay within the bound MaxTime in both directions.
Bounded(t) == IF t > MaxTime THEN MaxTime ELSE IF t < -MaxTime THEN -MaxTime ELSE t

\* A millisecond passes for everyone who sleeps.
Tick ==
  /\ \E c \in Coroutines : Asleep(c) /\ (real[c] < MaxTime \/ wall[c] < MaxTime)
  /\ real' = [c \in Coroutines |-> IF Asleep(c) THEN Bounded(real[c] + 1) ELSE real[c]]
  /\ wall' = [c \in Coroutines |-> IF Asleep(c) THEN Bounded(wall[c] + 1) ELSE wall[c]]
  /\ UNCHANGED <<contexts, is_parallel, context_id, scan, mode, running, thread>>

\* Somebody sets the system clock.
SetClock(d) ==
  /\ \E c \in Coroutines : Asleep(c)
  /\ wall' = [c \in Coroutines |-> IF Asleep(c) THEN Bounded(wall[c] + d) ELSE wall[c]]
  /\ UNCHANGED <<contexts, real, is_parallel, context_id, scan, mode, running, thread>>

-----------------------------------------------------------------------------
SchedulerStep == SkipCoroutine \/ resume \/ NextPass \/ Return

BodyStep(c) ==
  /\ running = c
  /\ yield \/ (\E t \in SleepTimes : sleep(t)) \/ coroutine_main

ThreadStep(c) == ThreadWake(c) \/ ThreadExit(c) \/ \E t \in SleepTimes : ThreadSleep(c, t)

Next ==
  \/ new_coroutine
  \/ serial_execute_all
  \/ parallel_execute_all
  \/ SchedulerStep
  \/ \E c \in Coroutines : BodyStep(c)
  \/ \E c \in Coroutines : ThreadStep(c)
  \/ JoinAll
  \/ Tick
  \/ \E d \in ClockSteps : SetClock(d)

Spec == Init /\ [][Next]_vars

\* The scheduler's thread runs, a body that has the processor comes to its next
\* yield, sleep or end, and time passes.
Fairness ==
  /\ WF_vars(SchedulerStep)
  /\ \A c \in Coroutines : WF_vars(BodyStep(c))
  /\ WF_vars(Tick)

FairSpec == Spec /\ Fairness

-----------------------------------------------------------------------------
(* Properties. *)

FlagsOK ==
  /\ finished \in [Coroutines -> BOOLEAN]
  /\ ready \in [Coroutines -> BOOLEAN]
  /\ is_parallel \in BOOLEAN
  /\ all_finished \in BOOLEAN
  /\ mode \in {"main", "scan", "run", "threads"}
  /\ thread \in [Coroutines -> {"none", "on", "sleep", "exit"}]

IndicesOK ==
  /\ n \in 0..MaxCoroutines
  /\ i \in 0..MaxCoroutines
  /\ context_id \in Nat
  /\ running \in Nat
  /\ saved \in [Coroutines -> Coroutines]

TimesOK ==
  /\ ms \in [Coroutines -> 0..MaxTime]
  /\ real \in [Coroutines -> 0..MaxTime]
  /\ wall \in [Coroutines -> (-MaxTime)..MaxTime]

\* Types of the flags, the indices and the times; i never leaves the vector.
TypeOK == FlagsOK /\ IndicesOK /\ TimesOK

\* The stack in use is the one the pool asked for: the coroutine that runs is the
\* one at index i, whose context yield and sleep will find through context_id; it
\* has neither finished nor is it still asleep, and yield is not a no-op.
RunsTheRightStack ==
  mode = "run" =>
    /\ running = i /\ context_id = i /\ i < n
    /\ ready[i] /\ ~finished[i] /\ ~is_parallel

\* Every context that can still be resumed holds the stack of its own coroutine.
SavedStacks ==
  \A c \in Pool : saved[c] = c

\* all_finished is true in the middle of a pass only if the coroutines passed so
\* far have finished; a body cannot undo that before the pass ends.
PassFlag ==
  mode = "scan" /\ all_finished => \A c \in Coroutines : c < i => finished[c]

\* The pool deletes its contexts, stacks included, only when every body has ended.
DeletesOnlyFinished == [][n' < n => \A c \in Pool : finished[c]]_vars

\* "at least ms milliseconds later" (common.h:35): a coroutine or a thread that
\* called sleep(ms) goes on after at least that much time.
SleepsAtLeast ==
  [][\A c \in Pool :
       \/ mode = "scan" /\ mode' = "run" /\ context_id' = c /\ ~ready[c]
       \/ thread[c] = "sleep" /\ thread'[c] # "sleep"
       => real[c] >= ms[c]]_vars

\* No coroutine starves: as long as the pool runs, one that has not finished gets
\* the processor again, whatever the others do.
EveryCoroutineResumed ==
  \A c \in Coroutines :
    (mode = "scan" /\ c \in Pool /\ ~finished[c]) ~> (mode = "run" /\ running = c)

\* serial_execute_all returns if every body comes to its end.
ReturnsWhenAllEnd ==
  (\A c \in Coroutines : (mode = "scan" /\ c \in Pool) ~> (finished[c] \/ c \notin Pool))
    => ((mode = "scan") ~> (mode = "main"))

-----------------------------------------------------------------------------
(* The serial runs of the pool are runs of the abstract task pool: its tasks
   are the coroutines, and the scan, the context ids and the stacks are hidden. *)

taskStatus ==
  [c \in Coroutines |->
     IF c \notin Pool THEN "absent"
     ELSE IF finished[c] THEN "finished"
     ELSE IF mode = "run" /\ running = c THEN "running"
     ELSE IF ready[c] THEN "ready" ELSE "asleep"]
taskNeed == [c \in Coroutines |-> IF taskStatus[c] = "asleep" THEN ms[c] ELSE 0]
taskElapsed == [c \in Coroutines |-> IF taskStatus[c] = "asleep" THEN real[c] ELSE 0]

Tasks == INSTANCE TaskPool WITH
  Tasks <- Coroutines, status <- taskStatus, need <- taskNeed, elapsed <- taskElapsed

\* The library keeps what it promises: one body at a time, each until it gives the
\* processor up, sleepers not before their time, and no deletion before the end.
ImplementsTasks == Tasks!Spec
=============================================================================

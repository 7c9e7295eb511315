-------------------------- MODULE Coroutines_proofs --------------------------
(***************************************************************************)
(* Proofs about CoroutinePool, for any number of coroutines and any sleep  *)
(* times, and about the programs on it, BatchSearch and SleepSort.  That a *)
(* body only ever works with its own variables, and that the pool returns  *)
(* only when all of them have ended, comes from the invariant of the pool, *)
(* which is an invariant of the programs as each of their steps is one of  *)
(* the pool.                                                               *)
(***************************************************************************)
EXTENDS SleepSort, BatchSearch, CoroutineTurns, Division

-----------------------------------------------------------------------------
(* CoroutinePool: the inductive invariant and what follows from it. *)

\* The state of the pool outside and between two bodies: threads exist only while
\* parallel_execute_all runs, yield switches only while serial_execute_all does,
\* and a pass in which a body ran is not the last one.
ModeInv ==
  /\ mode # "threads" => \A c \in Coroutines : thread[c] = "none"
  /\ mode = "scan" => ~is_parallel
  /\ mode = "run" => ~all_finished

\* RunsTheRightStack and SavedStacks need each other, TypeOK needs i < n while a
\* body runs, and PassFlag needs that all_finished is false then.
IInv == TypeOK /\ RunsTheRightStack /\ SavedStacks /\ PassFlag /\ ModeInv

\* The initial states satisfy the invariant.
LEMMA InitIInv == Init => IInv
<1> SUFFICES ASSUME Init PROVE IInv
  OBVIOUS
<1> USE PoolAssumption DEF Init, Coroutines, Pool
<1>1. FlagsOK
  BY DEF FlagsOK
<1>2. IndicesOK /\ TimesOK
  BY DEF IndicesOK, TimesOK
<1>3. RunsTheRightStack /\ PassFlag /\ ModeInv
  BY DEF RunsTheRightStack, PassFlag, ModeInv
<1>4. SavedStacks
  BY DEF SavedStacks
<1>. QED
  BY <1>1, <1>2, <1>3, <1>4 DEF IInv, TypeOK

\* Every step of the pool, its bodies, its threads and the clocks preserves it.
LEMMA NextIInv == IInv /\ [Next]_vars => IInv'
<1> SUFFICES ASSUME IInv, [Next]_vars PROVE IInv'
  OBVIOUS
<1> USE PoolAssumption DEF Coroutines, Pool, IInv
<1>1. CASE new_coroutine
  <2> USE <1>1 DEF new_coroutine, clocks, scan
  <2>1. FlagsOK'
    BY DEF TypeOK, FlagsOK
  <2>2. IndicesOK'
    BY DEF TypeOK, IndicesOK, RunsTheRightStack
  <2>3. TimesOK'
    BY DEF TypeOK, TimesOK
  <2>4. RunsTheRightStack'
    BY DEF RunsTheRightStack, SavedStacks, ModeInv, TypeOK, FlagsOK, IndicesOK
  <2>5. SavedStacks'
    BY DEF SavedStacks, RunsTheRightStack, TypeOK, IndicesOK
  <2>6. PassFlag'
    BY DEF PassFlag, ModeInv, TypeOK, FlagsOK, IndicesOK
  <2>7. ModeInv'
    BY DEF ModeInv, TypeOK, FlagsOK, RunsTheRightStack
  <2>. QED
    BY <2>1, <2>2, <2>3, <2>4, <2>5, <2>6, <2>7 DEF TypeOK
<1>2. CASE serial_execute_all
  <2> USE <1>2 DEF serial_execute_all, contexts, clocks
  <2>1. FlagsOK'
    BY DEF TypeOK, FlagsOK
  <2>2. IndicesOK'
    BY DEF TypeOK, IndicesOK, RunsTheRightStack
  <2>3. TimesOK'
    BY DEF TypeOK, TimesOK
  <2>4. RunsTheRightStack'
    BY DEF RunsTheRightStack, SavedStacks, ModeInv, TypeOK, FlagsOK, IndicesOK
  <2>5. SavedStacks'
    BY DEF SavedStacks, RunsTheRightStack, TypeOK, IndicesOK
  <2>6. PassFlag'
    BY DEF PassFlag, ModeInv, TypeOK, FlagsOK, IndicesOK
  <2>7. ModeInv'
    BY DEF ModeInv, TypeOK, FlagsOK, RunsTheRightStack
  <2>. QED
    BY <2>1, <2>2, <2>3, <2>4, <2>5, <2>6, <2>7 DEF TypeOK
<1>3. CASE parallel_execute_all
  <2> USE <1>3 DEF parallel_execute_all, contexts, clocks, scan
  <2>1. FlagsOK'
    BY DEF TypeOK, FlagsOK
  <2>2. IndicesOK'
    BY DEF TypeOK, IndicesOK, RunsTheRightStack
  <2>3. TimesOK'
    BY DEF TypeOK, TimesOK
  <2>4. RunsTheRightStack'
    BY DEF RunsTheRightStack, SavedStacks, ModeInv, TypeOK, FlagsOK, IndicesOK
  <2>5. SavedStacks'
    BY DEF SavedStacks, RunsTheRightStack, TypeOK, IndicesOK
  <2>6. PassFlag'
    BY DEF PassFlag, ModeInv, TypeOK, FlagsOK, IndicesOK
  <2>7. ModeInv'
    BY DEF ModeInv, TypeOK, FlagsOK, RunsTheRightStack
  <2>. QED
    BY <2>1, <2>2, <2>3, <2>4, <2>5, <2>6, <2>7 DEF TypeOK
<1>4. CASE SkipCoroutine
  <2> USE <1>4 DEF SkipCoroutine, contexts, clocks, Due
  <2>1. FlagsOK'
    BY DEF TypeOK, FlagsOK
  <2>2. IndicesOK'
    BY DEF TypeOK, IndicesOK, RunsTheRightStack
  <2>3. TimesOK'
    BY DEF TypeOK, TimesOK
  <2>4. RunsTheRightStack'
    BY DEF RunsTheRightStack, SavedStacks, ModeInv, TypeOK, FlagsOK, IndicesOK
  <2>5. SavedStacks'
    BY DEF SavedStacks, RunsTheRightStack, TypeOK, IndicesOK
  <2>6. PassFlag'
    BY DEF PassFlag, ModeInv, TypeOK, FlagsOK, IndicesOK
  <2>7. ModeInv'
    BY DEF ModeInv, TypeOK, FlagsOK, RunsTheRightStack
  <2>. QED
    BY <2>1, <2>2, <2>3, <2>4, <2>5, <2>6, <2>7 DEF TypeOK
<1>5. CASE resume
  <2> USE <1>5 DEF resume, Forget, Due
  <2>1. FlagsOK'
    BY DEF TypeOK, FlagsOK
  <2>2. IndicesOK'
    BY DEF TypeOK, IndicesOK, RunsTheRightStack
  <2>3. TimesOK'
    <3>1. i \in Coroutines
      BY DEF TypeOK, IndicesOK
    <3>. QED
      BY <3>1 DEF TypeOK, TimesOK
  <2>4. RunsTheRightStack'
    BY DEF RunsTheRightStack, SavedStacks, ModeInv, TypeOK, FlagsOK, IndicesOK
  <2>5. SavedStacks'
    BY DEF SavedStacks, RunsTheRightStack, TypeOK, IndicesOK
  <2>6. PassFlag'
    BY DEF PassFlag, ModeInv, TypeOK, FlagsOK, IndicesOK
  <2>7. ModeInv'
    BY DEF ModeInv, TypeOK, FlagsOK, RunsTheRightStack
  <2>. QED
    BY <2>1, <2>2, <2>3, <2>4, <2>5, <2>6, <2>7 DEF TypeOK
<1>6. CASE NextPass
  <2> USE <1>6 DEF NextPass, contexts, clocks
  <2>1. FlagsOK'
    BY DEF TypeOK, FlagsOK
  <2>2. IndicesOK'
    BY DEF TypeOK, IndicesOK, RunsTheRightStack
  <2>3. TimesOK'
    BY DEF TypeOK, TimesOK
  <2>4. RunsTheRightStack'
    BY DEF RunsTheRightStack, SavedStacks, ModeInv, TypeOK, FlagsOK, IndicesOK
  <2>5. SavedStacks'
    BY DEF SavedStacks, RunsTheRightStack, TypeOK, IndicesOK
  <2>6. PassFlag'
    BY DEF PassFlag, ModeInv, TypeOK, FlagsOK, IndicesOK
  <2>7. ModeInv'
    BY DEF ModeInv, TypeOK, FlagsOK, RunsTheRightStack
  <2>. QED
    BY <2>1, <2>2, <2>3, <2>4, <2>5, <2>6, <2>7 DEF TypeOK
<1>7. CASE Return
  <2> USE <1>7 DEF Return, clocks, scan
  <2>1. FlagsOK'
    BY DEF TypeOK, FlagsOK
  <2>2. IndicesOK'
    BY DEF TypeOK, IndicesOK, RunsTheRightStack
  <2>3. TimesOK'
    BY DEF TypeOK, TimesOK
  <2>4. RunsTheRightStack'
    BY DEF RunsTheRightStack, SavedStacks, ModeInv, TypeOK, FlagsOK, IndicesOK
  <2>5. SavedStacks'
    BY DEF SavedStacks, RunsTheRightStack, TypeOK, IndicesOK
  <2>6. PassFlag'
    BY DEF PassFlag, ModeInv, TypeOK, FlagsOK, IndicesOK
  <2>7. ModeInv'
    BY DEF ModeInv, TypeOK, FlagsOK, RunsTheRightStack
  <2>. QED
    BY <2>1, <2>2, <2>3, <2>4, <2>5, <2>6, <2>7 DEF TypeOK
<1>8. CASE yield
  <2> USE <1>8 DEF yield, SwitchBack, clocks
  <2>1. FlagsOK'
    BY DEF TypeOK, FlagsOK
  <2>2. IndicesOK'
    BY DEF TypeOK, IndicesOK, RunsTheRightStack
  <2>3. TimesOK'
    BY DEF TypeOK, TimesOK
  <2>4. RunsTheRightStack'
    BY DEF RunsTheRightStack, SavedStacks, ModeInv, TypeOK, FlagsOK, IndicesOK
  <2>5. SavedStacks'
    BY DEF SavedStacks, RunsTheRightStack, TypeOK, IndicesOK
  <2>6. PassFlag'
    BY DEF PassFlag, ModeInv, TypeOK, FlagsOK, IndicesOK
  <2>7. ModeInv'
    BY DEF ModeInv, TypeOK, FlagsOK, RunsTheRightStack
  <2>. QED
    BY <2>1, <2>2, <2>3, <2>4, <2>5, <2>6, <2>7 DEF TypeOK
<1>9. ASSUME NEW t \in SleepTimes, sleep(t)
      PROVE  IInv'
  <2> USE <1>9 DEF sleep, SwitchBack
  <2>1. FlagsOK'
    BY DEF TypeOK, FlagsOK
  <2>2. IndicesOK'
    BY DEF TypeOK, IndicesOK, RunsTheRightStack
  <2>3. TimesOK'
    <3>1. context_id \in Coroutines
      BY DEF TypeOK, IndicesOK, RunsTheRightStack
    <3>. QED
      BY <3>1 DEF TypeOK, TimesOK
  <2>4. RunsTheRightStack'
    BY DEF RunsTheRightStack, SavedStacks, ModeInv, TypeOK, FlagsOK, IndicesOK
  <2>5. SavedStacks'
    BY DEF SavedStacks, RunsTheRightStack, TypeOK, IndicesOK
  <2>6. PassFlag'
    BY DEF PassFlag, ModeInv, TypeOK, FlagsOK, IndicesOK
  <2>7. ModeInv'
    BY DEF ModeInv, TypeOK, FlagsOK, RunsTheRightStack
  <2>. QED
    BY <2>1, <2>2, <2>3, <2>4, <2>5, <2>6, <2>7 DEF TypeOK
<1>10. CASE coroutine_main
  <2> USE <1>10 DEF coroutine_main, SwitchBack, clocks
  <2>1. FlagsOK'
    BY DEF TypeOK, FlagsOK
  <2>2. IndicesOK'
    BY DEF TypeOK, IndicesOK, RunsTheRightStack
  <2>3. TimesOK'
    BY DEF TypeOK, TimesOK
  <2>4. RunsTheRightStack'
    BY DEF RunsTheRightStack, SavedStacks, ModeInv, TypeOK, FlagsOK, IndicesOK
  <2>5. SavedStacks'
    BY DEF SavedStacks, RunsTheRightStack, TypeOK, IndicesOK
  <2>6. PassFlag'
    BY DEF PassFlag, ModeInv, TypeOK, FlagsOK, IndicesOK
  <2>7. ModeInv'
    BY DEF ModeInv, TypeOK, FlagsOK, RunsTheRightStack
  <2>. QED
    BY <2>1, <2>2, <2>3, <2>4, <2>5, <2>6, <2>7 DEF TypeOK
<1>11. ASSUME NEW c \in Coroutines, NEW t \in SleepTimes, ThreadSleep(c, t)
       PROVE  IInv'
  <2> USE <1>11 DEF ThreadSleep, scan
  <2>1. FlagsOK'
    BY DEF TypeOK, FlagsOK
  <2>2. IndicesOK'
    BY DEF TypeOK, IndicesOK, RunsTheRightStack
  <2>3. TimesOK'
    BY DEF TypeOK, TimesOK
  <2>4. RunsTheRightStack'
    BY DEF RunsTheRightStack, SavedStacks, ModeInv, TypeOK, FlagsOK, IndicesOK
  <2>5. SavedStacks'
    BY DEF SavedStacks, RunsTheRightStack, TypeOK, IndicesOK
  <2>6. PassFlag'
    BY DEF PassFlag, ModeInv, TypeOK, FlagsOK, IndicesOK
  <2>7. ModeInv'
    BY DEF ModeInv, TypeOK, FlagsOK, RunsTheRightStack
  <2>. QED
    BY <2>1, <2>2, <2>3, <2>4, <2>5, <2>6, <2>7 DEF TypeOK
<1>12. ASSUME NEW c \in Coroutines, ThreadWake(c)
       PROVE  IInv'
  <2> USE <1>12 DEF ThreadWake, Forget, scan
  <2>1. FlagsOK'
    BY DEF TypeOK, FlagsOK
  <2>2. IndicesOK'
    BY DEF TypeOK, IndicesOK, RunsTheRightStack
  <2>3. TimesOK'
    BY DEF TypeOK, TimesOK
  <2>4. RunsTheRightStack'
    BY DEF RunsTheRightStack, SavedStacks, ModeInv, TypeOK, FlagsOK, IndicesOK
  <2>5. SavedStacks'
    BY DEF SavedStacks, RunsTheRightStack, TypeOK, IndicesOK
  <2>6. PassFlag'
    BY DEF PassFlag, ModeInv, TypeOK, FlagsOK, IndicesOK
  <2>7. ModeInv'
    BY DEF ModeInv, TypeOK, FlagsOK, RunsTheRightStack
  <2>. QED
    BY <2>1, <2>2, <2>3, <2>4, <2>5, <2>6, <2>7 DEF TypeOK
<1>13. ASSUME NEW c \in Coroutines, ThreadExit(c)
       PROVE  IInv'
  <2> USE <1>13 DEF ThreadExit, contexts, clocks, scan
  <2>1. FlagsOK'
    BY DEF TypeOK, FlagsOK
  <2>2. IndicesOK'
    BY DEF TypeOK, IndicesOK, RunsTheRightStack
  <2>3. TimesOK'
    BY DEF TypeOK, TimesOK
  <2>4. RunsTheRightStack'
    BY DEF RunsTheRightStack, SavedStacks, ModeInv, TypeOK, FlagsOK, IndicesOK
  <2>5. SavedStacks'
    BY DEF SavedStacks, RunsTheRightStack, TypeOK, IndicesOK
  <2>6. PassFlag'
    BY DEF PassFlag, ModeInv, TypeOK, FlagsOK, IndicesOK
  <2>7. ModeInv'
    BY DEF ModeInv, TypeOK, FlagsOK, RunsTheRightStack
  <2>. QED
    BY <2>1, <2>2, <2>3, <2>4, <2>5, <2>6, <2>7 DEF TypeOK
<1>14. CASE JoinAll
  <2> USE <1>14 DEF JoinAll, contexts, clocks, scan
  <2>1. FlagsOK'
    BY DEF TypeOK, FlagsOK
  <2>2. IndicesOK'
    BY DEF TypeOK, IndicesOK, RunsTheRightStack
  <2>3. TimesOK'
    BY DEF TypeOK, TimesOK
  <2>4. RunsTheRightStack'
    BY DEF RunsTheRightStack, SavedStacks, ModeInv, TypeOK, FlagsOK, IndicesOK
  <2>5. SavedStacks'
    BY DEF SavedStacks, RunsTheRightStack, TypeOK, IndicesOK
  <2>6. PassFlag'
    BY DEF PassFlag, ModeInv, TypeOK, FlagsOK, IndicesOK
  <2>7. ModeInv'
    BY DEF ModeInv, TypeOK, FlagsOK, RunsTheRightStack
  <2>. QED
    BY <2>1, <2>2, <2>3, <2>4, <2>5, <2>6, <2>7 DEF TypeOK
<1>15. CASE Tick
  <2> USE <1>15 DEF Tick, Bounded, contexts, scan
  <2>1. FlagsOK'
    BY DEF TypeOK, FlagsOK
  <2>2. IndicesOK'
    BY DEF TypeOK, IndicesOK, RunsTheRightStack
  <2>3. TimesOK'
    BY SMTT(30) DEF TypeOK, TimesOK
  <2>4. RunsTheRightStack'
    BY DEF RunsTheRightStack, SavedStacks, ModeInv, TypeOK, FlagsOK, IndicesOK
  <2>5. SavedStacks'
    BY DEF SavedStacks, RunsTheRightStack, TypeOK, IndicesOK
  <2>6. PassFlag'
    BY DEF PassFlag, ModeInv, TypeOK, FlagsOK, IndicesOK
  <2>7. ModeInv'
    BY DEF ModeInv, TypeOK, FlagsOK, RunsTheRightStack
  <2>. QED
    BY <2>1, <2>2, <2>3, <2>4, <2>5, <2>6, <2>7 DEF TypeOK
<1>16. ASSUME NEW d \in ClockSteps, SetClock(d)
       PROVE  IInv'
  <2> USE <1>16 DEF SetClock, Bounded, contexts, scan
  <2>1. FlagsOK'
    BY DEF TypeOK, FlagsOK
  <2>2. IndicesOK'
    BY DEF TypeOK, IndicesOK, RunsTheRightStack
  <2>3. TimesOK'
    BY DEF TypeOK, TimesOK
  <2>4. RunsTheRightStack'
    BY DEF RunsTheRightStack, SavedStacks, ModeInv, TypeOK, FlagsOK, IndicesOK
  <2>5. SavedStacks'
    BY DEF SavedStacks, RunsTheRightStack, TypeOK, IndicesOK
  <2>6. PassFlag'
    BY DEF PassFlag, ModeInv, TypeOK, FlagsOK, IndicesOK
  <2>7. ModeInv'
    BY DEF ModeInv, TypeOK, FlagsOK, RunsTheRightStack
  <2>. QED
    BY <2>1, <2>2, <2>3, <2>4, <2>5, <2>6, <2>7 DEF TypeOK
<1>17. CASE UNCHANGED vars
  <2> USE <1>17 DEF vars
  <2>1. FlagsOK'
    BY DEF TypeOK, FlagsOK
  <2>2. IndicesOK'
    BY DEF TypeOK, IndicesOK, RunsTheRightStack
  <2>3. TimesOK'
    BY DEF TypeOK, TimesOK
  <2>4. RunsTheRightStack'
    BY DEF RunsTheRightStack, SavedStacks, ModeInv, TypeOK, FlagsOK, IndicesOK
  <2>5. SavedStacks'
    BY DEF SavedStacks, RunsTheRightStack, TypeOK, IndicesOK
  <2>6. PassFlag'
    BY DEF PassFlag, ModeInv, TypeOK, FlagsOK, IndicesOK
  <2>7. ModeInv'
    BY DEF ModeInv, TypeOK, FlagsOK, RunsTheRightStack
  <2>. QED
    BY <2>1, <2>2, <2>3, <2>4, <2>5, <2>6, <2>7 DEF TypeOK
<1>. QED
  BY <1>1, <1>2, <1>3, <1>4, <1>5, <1>6, <1>7, <1>8, <1>9, <1>10, <1>11, <1>12, <1>13,
     <1>14, <1>15, <1>16, <1>17 DEF Next, SchedulerStep, BodyStep, ThreadStep

\* The invariant holds in every reachable state.
THEOREM Invariance == Spec => []IInv
  BY InitIInv, NextIInv, PTL DEF Spec

\* The flags, indices and times have their types; i stays within the vector.
THEOREM TypeCorrect == Spec => []TypeOK
  BY Invariance, PTL DEF IInv

\* The coroutine that runs is the one whose turn it is, and yield and sleep find
\* its context through context_id.
THEOREM RightStack == Spec => []RunsTheRightStack
  BY Invariance, PTL DEF IInv

\* No context ever holds the stack of another coroutine.
THEOREM StacksKept == Spec => []SavedStacks
  BY Invariance, PTL DEF IInv

\* all_finished only survives a pass over finished coroutines.
THEOREM FlagMeansFinished == Spec => []PassFlag
  BY Invariance, PTL DEF IInv

\* serial_execute_all deletes contexts only after all bodies have ended.
THEOREM NothingDeletedEarly == Spec => DeletesOnlyFinished
<1> DEFINE A == n' < n => \A c \in Pool : finished[c]
<1>1. IInv /\ [Next]_vars => [A]_vars
  <2> SUFFICES ASSUME IInv, Next, n' < n PROVE \A c \in Pool : finished[c]
    OBVIOUS
  <2>1. Return
    BY PoolAssumption DEF IInv, TypeOK, IndicesOK, Next, SchedulerStep, BodyStep, ThreadStep,
       new_coroutine, serial_execute_all, parallel_execute_all, SkipCoroutine, resume, NextPass,
       yield, sleep, coroutine_main, ThreadSleep, ThreadWake, ThreadExit, JoinAll, Tick, SetClock,
       contexts
  <2>. QED
    BY <2>1 DEF IInv, TypeOK, IndicesOK, PassFlag, Return, Pool, Coroutines
<1>. QED
  BY <1>1, Invariance, PTL DEF Spec, DeletesOnlyFinished

-----------------------------------------------------------------------------
(* With a clock that nobody sets, the two readings of system_clock tell the
   real time, and sleep keeps its promise. *)

WallIsReal == wall = real

\* If nobody sets the clock, every step keeps the two times equal.
LEMMA NextWallIsReal ==
  ASSUME ClockSteps = {}, IInv, WallIsReal, [Next]_vars
  PROVE  WallIsReal'
<1> USE DEF WallIsReal
<1>1. CASE Tick
  BY <1>1 DEF Tick
<1>2. CASE UNCHANGED vars
  BY <1>2 DEF vars
<1>3. CASE Next /\ ~Tick
  BY <1>3 DEF Next, SchedulerStep, BodyStep, ThreadStep, new_coroutine, serial_execute_all,
     parallel_execute_all, SkipCoroutine, resume, NextPass, Return, yield, sleep, coroutine_main,
     ThreadSleep, ThreadWake, ThreadExit, JoinAll, Forget, clocks
<1>. QED
  BY <1>1, <1>2, <1>3

\* A difference that is not negative is what the unsigned comparison sees.
LEMMA ElapsedIsReal ==
  ASSUME IInv, WallIsReal, NEW c \in Coroutines, Elapsed(c)
  PROVE  real[c] >= ms[c]
<1>1. real[c] \in 0..MaxTime /\ wall[c] = real[c]
  BY DEF IInv, TypeOK, TimesOK, WallIsReal
<1>2. wall[c] % Unsigned = wall[c]
  BY <1>1, PoolAssumption
<1>. QED
  BY <1>1, <1>2 DEF Elapsed

\* Then no step ends a sleep too early.
LEMMA StepSleepsAtLeast ==
  ASSUME ClockSteps = {}, IInv, WallIsReal, Next, NEW c \in Pool,
         \/ mode = "scan" /\ mode' = "run" /\ context_id' = c /\ ~ready[c]
         \/ thread[c] = "sleep" /\ thread'[c] # "sleep"
  PROVE  real[c] >= ms[c]
<1>1. c \in Coroutines
  BY DEF Pool
<1>2. CASE mode = "scan" /\ mode' = "run" /\ context_id' = c /\ ~ready[c]
  <2>1. resume
    BY <1>2 DEF Next, SchedulerStep, BodyStep, ThreadStep, new_coroutine, serial_execute_all,
       parallel_execute_all, SkipCoroutine, NextPass, Return, yield, sleep, coroutine_main,
       ThreadSleep, ThreadWake, ThreadExit, JoinAll, Tick, SetClock
  <2>2. Elapsed(c)
    BY <1>2, <2>1 DEF resume, Due
  <2>. QED
    BY <1>1, <2>2, ElapsedIsReal
<1>3. CASE thread[c] = "sleep" /\ thread'[c] # "sleep"
  <2>1. mode = "threads"
    BY <1>1, <1>3 DEF IInv, ModeInv
  <2>2. ThreadWake(c)
    BY <1>1, <1>3, <2>1 DEF Next, SchedulerStep, BodyStep, ThreadStep, new_coroutine,
       serial_execute_all, parallel_execute_all, SkipCoroutine, resume, NextPass, Return, yield,
       sleep, coroutine_main, ThreadSleep, ThreadWake, ThreadExit, JoinAll, Tick, SetClock,
       IInv, TypeOK, FlagsOK
  <2>. QED
    BY <1>1, <2>2, ElapsedIsReal DEF ThreadWake
<1>. QED
  BY <1>2, <1>3

\* sleep(ms) returns after at least ms milliseconds if the system clock is not set.
THEOREM SleepLongEnough == ASSUME ClockSteps = {} PROVE Spec => SleepsAtLeast
<1>1. Init => WallIsReal
  BY DEF Init, WallIsReal
<1>2. IInv /\ WallIsReal /\ [Next]_vars => WallIsReal'
  BY NextWallIsReal
<1>3. IInv /\ WallIsReal /\ [Next]_vars =>
        [\A c \in Pool :
           \/ mode = "scan" /\ mode' = "run" /\ context_id' = c /\ ~ready[c]
           \/ thread[c] = "sleep" /\ thread'[c] # "sleep"
           => real[c] >= ms[c]]_vars
  BY StepSleepsAtLeast
<1>. QED
  BY <1>1, <1>2, <1>3, Invariance, PTL DEF Spec, SleepsAtLeast

-----------------------------------------------------------------------------
(* The pool implements the abstract task pool, step by step. *)

\* Coroutines are asleep only while serial_execute_all runs: parallel_execute_all
\* leaves the flags of their contexts alone.
ReadyInMain == mode \in {"main", "threads"} => \A c \in Pool : ready[c]

\* Every step keeps that.
LEMMA NextReadyInMain == IInv /\ ReadyInMain /\ [Next]_vars => ReadyInMain'
<1> SUFFICES ASSUME IInv, ReadyInMain, [Next]_vars PROVE ReadyInMain'
  OBVIOUS
<1> USE DEF ReadyInMain, Pool
<1>1. CASE new_coroutine
  BY <1>1, PoolAssumption DEF new_coroutine, Coroutines, IInv, TypeOK, FlagsOK, IndicesOK
<1>2. CASE Return
  BY <1>2 DEF Return, Coroutines
<1>3. CASE serial_execute_all \/ SkipCoroutine \/ resume \/ NextPass \/ yield \/ coroutine_main
           \/ \E t \in SleepTimes : sleep(t)
  BY <1>3 DEF serial_execute_all, SkipCoroutine, resume, NextPass, yield, sleep, coroutine_main,
     SwitchBack
<1>4. CASE parallel_execute_all \/ JoinAll \/ Tick \/ (\E d \in ClockSteps : SetClock(d))
           \/ \E c \in Coroutines : ThreadStep(c)
  BY <1>4 DEF parallel_execute_all, JoinAll, Tick, SetClock, ThreadStep, ThreadSleep, ThreadWake,
     ThreadExit, contexts
<1>5. CASE UNCHANGED vars
  BY <1>5 DEF vars
<1>. QED
  BY <1>1, <1>2, <1>3, <1>4, <1>5 DEF Next, SchedulerStep, BodyStep

\* The pool begins as the abstract one.
LEMMA InitTasks == Init => Tasks!Init
<1> SUFFICES ASSUME Init PROVE Tasks!Init
  OBVIOUS
<1>1. Pool = {}
  BY DEF Init, Pool, Coroutines
<1>. QED
  BY <1>1 DEF Tasks!Init, taskStatus, taskNeed, taskElapsed

\* A step that leaves the contexts and the processor as they are, and the times of
\* whoever is asleep, is invisible in the task pool.
LEMMA Invisible ==
  ASSUME taskStatus' = taskStatus,
         \A c \in Coroutines : taskStatus[c] = "asleep" => ms'[c] = ms[c] /\ real'[c] = real[c]
  PROVE  UNCHANGED Tasks!vars
<1>1. taskNeed' = taskNeed /\ taskElapsed' = taskElapsed
  BY DEF taskNeed, taskElapsed
<1>. QED
  BY <1>1 DEF Tasks!vars

\* Every step of the pool is a step of the abstract one, or invisible there.
LEMMA NextTasks ==
  ASSUME ClockSteps = {}, IInv, WallIsReal, ReadyInMain, [Next]_vars
  PROVE  [Tasks!Next]_Tasks!vars
<1> USE DEF IInv, TypeOK
<1>1. CASE new_coroutine
  <2>1. n \in Coroutines /\ n \notin Pool
    BY <1>1, PoolAssumption DEF new_coroutine, IndicesOK, Coroutines, Pool
  <2>2. taskStatus' = [taskStatus EXCEPT ![n] = "ready"] /\ taskStatus[n] = "absent"
    <3>1. Pool' = Pool \cup {n}
      BY <1>1, <2>1, PoolAssumption DEF new_coroutine, IndicesOK, Coroutines, Pool
    <3>2. ~(mode = "run" /\ running = n)
      BY DEF RunsTheRightStack, IndicesOK
    <3>3. taskStatus'[n] = "ready"
      BY <1>1, <2>1, <3>1, <3>2 DEF new_coroutine, taskStatus, FlagsOK
    <3>4. \A c \in Coroutines : c # n => taskStatus'[c] = taskStatus[c]
      BY <1>1, <3>1 DEF new_coroutine, taskStatus, FlagsOK
    <3>. QED
      BY <2>1, <3>3, <3>4 DEF taskStatus
  <2>3. taskNeed' = taskNeed /\ taskElapsed' = taskElapsed
    BY <1>1, <2>1, <2>2 DEF new_coroutine, clocks, taskNeed, taskElapsed, taskStatus
  <2>. QED
    BY <2>1, <2>2, <2>3 DEF Tasks!Next, Tasks!Add, Tasks!Move
<1>2. CASE serial_execute_all \/ SkipCoroutine \/ NextPass \/ parallel_execute_all \/ JoinAll
  <2>1. taskStatus' = taskStatus
    BY <1>2 DEF serial_execute_all, SkipCoroutine, NextPass, parallel_execute_all, JoinAll,
       contexts, taskStatus, Pool
  <2>2. UNCHANGED <<ms, real>>
    BY <1>2 DEF serial_execute_all, SkipCoroutine, NextPass, parallel_execute_all, JoinAll,
       contexts, clocks
  <2>. QED
    BY <2>1, <2>2, Invisible
<1>3. CASE resume
  <2>1. i \in Coroutines /\ i \in Pool /\ saved[i] = i
    BY <1>3, PoolAssumption DEF resume, IndicesOK, Coroutines, Pool, SavedStacks
  <2>2. taskStatus' = [taskStatus EXCEPT ![i] = "running"]
    <3>1. Pool' = Pool
      BY <1>3 DEF resume, Pool
    <3>2. taskStatus'[i] = "running"
      BY <1>3, <2>1, <3>1 DEF resume, Due, taskStatus
    <3>3. \A c \in Coroutines : c # i => taskStatus'[c] = taskStatus[c]
      BY <1>3, <2>1, <3>1 DEF resume, taskStatus, FlagsOK
    <3>. QED
      BY <2>1, <3>2, <3>3 DEF taskStatus
  <2>3. \A c \in Coroutines : taskStatus[c] # "running"
    BY <1>3 DEF resume, taskStatus
  <2>4. taskStatus[i] = IF ready[i] THEN "ready" ELSE "asleep"
    BY <1>3, <2>1 DEF resume, Due, taskStatus
  <2>5. taskStatus[i] = "asleep" => taskElapsed[i] >= taskNeed[i]
    BY <1>3, <2>1, <2>4, ElapsedIsReal DEF resume, Due, taskNeed, taskElapsed
  <2>6. /\ taskNeed' = [taskNeed EXCEPT ![i] = 0]
        /\ taskElapsed' = [taskElapsed EXCEPT ![i] = 0]
    BY <1>3, <2>1, <2>2 DEF resume, Forget, taskNeed, taskElapsed, taskStatus, TimesOK
  <2>. QED
    BY <2>1, <2>2, <2>3, <2>4, <2>5, <2>6 DEF Tasks!Next, Tasks!Run, Tasks!Move
<1>4. CASE Return
  <2>1. \A c \in Pool : finished[c]
    BY <1>4 DEF Return, PassFlag, Pool, Coroutines, IndicesOK
  <2>2. \A c \in Coroutines : taskStatus[c] \in {"absent", "finished"}
    BY <2>1 DEF taskStatus
  <2>3. taskStatus' = [c \in Coroutines |-> "absent"]
    BY <1>4 DEF Return, taskStatus, Pool, Coroutines
  <2>4. taskNeed' = taskNeed /\ taskElapsed' = taskElapsed
    BY <2>2, <2>3 DEF taskNeed, taskElapsed
  <2>. QED
    BY <2>2, <2>3, <2>4 DEF Tasks!Next, Tasks!DeleteAll
<1>5. ASSUME mode = "run", yield \/ coroutine_main \/ \E t \in SleepTimes : sleep(t)
      PROVE  [Tasks!Next]_Tasks!vars
  <2>1. /\ i \in Coroutines /\ i \in Pool /\ running = i /\ context_id = i
        /\ ready[i] /\ ~finished[i] /\ taskStatus[i] = "running"
    BY <1>5, PoolAssumption DEF IndicesOK, RunsTheRightStack, Coroutines, Pool, taskStatus
  <2>2. CASE yield
    <3>1. taskStatus' = [taskStatus EXCEPT ![i] = "ready"]
      BY <2>1, <2>2 DEF yield, SwitchBack, taskStatus, Pool
    <3>2. taskNeed' = taskNeed /\ taskElapsed' = taskElapsed
      BY <2>1, <2>2, <3>1 DEF yield, clocks, taskNeed, taskElapsed, taskStatus
    <3>. QED
      BY <2>1, <3>1, <3>2 DEF Tasks!Next, Tasks!Yield, Tasks!Move
  <2>3. CASE coroutine_main
    <3>1. taskStatus' = [taskStatus EXCEPT ![i] = "finished"]
      BY <2>1, <2>3 DEF coroutine_main, SwitchBack, taskStatus, Pool, FlagsOK
    <3>2. taskNeed' = taskNeed /\ taskElapsed' = taskElapsed
      BY <2>1, <2>3, <3>1 DEF coroutine_main, clocks, taskNeed, taskElapsed, taskStatus
    <3>. QED
      BY <2>1, <3>1, <3>2 DEF Tasks!Next, Tasks!End, Tasks!Move
  <2>4. ASSUME NEW t \in SleepTimes, sleep(t)
        PROVE  [Tasks!Next]_Tasks!vars
    <3>1. taskStatus' = [taskStatus EXCEPT ![i] = "asleep"]
      BY <2>1, <2>4 DEF sleep, SwitchBack, taskStatus, Pool, FlagsOK
    <3>2. taskNeed' = [taskNeed EXCEPT ![i] = t]
      BY <2>1, <2>4, <3>1 DEF sleep, taskNeed, taskStatus, TimesOK
    <3>3. taskElapsed' = taskElapsed
      BY <2>1, <2>4, <3>1 DEF sleep, taskElapsed, taskStatus, TimesOK
    <3>. QED
      BY <2>1, <3>1, <3>2, <3>3 DEF Tasks!Next, Tasks!Sleep, Tasks!Move
  <2>. QED
    BY <1>5, <2>2, <2>3, <2>4
<1>6. ASSUME NEW c \in Coroutines, ThreadStep(c)
      PROVE  [Tasks!Next]_Tasks!vars
  <2>1. taskStatus' = taskStatus /\ mode = "threads"
    BY <1>6 DEF ThreadStep, ThreadSleep, ThreadWake, ThreadExit, contexts, taskStatus, Pool
  <2>2. \A d \in Coroutines : taskStatus[d] # "asleep"
    BY <2>1 DEF ReadyInMain, taskStatus
  <2>. QED
    BY <2>1, <2>2, Invisible
<1>7. CASE Tick
  <2>1. taskStatus' = taskStatus
    BY <1>7 DEF Tick, contexts, taskStatus, Pool
  <2>2. taskNeed' = taskNeed
    BY <1>7, <2>1 DEF Tick, contexts, taskNeed
  <2>3. \A c \in Coroutines : taskStatus[c] = "asleep" => Asleep(c)
    BY DEF taskStatus, Asleep, ReadyInMain, FlagsOK
  <2>4. \A c \in Coroutines :
          Bounded(real[c] + 1) = IF real[c] < MaxTime THEN real[c] + 1 ELSE real[c]
    BY PoolAssumption DEF Bounded, TimesOK
  <2>5. \A c \in Coroutines :
          taskStatus[c] = "asleep" =>
            real'[c] = IF real[c] < MaxTime THEN real[c] + 1 ELSE real[c]
    BY <1>7, <2>3, <2>4 DEF Tick
  <2>6. taskElapsed' = [c \in Coroutines |->
                          IF taskStatus[c] = "asleep" /\ taskElapsed[c] < MaxTime
                          THEN taskElapsed[c] + 1 ELSE taskElapsed[c]]
    BY <2>1, <2>5 DEF taskElapsed
  <2>. QED
    BY <2>1, <2>2, <2>6 DEF Tasks!Next, Tasks!Tick
<1>8. CASE UNCHANGED vars
  <2>1. taskStatus' = taskStatus /\ UNCHANGED <<ms, real>>
    BY <1>8 DEF vars, taskStatus, Pool
  <2>. QED
    BY <2>1, Invisible
<1>. QED
  BY <1>1, <1>2, <1>3, <1>4, <1>5, <1>6, <1>7, <1>8
  DEF Next, SchedulerStep, BodyStep, yield, sleep, coroutine_main

\* The pool implements the task pool for any number of coroutines, as long as
\* nobody sets the clock.
THEOREM PoolImplementsTasks == ASSUME ClockSteps = {} PROVE Spec => ImplementsTasks
<1>1. Init => WallIsReal /\ ReadyInMain
  BY DEF Init, WallIsReal, ReadyInMain, Pool, Coroutines
<1>2. IInv /\ WallIsReal /\ [Next]_vars => WallIsReal'
  BY NextWallIsReal
<1>3. IInv /\ WallIsReal /\ ReadyInMain /\ [Next]_vars => [Tasks!Next]_Tasks!vars
  BY NextTasks
<1>. QED
  BY <1>1, <1>2, <1>3, InitTasks, NextReadyInMain, Invariance, PTL
  DEF Spec, ImplementsTasks, Tasks!Spec

-----------------------------------------------------------------------------
(* Turns.  Where the scan stands says who can have been resumed while a
   coroutine was waiting. *)

\* The coroutines below this index have had their turn in this pass.
ScanEnd == IF mode = "run" THEN i + 1 ELSE i

\* Those that were resumed while c was waiting: if c has had its turn, only coroutines
\* behind c in this pass; if not, coroutines of this pass, and ones behind c of the last.
TurnsInv ==
  \A c \in Coroutines : \A d \in passed[c] :
    /\ d \in Coroutines
    /\ IF c < ScanEnd THEN c < d /\ d < ScanEnd ELSE d < ScanEnd \/ c < d

\* Nobody has been passed at the start.
LEMMA InitTurns == TurnsInit => TurnsInv
  BY DEF TurnsInit, TurnsInv

\* Only resume gives a coroutine its turn.
LEMMA ResumedOnlyByResume ==
  ASSUME Next, NEW d, Resumed(d)
  PROVE  resume /\ d = i
<1>1. resume
  BY DEF Resumed, Next, SchedulerStep, BodyStep, ThreadStep, new_coroutine, serial_execute_all,
     parallel_execute_all, SkipCoroutine, NextPass, Return, yield, sleep, coroutine_main,
     ThreadSleep, ThreadWake, ThreadExit, JoinAll, Tick, SetClock
<1>. QED
  BY <1>1 DEF resume, Resumed

\* Every step keeps the order of turns.
LEMMA NextTurns == IInv /\ TurnsInv /\ [Next /\ Count]_<<vars, passed>> => TurnsInv'
<1> SUFFICES ASSUME IInv, TurnsInv, [Next /\ Count]_<<vars, passed>> PROVE TurnsInv'
  OBVIOUS
<1>1. /\ i \in Nat /\ n \in Nat
      /\ \A c \in Coroutines : c \in Nat
  BY PoolAssumption DEF IInv, TypeOK, IndicesOK, Coroutines
<1>2. CASE UNCHANGED <<vars, passed>>
  BY <1>2 DEF vars, TurnsInv, ScanEnd
<1>3. CASE Next /\ Count
  <2>0. \A c \in Coroutines : passed'[c] \subseteq Coroutines
    BY <1>3 DEF Count, TurnsInv, Pool
  <2> SUFFICES ASSUME NEW c \in Coroutines, NEW d \in passed'[c]
               PROVE  (IF c < ScanEnd THEN c < d /\ d < ScanEnd ELSE d < ScanEnd \/ c < d)'
    BY <2>0 DEF TurnsInv, Coroutines
  <2>1. /\ Waiting(c) /\ Waiting(c)'
        /\ d \in passed[c] \/ (d \in Pool /\ Resumed(d))
    BY <1>3 DEF Count
  <2>2. CASE resume
    <3>1. /\ ScanEnd = i /\ ScanEnd' = i + 1 /\ i \in Pool /\ i \in Coroutines
          /\ mode' = "run" /\ running' = i
      BY <2>2, PoolAssumption DEF resume, ScanEnd, Pool, Coroutines, IInv, TypeOK, IndicesOK, SavedStacks
    <3>2. c # i
      BY <2>1, <3>1 DEF Waiting
    <3>3. CASE d \in passed[c]
      <4>1. d \in Coroutines /\ d \in Nat
        BY <1>1, <3>3 DEF TurnsInv
      <4>2. IF c < i THEN c < d /\ d < i ELSE d < i \/ c < d
        BY <3>1, <3>3 DEF TurnsInv
      <4>3. IF c < i + 1 THEN c < d /\ d < i + 1 ELSE d < i + 1 \/ c < d
        BY <1>1, <3>2, <4>1, <4>2
      <4>. QED
        BY <3>1, <4>3
    <3>4. CASE Resumed(d)
      BY <1>1, <1>3, <3>1, <3>2, <3>4, ResumedOnlyByResume
    <3>. QED
      BY <2>1, <3>3, <3>4
  <2>3. ~resume => d \in passed[c]
    BY <1>3, <2>1, ResumedOnlyByResume
  <2>4. CASE SkipCoroutine
    <3>1. ScanEnd = i /\ ScanEnd' = i + 1 /\ d \in passed[c]
      BY <2>3, <2>4 DEF SkipCoroutine, ScanEnd, resume
    <3>2. c # i
      BY <2>1, <2>4 DEF SkipCoroutine, Waiting, Due
    <3>. QED
      BY <1>1, <3>1, <3>2 DEF TurnsInv
  <2>5. CASE NextPass
    <3>1. ScanEnd = i /\ ScanEnd' = 0 /\ d \in passed[c] /\ i >= n
      BY <2>3, <2>5 DEF NextPass, ScanEnd, resume
    <3>2. c < n
      BY <2>1 DEF Waiting, Pool
    <3>. QED
      BY <1>1, <3>1, <3>2 DEF TurnsInv
  <2>6. CASE mode = "run" /\ (yield \/ coroutine_main \/ \E t \in SleepTimes : sleep(t))
    <3>1. ScanEnd = i + 1 /\ ScanEnd' = i + 1 /\ d \in passed[c]
      BY <2>3, <2>6 DEF yield, coroutine_main, sleep, SwitchBack, ScanEnd, resume
    <3>. QED
      BY <3>1 DEF TurnsInv
  <2>7. CASE new_coroutine \/ Tick \/ \E step \in ClockSteps : SetClock(step)
    <3>1. ScanEnd' = ScanEnd /\ (mode = "scan" => mode' = mode)
      BY <2>7 DEF new_coroutine, Tick, SetClock, scan, ScanEnd
    <3>2. d \in passed[c]
      BY <2>1, <3>1 DEF Resumed
    <3>. QED
      BY <3>1, <3>2 DEF TurnsInv
  <2>8. mode \in {"scan", "run"} /\ mode' \in {"scan", "run"}
    BY <2>1 DEF Waiting
  <2>. QED
    BY <1>3, <2>2, <2>4, <2>5, <2>6, <2>7, <2>8
    DEF Next, SchedulerStep, BodyStep, ThreadStep, serial_execute_all, parallel_execute_all, Return,
        ThreadSleep, ThreadWake, ThreadExit, JoinAll, yield, sleep, coroutine_main
<1>. QED
  BY <1>2, <1>3

\* Turns are fair: while a coroutine could run, no other one gets two turns, whoever
\* sleeps, ends or is created meanwhile and whatever happens to the clock.
THEOREM TurnsAreFair == TurnsSpec => NobodyOvertakesTwice
<1>1. TurnsInit => Init
  BY DEF TurnsInit
<1>2. [Next /\ Count]_<<vars, passed>> => [Next]_vars
  BY DEF vars
<1>3. IInv /\ TurnsInv /\ [Next /\ Count]_<<vars, passed>> =>
        [\A c, d \in Pool : Waiting(c) /\ Resumed(d) /\ c # d => d \notin passed[c]]_<<vars, passed>>
  <2> SUFFICES ASSUME IInv, TurnsInv, Next, NEW c \in Pool, NEW d \in Pool, Resumed(d), c # d
               PROVE  d \notin passed[c]
    OBVIOUS
  <2>1. ScanEnd = i /\ d = i
    BY ResumedOnlyByResume DEF resume, ScanEnd
  <2>2. i \in Nat /\ c \in Coroutines /\ c \in Nat
    BY PoolAssumption DEF IInv, TypeOK, IndicesOK, Coroutines, Pool
  <2>. QED
    BY <2>1, <2>2 DEF TurnsInv
<1>. QED
  BY <1>1, <1>2, <1>3, InitIInv, NextIInv, InitTurns, NextTurns, PTL DEF TurnsSpec, NobodyOvertakesTwice

-----------------------------------------------------------------------------
(* BatchSearch: however the pool interleaves the searches, what they return is
   right, for tables and batches of any size. *)

\* What binary_search.cpp takes for granted of its inputs: main asserts m % batch == 0, so
\* the searches are a whole number of batches.
BatchInputs ==
  /\ Batch \in Nat \ {0} /\ Batch <= MaxCoroutines
  /\ \E k \in Nat : Searches = k * Batch
  /\ TableSizes \subseteq Nat \ {0}
  /\ Entries \subseteq Int /\ Keys \subseteq Int

Indices == 0..(Searches - 1)

\* The table is sorted.
TableInv ==
  \E k \in TableSizes :
    /\ table \in [0..(k - 1) -> Entries]
    /\ \A j, l \in 0..(k - 1) : j <= l => table[j] <= table[l]

SearchTypes ==
  /\ keys \in [Indices -> Keys]
  /\ res \in [Indices -> Nat]
  /\ low \in [Coroutines -> Nat] /\ size \in [Coroutines -> Nat]
  /\ probing \in [Coroutines -> BOOLEAN]
  /\ base \in Nat /\ \E d \in Nat : base = d * Batch

\* The batch of the pool: while it runs it is complete, and nothing of it has
\* ended before.
BatchInv ==
  /\ mode # "threads" /\ base <= Searches /\ n <= Batch
  /\ n > 0 \/ mode # "main" => base < Searches
  /\ mode # "main" => n = Batch
  /\ mode = "main" => \A c \in Pool : ~finished[c]

\* The right answer of search q.
IsAnswer(q, k) ==
  /\ k \in DOMAIN table
  /\ k = 0 \/ table[k] <= keys[q]
  /\ \A j \in DOMAIN table : table[j] <= keys[q] => j <= k

\* The answer of search q lies in the interval of s entries from l on.
Within(q, l, s) ==
  /\ l \in Nat /\ s \in Nat /\ s > 0
  /\ l \in DOMAIN table /\ l + s - 1 \in DOMAIN table
  /\ l = 0 \/ table[l] <= keys[q]
  /\ \A j \in DOMAIN table : table[j] <= keys[q] => j < l + s

\* A search that has not ended has narrowed its interval around the answer.
IntervalsInv ==
  \A c \in Pool :
    IF finished[c] THEN IsAnswer(base + c, res[base + c])
    ELSE Within(base + c, low[c], size[c]) /\ (probing[c] => Half(size[c]) > 0)

AnswersInv == \A q \in Indices : q < base => IsAnswer(q, res[q])

SearchInv ==
  IInv /\ TableInv /\ SearchTypes /\ BatchInv /\ IntervalsInv /\ AnswersInv

-----------------------------------------------------------------------------
\* The constants are such inputs.
LEMMA InputsFit == BatchInputs
<1> DEFINE k == Searches \div Batch
<1>1. Searches \in Int /\ Batch \in Int /\ Batch > 0 /\ Searches >= 0 /\ Searches % Batch = 0
  BY BatchAssumption
<1>2. k \in Nat
  BY <1>1, QuotientNat
<1>3. Searches = k * Batch
  <2>1. Searches = Batch * k + 0
    BY <1>1, DivMod
  <2>. QED
    BY <1>1, <1>2, <2>1
<1>. QED
  BY <1>2, <1>3, BatchAssumption DEF BatchInputs

\* A number of whole batches that is smaller than another has room for one more.
LEMMA RoomForBatch ==
  ASSUME NEW b \in Nat, NEW d \in Nat, NEW k \in Nat, d * b < k * b
  PROVE  d * b + b <= k * b
<1>1. d < k
  <2> SUFFICES ASSUME d >= k PROVE FALSE
    OBVIOUS
  <2>1. PICK e \in Nat : d = k + e
    <3>1. d - k \in Nat /\ d = k + (d - k)
      OBVIOUS
    <3>. QED
      BY <3>1
  <2>2. d * b = k * b + e * b /\ e * b >= 0
    BY <2>1
  <2>. QED
    BY <2>2
<1>2. PICK e \in Nat : k = (d + 1) + e
  <2>1. k - (d + 1) \in Nat /\ k = (d + 1) + (k - (d + 1))
    BY <1>1
  <2>. QED
    BY <2>1
<1>3. k * b = (d * b + b) + e * b /\ e * b >= 0
  BY <1>2
<1>. QED
  BY <1>3

\* The size that coroutines start with is the length of the table.
LEMMA LengthOfTable ==
  ASSUME NEW k \in Nat \ {0}, DOMAIN table = 0..(k - 1)
  PROVE  Length = k
<1>1. k - 1 \in DOMAIN table /\ \A j \in DOMAIN table : k - 1 >= j
  OBVIOUS
<1>2. Max(DOMAIN table) \in DOMAIN table /\ \A j \in DOMAIN table : Max(DOMAIN table) >= j
  BY <1>1 DEF Max
<1>3. Max(DOMAIN table) = k - 1
  BY <1>1, <1>2
<1>. QED
  BY <1>3 DEF Length

\* The answer is the last entry that is not larger than the key, or the first one.
LEMMA AnswerIsMax ==
  ASSUME BatchInputs, TableInv, SearchTypes, NEW q \in Indices, IsAnswer(q, res[q])
  PROVE  res[q] = Max({0} \cup {k \in DOMAIN table : table[k] <= keys[q]})
<1> DEFINE S == {0} \cup {k \in DOMAIN table : table[k] <= keys[q]}
<1>1. S \subseteq Int /\ res[q] \in Nat
  BY DEF BatchInputs, TableInv, SearchTypes
<1>2. res[q] \in S
  BY DEF IsAnswer
<1>3. \A j \in S : res[q] >= j
  BY <1>1 DEF IsAnswer
<1>4. Max(S) \in S /\ \A j \in S : Max(S) >= j
  BY <1>2, <1>3 DEF Max
<1>5. Max(S) \in Int /\ Max(S) >= res[q] /\ res[q] >= Max(S)
  BY <1>1, <1>2, <1>3, <1>4
<1>. QED
  BY <1>1, <1>5

\* An iteration of the while loop keeps the answer in the interval.
LEMMA NarrowKeeps ==
  ASSUME BatchInputs, TableInv, SearchTypes, NEW q \in Indices,
         NEW l, NEW s, Within(q, l, s), Half(s) > 0
  PROVE  Within(q, Narrow(l, s, keys[q])[1], Narrow(l, s, keys[q])[2])
<1> DEFINE probe == l + Half(s)
<1>1. PICK k \in TableSizes :
        /\ table \in [0..(k - 1) -> Entries]
        /\ \A j, m \in 0..(k - 1) : j <= m => table[j] <= table[m]
  BY DEF TableInv
<1>2. k \in Nat \ {0} /\ DOMAIN table = 0..(k - 1) /\ \A j \in 0..(k - 1) : table[j] \in Int
  BY <1>1 DEF BatchInputs
<1>3. keys[q] \in Int
  BY DEF BatchInputs, SearchTypes
<1>4. l \in Nat /\ s \in Nat /\ Half(s) \in Nat /\ Half(s) > 0 /\ 2 * Half(s) <= s
  BY DEF Within, Half
<1>5. probe \in 0..(k - 1) /\ l + s - 1 \in 0..(k - 1) /\ l \in 0..(k - 1)
  BY <1>2, <1>4 DEF Within
<1>6. CASE table[probe] <= keys[q]
  <2>1. Narrow(l, s, keys[q]) = <<probe, s - Half(s)>>
    BY <1>6 DEF Narrow
  <2>2. s - Half(s) \in Nat /\ s - Half(s) > 0 /\ probe + (s - Half(s)) = l + s
    BY <1>4
  <2>3. Within(q, probe, s - Half(s))
    BY <1>2, <1>5, <1>6, <2>2 DEF Within
  <2>. QED
    BY <2>1, <2>3
<1>7. CASE ~(table[probe] <= keys[q])
  <2>1. Narrow(l, s, keys[q]) = <<l, s - Half(s)>>
    BY <1>7 DEF Narrow
  <2>2. \A j \in DOMAIN table : table[j] <= keys[q] => j < probe
    <3> SUFFICES ASSUME NEW j \in 0..(k - 1), table[j] <= keys[q], j >= probe PROVE FALSE
      BY <1>2, <1>5
    <3>1. table[probe] <= table[j]
      BY <1>1, <1>5
    <3>. QED
      BY <3>1, <1>2, <1>3, <1>5, <1>7
  <2>3. probe <= l + (s - Half(s)) /\ l + (s - Half(s)) - 1 \in 0..(k - 1)
    BY <1>2, <1>4, <1>5, SMTT(30)
  <2>4. s - Half(s) \in Nat /\ s - Half(s) > 0
    BY <1>4
  <2>5. \A j \in DOMAIN table : table[j] <= keys[q] => j < l + (s - Half(s))
    <3> SUFFICES ASSUME NEW j \in 0..(k - 1), table[j] <= keys[q] PROVE j < l + (s - Half(s))
      BY <1>2
    <3>1. j < probe
      BY <1>2, <2>2
    <3>. QED
      BY <3>1, <1>4, <2>3
  <2>6. Within(q, l, s - Half(s))
    BY <1>2, <1>5, <2>3, <2>4, <2>5 DEF Within
  <2>. QED
    BY <2>1, <2>6
<1>. QED
  BY <1>6, <1>7

\* An interval of one entry is the answer.
LEMMA OneEntry ==
  ASSUME BatchInputs, TableInv, SearchTypes, NEW q, NEW l, NEW s, Within(q, l, s), ~(Half(s) > 0)
  PROVE  l \in Nat /\ IsAnswer(q, l)
<1>1. l \in Nat /\ s = 1
  BY DEF Within, Half
<1>2. DOMAIN table \subseteq Int
  BY DEF TableInv, BatchInputs
<1>. QED
  BY <1>1, <1>2 DEF Within, IsAnswer

-----------------------------------------------------------------------------
\* The steps of the program are steps of the pool.
LEMMA StepsOfThePool == IInv /\ [SearchNext]_searchVars => [Next]_vars
<1> SUFFICES ASSUME IInv, [SearchNext]_searchVars PROVE [Next]_vars
  OBVIOUS
<1>1. CASE coroutine_batched
  BY <1>1 DEF coroutine_batched, Next
<1>2. CASE SearchSchedule
  BY <1>2 DEF SearchSchedule, Next
<1>3. CASE lookup_coroutine
  <2>1. running \in Coroutines
    BY <1>3, PoolAssumption DEF lookup_coroutine, IInv, RunsTheRightStack, TypeOK, IndicesOK, Coroutines
  <2>2. yield \/ coroutine_main
    BY <1>3 DEF lookup_coroutine
  <2>. QED
    BY <2>1, <2>2 DEF Next, BodyStep
<1>4. CASE UNCHANGED searchVars
  BY <1>4 DEF searchVars
<1>. QED
  BY <1>1, <1>2, <1>3, <1>4 DEF SearchNext

\* The invariant holds at the beginning.
LEMMA InitSearchInv == ASSUME BatchInputs PROVE SearchInit => SearchInv
<1> SUFFICES ASSUME SearchInit PROVE SearchInv
  OBVIOUS
<1>1. Init /\ n = 0 /\ mode = "main" /\ base = 0
  BY DEF SearchInit, Init
<1>2. IInv
  BY <1>1, InitIInv
<1>3. TableInv
  BY DEF SearchInit, TableInv
<1>4. Searches \in Nat
  BY DEF BatchInputs
<1>5. SearchTypes
  <2>1. 0 = 0 * Batch
    BY DEF BatchInputs
  <2>. QED
    BY <1>1, <2>1 DEF SearchInit, SearchTypes, Indices
<1>6. Pool = {}
  BY <1>1 DEF Pool, Coroutines
<1>7. BatchInv
  BY <1>1, <1>4, <1>6 DEF BatchInv, BatchInputs
<1>8. IntervalsInv /\ AnswersInv
  BY <1>1, <1>6 DEF IntervalsInv, AnswersInv, Indices
<1>. QED
  BY <1>2, <1>3, <1>5, <1>7, <1>8 DEF SearchInv

\* The searches of the present batch are searches of the program.
LEMMA BatchFits ==
  ASSUME BatchInputs, SearchTypes, BatchInv, base < Searches
  PROVE  /\ Searches \in Nat /\ base + Batch <= Searches
         /\ \A c \in Nat : c < Batch => base + c \in Indices
<1>1. PICK k \in Nat : Searches = k * Batch
  BY DEF BatchInputs
<1>2. PICK d \in Nat : base = d * Batch
  BY DEF SearchTypes
<1>3. Batch \in Nat /\ Searches \in Nat /\ base \in Nat
  BY <1>1 DEF BatchInputs, SearchTypes
<1>4. base + Batch <= Searches
  BY <1>1, <1>2, <1>3, RoomForBatch
<1>. QED
  BY <1>3, <1>4 DEF Indices

\* Main makes another coroutine of the batch, whose interval is the whole table, or
\* starts the pool.
LEMMA MainKeeps == ASSUME BatchInputs, SearchInv, coroutine_batched PROVE SearchInv'
<1> USE DEF SearchInv
<1>1. IInv'
  <2>1. [Next]_vars
    BY StepsOfThePool DEF SearchNext
  <2>. QED
    BY <2>1, NextIInv
<1>2. TableInv' /\ AnswersInv'
  BY DEF coroutine_batched, TableInv, AnswersInv, IsAnswer
<1>3. n \in Nat /\ Batch \in Nat /\ base \in Nat /\ n <= Batch
  BY DEF IInv, TypeOK, IndicesOK, BatchInputs, SearchTypes, BatchInv
<1>4. CASE n < Batch
  <2>1. new_coroutine /\ n \in Coroutines /\ n' = n + 1 /\ mode = "main" /\ mode' = "main"
    BY <1>3, <1>4, PoolAssumption DEF coroutine_batched, new_coroutine, Coroutines
  <2>2. finished' = [finished EXCEPT ![n] = FALSE]
    BY <2>1 DEF new_coroutine
  <2>3. PICK k \in TableSizes :
          /\ table \in [0..(k - 1) -> Entries]
          /\ \A j, l \in 0..(k - 1) : j <= l => table[j] <= table[l]
    BY DEF TableInv
  <2>4. Length = k /\ k \in Nat \ {0}
    BY <2>3, LengthOfTable DEF BatchInputs
  <2>5. \A q : Within(q, 0, Length)
    BY <2>3, <2>4 DEF Within
  <2>6. Pool' = Pool \cup {n} /\ n \notin Pool
    BY <1>3, <2>1 DEF Pool, Coroutines
  <2>7. SearchTypes'
    <3>1. /\ low' = [low EXCEPT ![n] = 0] /\ size' = [size EXCEPT ![n] = Length]
          /\ probing' = [probing EXCEPT ![n] = FALSE]
      BY <1>4 DEF coroutine_batched
    <3>2. low' \in [Coroutines -> Nat] /\ size' \in [Coroutines -> Nat]
      BY <2>1, <2>4, <3>1 DEF SearchTypes
    <3>3. probing' \in [Coroutines -> BOOLEAN]
      BY <2>1, <3>1 DEF SearchTypes
    <3>4. UNCHANGED <<keys, res, base>>
      BY DEF coroutine_batched
    <3>. QED
      BY <3>2, <3>3, <3>4 DEF SearchTypes
  <2>8. finished \in [Coroutines -> BOOLEAN]
    BY DEF IInv, TypeOK, FlagsOK
  <2>9. BatchInv'
    <3>1. \A c \in Pool' : ~finished'[c]
      BY <2>1, <2>2, <2>6, <2>8 DEF BatchInv, Pool
    <3>. QED
      BY <1>3, <1>4, <2>1, <3>1 DEF BatchInv, coroutine_batched
  <2>10. IntervalsInv'
    <3>1. table' = table /\ keys' = keys /\ base' = base
      BY DEF coroutine_batched
    <3>2. ASSUME NEW c \in Pool'
          PROVE  /\ ~finished'[c] /\ Within(base + c, low'[c], size'[c])
                 /\ probing'[c] => Half(size'[c]) > 0
      <4>1. CASE c = n
        <5>1. low'[n] = 0 /\ size'[n] = Length /\ probing'[n] = FALSE /\ finished'[n] = FALSE
          BY <1>4, <2>1, <2>2, <2>8 DEF coroutine_batched, SearchTypes
        <5>. QED
          BY <2>5, <4>1, <5>1
      <4>2. CASE c # n
        <5>1. c \in Pool /\ c \in Coroutines /\ ~finished[c]
          BY <2>1, <2>6, <4>2 DEF BatchInv, Pool
        <5>2. low'[c] = low[c] /\ size'[c] = size[c] /\ probing'[c] = probing[c]
              /\ finished'[c] = finished[c]
          BY <1>4, <2>2, <2>8, <4>2, <5>1 DEF coroutine_batched, SearchTypes
        <5>. QED
          BY <5>1, <5>2 DEF IntervalsInv
      <4>. QED
        BY <4>1, <4>2
    <3>. QED
      BY <3>1, <3>2 DEF IntervalsInv, Within
  <2>. QED
    BY <1>1, <1>2, <2>7, <2>9, <2>10
<1>5. CASE ~(n < Batch)
  <2>1. serial_execute_all /\ UNCHANGED <<table, keys, res, base, low, size, probing, n, finished>>
    BY <1>5 DEF coroutine_batched, serial_execute_all, contexts
  <2>2. mode' = "scan" /\ n = Batch
    BY <1>3, <1>5, <2>1 DEF serial_execute_all
  <2>3. SearchTypes'
    BY <2>1 DEF SearchTypes
  <2>4. BatchInv'
    BY <2>1, <2>2 DEF BatchInv, coroutine_batched
  <2>5. IntervalsInv'
    BY <2>1 DEF IntervalsInv, Pool, IsAnswer, Within
  <2>. QED
    BY <1>1, <1>2, <2>3, <2>4, <2>5
<1>. QED
  BY <1>4, <1>5

\* The pool returns only when the whole batch has ended: its answers are final.
LEMMA ScheduleKeeps == ASSUME BatchInputs, SearchInv, SearchSchedule PROVE SearchInv'
<1> USE DEF SearchInv
<1>1. IInv'
  <2>1. [Next]_vars
    BY StepsOfThePool DEF SearchNext
  <2>. QED
    BY <2>1, NextIInv
<1>2. TableInv'
  BY DEF SearchSchedule, TableInv
<1>3. n \in Nat /\ Batch \in Nat /\ Batch > 0 /\ base \in Nat /\ mode # "main"
  BY DEF IInv, TypeOK, IndicesOK, BatchInputs, SearchTypes, SearchSchedule, SchedulerStep,
     SkipCoroutine, resume, NextPass, Return
<1>4. base < Searches /\ n = Batch
  BY <1>3 DEF BatchInv
<1>5. CASE SkipCoroutine \/ resume \/ NextPass
  <2>1. /\ mode' \in {"scan", "run"}
        /\ UNCHANGED <<table, keys, res, base, low, size, probing, n, finished>>
    BY <1>3, <1>5 DEF SearchSchedule, SkipCoroutine, resume, NextPass, contexts
  <2>2. SearchTypes' /\ BatchInv'
    BY <1>3, <1>4, <2>1 DEF SearchTypes, BatchInv
  <2>3. IntervalsInv' /\ AnswersInv'
    BY <2>1 DEF IntervalsInv, AnswersInv, Pool, IsAnswer, Within
  <2>. QED
    BY <1>1, <1>2, <2>2, <2>3
<1>6. CASE Return
  <2>1. /\ mode' = "main" /\ n' = 0 /\ base' = base + Batch
        /\ UNCHANGED <<table, keys, res, low, size, probing, finished>>
    BY <1>6 DEF SearchSchedule, Return
  <2>2. \A c \in Pool : finished[c]
    BY <1>3, <1>6, PoolAssumption DEF Return, IInv, PassFlag, TypeOK, IndicesOK, Pool, Coroutines
  <2>3. Pool' = {}
    BY <2>1 DEF Pool, Coroutines
  <2>4. base + Batch <= Searches /\ Searches \in Nat
    BY <1>4, BatchFits
  <2>5. SearchTypes'
    <3>1. PICK d \in Nat : base = d * Batch
      BY DEF SearchTypes
    <3>2. d + 1 \in Nat /\ base + Batch = (d + 1) * Batch
      BY <1>3, <3>1
    <3>. QED
      BY <1>3, <2>1, <3>2 DEF SearchTypes
  <2>6. BatchInv'
    BY <1>3, <2>1, <2>3, <2>4 DEF BatchInv
  <2>7. AnswersInv'
    <3> SUFFICES ASSUME NEW q \in Indices, q < base + Batch PROVE IsAnswer(q, res[q])
      BY <2>1 DEF AnswersInv, IsAnswer
    <3>1. CASE q < base
      BY <3>1 DEF AnswersInv
    <3>2. CASE q >= base
      <4>1. q - base \in Pool /\ base + (q - base) = q
        BY <1>3, <1>4, <2>4, <3>2, PoolAssumption DEF Pool, Coroutines, Indices, BatchInputs
      <4>. QED
        BY <2>2, <4>1 DEF IntervalsInv
    <3>. QED
      BY <1>3, <2>4, <3>1, <3>2 DEF Indices
  <2>8. IntervalsInv'
    BY <2>3 DEF IntervalsInv
  <2>. QED
    BY <1>1, <1>2, <2>5, <2>6, <2>7, <2>8
<1>. QED
  BY <1>5, <1>6 DEF SearchSchedule, SchedulerStep

\* A body narrows the interval of its own search, the one at its place in the batch;
\* when it ends, the one entry left is the answer.
LEMMA BodyKeeps == ASSUME BatchInputs, SearchInv, lookup_coroutine PROVE SearchInv'
<1> USE DEF SearchInv
<1>1. IInv'
  <2>1. [Next]_vars
    BY StepsOfThePool DEF SearchNext
  <2>. QED
    BY <2>1, NextIInv
<1>2. TableInv'
  BY DEF lookup_coroutine, TableInv
<1> DEFINE c == running
           q == base + c
           next == IF probing[c] THEN Narrow(low[c], size[c], keys[q]) ELSE <<low[c], size[c]>>
<1>3. /\ c = i /\ context_id = c /\ c \in Nat /\ c < n /\ c \in Coroutines /\ c \in Pool
      /\ ~finished[c] /\ n \in Nat /\ Batch \in Nat /\ base \in Nat
      /\ mode = "run"
  BY PoolAssumption DEF lookup_coroutine, IInv, RunsTheRightStack, TypeOK, IndicesOK, Coroutines, Pool,
     BatchInputs, SearchTypes
<1>4. base < Searches /\ n = Batch
  BY <1>3 DEF BatchInv
<1>5. Searches \in Nat /\ \A d \in Nat : d < Batch => base + d \in Indices
  BY <1>4, BatchFits
<1>6. q \in Indices
  BY <1>3, <1>4, <1>5
<1>7. Within(q, low[c], size[c]) /\ (probing[c] => Half(size[c]) > 0)
  BY <1>3 DEF IntervalsInv
<1>8. Within(q, next[1], next[2])
  <2>1. CASE probing[c]
    BY <1>6, <1>7, <2>1, NarrowKeeps
  <2>2. CASE ~probing[c]
    BY <1>7, <2>2
  <2>. QED
    BY <2>1, <2>2
<1>9. next[1] \in Nat /\ next[2] \in Nat
  BY <1>8 DEF Within
<1>10. /\ low' = [low EXCEPT ![c] = next[1]] /\ size' = [size EXCEPT ![c] = next[2]]
       /\ UNCHANGED <<table, keys, base>>
  BY DEF lookup_coroutine
<1>11. low' \in [Coroutines -> Nat] /\ size' \in [Coroutines -> Nat]
  BY <1>3, <1>9, <1>10 DEF SearchTypes
<1>12. \A d \in Coroutines : d # c => low'[d] = low[d] /\ size'[d] = size[d]
  BY <1>10 DEF SearchTypes
<1>13. low'[c] = next[1] /\ size'[c] = next[2]
  BY <1>3, <1>10 DEF SearchTypes
<1>14. CASE /\ Half(next[2]) > 0 /\ yield
            /\ probing' = [probing EXCEPT ![c] = TRUE] /\ UNCHANGED res
  <2>1. UNCHANGED <<n, finished>> /\ mode' = "scan"
    BY <1>14 DEF yield, SwitchBack
  <2>2. probing' \in [Coroutines -> BOOLEAN]
    BY <1>3, <1>14 DEF SearchTypes
  <2>3. SearchTypes'
    BY <1>10, <1>11, <1>14, <2>2 DEF SearchTypes
  <2>4. BatchInv'
    BY <1>3, <1>4, <1>10, <2>1 DEF BatchInv
  <2>5. AnswersInv'
    BY <1>10, <1>14 DEF AnswersInv, IsAnswer
  <2>6. \A d \in Coroutines : d # c => probing'[d] = probing[d]
    BY <1>14 DEF SearchTypes
  <2>7. IntervalsInv'
    <3>1. Pool' = Pool
      BY <2>1 DEF Pool
    <3>2. ASSUME NEW d \in Pool
          PROVE  IF finished[d] THEN IsAnswer(base + d, res[base + d])
                 ELSE /\ Within(base + d, low'[d], size'[d])
                      /\ probing'[d] => Half(size'[d]) > 0
      <4>1. CASE d = c
        BY <1>3, <1>8, <1>13, <1>14, <4>1
      <4>2. CASE d # c
        <5>1. d \in Coroutines
          BY DEF Pool
        <5>. QED
          BY <1>12, <2>6, <4>2, <5>1 DEF IntervalsInv
      <4>. QED
        BY <4>1, <4>2
    <3>. QED
      BY <1>10, <1>14, <2>1, <3>1, <3>2 DEF IntervalsInv, Within, IsAnswer
  <2>. QED
    BY <1>1, <1>2, <2>3, <2>4, <2>5, <2>7
<1>15. CASE /\ Half(next[2]) = 0 /\ coroutine_main
            /\ res' = [res EXCEPT ![q] = next[1]] /\ UNCHANGED probing
  <2>1. /\ UNCHANGED n /\ mode' = "scan"
        /\ finished' = [finished EXCEPT ![c] = TRUE]
    BY <1>15 DEF coroutine_main, SwitchBack
  <2>2. res' \in [Indices -> Nat]
    BY <1>6, <1>9, <1>15 DEF SearchTypes
  <2>3. SearchTypes'
    BY <1>10, <1>11, <1>15, <2>2 DEF SearchTypes
  <2>4. BatchInv'
    BY <1>3, <1>4, <1>10, <2>1 DEF BatchInv
  <2>5. IsAnswer(q, next[1])
    BY <1>8, <1>15, OneEntry
  <2>6. res'[q] = next[1] /\ \A r \in Indices : r # q => res'[r] = res[r]
    BY <1>6, <1>15 DEF SearchTypes
  <2>7. AnswersInv'
    <3>1. ASSUME NEW r \in Indices, r < base PROVE IsAnswer(r, res'[r])
      <4>1. r # q /\ IsAnswer(r, res[r])
        BY <1>3, <3>1 DEF AnswersInv, Indices
      <4>. QED
        BY <2>6, <4>1
    <3>. QED
      BY <1>10, <3>1 DEF AnswersInv, IsAnswer
  <2>8. IntervalsInv'
    <3>1. Pool' = Pool /\ finished \in [Coroutines -> BOOLEAN]
      BY <2>1 DEF Pool, IInv, TypeOK, FlagsOK
    <3>2. ASSUME NEW d \in Pool
          PROVE  IF finished'[d] THEN IsAnswer(base + d, res'[base + d])
                 ELSE /\ Within(base + d, low'[d], size'[d])
                      /\ probing[d] => Half(size'[d]) > 0
      <4>1. CASE d = c
        BY <1>3, <2>1, <2>5, <2>6, <3>1, <4>1
      <4>2. CASE d # c
        <5>1. d \in Coroutines /\ d \in Nat /\ base + d \in Indices /\ base + d # q
          BY <1>3, <1>4, <1>5, <4>2, PoolAssumption DEF Pool, Coroutines
        <5>2. finished'[d] = finished[d] /\ res'[base + d] = res[base + d]
          BY <2>1, <2>6, <3>1, <4>2, <5>1
        <5>. QED
          BY <1>12, <4>2, <5>1, <5>2 DEF IntervalsInv
      <4>. QED
        BY <4>1, <4>2
    <3>. QED
      BY <1>10, <1>15, <3>1, <3>2 DEF IntervalsInv, Within, IsAnswer
  <2>. QED
    BY <1>1, <1>2, <2>3, <2>4, <2>7, <2>8
<1>. QED
  BY <1>14, <1>15 DEF lookup_coroutine

\* The invariant holds in every reachable state of the program.
THEOREM SearchInvariance == SearchSpec => []SearchInv
<1>1. SearchInit => SearchInv
  BY InputsFit, InitSearchInv
<1>2. SearchInv /\ [SearchNext]_searchVars => SearchInv'
  <2> SUFFICES ASSUME SearchInv, [SearchNext]_searchVars PROVE SearchInv'
    OBVIOUS
  <2>1. CASE SearchNext
    BY <2>1, InputsFit, MainKeeps, ScheduleKeeps, BodyKeeps DEF SearchNext
  <2>2. CASE UNCHANGED searchVars
    <3>1. IInv'
      BY <2>2, NextIInv DEF SearchInv, searchVars
    <3>. QED
      BY <2>2, <3>1 DEF SearchInv, searchVars, vars, TableInv, SearchTypes, BatchInv, IntervalsInv,
         AnswersInv, Within, IsAnswer, Pool
  <2>. QED
    BY <2>1, <2>2
<1>. QED
  BY <1>1, <1>2, PTL DEF SearchSpec

\* Whatever the interleaving, a batch that has returned has found, for each of its
\* searches, the last entry of the table that is not larger than the key.
THEOREM SearchesRight == SearchSpec => []FindsLastNotLarger
<1>1. SearchInv => FindsLastNotLarger
  BY InputsFit, AnswerIsMax DEF SearchInv, AnswersInv, FindsLastNotLarger, Indices
<1>. QED
  BY <1>1, SearchInvariance, PTL

\* Every run of the program is a run of the pool, whose theorems hold of it.
THEOREM SearchRunsThePool == SearchSpec => Spec
<1>1. SearchInv /\ [SearchNext]_searchVars => [Next]_vars
  BY StepsOfThePool DEF SearchInv
<1>2. SearchInit => Init
  BY DEF SearchInit
<1>. QED
  BY <1>1, <1>2, SearchInvariance, PTL DEF SearchSpec, Spec

-----------------------------------------------------------------------------
(* SleepSort: the lines come out sorted if the pool is prompt.  That a coroutine
   goes to sleep up to a round after another, and is found due up to two rounds
   after it was, is what the invariant has to say of the times of all sleepers. *)

\* Coroutine c is asleep.
SleepsNow(c) == slept[c] /\ ~ready[c]

SortTypes ==
  /\ a \in [Coroutines -> Numbers] /\ slept \in [Coroutines -> BOOLEAN]
  /\ out \in Seq(Numbers)
  /\ clockSet \in BOOLEAN /\ round \in 0..TicksPerRound

\* Every body goes to sleep once and then comes to its end, and the pool runs once.
StageInv ==
  /\ mode # "threads"
  /\ mode # "main" => n = MaxCoroutines
  /\ mode = "main" /\ out = <<>> => \A c \in Coroutines : ~slept[c]
  /\ \A c \in Coroutines :
       /\ finished[c] => slept[c] /\ ready[c] /\ out # <<>>
       /\ ~slept[c] => ready[c]
       /\ ~finished[c] /\ slept[c] /\ ready[c] => mode = "run" /\ c = running
       /\ SleepsNow(c) => mode # "main" /\ ms[c] = a[c] * TicksPerMs

\* The first pass puts the coroutines to sleep one after another.
FirstPassInv ==
  mode # "main" =>
    \/ \A c \in Coroutines : slept[c]
    \/ \A c \in Coroutines : slept[c] <=> c < i

\* No coroutine sleeps for longer than t.
NobodyLonger(t) == \A c \in Coroutines : SleepsNow(c) => wall[c] <= t

\* The coroutines went to sleep in their order, within a round.
OrderInv ==
  /\ (\E d \in Coroutines : ~slept[d]) => NobodyLonger(round)
  /\ \A c \in Coroutines : wall[c] >= 0
  /\ \A c, d \in Coroutines :
       SleepsNow(c) /\ SleepsNow(d) /\ c < d => wall[d] <= wall[c] /\ wall[c] <= wall[d] + TicksPerRound

\* A coroutine that still sleeps was not due when the pool last came to it, in this round
\* or in the one before, if the pool has come to it at all since it went to sleep.
PolledInv ==
  \A d \in Coroutines : SleepsNow(d) =>
    LET since == IF d < i THEN round ELSE TicksPerRound + round
    IN  wall[d] < ms[d] + since \/ NobodyLonger(since)

\* What was printed is sorted and not larger than what is not printed yet.
OutInv ==
  /\ \A j, k \in 1..Len(out) : j < k => out[j] <= out[k]
  /\ \A c \in Coroutines : ~finished[c] => \A k \in 1..Len(out) : out[k] <= a[c]
  /\ mode = "run" /\ slept[running] => \A c \in Coroutines : ~finished[c] => a[running] <= a[c]

SortInv ==
  /\ IInv /\ SortTypes /\ StageInv /\ FirstPassInv
  /\ ~clockSet => OrderInv /\ PolledInv /\ OutInv

\* Each step of the sort is a step of the pool.
LEMMA SortStepsOfThePool == IInv /\ SortTypes /\ [SortNext]_sortVars => [Next]_vars
<1> SUFFICES ASSUME IInv, SortTypes, [SortNext]_sortVars PROVE [Next]_vars
  OBVIOUS
<1>1. CASE Main
  BY <1>1 DEF Main, Next
<1>2. CASE Schedule
  BY <1>2 DEF Schedule, Next
<1>3. CASE Body
  <2>1. running \in Coroutines /\ a[running] * TicksPerMs \in SleepTimes
    <3>1. mode = "run" /\ running = i /\ i \in Coroutines
      BY <1>3, PoolAssumption DEF Body, IInv, TypeOK, IndicesOK, RunsTheRightStack, Coroutines
    <3>2. a[running] \in Numbers
      BY <3>1 DEF SortTypes
    <3>. QED
      BY <3>1, <3>2, SortAssumption
  <2>. QED
    BY <1>3, <2>1 DEF Body, Next, BodyStep
<1>4. CASE Time
  BY <1>4 DEF Time, Next
<1>5. CASE Set
  BY <1>5 DEF Set, Next
<1>6. CASE UNCHANGED sortVars
  BY <1>6 DEF sortVars
<1>. QED
  BY <1>1, <1>2, <1>3, <1>4, <1>5, <1>6 DEF SortNext

\* What the types say, with the sets of coroutines and of times expanded.
LEMMA SortFacts ==
  ASSUME SortInv
  PROVE  /\ MaxCoroutines \in Nat /\ TicksPerRound \in Nat /\ TicksPerMs \in Nat /\ TicksPerMs > 0
         /\ Coroutines = 0..(MaxCoroutines - 1)
         /\ n \in Nat /\ i \in 0..MaxCoroutines /\ round \in Nat /\ round <= TicksPerRound
         /\ finished \in [Coroutines -> BOOLEAN] /\ ready \in [Coroutines -> BOOLEAN]
         /\ slept \in [Coroutines -> BOOLEAN] /\ Len(out) \in Nat /\ \A k \in 1..Len(out) : out[k] \in Nat
         /\ a \in [Coroutines -> Nat] /\ ms \in [Coroutines -> Nat] /\ wall \in [Coroutines -> Int]
         /\ mode = "run" => running = i /\ context_id = i /\ i \in Coroutines /\ ready[i] /\ ~finished[i]
         /\ (mode = "scan" /\ i < n) => i \in Coroutines
<1> USE PoolAssumption, SortAssumption DEF SortInv, IInv, TypeOK
<1>1. /\ MaxCoroutines \in Nat /\ TicksPerRound \in Nat /\ TicksPerMs \in Nat /\ TicksPerMs > 0
      /\ Coroutines = 0..(MaxCoroutines - 1)
      /\ n \in Nat /\ i \in 0..MaxCoroutines /\ round \in Nat /\ round <= TicksPerRound
  BY DEF IndicesOK, SortTypes, Coroutines
<1>2. /\ finished \in [Coroutines -> BOOLEAN] /\ ready \in [Coroutines -> BOOLEAN]
      /\ slept \in [Coroutines -> BOOLEAN]
  BY DEF FlagsOK, SortTypes
<1>3. Len(out) \in Nat /\ \A k \in 1..Len(out) : out[k] \in Nat
  <2>1. out \in Seq(Numbers) /\ Numbers \subseteq Nat
    BY DEF SortTypes
  <2> HIDE DEF SortInv
  <2>2. Len(out) \in Nat /\ \A k \in 1..Len(out) : out[k] \in Numbers
    BY <2>1
  <2>. QED
    BY <2>1, <2>2
<1>4. a \in [Coroutines -> Nat] /\ ms \in [Coroutines -> Nat] /\ wall \in [Coroutines -> Int]
  <2>1. a \in [Coroutines -> Nat]
    BY DEF SortTypes
  <2>2. ms \in [Coroutines -> Nat] /\ wall \in [Coroutines -> Int]
    BY DEF TimesOK
  <2>. QED
    BY <2>1, <2>2
<1>5. mode = "run" => running = i /\ context_id = i /\ i \in Coroutines /\ ready[i] /\ ~finished[i]
  BY DEF RunsTheRightStack, IndicesOK, Coroutines
<1>6. (mode = "scan" /\ i < n) => i \in Coroutines
  BY DEF IndicesOK, Coroutines
<1>. QED
  BY <1>1, <1>2, <1>3, <1>4, <1>5, <1>6

\* Two different numbers are at least a millisecond apart.
LEMMA Apart ==
  ASSUME NEW x \in Nat, NEW y \in Nat, NEW t \in Nat, x < y
  PROVE  x * t \in Nat /\ y * t \in Nat /\ x * t + t <= y * t
<1>1. PICK k \in Nat : y = x + 1 + k
  <2>1. y - x - 1 \in Nat /\ y = x + 1 + (y - x - 1)
    OBVIOUS
  <2>. QED
    BY <2>1
<1>2. y * t = x * t + t + k * t /\ k * t >= 0
  BY <1>1
<1>. QED
  BY <1>2

\* As long as nobody sets the clock, the unsigned comparison of ready_func is a comparison.
LEMMA ElapsedUnlessSet ==
  ASSUME IInv, OrderInv, NEW c \in Coroutines
  PROVE  Elapsed(c) <=> wall[c] >= ms[c]
<1>1. wall[c] \in 0..MaxTime
  BY DEF IInv, TypeOK, TimesOK, OrderInv
<1>2. wall[c] % Unsigned = wall[c]
  BY <1>1, PoolAssumption
<1>. QED
  BY <1>2 DEF Elapsed

\* A prompt pool wakes a sleeper only when no other one has a smaller number.
LEMMA WakesTheLeast ==
  ASSUME Prompt, SortInv, ~clockSet, mode = "scan", i < n, Due, slept[i], NEW d \in Coroutines, ~finished[d]
  PROVE  a[i] <= a[d]
<1>0. /\ TicksPerRound \in Nat /\ TicksPerMs \in Nat /\ TicksPerMs > 0 /\ 3 * TicksPerRound <= TicksPerMs
      /\ Coroutines = 0..(MaxCoroutines - 1) /\ MaxCoroutines \in Nat
      /\ round \in Nat /\ round <= TicksPerRound
      /\ a \in [Coroutines -> Nat] /\ ms \in [Coroutines -> Nat] /\ wall \in [Coroutines -> Int]
  BY SortFacts DEF Prompt
<1>1. SleepsNow(i) /\ i \in Coroutines
  BY SortFacts DEF SortInv, StageInv, Due, SleepsNow
<1>2. wall[i] >= ms[i] /\ ms[i] = a[i] * TicksPerMs
  <2>1. Elapsed(i)
    BY <1>1 DEF Due, SleepsNow
  <2>. QED
    BY <1>1, <2>1, ElapsedUnlessSet DEF SortInv, StageInv
<1>3. SleepsNow(d) \/ d = i
  <2>1. slept[d]
    BY <1>0, <1>1 DEF SortInv, FirstPassInv, SleepsNow
  <2>. QED
    BY <2>1 DEF SortInv, StageInv, SleepsNow
<1>4. SUFFICES ASSUME a[d] < a[i] PROVE FALSE
  BY <1>0, <1>1
<1>5. d # i /\ SleepsNow(d) /\ ms[d] = a[d] * TicksPerMs
  BY <1>0, <1>1, <1>3, <1>4 DEF SortInv, StageInv
<1> DEFINE D == a[d] * TicksPerMs
           C == a[i] * TicksPerMs
<1>6. D \in Nat /\ C \in Nat /\ D + TicksPerMs <= C
  BY <1>0, <1>1, <1>4, Apart
<1>7. wall[i] \in Int /\ wall[d] \in Int /\ wall[i] >= C /\ ms[d] = D
  BY <1>0, <1>1, <1>2, <1>5
<1> HIDE DEF C, D
<1>8. CASE d < i
  <2>1. wall[i] <= wall[d]
    BY <1>1, <1>5, <1>8 DEF SortInv, OrderInv
  <2>2. wall[d] < D + round \/ wall[i] <= round
    BY <1>1, <1>5, <1>7, <1>8 DEF SortInv, PolledInv, NobodyLonger
  <2>. QED
    BY <1>0, <1>6, <1>7, <2>1, <2>2
<1>9. CASE i < d
  <2>1. wall[i] <= wall[d] + TicksPerRound
    BY <1>1, <1>5, <1>9 DEF SortInv, OrderInv
  <2>2. ~(d < i)
    BY <1>0, <1>1, <1>9
  <2>3. wall[d] < D + (TicksPerRound + round) \/ wall[i] <= TicksPerRound + round
    BY <1>1, <1>5, <1>7, <2>2 DEF SortInv, PolledInv, NobodyLonger
  <2>. QED
    BY <1>0, <1>6, <1>7, <2>1, <2>3
<1>. QED
  BY <1>0, <1>1, <1>5, <1>8, <1>9

\* main makes the coroutines and starts the pool.
LEMMA MainSorts == ASSUME SortInv, Main, IInv' PROVE SortInv'
<1> USE SortFacts DEF SortInv, Main
<1>1. n' \in Nat /\ UNCHANGED <<a, slept, out, clockSet, round, wall, ms>> /\ mode = "main" /\ out = <<>>
  BY DEF new_coroutine, serial_execute_all, contexts, clocks
<1>2. \A c \in Coroutines : ~slept[c] /\ ~finished[c] /\ ready[c]
  BY DEF StageInv
<1>3. \A c \in Coroutines : ~slept'[c] /\ ~finished'[c] /\ ready'[c]
  BY <1>1, <1>2 DEF new_coroutine, serial_execute_all, contexts
<1>4. SortTypes'
  BY <1>1 DEF SortTypes
<1>5. mode' \in {"main", "scan"} /\ (mode' # "main" => n' = MaxCoroutines /\ i' = 0)
  BY DEF new_coroutine, serial_execute_all, contexts, IInv, TypeOK, IndicesOK
<1>6. StageInv'
  BY <1>1, <1>3, <1>5 DEF StageInv, SleepsNow
<1>7. FirstPassInv'
  BY <1>1, <1>3, <1>5 DEF FirstPassInv
<1>8. ~clockSet' => OrderInv' /\ PolledInv' /\ OutInv'
  BY <1>1, <1>3, <1>5 DEF OrderInv, PolledInv, OutInv, NobodyLonger, SleepsNow
<1>. QED
  BY <1>4, <1>6, <1>7, <1>8

\* The pool passes over a coroutine that is not due.
LEMMA SkipSorts == ASSUME SortInv, Schedule, SkipCoroutine, IInv' PROVE SortInv'
<1> USE SortFacts DEF SortInv
<1>1. /\ UNCHANGED <<a, slept, out, clockSet, round, wall, ms, ready, finished, mode, running, n>>
      /\ mode = "scan" /\ i < n /\ ~Due /\ i' = i + 1 /\ i \in Coroutines
  BY DEF Schedule, SkipCoroutine, contexts, clocks
<1>2. slept[i] /\ (SleepsNow(i) => ~Elapsed(i))
  BY <1>1 DEF StageInv, Due, SleepsNow
<1>3. \A c \in Coroutines : slept[c]
  BY <1>1, <1>2, SMTT(30) DEF FirstPassInv
<1>4. SortTypes' /\ StageInv' /\ FirstPassInv'
  BY <1>1, <1>3 DEF SortTypes, StageInv, FirstPassInv, SleepsNow
<1>5. ASSUME ~clockSet PROVE OrderInv' /\ OutInv'
  BY <1>1, <1>5 DEF OrderInv, OutInv, SleepsNow, NobodyLonger
<1>6. ASSUME ~clockSet PROVE PolledInv'
  <2>1. ASSUME NEW d \in Coroutines, SleepsNow(d), d # i
        PROVE  LET since == IF d < i + 1 THEN round ELSE TicksPerRound + round
               IN  wall[d] < ms[d] + since \/ NobodyLonger(since)
    <3>1. d < i + 1 <=> d < i
      BY <1>1, <2>1
    <3>. QED
      BY <1>6, <2>1, <3>1 DEF PolledInv
  <2>2. ASSUME SleepsNow(i) PROVE wall[i] < ms[i] + round
    <3>1. wall[i] \in Int /\ ms[i] \in Nat /\ ~(wall[i] >= ms[i])
      BY <1>1, <1>2, <1>6, <2>2, ElapsedUnlessSet
    <3>. QED
      BY <3>1
  <2>3. \A d \in Coroutines : SleepsNow(d)' <=> SleepsNow(d)
    BY <1>1 DEF SleepsNow
  <2>4. i < i + 1
    OBVIOUS
  <2>5. ASSUME NEW d \in Coroutines, SleepsNow(d)
        PROVE  LET since == IF d < i + 1 THEN round ELSE TicksPerRound + round
               IN  wall[d] < ms[d] + since \/ NobodyLonger(since)
    BY <2>1, <2>2, <2>4, <2>5
  <2>. QED
    BY <1>1, <2>3, <2>5 DEF PolledInv, NobodyLonger
<1>. QED
  BY <1>1, <1>4, <1>5, <1>6

\* The pool resumes a coroutine: it goes to sleep for the first time, or prints.
LEMMA ResumeSorts == ASSUME Prompt, SortInv, Schedule, resume, IInv' PROVE SortInv'
<1> USE SortFacts DEF SortInv
<1>1. /\ UNCHANGED <<a, slept, out, clockSet, round, finished, n, i>>
      /\ mode = "scan" /\ mode' = "run" /\ i < n /\ Due /\ i \in Coroutines
      /\ ready' = [ready EXCEPT ![i] = TRUE] /\ wall' = [wall EXCEPT ![i] = 0]
      /\ ms' = [ms EXCEPT ![i] = 0]
  BY DEF Schedule, resume, Forget
<1>2. running' = i
  BY <1>1 DEF resume, IInv, SavedStacks, Pool
<1>3. \A c \in Coroutines : SleepsNow(c)' => SleepsNow(c) /\ c # i /\ wall'[c] = wall[c] /\ ms'[c] = ms[c]
  BY <1>1 DEF SleepsNow
<1>4. \A t : NobodyLonger(t) => NobodyLonger(t)'
  BY <1>3 DEF NobodyLonger
<1>5. SortTypes' /\ FirstPassInv'
  BY <1>1 DEF SortTypes, FirstPassInv
<1>6. StageInv'
  BY <1>1, <1>2, <1>3 DEF StageInv, SleepsNow, Due
<1>7. ASSUME ~clockSet PROVE OrderInv' /\ PolledInv'
  <2>1. OrderInv'
    BY <1>1, <1>3, <1>4, <1>7, SMTT(30) DEF OrderInv
  <2>2. PolledInv'
    BY <1>1, <1>3, <1>4, <1>7 DEF PolledInv
  <2>. QED
    BY <2>1, <2>2
<1>8. ASSUME ~clockSet PROVE OutInv'
  BY <1>1, <1>2, <1>8, WakesTheLeast DEF OutInv
<1>. QED
  BY <1>1, <1>5, <1>6, <1>7, <1>8

\* A pass of the pool ends, and perhaps the pool.
LEMMA PassSorts == ASSUME SortInv, Schedule, NextPass \/ Return, IInv' PROVE SortInv'
<1> USE SortFacts DEF SortInv
<1>1. /\ UNCHANGED <<a, slept, out, clockSet, ready, finished, ms, wall, running>> /\ round' = 0
      /\ mode = "scan" /\ i >= n /\ n = MaxCoroutines
      /\ (mode' = "scan" /\ i' = 0 /\ n' = n) \/ (mode' = "main" /\ \A c \in Coroutines : finished[c])
  <2>1. \A c \in Coroutines : c < i
    BY DEF NextPass, Return, StageInv
  <2>. QED
    BY <2>1 DEF Schedule, NextPass, Return, contexts, clocks, IInv, PassFlag, StageInv
<1>2. \A c \in Coroutines : slept[c] /\ c < i /\ ~(c < 0)
  BY <1>1 DEF FirstPassInv
<1>3. SortTypes' /\ FirstPassInv'
  BY <1>1, <1>2, SortAssumption DEF SortTypes, FirstPassInv
<1>4. StageInv'
  BY <1>1, <1>2 DEF StageInv, SleepsNow
<1>5. \A c \in Coroutines : SleepsNow(c)' <=> SleepsNow(c)
  BY <1>1 DEF SleepsNow
<1>6. ASSUME ~clockSet PROVE OrderInv' /\ OutInv'
  BY <1>1, <1>2, <1>5, <1>6 DEF OrderInv, OutInv
<1>7. ASSUME ~clockSet PROVE PolledInv'
  <2>1. ASSUME NEW d \in Coroutines, SleepsNow(d)
        PROVE  /\ ~(d < i')
               /\ wall[d] < ms[d] + TicksPerRound \/ NobodyLonger(TicksPerRound)
    <3>1. wall[d] < ms[d] + round \/ NobodyLonger(round)
      BY <1>2, <1>7, <2>1 DEF PolledInv
    <3>2. mode' = "scan"
      BY <1>1, <2>1 DEF StageInv, SleepsNow
    <3>3. NobodyLonger(round) => NobodyLonger(TicksPerRound)
      BY DEF NobodyLonger
    <3>4. ~(d < i')
      BY <1>1, <1>2, <3>2
    <3>. QED
      BY <3>1, <3>3, <3>4
  <2>2. NobodyLonger(TicksPerRound) => NobodyLonger(TicksPerRound)'
    BY <1>1, <1>5 DEF NobodyLonger
  <2>3. TicksPerRound + round' = TicksPerRound
    BY <1>1
  <2>. QED
    BY <1>1, <1>5, <2>1, <2>2, <2>3 DEF PolledInv
<1>. QED
  BY <1>1, <1>3, <1>4, <1>6, <1>7

\* The body of a coroutine goes to sleep.
LEMMA SleepSorts == ASSUME SortInv, Body, ~slept[running], IInv' PROVE SortInv'
<1> USE SortFacts DEF SortInv
<1>1. /\ UNCHANGED <<a, out, clockSet, round, finished, n>>
      /\ mode = "run" /\ mode' = "scan" /\ i \in Coroutines /\ i' = i + 1
      /\ running = i /\ context_id = i /\ ~slept[i]
      /\ slept' = [slept EXCEPT ![i] = TRUE] /\ ready' = [ready EXCEPT ![i] = FALSE]
      /\ wall' = [wall EXCEPT ![i] = 0] /\ ms' = [ms EXCEPT ![i] = a[i] * TicksPerMs]
  BY DEF Body, sleep, SwitchBack
<1>2. \A c \in Coroutines : slept[c] <=> c < i
  BY <1>1 DEF FirstPassInv
<1>3. \A c \in Coroutines : slept'[c] <=> c < i'
  BY <1>1, <1>2, SMTT(30)
<1>4. SortTypes' /\ FirstPassInv'
  BY <1>1, <1>3 DEF SortTypes, FirstPassInv
<1>5. StageInv'
  <2>1. mode' # "threads" /\ n' = MaxCoroutines
    BY <1>1 DEF StageInv
  <2>2. ASSUME NEW c \in Coroutines
        PROVE  /\ finished'[c] => slept'[c] /\ ready'[c] /\ out' # <<>>
               /\ ~slept'[c] => ready'[c]
               /\ ~finished'[c] /\ slept'[c] /\ ready'[c] => mode' = "run" /\ c = running'
               /\ SleepsNow(c)' => mode' # "main" /\ ms'[c] = a'[c] * TicksPerMs
    <3>1. CASE c = i
      BY <1>1, <3>1 DEF StageInv, SleepsNow
    <3>2. CASE c # i
      BY <1>1, <3>2 DEF StageInv, SleepsNow
    <3>. QED
      BY <3>1, <3>2
  <2>. QED
    BY <1>1, <2>1, <2>2 DEF StageInv
<1>6. ASSUME NEW c \in Coroutines, SleepsNow(c)'
      PROVE  /\ c < i'
             /\ \/ c = i /\ wall'[c] = 0
                \/ c < i /\ SleepsNow(c) /\ wall'[c] = wall[c]
  BY <1>1, <1>2, <1>3, <1>6 DEF SleepsNow
<1>7. ASSUME ~clockSet PROVE NobodyLonger(round)' /\ NobodyLonger(round)
  <2>1. NobodyLonger(round)
    BY <1>1, <1>7 DEF OrderInv
  <2>. QED
    BY <1>1, <1>6, <2>1 DEF NobodyLonger
<1>8. ASSUME ~clockSet PROVE OrderInv'
  <2>1. \A c \in Coroutines : wall'[c] >= 0
    BY <1>1, <1>8 DEF OrderInv
  <2>2. ASSUME NEW c \in Coroutines, NEW d \in Coroutines, SleepsNow(c)', SleepsNow(d)', c < d
        PROVE  wall'[d] <= wall'[c] /\ wall'[c] <= wall'[d] + TicksPerRound
    <3>1. c < i /\ SleepsNow(c) /\ wall'[c] = wall[c]
      <4>1. d < i + 1
        BY <1>1, <1>6, <2>2
      <4>2. c # i
        BY <1>1, <2>2, <4>1
      <4>. QED
        BY <1>6, <2>2, <4>2
    <3>2. CASE d = i
      BY <1>1, <1>6, <1>7, <1>8, <2>1, <3>1, <3>2 DEF NobodyLonger
    <3>3. CASE d # i
      BY <1>1, <1>6, <1>8, <2>2, <3>1, <3>3 DEF OrderInv
    <3>. QED
      BY <3>2, <3>3
  <2>. QED
    BY <1>1, <1>7, <1>8, <2>1, <2>2 DEF OrderInv
<1>9. ASSUME ~clockSet PROVE PolledInv'
  BY <1>1, <1>6, <1>7, <1>9 DEF PolledInv, NobodyLonger
<1>10. ASSUME ~clockSet PROVE OutInv'
  BY <1>1, <1>10 DEF OutInv
<1>. QED
  BY <1>1, <1>4, <1>5, <1>8, <1>9, <1>10

\* The body of a coroutine prints its number and ends.
LEMMA PrintSorts == ASSUME SortInv, Body, slept[running], IInv' PROVE SortInv'
<1> USE SortFacts DEF SortInv
<1>1. /\ UNCHANGED <<a, clockSet, round, slept, ready, n, wall, ms>>
      /\ mode = "run" /\ mode' = "scan" /\ i \in Coroutines /\ i' = i + 1
      /\ running = i /\ slept[i] /\ finished' = [finished EXCEPT ![i] = TRUE]
      /\ out' = Append(out, a[i])
  BY DEF Body, coroutine_main, SwitchBack, clocks
<1>2. \A c \in Coroutines : slept[c]
  BY <1>1, SMTT(30) DEF FirstPassInv
<1>3. /\ out' \in Seq(Numbers) /\ Len(out') = Len(out) + 1 /\ out' # <<>>
      /\ \A k \in 1..Len(out) : out'[k] = out[k]
      /\ out'[Len(out) + 1] = a[i]
  BY <1>1 DEF SortTypes
<1>4. SortTypes' /\ FirstPassInv' /\ StageInv'
  BY <1>1, <1>2, <1>3 DEF SortTypes, FirstPassInv, StageInv, SleepsNow
<1>5. ~SleepsNow(i) /\ \A c \in Coroutines : SleepsNow(c)' <=> SleepsNow(c)
  BY <1>1 DEF SleepsNow
<1>6. ASSUME ~clockSet PROVE OrderInv'
  BY <1>1, <1>2, <1>5, <1>6 DEF OrderInv
<1>7. ASSUME ~clockSet PROVE PolledInv'
  <2>1. \A c \in Coroutines : c # i => (c < i + 1 <=> c < i)
    BY <1>1, SMTT(30)
  <2>2. \A t : NobodyLonger(t)' <=> NobodyLonger(t)
    BY <1>1, <1>5 DEF NobodyLonger
  <2>. QED
    BY <1>1, <1>5, <1>7, <2>1, <2>2 DEF PolledInv
<1>8. ASSUME ~clockSet PROVE OutInv'
  <2>1. /\ \A k \in 1..Len(out) : out[k] <= a[i]
        /\ \A c \in Coroutines : ~finished[c] => a[i] <= a[c]
    BY <1>1, <1>8 DEF OutInv
  <2>2. \A k \in 1..Len(out') : k \in 1..Len(out) \/ k = Len(out) + 1
    BY <1>3
  <2>3. \A j, k \in 1..Len(out') : j < k => out'[j] <= out'[k]
    <3> SUFFICES ASSUME NEW j \in 1..Len(out'), NEW k \in 1..Len(out'), j < k
                 PROVE  out'[j] <= out'[k]
      OBVIOUS
    <3>1. j \in 1..Len(out) /\ out'[j] = out[j]
      BY <1>3, <2>2, SMTT(30)
    <3>2. CASE k = Len(out) + 1
      BY <1>3, <2>1, <3>1, <3>2
    <3>3. CASE k \in 1..Len(out)
      BY <1>3, <1>8, <3>1, <3>3 DEF OutInv
    <3>. QED
      BY <2>2, <3>2, <3>3
  <2>4. \A c \in Coroutines : ~finished'[c] => \A k \in 1..Len(out') : out'[k] <= a[c]
    <3> SUFFICES ASSUME NEW c \in Coroutines, ~finished'[c], NEW k \in 1..Len(out')
                 PROVE  out'[k] <= a[c]
      OBVIOUS
    <3>1. ~finished[c]
      BY <1>1
    <3>2. CASE k = Len(out) + 1
      BY <1>3, <2>1, <3>1, <3>2
    <3>3. CASE k \in 1..Len(out)
      BY <1>3, <1>8, <3>1, <3>3 DEF OutInv
    <3>. QED
      BY <2>2, <3>2, <3>3
  <2>. QED
    BY <1>1, <2>3, <2>4 DEF OutInv
<1>. QED
  BY <1>1, <1>4, <1>6, <1>7, <1>8

\* A tick passes for all who sleep.
LEMMA TimeSorts == ASSUME SortInv, Time, IInv' PROVE SortInv'
<1> USE SortFacts DEF SortInv
<1>1. /\ UNCHANGED <<a, slept, out, clockSet, ready, finished, n, i, mode, running, ms>>
      /\ round' = round + 1 /\ round < TicksPerRound
  BY DEF Time, Tick, contexts, scan
<1>2. wall' = [c \in Coroutines |-> IF Asleep(c) THEN Bounded(wall[c] + 1) ELSE wall[c]]
  BY DEF Time, Tick
<1>3. mode \in {"scan", "run"} /\ \A c \in Coroutines : SleepsNow(c) <=> Asleep(c)
  <2>1. \A c \in Coroutines : thread[c] = "none"
    BY DEF StageInv, IInv, ModeInv
  <2>2. mode \in {"scan", "run"}
    <3>1. PICK c \in Coroutines : Asleep(c)
      BY DEF Time, Tick
    <3>. QED
      BY <2>1, <3>1 DEF Asleep
  <2>3. Pool = Coroutines
    BY <2>2 DEF StageInv, Pool
  <2>. QED
    BY <2>1, <2>2, <2>3 DEF StageInv, SleepsNow, Asleep
<1>4. SortTypes' /\ FirstPassInv' /\ StageInv'
  BY <1>1, <1>3 DEF SortTypes, FirstPassInv, StageInv, SleepsNow
<1>5. \A c \in Coroutines : SleepsNow(c)' <=> SleepsNow(c)
  BY <1>1 DEF SleepsNow
<1>6. \A c \in Coroutines : SleepsNow(c) => wall'[c] = Bounded(wall[c] + 1)
  BY <1>2, <1>3
<1>7. ASSUME NEW x \in Int, x >= 0
      PROVE  /\ Bounded(x + 1) \in Int /\ Bounded(x + 1) >= 0 /\ Bounded(x + 1) <= x + 1
             /\ \A y \in Int, r \in Nat : y >= 0 /\ x <= y /\ y <= x + r =>
                  Bounded(x + 1) <= Bounded(y + 1) /\ Bounded(y + 1) <= Bounded(x + 1) + r
  BY <1>7, PoolAssumption DEF Bounded
<1> DEFINE Later(t) == \A c \in Coroutines : SleepsNow(c) => wall'[c] <= t
<1>8. ASSUME ~clockSet, NEW t \in Int, NobodyLonger(t) PROVE Later(t + 1)
  BY <1>6, <1>7, <1>8 DEF NobodyLonger, OrderInv
<1>9. ASSUME ~clockSet PROVE OrderInv'
  <2>1. \A c \in Coroutines : wall'[c] >= 0
    BY <1>2, <1>7, <1>9 DEF OrderInv
  <2>2. ASSUME NEW c \in Coroutines, NEW d \in Coroutines, SleepsNow(c), SleepsNow(d), c < d
        PROVE  wall'[d] <= wall'[c] /\ wall'[c] <= wall'[d] + TicksPerRound
    <3>1. wall[d] >= 0 /\ wall[c] >= 0 /\ wall[d] <= wall[c] /\ wall[c] <= wall[d] + TicksPerRound
      BY <1>9, <2>2 DEF OrderInv
    <3>2. wall'[c] = Bounded(wall[c] + 1) /\ wall'[d] = Bounded(wall[d] + 1)
      BY <1>6, <2>2
    <3>. QED
      BY <1>7, <3>1, <3>2
  <2>3. ASSUME \E d \in Coroutines : ~slept'[d] PROVE Later(round')
    <3>1. NobodyLonger(round)
      BY <1>1, <1>9, <2>3 DEF OrderInv
    <3>. QED
      BY <1>1, <1>8, <1>9, <3>1
  <2>. QED
    BY <1>1, <1>5, <2>1, <2>2, <2>3 DEF OrderInv, NobodyLonger
<1>10. ASSUME ~clockSet PROVE PolledInv'
  <2>1. ASSUME NEW d \in Coroutines, SleepsNow(d), NEW since \in Nat,
               wall[d] < ms[d] + since \/ NobodyLonger(since)
        PROVE  wall'[d] < ms[d] + (since + 1) \/ Later(since + 1)
    <3> HIDE DEF Later
    <3>1. /\ wall'[d] \in Int /\ wall'[d] <= wall[d] + 1
          /\ wall[d] \in Int /\ ms[d] \in Nat
      BY <1>6, <1>7, <1>10, <2>1 DEF OrderInv
    <3>2. CASE wall[d] < ms[d] + since
      BY <2>1, <3>1, <3>2, SMTT(30)
    <3>3. CASE NobodyLonger(since)
      BY <1>8, <1>10, <2>1, <3>3
    <3>. QED
      BY <2>1, <3>2, <3>3
  <2>2. ASSUME NEW d \in Coroutines, SleepsNow(d)
        PROVE  LET since == IF d < i THEN round' ELSE TicksPerRound + round'
               IN  wall'[d] < ms[d] + since \/ Later(since)
    <3> HIDE DEF Later
    <3>1. CASE d < i
      <4>1. wall[d] < ms[d] + round \/ NobodyLonger(round)
        BY <1>10, <2>2, <3>1 DEF PolledInv
      <4>. QED
        BY <1>1, <2>1, <2>2, <3>1, <4>1
    <3>2. CASE ~(d < i)
      <4> DEFINE since == TicksPerRound + round
      <4>1. since + 1 = TicksPerRound + round' /\ since \in Nat
        <5>1. round \in Nat /\ TicksPerRound \in Nat /\ round' = round + 1
          BY <1>1
        <5>. QED
          BY ONLY <5>1 DEF since
      <4>2. wall[d] < ms[d] + since \/ NobodyLonger(since)
        BY <1>10, <2>2, <3>2 DEF PolledInv
      <4> HIDE DEF since
      <4>3. wall'[d] < ms[d] + (since + 1) \/ Later(since + 1)
        BY <2>1, <2>2, <4>1, <4>2
      <4>. QED
        BY <3>2, <4>1, <4>3
    <3>. QED
      BY <3>1, <3>2
  <2>. QED
    BY <1>1, <1>5, <2>2 DEF PolledInv, NobodyLonger
<1>11. ASSUME ~clockSet PROVE OutInv'
  BY <1>1, <1>11 DEF OutInv
<1>. QED
  BY <1>1, <1>4, <1>9, <1>10, <1>11

\* The initial states satisfy the invariant.
LEMMA InitSorts == SortInit => SortInv
<1> SUFFICES ASSUME SortInit PROVE SortInv
  OBVIOUS
<1> USE DEF SortInit
<1>1. IInv
  BY InitIInv
<1>2. mode = "main" /\ out = <<>> /\ Len(out) = 0
      /\ \A c \in Coroutines : ~slept[c] /\ ~finished[c] /\ ready[c] /\ wall[c] = 0
  BY DEF Init
<1>3. SortTypes /\ StageInv /\ FirstPassInv
  <2>1. out \in Seq(Numbers) /\ round \in 0..TicksPerRound
    BY SortAssumption
  <2>2. StageInv /\ FirstPassInv
    BY <1>2 DEF StageInv, FirstPassInv, SleepsNow
  <2>. QED
    BY <2>1, <2>2 DEF SortTypes
<1>4. OrderInv /\ PolledInv /\ OutInv
  BY <1>2 DEF OrderInv, PolledInv, OutInv, NobodyLonger, SleepsNow
<1>. QED
  BY <1>1, <1>3, <1>4 DEF SortInv

\* Every step preserves the invariant; when somebody sets the clock, only what it says
\* about the stage of the program remains.
LEMMA NextSorts == ASSUME Prompt, SortInv, [SortNext]_sortVars PROVE SortInv'
<1>1. IInv'
  BY SortStepsOfThePool, NextIInv DEF SortInv
<1>2. CASE Main
  BY <1>1, <1>2, MainSorts
<1>3. CASE Schedule
  BY <1>1, <1>3, SkipSorts, ResumeSorts, PassSorts DEF Schedule, SchedulerStep
<1>4. CASE Body
  BY <1>1, <1>4, SleepSorts, PrintSorts
<1>5. CASE Time
  BY <1>1, <1>5, TimeSorts
<1>6. CASE Set
  <2>1. clockSet' /\ UNCHANGED <<a, slept, out, round, ready, finished, n, i, mode, running, ms>>
    BY <1>6 DEF Set, SetClock, contexts, scan
  <2>. QED
    BY <1>1, <2>1 DEF SortInv, SortTypes, StageInv, FirstPassInv, SleepsNow
<1>7. CASE UNCHANGED sortVars
  BY <1>1, <1>7 DEF SortInv, SortTypes, StageInv, FirstPassInv, OrderInv, PolledInv, OutInv, NobodyLonger,
     SleepsNow, sortVars, vars
<1>. QED
  BY <1>2, <1>3, <1>4, <1>5, <1>6, <1>7 DEF SortNext

\* The invariant holds in every reachable state of a sort on a prompt pool.
THEOREM SortInvariance == ASSUME Prompt PROVE SortSpec => []SortInv
<1>1. SortInit => SortInv
  BY InitSorts
<1>2. SortInv /\ [SortNext]_sortVars => SortInv'
  BY NextSorts
<1>. QED
  BY <1>1, <1>2, PTL DEF SortSpec

\* If three rounds of the pool take no longer than a millisecond, the lines that sleep_sort
\* has printed are sorted, for any numbers, unless somebody sets the clock.
THEOREM SortsIfPrompt == ASSUME Prompt PROVE SortSpec => []Sorted
<1>1. SortInv => Sorted
  BY DEF SortInv, OutInv, Sorted
<1>. QED
  BY <1>1, SortInvariance, PTL

\* Every run of the program is a run of the pool, be it prompt or not.
THEOREM SortRunsThePool == SortSpec => Spec
<1>1. SortInit => IInv /\ SortTypes
  BY InitSorts DEF SortInv
<1>2. IInv /\ SortTypes /\ [SortNext]_sortVars => IInv' /\ SortTypes'
  <2> SUFFICES ASSUME IInv, SortTypes, [SortNext]_sortVars PROVE IInv' /\ SortTypes'
    OBVIOUS
  <2>1. IInv'
    BY SortStepsOfThePool, NextIInv
  <2>2. SortTypes'
    <3>1. CASE Main \/ Set \/ UNCHANGED sortVars
      BY <3>1 DEF Main, Set, sortVars, SortTypes
    <3>2. CASE Schedule
      BY <3>2, SortAssumption DEF Schedule, SortTypes
    <3>3. CASE Body
      <4>1. running \in Coroutines
        BY <3>3, PoolAssumption DEF Body, IInv, TypeOK, IndicesOK, RunsTheRightStack, Coroutines
      <4>2. slept' \in [Coroutines -> BOOLEAN] /\ out' \in Seq(Numbers)
        <5>1. out \in Seq(Numbers) /\ a[running] \in Numbers /\ slept \in [Coroutines -> BOOLEAN]
          BY <4>1 DEF SortTypes
        <5>2. Append(out, a[running]) \in Seq(Numbers)
          BY <5>1
        <5>3. out' \in {out, Append(out, a[running])} /\ slept' \in {slept, [slept EXCEPT ![running] = TRUE]}
          BY <3>3 DEF Body
        <5>. QED
          BY <5>1, <5>2, <5>3
      <4>. QED
        BY <3>3, <4>2 DEF Body, SortTypes
    <3>4. CASE Time
      BY <3>4, SortAssumption DEF Time, SortTypes
    <3>. QED
      BY <3>1, <3>2, <3>3, <3>4 DEF SortNext
  <2>. QED
    BY <2>1, <2>2
<1>3. SortInit => Init
  BY DEF SortInit
<1>. QED
  BY <1>1, <1>2, <1>3, SortStepsOfThePool, PTL DEF SortSpec, Spec
=============================================================================

----------------------------- MODULE DockerProofs -----------------------------
(***************************************************************************)
(* Proofs about DockerScenario, for every list of containers, every graph  *)
(* of dependencies, every mode and every bound; and about the stops of an  *)
(* EndToEndScenario, for every choice of its options.                      *)
(***************************************************************************)
EXTENDS DockerScenario, EndToEndTopology, TLAPS

-----------------------------------------------------------------------------
(* Each action preserves the invariant.                                    *)

\* A thread asks for a dependency: since it runs itself, every thread that was
\* created is remembered, and none is created twice.
LEMMA AskDependencyStep ==
    ASSUME NEW c \in Containers, NEW d \in Containers, IInv, AskDependency(c, d)
    PROVE  IInv'
<1>1. TypeOK'
  BY DEF IInv, TypeOK, AskDependency, RequestStart, mains, objects, marks
<1>2. ThreadInv'
  BY DEF IInv, TypeOK, ThreadInv, Joined, AskDependency, RequestStart, objects
<1>3. PhaseInv'
  BY DEF IInv, PhaseInv, Idle, AskDependency, RequestStart, mains
<1>4. CloseInv'
  BY DEF IInv, CloseInv, Idle, AskDependency, RequestStart, mains
<1> QED BY <1>1, <1>2, <1>3, <1>4 DEF IInv

\* A thread goes on to start its container when all its dependencies are healthy.
LEMMA JoinDependenciesStep ==
    ASSUME NEW c \in Containers, IInv, JoinDependencies(c)
    PROVE  IInv'
<1>1. TypeOK'
  BY DEF IInv, TypeOK, JoinDependencies, mains, objects, marks
<1>2. ThreadInv'
  BY DEF IInv, ThreadInv, Joined, JoinDependencies, objects
<1>3. PhaseInv'
  BY DEF IInv, PhaseInv, Idle, JoinDependencies, mains
<1>4. CloseInv'
  BY DEF IInv, CloseInv, Idle, JoinDependencies, mains
<1> QED BY <1>1, <1>2, <1>3, <1>4 DEF IInv

\* A container is taken over: its thread ends without a verdict.
LEMMA StartReuseStep ==
    ASSUME NEW c \in Containers, IInv, StartReuse(c)
    PROVE  IInv'
<1>1. TypeOK'
  BY DEF IInv, TypeOK, StartReuse, ThreadEnds, mains
<1>2. ThreadInv'
  BY DEF IInv, ThreadInv, Joined, StartReuse, ThreadEnds
<1>3. PhaseInv'
  BY DEF IInv, PhaseInv, Idle, StartReuse, ThreadEnds, mains
<1>4. CloseInv'
  BY DEF IInv, CloseInv, Idle, StartReuse, ThreadEnds, mains
<1> QED BY <1>1, <1>2, <1>3, <1>4 DEF IInv

\* A container is run: its thread goes on to the healthcheck.
LEMMA StartRunStep ==
    ASSUME NEW c \in Containers, IInv, StartRun(c)
    PROVE  IInv'
<1>1. TypeOK'
  BY DEF IInv, TypeOK, StartRun, mains, marks
<1>2. ThreadInv'
  BY DEF IInv, ThreadInv, Joined, StartRun
<1>3. PhaseInv'
  BY DEF IInv, PhaseInv, Idle, StartRun, mains
<1>4. CloseInv'
  BY DEF IInv, CloseInv, Idle, StartRun, mains
<1> QED BY <1>1, <1>2, <1>3, <1>4 DEF IInv

\* start raises: the thread ends, with the only verdict it gives.
LEMMA StartRaisesStep ==
    ASSUME NEW c \in Containers, IInv, StartRaises(c)
    PROVE  IInv'
<1>1. TypeOK'
  BY DEF IInv, TypeOK, StartRaises, ThreadEnds, mains, marks
<1>2. ThreadInv'
  BY DEF IInv, TypeOK, ThreadInv, Joined, StartRaises, ThreadEnds
<1>3. PhaseInv'
  BY DEF IInv, PhaseInv, Idle, StartRaises, ThreadEnds, mains
<1>4. CloseInv'
  BY DEF IInv, CloseInv, Idle, StartRaises, ThreadEnds, mains
<1> QED BY <1>1, <1>2, <1>3, <1>4 DEF IInv

\* One more try of a healthcheck changes nothing but the count.
LEMMA HealthRetryStep ==
    ASSUME NEW c \in Containers, IInv, HealthRetry(c)
    PROVE  IInv'
<1>1. TypeOK'
  BY BoundAssumption DEF IInv, TypeOK, HealthRetry, mains, objects, marks
<1>2. ThreadInv'
  BY DEF IInv, ThreadInv, Joined, HealthRetry, objects
<1>3. PhaseInv'
  BY DEF IInv, PhaseInv, Idle, HealthRetry, mains
<1>4. CloseInv'
  BY DEF IInv, CloseInv, Idle, HealthRetry, mains
<1> QED BY <1>1, <1>2, <1>3, <1>4 DEF IInv

\* A container is healthy: what it depends on was healthy before it was run.
LEMMA HealthOkStep ==
    ASSUME NEW c \in Containers, IInv, HealthOk(c)
    PROVE  IInv'
<1>1. TypeOK'
  BY DEF IInv, TypeOK, HealthOk, ThreadEnds, mains, marks
<1>2. ThreadInv'
  BY DEF IInv, TypeOK, ThreadInv, Joined, HealthOk, ThreadEnds
<1>3. PhaseInv'
  BY DEF IInv, PhaseInv, Idle, HealthOk, ThreadEnds, mains
<1>4. CloseInv'
  BY DEF IInv, CloseInv, Idle, HealthOk, ThreadEnds, mains
<1> QED BY <1>1, <1>2, <1>3, <1>4 DEF IInv

\* A container is unhealthy: no healthy container depends on it.
LEMMA HealthFailsStep ==
    ASSUME NEW c \in Containers, IInv, HealthFails(c)
    PROVE  IInv'
<1>1. TypeOK'
  BY DEF IInv, TypeOK, HealthFails, ThreadEnds, mains, marks
<1>2. ThreadInv'
  BY DEF IInv, TypeOK, ThreadInv, Joined, HealthFails, ThreadEnds
<1>3. PhaseInv'
  BY DEF IInv, PhaseInv, Idle, HealthFails, ThreadEnds, mains
<1>4. CloseInv'
  BY DEF IInv, CloseInv, Idle, HealthFails, ThreadEnds, mains
<1> QED BY <1>1, <1>2, <1>3, <1>4 DEF IInv

\* A container that exits still exists, and keeps its verdict.
LEMMA CrashStep ==
    ASSUME NEW c \in Containers, IInv, Crash(c)
    PROVE  IInv'
<1>1. TypeOK'
  BY BoundAssumption DEF IInv, TypeOK, Crash, mains, starts
<1>2. ThreadInv'
  BY DEF IInv, ThreadInv, Joined, Crash, mains, starts
<1>3. PhaseInv'
  BY DEF IInv, PhaseInv, Joined, Idle, Crash, mains, starts
<1>4. CloseInv'
  BY DEF IInv, CloseInv, Settled, Idle, Exists, Crash, mains, starts
<1> QED BY <1>1, <1>2, <1>3, <1>4 DEF IInv

\* A container is stopped, once all the threads have ended.
LEMMA StopStep ==
    ASSUME NEW c \in Containers, IInv, Stop(c)
    PROVE  IInv'
<1>1. TypeOK'
  BY DEF IInv, TypeOK, Stop, Stopping, Forget, marks
<1>2. ThreadInv'
  BY DEF IInv, ThreadInv, PhaseInv, Joined, Stop, Stopping, Forget
<1>3. PhaseInv'
  BY DEF IInv, PhaseInv, Joined, Idle, Stop, Stopping, Forget
<1>4. CloseInv'
  BY DEF IInv, CloseInv, Stop, Stopping, Forget
<1> QED BY <1>1, <1>2, <1>3, <1>4 DEF IInv

\* A container that is not running loses its verdict, once all the threads have ended.
LEMMA StopExitsStep ==
    ASSUME NEW c \in Containers, IInv, StopExits(c)
    PROVE  IInv'
<1>1. TypeOK'
  <2>1. /\ main' = "close" /\ pos' = Len(Order) /\ Len(Order) \in Nat /\ cause' = "stop"
        /\ assigned' \in [Containers -> BOOLEAN]
    BY OrderAssumption DEF IInv, TypeOK, StopExits, Forget, Close
  <2>2. docker' \in [Containers -> {"absent", "old", "running", "exited"}]
    BY DEF IInv, TypeOK, StopExits
  <2>3. healthy' \in [Containers -> {"None", "False", "True"}]
    BY DEF IInv, TypeOK, StopExits
  <2> QED BY <2>1, <2>2, <2>3 DEF IInv, TypeOK, StopExits, Causes, marks
<1>2. ThreadInv'
  BY DEF IInv, ThreadInv, PhaseInv, Joined, StopExits, Stopping, Forget, Close
<1>3. PhaseInv'
  BY DEF IInv, PhaseInv, StopExits, Stopping, Forget, Close
<1>4. CloseInv'
  BY DEF IInv, PhaseInv, CloseInv, Idle, StopExits, Stopping, Forget, Close
<1> QED BY <1>1, <1>2, <1>3, <1>4 DEF IInv

\* Cleaning up after the previous session touches no thread.
LEMMA ConfigureStep ==
    ASSUME IInv, Configure
    PROVE  IInv'
<1>1. TypeOK'
  BY DEF IInv, TypeOK, Configure, starts, marks
<1>2. ThreadInv'
  BY DEF IInv, ThreadInv, Joined, Configure, starts
<1>3. PhaseInv'
  BY DEF IInv, PhaseInv, Idle, Configure, starts
<1>4. CloseInv'
  BY DEF IInv, PhaseInv, CloseInv, Idle, BeforeStart, Configure, starts
<1> QED BY <1>1, <1>2, <1>3, <1>4 DEF IInv

\* async_start of a container creates its thread if no other thread has.
LEMMA AsyncStartStep ==
    ASSUME IInv, AsyncStart
    PROVE  IInv'
<1>1. TypeOK'
  BY OrderAssumption DEF IInv, TypeOK, PhaseInv, AsyncStart, RequestStart, objects,
      marks
<1>2. ThreadInv'
  BY DEF IInv, TypeOK, ThreadInv, Joined, AsyncStart, RequestStart, objects
<1>3. PhaseInv'
  BY DEF IInv, TypeOK, PhaseInv, AsyncStart, RequestStart
<1>4. CloseInv'
  BY DEF IInv, CloseInv, AsyncStart, RequestStart
<1> QED BY <1>1, <1>2, <1>3, <1>4 DEF IInv

\* The session refuses a circular dependency.
LEMMA AsyncCircularStep ==
    ASSUME IInv, AsyncCircular
    PROVE  IInv'
<1>1. TypeOK'
  BY DEF IInv, TypeOK, AsyncCircular, Close, Causes, objects, starts, marks
<1>2. ThreadInv'
  BY DEF IInv, ThreadInv, Joined, AsyncCircular, Close, objects, starts
<1>3. PhaseInv'
  BY DEF IInv, PhaseInv, AsyncCircular, Close
<1>4. CloseInv'
  BY DEF IInv, CloseInv, AsyncCircular, Close
<1> QED BY <1>1, <1>2, <1>3, <1>4 DEF IInv

\* The main thread goes on to join the threads.
LEMMA AsyncEndStep ==
    ASSUME IInv, AsyncEnd
    PROVE  IInv'
<1>1. TypeOK'
  BY DEF IInv, TypeOK, AsyncEnd, objects, starts, marks
<1>2. ThreadInv'
  BY DEF IInv, ThreadInv, Joined, AsyncEnd, objects, starts
<1>3. PhaseInv'
  BY DEF IInv, PhaseInv, AsyncEnd
<1>4. CloseInv'
  BY DEF IInv, CloseInv, AsyncEnd
<1> QED BY <1>1, <1>2, <1>3, <1>4 DEF IInv

\* _start_containers returns when all the threads have ended.
LEMMA StartedStep ==
    ASSUME IInv, Started
    PROVE  IInv'
<1>1. TypeOK'
  BY DEF IInv, TypeOK, Started, objects, starts, marks
<1>2. ThreadInv'
  BY DEF IInv, ThreadInv, Joined, Started, starts
<1>3. PhaseInv'
  BY DEF IInv, PhaseInv, Joined, Idle, Started, starts
<1>4. CloseInv'
  BY DEF IInv, CloseInv, Started
<1> QED BY <1>1, <1>2, <1>3, <1>4 DEF IInv

\* The session exits on an unhealthy container, once all the threads have ended.
LEMMA StartedUnhealthyStep ==
    ASSUME IInv, StartedUnhealthy
    PROVE  IInv'
<1>1. TypeOK'
  BY DEF IInv, TypeOK, StartedUnhealthy, Close, Causes, objects, starts, marks
<1>2. ThreadInv'
  BY DEF IInv, ThreadInv, Joined, StartedUnhealthy, Close, starts
<1>3. PhaseInv'
  BY DEF IInv, PhaseInv, StartedUnhealthy, Close
<1>4. CloseInv'
  BY DEF IInv, CloseInv, Joined, Idle, StartedUnhealthy, Close, starts
<1> QED BY <1>1, <1>2, <1>3, <1>4 DEF IInv

\* The last warmups succeed.
LEMMA WarmupsStep ==
    ASSUME IInv, Warmups
    PROVE  IInv'
<1>1. TypeOK'
  BY DEF IInv, TypeOK, Warmups, objects, starts, marks
<1>2. ThreadInv'
  BY DEF IInv, ThreadInv, Joined, Warmups, objects, starts
<1>3. PhaseInv'
  BY DEF IInv, PhaseInv, Joined, Idle, Warmups, starts
<1>4. CloseInv'
  BY DEF IInv, CloseInv, Warmups
<1> QED BY <1>1, <1>2, <1>3, <1>4 DEF IInv

\* A warmup fails: all the threads have ended by then.
LEMMA WarmupsFailStep ==
    ASSUME IInv, WarmupsFail
    PROVE  IInv'
<1>1. TypeOK'
  BY DEF IInv, TypeOK, WarmupsFail, Close, Causes, objects, starts, marks
<1>2. ThreadInv'
  BY DEF IInv, ThreadInv, Joined, WarmupsFail, Close, objects, starts
<1>3. PhaseInv'
  BY DEF IInv, PhaseInv, WarmupsFail, Close, starts
<1>4. CloseInv'
  BY DEF IInv, PhaseInv, CloseInv, Idle, WarmupsFail, Close, starts
<1> QED BY <1>1, <1>2, <1>3, <1>4 DEF IInv

\* The start of the session is interrupted: nothing is known of the threads.
LEMMA InterruptStep ==
    ASSUME IInv, Interrupt
    PROVE  IInv'
<1>1. TypeOK'
  BY DEF IInv, TypeOK, Interrupt, Close, Causes, objects, starts, marks
<1>2. ThreadInv'
  BY DEF IInv, ThreadInv, Joined, Interrupt, Close, objects, starts
<1>3. PhaseInv'
  BY DEF IInv, PhaseInv, Interrupt, Close, starts
<1>4. CloseInv'
  BY DEF IInv, CloseInv, Interrupt, Close
<1> QED BY <1>1, <1>2, <1>3, <1>4 DEF IInv

\* The session exits without closing its targets.
LEMMA DevModeExitStep ==
    ASSUME IInv, DevModeExit
    PROVE  IInv'
<1>1. TypeOK'
  BY DEF IInv, TypeOK, DevModeExit, Causes, objects, starts, marks
<1>2. ThreadInv'
  BY DEF IInv, ThreadInv, Joined, DevModeExit, objects, starts
<1>3. PhaseInv'
  BY DEF IInv, PhaseInv, DevModeExit, starts
<1>4. CloseInv'
  BY DEF IInv, PhaseInv, CloseInv, Idle, DevModeExit, starts
<1> QED BY <1>1, <1>2, <1>3, <1>4 DEF IInv

\* The tests are collected.
LEMMA CollectedStep ==
    ASSUME IInv, Collected
    PROVE  IInv'
<1>1. TypeOK'
  BY DEF IInv, TypeOK, Collected, Causes, objects, starts, marks
<1>2. ThreadInv'
  BY DEF IInv, ThreadInv, Joined, Collected, objects, starts
<1>3. PhaseInv'
  BY DEF IInv, PhaseInv, Joined, Idle, Collected, starts
<1>4. CloseInv'
  BY DEF IInv, PhaseInv, CloseInv, Idle, BeforeStart, Collected, starts
<1> QED BY <1>1, <1>2, <1>3, <1>4 DEF IInv

\* The sleep mode ends.
LEMMA SleepEndsStep ==
    ASSUME IInv, SleepEnds
    PROVE  IInv'
<1>1. TypeOK'
  BY DEF IInv, TypeOK, SleepEnds, Close, Causes, objects, starts, marks
<1>2. ThreadInv'
  BY DEF IInv, ThreadInv, PhaseInv, Joined, SleepEnds, Close, starts
<1>3. PhaseInv'
  BY DEF IInv, PhaseInv, SleepEnds, Close
<1>4. CloseInv'
  BY DEF IInv, PhaseInv, CloseInv, Idle, SleepEnds, Close, starts
<1> QED BY <1>1, <1>2, <1>3, <1>4 DEF IInv

\* The setups are done: a replay has nothing to stop.
LEMMA SetupsDoneStep ==
    ASSUME IInv, SetupsDone
    PROVE  IInv'
<1>1. TypeOK'
  BY DEF IInv, TypeOK, SetupsDone, Close, Causes, objects, starts, marks
<1>2. ThreadInv'
  BY DEF IInv, ThreadInv, Joined, SetupsDone, Close, objects, starts
<1>3. PhaseInv'
  BY DEF IInv, PhaseInv, Joined, Idle, SetupsDone, Close, starts
<1>4. CloseInv'
  BY DEF IInv, PhaseInv, CloseInv, Idle, SetupsDone, Close, starts
<1> QED BY <1>1, <1>2, <1>3, <1>4 DEF IInv

\* A setup fails.
LEMMA SetupFailsStep ==
    ASSUME IInv, SetupFails
    PROVE  IInv'
<1>1. TypeOK'
  BY DEF IInv, TypeOK, SetupFails, Close, Causes, objects, starts, marks
<1>2. ThreadInv'
  BY DEF IInv, ThreadInv, Joined, SetupFails, Close, objects, starts
<1>3. PhaseInv'
  BY DEF IInv, PhaseInv, SetupFails, Close, starts
<1>4. CloseInv'
  BY DEF IInv, PhaseInv, CloseInv, Idle, SetupFails, Close, starts
<1> QED BY <1>1, <1>2, <1>3, <1>4 DEF IInv

\* A setup is interrupted: the targets are not closed.
LEMMA SetupInterruptedStep ==
    ASSUME IInv, SetupInterrupted
    PROVE  IInv'
<1>1. TypeOK'
  BY DEF IInv, TypeOK, SetupInterrupted, Causes, objects, starts, marks
<1>2. ThreadInv'
  BY DEF IInv, ThreadInv, Joined, SetupInterrupted, objects, starts
<1>3. PhaseInv'
  BY DEF IInv, PhaseInv, SetupInterrupted, starts
<1>4. CloseInv'
  BY DEF IInv, PhaseInv, CloseInv, Idle, BeforeStart, SetupInterrupted, starts
<1> QED BY <1>1, <1>2, <1>3, <1>4 DEF IInv

\* All the containers to stop are stopped.
LEMMA StopsDoneStep ==
    ASSUME IInv, StopsDone
    PROVE  IInv'
<1>1. TypeOK'
  BY DEF IInv, TypeOK, StopsDone, Close, Causes, objects, starts, marks
<1>2. ThreadInv'
  BY DEF IInv, ThreadInv, PhaseInv, Joined, StopsDone, Close, starts
<1>3. PhaseInv'
  BY DEF IInv, PhaseInv, StopsDone, Close
<1>4. CloseInv'
  BY DEF IInv, PhaseInv, CloseInv, Idle, StopsDone, Close, starts
<1> QED BY <1>1, <1>2, <1>3, <1>4 DEF IInv

\* close_targets removes one more container, from the last to the first.
LEMMA RemoveStep ==
    ASSUME IInv, Remove
    PROVE  IInv'
<1>1. TypeOK'
  BY OrderAssumption DEF IInv, TypeOK, PhaseInv, Remove, starts, marks
<1>2. ThreadInv'
  BY DEF IInv, ThreadInv, Joined, Remove, starts
<1>3. PhaseInv'
  BY DEF IInv, TypeOK, PhaseInv, Remove, starts
<1>4. CloseInv'
  BY OrderAssumption DEF IInv, TypeOK, CloseInv, Settled, Idle, Exists, Remove, starts,
      marks
<1> QED BY <1>1, <1>2, <1>3, <1>4 DEF IInv

\* close_targets records one more container that docker refuses to remove.
LEMMA RemoveFailsStep ==
    ASSUME IInv, RemoveFails
    PROVE  IInv'
<1>1. TypeOK'
  BY OrderAssumption DEF IInv, TypeOK, PhaseInv, RemoveFails, objects, starts
<1>2. ThreadInv'
  BY DEF IInv, ThreadInv, Joined, RemoveFails, objects, starts
<1>3. PhaseInv'
  BY DEF IInv, TypeOK, PhaseInv, RemoveFails, starts
<1>4. CloseInv'
  BY DEF IInv, TypeOK, PhaseInv, CloseInv, Settled, Idle, Exists, RemoveFails, objects,
      starts
<1> QED BY <1>1, <1>2, <1>3, <1>4 DEF IInv

\* close_targets is left: all the containers it did not get to are still there.
LEMMA RemoveRaisesStep ==
    ASSUME IInv, RemoveRaises
    PROVE  IInv'
<1>1. TypeOK'
  BY OrderAssumption DEF IInv, TypeOK, PhaseInv, RemoveRaises, AfterClose, objects,
      starts
<1>2. ThreadInv'
  BY DEF IInv, ThreadInv, Joined, RemoveRaises, AfterClose, objects, starts
<1>3. PhaseInv'
  BY DEF IInv, PhaseInv, RemoveRaises, AfterClose, starts
<1>4. CloseInv'
  <2>1. pos \in 1 .. Len(Order) /\ Len(Order) \in Nat
    BY OrderAssumption DEF IInv, TypeOK, PhaseInv, RemoveRaises
  <2>2. ASSUME cause \notin {"circular", "interrupted"}
        PROVE  Idle' /\ \A c \in Containers : Settled(c)'
    <3>1. Idle'
      BY <2>2 DEF IInv, CloseInv, RemoveRaises, Idle, starts
    <3>2. ASSUME NEW i \in DOMAIN Order PROVE Settled(Order[i])'
      <4>1. CASE i > pos
        BY <2>2, <4>1 DEF IInv, CloseInv, RemoveRaises, Settled, Exists, objects
      <4>2. CASE i <= pos
        <5>1. i \in 1 .. pos
          BY <2>1, <4>2
        <5> QED BY <5>1 DEF RemoveRaises, Settled
      <4> QED BY <2>1, <4>1, <4>2
    <3> QED BY <3>1, <3>2 DEF Containers
  <2>3. /\ main' = (IF cause \in BeforeStart THEN "over" ELSE "finish")
        /\ cause' = cause
    BY DEF RemoveRaises, AfterClose
  <2>4. main' = "over" => cause # "none"
    BY <2>3 DEF BeforeStart
  <2> QED BY <2>2, <2>3, <2>4 DEF CloseInv
<1> QED BY <1>1, <1>2, <1>3, <1>4 DEF IInv

\* close_targets has gone through all the containers.
LEMMA ClosedStep ==
    ASSUME IInv, Closed
    PROVE  IInv'
<1>1. TypeOK'
  BY DEF IInv, TypeOK, Closed, AfterClose, objects, starts, marks
<1>2. ThreadInv'
  BY DEF IInv, ThreadInv, Joined, Closed, AfterClose, objects, starts
<1>3. PhaseInv'
  BY DEF IInv, PhaseInv, Closed, AfterClose, starts
<1>4. CloseInv'
  BY OrderAssumption DEF IInv, PhaseInv, CloseInv, Settled, Idle, Exists, BeforeStart,
      Closed, AfterClose, Containers, mains, objects, starts, marks
<1> QED BY <1>1, <1>2, <1>3, <1>4 DEF IInv

\* The session ends: cause stays none only if nothing exists.
LEMMA FinishStep ==
    ASSUME IInv, Finish
    PROVE  IInv'
<1>1. TypeOK'
  BY DEF IInv, TypeOK, Finish, Causes, objects, starts, marks
<1>2. ThreadInv'
  BY DEF IInv, ThreadInv, Joined, Finish, objects, starts
<1>3. PhaseInv'
  BY DEF IInv, PhaseInv, Finish, starts
<1>4. CloseInv'
  BY DEF IInv, CloseInv, Settled, Idle, Exists, BeforeStart, Finish, objects, starts,
      marks
<1> QED BY <1>1, <1>2, <1>3, <1>4 DEF IInv

-----------------------------------------------------------------------------
(* The inductive invariant.                                                *)

\* The initial states satisfy the invariant.
LEMMA InitIInv == Init => IInv
<1> SUFFICES ASSUME Init PROVE IInv
  OBVIOUS
<1>1. TypeOK
  BY GraphAssumption, FlagAssumption, BoundAssumption DEF Init, TypeOK, Causes
<1>2. ThreadInv /\ PhaseInv /\ CloseInv
  BY DEF Init, ThreadInv, PhaseInv, CloseInv
<1> QED BY <1>1, <1>2 DEF IInv

\* Every step preserves the invariant.
LEMMA NextIInv == IInv /\ [Next]_vars => IInv'
<1> SUFFICES ASSUME IInv, [Next]_vars PROVE IInv'
  OBVIOUS
<1>1. CASE SessionStart
  BY <1>1, ConfigureStep, AsyncStartStep, AsyncCircularStep, AsyncEndStep,
     StartedStep, StartedUnhealthyStep, WarmupsStep, WarmupsFailStep DEF SessionStart
<1>2. CASE SessionRun
  BY <1>2, DevModeExitStep, CollectedStep, SetupsDoneStep, SetupFailsStep,
     StopStep, StopExitsStep, StopsDoneStep DEF SessionRun
<1>3. CASE SessionEnd
  BY <1>3, RemoveStep, RemoveFailsStep, RemoveRaisesStep, ClosedStep, FinishStep DEF SessionEnd
<1>4. CASE Signal
  BY <1>4, InterruptStep, SetupInterruptedStep, SleepEndsStep DEF Signal
<1>5. ASSUME NEW c \in Containers, StartStep(c) PROVE IInv'
  BY <1>5, AskDependencyStep, JoinDependenciesStep, StartReuseStep, StartRunStep,
     StartRaisesStep, HealthRetryStep, HealthOkStep, HealthFailsStep DEF StartStep
<1>6. ASSUME NEW c \in Containers, Crash(c) PROVE IInv'
  BY <1>6, CrashStep
<1>7. CASE UNCHANGED vars
  <2>1. TypeOK'
    BY <1>7 DEF IInv, TypeOK, vars, mains, objects, starts, marks
  <2>2. ThreadInv' /\ PhaseInv'
    BY <1>7 DEF IInv, ThreadInv, PhaseInv, Joined, Idle, vars, mains, objects, starts, marks
  <2>3. CloseInv'
    BY <1>7 DEF IInv, CloseInv, Settled, Exists, Idle, vars, mains, objects, starts, marks
  <2> QED BY <2>1, <2>2, <2>3 DEF IInv
<1> QED
  BY <1>1, <1>2, <1>3, <1>4, <1>5, <1>6, <1>7 DEF Next, MainStep

\* The invariant holds in every reachable state, for any containers, any
\* dependencies between them, circular or not, and any bounds.
THEOREM Invariance == Spec => []IInv
<1> QED BY InitIInv, NextIInv, PTL DEF Spec

-----------------------------------------------------------------------------
(* What follows from it.                                                   *)

\* Every variable keeps its type.
THEOREM TypeCorrect == Spec => []TypeOK
<1>1. IInv => TypeOK
  BY DEF IInv
<1> QED BY <1>1, Invariance, PTL

\* While a thread runs, a healthy container depends, directly or not, on healthy
\* containers only: the healthy containers and c itself are closed under depends_on.
LEMMA ReachIsHealthy ==
    ASSUME IInv, NEW c \in Containers, thread[c] = "start"
    PROVE  \A d \in Reach(c) \ {c} : healthy[d] = "True"
<1> DEFINE H == {c} \cup {d \in Containers : healthy[d] = "True"}
<1>1. H \in SUBSET Containers /\ c \in H
  OBVIOUS
<1>2. \A e \in H : deps[e] \subseteq Containers
  BY DEF IInv, TypeOK
<1>3. \A d \in deps[c] : healthy[d] = "True"
  BY DEF IInv, ThreadInv
<1>4. \A e \in Containers : healthy[e] = "True" => \A d \in deps[e] : healthy[d] = "True"
  BY DEF IInv, ThreadInv, Joined
<1>5. \A e \in H : deps[e] \subseteq H
  BY <1>2, <1>3, <1>4
<1>6. ASSUME NEW d \in Reach(c) PROVE d \in H
  <2>1. \A S \in SUBSET Containers :
          (c \in S /\ \A e \in S : deps[e] \subseteq S) => d \in S
    BY DEF Reach
  <2> QED BY <1>1, <1>5, <2>1
<1> QED BY <1>6

\* A container is started only once every container it depends on, directly or
\* not, is healthy (_start_with_dependencies): for any dependencies.
THEOREM StartOrder == Spec => StartsAfterDependencies
<1>1. ASSUME IInv, [Next]_vars, NEW c \in Containers, ~handle[c], handle'[c]
      PROVE  \A d \in Reach(c) \ {c} : healthy[d] = "True"
  <2>1. thread[c] = "start"
    <3>1. CASE MainStep \/ Signal \/ UNCHANGED vars
      BY <1>1, <3>1 DEF MainStep, Signal, SessionStart, SessionRun, SessionEnd, Configure,
        AsyncStart, AsyncCircular, AsyncEnd, Started, StartedUnhealthy, Warmups, WarmupsFail,
        DevModeExit, Collected, SetupsDone, SetupFails, Stop, StopExits, StopsDone, Remove,
        RemoveFails, RemoveRaises, Closed, Finish, Interrupt, SetupInterrupted, SleepEnds,
        objects, vars
    <3>2. ASSUME NEW b \in Containers, StartStep(b) \/ Crash(b) PROVE thread[c] = "start"
      <4>1. CASE thread[b] = "start"
        <5>1. handle' = [handle EXCEPT ![b] = handle'[b]]
          BY <1>1, <3>2, <4>1 DEF IInv, TypeOK, StartStep, Crash, AskDependency, JoinDependencies,
            StartReuse, StartRun, StartRaises, HealthRetry, HealthOk, HealthFails, objects
        <5>2. b = c
          BY <1>1, <5>1 DEF IInv, TypeOK
        <5> QED BY <4>1, <5>2
      <4>2. CASE thread[b] # "start"
        <5>1. handle' = handle
          BY <3>2, <4>2 DEF StartStep, Crash, AskDependency, JoinDependencies, StartReuse,
            StartRun, StartRaises, HealthRetry, HealthOk, HealthFails, objects
        <5> QED BY <1>1, <5>1
      <4> QED BY <4>1, <4>2
    <3> QED BY <1>1, <3>1, <3>2 DEF Next
  <2> QED BY <1>1, <2>1, ReachIsHealthy
<1>2. IInv /\ [Next]_vars =>
        [\A c \in Containers : ~handle[c] /\ handle'[c] =>
           \A d \in Reach(c) \ {c} : healthy[d] = "True"]_vars
  BY <1>1
<1> QED BY <1>2, Invariance, PTL DEF Spec, StartsAfterDependencies

\* A verdict of health, once given, stands until the containers are stopped.
THEOREM VerdictStands == Spec => HealthIsFinal
<1>1. ASSUME IInv, [Next]_vars, NEW c \in Containers,
             healthy[c] # "None", healthy'[c] # healthy[c]
      PROVE  main = "stop"
  <2>1. thread[c] = "done"
    BY <1>1 DEF IInv, ThreadInv
  <2>2. CASE MainStep \/ Signal \/ UNCHANGED vars
    BY <1>1, <2>2 DEF MainStep, Signal, SessionStart, SessionRun, SessionEnd, Configure,
      AsyncStart, AsyncCircular, AsyncEnd, Started, StartedUnhealthy, Warmups, WarmupsFail,
      DevModeExit, Collected, SetupsDone, SetupFails, Stop, StopExits, Stopping, StopsDone,
      Remove, RemoveFails, RemoveRaises, Closed, Finish, Interrupt, SetupInterrupted,
      SleepEnds, objects, vars
  <2>3. ASSUME NEW b \in Containers, StartStep(b) \/ Crash(b) PROVE FALSE
    <3>1. b = c => UNCHANGED healthy
      BY <2>1, <2>3 DEF StartStep, Crash, AskDependency, JoinDependencies, StartReuse,
        StartRun, StartRaises, HealthRetry, HealthOk, HealthFails, objects
    <3>2. b # c => healthy'[c] = healthy[c]
      BY <1>1, <2>3 DEF IInv, TypeOK, StartStep, Crash, AskDependency, JoinDependencies, StartReuse,
        StartRun, StartRaises, HealthRetry, HealthOk, HealthFails, objects
    <3> QED BY <1>1, <3>1, <3>2
  <2> QED BY <1>1, <2>2, <2>3 DEF Next
<1>2. IInv /\ [Next]_vars =>
        [\A c \in Containers :
           healthy[c] # "None" /\ healthy'[c] # healthy[c] => main = "stop"]_vars
  BY <1>1
<1> QED BY <1>2, Invariance, PTL DEF Spec, HealthIsFinal

\* A session that is neither interrupted nor refused for a circular dependency
\* leaves only the containers docker failed to remove (close_targets), and none
\* at all when it ends well (pytest_sessionfinish).
THEOREM NothingIsLeft == Spec => []LeavesNothing
<1>1. IInv => LeavesNothing
  BY DEF IInv, CloseInv, LeavesNothing, Settled
<1> QED BY <1>1, Invariance, PTL

-----------------------------------------------------------------------------
(* Why a container may have no verdict.                                    *)

\* A thread that ended without a healthy container has a reason among what the
\* container depends on: a container that was taken over, or an unhealthy one; and
\* a session that got past _start_containers has no unhealthy one.
Explained(c) == healthy[c] = "True" \/ \E d \in Reach(c) : d \in reused \/ healthy[d] = "False"

ExplainInv ==
    /\ \A c \in Containers : thread[c] = "done" => Explained(c)
    /\ mode # "replay" /\ main \in {"warmups", "started", "setup", "sleep"} =>
         \A c \in Containers : healthy[c] # "False"

\* A container reaches itself, and all that its dependencies reach.
LEMMA ReachIsClosed ==
    ASSUME NEW c \in Containers
    PROVE  c \in Reach(c) /\ \A d \in Containers : d \in deps[c] => Reach(d) \subseteq Reach(c)
<1>1. c \in Reach(c)
  BY DEF Reach
<1>2. ASSUME NEW d \in Containers, d \in deps[c], NEW e \in Reach(d) PROVE e \in Reach(c)
  <2>1. ASSUME NEW S \in SUBSET Containers, c \in S, \A x \in S : deps[x] \subseteq S PROVE e \in S
    <3>1. d \in S
      BY <1>2, <2>1
    <3> QED BY <1>2, <2>1, <3>1 DEF Reach
  <2> QED BY <1>2, <2>1 DEF Reach
<1> QED BY <1>1, <1>2

\* The dependencies do not change, a container that was taken over stays so, and an
\* unhealthy one gets no other verdict: a reason remains one.
LEMMA ReasonsRemain ==
    ASSUME IInv, [Next]_vars
    PROVE  /\ UNCHANGED <<deps, mode>> /\ reused \subseteq reused'
           /\ \A c \in Containers : healthy[c] = "False" => healthy'[c] = "False"
           /\ \A c \in Containers : healthy[c] = "True" => healthy'[c] \in {"True", "False"}
<1>1. CASE MainStep \/ Signal \/ UNCHANGED vars
  BY <1>1 DEF IInv, TypeOK, MainStep, Signal, SessionStart, SessionRun, SessionEnd, Configure,
    AsyncStart, AsyncCircular, AsyncEnd, Started, StartedUnhealthy, Warmups, WarmupsFail,
    DevModeExit, Collected, SetupsDone, SetupFails, Stop, StopExits, StopsDone, Remove,
    RemoveFails, RemoveRaises, Closed, Finish, Interrupt, SetupInterrupted, SleepEnds,
    objects, marks, vars
<1>2. ASSUME NEW b \in Containers, StartStep(b) \/ Crash(b)
      PROVE  /\ UNCHANGED <<deps, mode>> /\ reused \subseteq reused'
             /\ \A c \in Containers : healthy[c] # "None" => healthy'[c] = healthy[c]
  <2>1. UNCHANGED <<deps, mode>> /\ reused \subseteq reused'
    BY <1>2 DEF StartStep, Crash, AskDependency, JoinDependencies, StartReuse, StartRun,
      StartRaises, HealthRetry, HealthOk, HealthFails, marks
  <2>2. UNCHANGED healthy \/ (thread[b] # "done" /\ \E v : healthy' = [healthy EXCEPT ![b] = v])
    BY <1>2 DEF StartStep, Crash, AskDependency, JoinDependencies, StartReuse, StartRun,
      StartRaises, HealthRetry, HealthOk, HealthFails, objects
  <2>3. thread[b] # "done" => healthy[b] = "None"
    BY DEF IInv, ThreadInv
  <2> QED BY <2>1, <2>2, <2>3 DEF IInv, TypeOK
<1> QED BY <1>1, <1>2 DEF Next

\* What is explained stays explained.
LEMMA ExplainedRemains ==
    ASSUME IInv, [Next]_vars, NEW c \in Containers, Explained(c)
    PROVE  Explained(c)'
<1>1. Reach(c)' = Reach(c)
  BY ReasonsRemain DEF Reach
<1>2. \A d \in Reach(c) : d \in Containers
  BY DEF Reach
<1> QED BY <1>1, <1>2, ReasonsRemain, ReachIsClosed DEF Explained

\* A thread that ends leaves an explained container.
LEMMA EndIsExplained ==
    ASSUME IInv, ExplainInv, [Next]_vars, NEW c \in Containers, thread[c] # "done",
           thread'[c] = "done"
    PROVE  Explained(c)'
<1>0. c \in Reach(c) /\ c \in Reach(c)'
  BY ReachIsClosed, ReasonsRemain DEF Reach
<1>1. CASE MainStep \/ Signal \/ UNCHANGED vars
  BY <1>1 DEF IInv, TypeOK, MainStep, Signal, SessionStart, SessionRun, SessionEnd, Configure,
    AsyncStart, RequestStart, AsyncCircular, AsyncEnd, Started, StartedUnhealthy, Warmups,
    WarmupsFail, DevModeExit, Collected, SetupsDone, SetupFails, Stop, StopExits, StopsDone,
    Remove, RemoveFails, RemoveRaises, Closed, Finish, Interrupt, SetupInterrupted, SleepEnds,
    starts, vars
<1>2. ASSUME NEW b \in Containers, StartStep(b) \/ Crash(b) PROVE Explained(c)'
  <2>1. b = c
    BY <1>2 DEF IInv, TypeOK, StartStep, Crash, AskDependency, RequestStart, JoinDependencies,
      StartReuse, StartRun, StartRaises, HealthRetry, HealthOk, HealthFails, ThreadEnds, starts
  <2>2. CASE JoinDependencies(c)
    <3>1. PICK d \in deps[c] : thread[d] = "done" /\ healthy[d] # "True"
      BY <2>2 DEF IInv, TypeOK, JoinDependencies
    <3>2. d \in Containers
      BY <3>1 DEF IInv, TypeOK
    <3>3. PICK e \in Reach(d) : e \in reused \/ healthy[e] = "False"
      BY <3>1, <3>2 DEF ExplainInv, Explained
    <3>4. e \in Reach(c)
      BY <3>2, <3>3, ReachIsClosed
    <3> QED BY <3>3, <3>4, ExplainedRemains DEF Explained
  <2>3. CASE StartReuse(c)
    BY <1>0, <2>3 DEF Explained, StartReuse
  <2>4. CASE StartRaises(c) \/ HealthOk(c) \/ HealthFails(c)
    BY <1>0, <2>4 DEF Explained, IInv, TypeOK, StartRaises, HealthOk, HealthFails
  <2>5. CASE (\E d \in Containers : AskDependency(c, d)) \/ StartRun(c) \/ HealthRetry(c) \/ Crash(c)
    BY <2>5 DEF IInv, TypeOK, AskDependency, RequestStart, StartRun, HealthRetry, Crash, starts
  <2> QED BY <1>2, <2>1, <2>2, <2>3, <2>4, <2>5 DEF StartStep
<1> QED BY <1>1, <1>2 DEF Next

\* Past _start_containers all the threads have ended: no verdict is given any more.
LEMMA NextExplainInv == IInv /\ ExplainInv /\ [Next]_vars => ExplainInv'
<1> SUFFICES ASSUME IInv, ExplainInv, [Next]_vars PROVE ExplainInv'
  OBVIOUS
<1> DEFINE Past == {"warmups", "started", "setup", "sleep"}
<1>1. ASSUME NEW c \in Containers, thread'[c] = "done" PROVE Explained(c)'
  BY <1>1, ExplainedRemains, EndIsExplained DEF ExplainInv
<1>2. ASSUME mode' # "replay", main' \in Past PROVE \A c \in Containers : healthy'[c] # "False"
  <2>1. CASE MainStep \/ Signal \/ UNCHANGED vars
    <3>1. UNCHANGED <<healthy, mode>>
      BY <1>2, <2>1 DEF MainStep, Signal, SessionStart, SessionRun, SessionEnd, Configure,
        AsyncStart, AsyncCircular, AsyncEnd, Started, StartedUnhealthy, Warmups, WarmupsFail,
        DevModeExit, Collected, SetupsDone, SetupFails, Stop, StopExits, Stopping, StopsDone,
        Remove, RemoveFails, RemoveRaises, Closed, Finish, Interrupt, SetupInterrupted,
        SleepEnds, Close, objects, vars
    <3>2. main \in Past \/ \A c \in Containers : healthy[c] # "False"
      BY <1>2, <2>1, <3>1 DEF MainStep, Signal, SessionStart, SessionRun, SessionEnd, Configure,
        AsyncStart, AsyncCircular, AsyncEnd, Started, StartedUnhealthy, Warmups, WarmupsFail,
        DevModeExit, Collected, SetupsDone, SetupFails, Stop, StopExits, Stopping, StopsDone,
        Remove, RemoveFails, RemoveRaises, AfterClose, Closed, Finish, Interrupt,
        SetupInterrupted, SleepEnds, Close, mains, vars
    <3> QED BY <1>2, <3>1, <3>2 DEF ExplainInv
  <2>2. ASSUME NEW b \in Containers, StartStep(b) \/ Crash(b)
        PROVE  \A c \in Containers : healthy'[c] # "False"
    <3>1. UNCHANGED <<main, mode>>
      BY <2>2 DEF StartStep, Crash, AskDependency, JoinDependencies, StartReuse, StartRun,
        StartRaises, HealthRetry, HealthOk, HealthFails, mains
    <3>2. Idle
      BY <1>2, <3>1 DEF IInv, PhaseInv
    <3>3. UNCHANGED healthy
      BY <2>2, <3>2 DEF Idle, StartStep, Crash, AskDependency, JoinDependencies, StartReuse,
        StartRun, StartRaises, HealthRetry, HealthOk, HealthFails
    <3> QED BY <1>2, <3>1, <3>3 DEF ExplainInv
  <2> QED BY <2>1, <2>2 DEF Next
<1> QED BY <1>1, <1>2 DEF ExplainInv

\* A session that got past _start_containers knows why a container has no verdict:
\* it, or one it depends on, was taken over from a previous session.
THEOREM NoneHasReason == Spec => []NoneIsExplained
<1>1. Init => ExplainInv
  BY DEF Init, ExplainInv
<1>2. IInv /\ ExplainInv => NoneIsExplained
  <2> SUFFICES ASSUME IInv, ExplainInv, mode # "replay",
                      main \in {"warmups", "started", "setup", "sleep"}, NEW c \in Containers
               PROVE  healthy[c] = "True" \/ \E d \in Reach(c) : d \in reused
    BY DEF NoneIsExplained
  <2>1. thread[c] = "done"
    BY DEF IInv, PhaseInv, Joined
  <2>2. \A d \in Reach(c) : healthy[d] # "False"
    BY DEF ExplainInv, Reach
  <2> QED BY <2>1, <2>2 DEF ExplainInv, Explained
<1> QED BY <1>1, <1>2, NextExplainInv, Invariance, PTL DEF Spec

-----------------------------------------------------------------------------
(* The order of the stops.                                                 *)

\* A container that runs is known to its object, which is past its start; what
\* _wait_and_stop_containers has gone through does not run any more.
StopInv ==
    /\ \A c \in Containers : docker[c] = "running" => handle[c] /\ thread[c] \in {"health", "done"}
    /\ main = "stop" => /\ pos >= 1
                        /\ \A i \in DOMAIN StopOrder : i < pos => docker[StopOrder[i]] # "running"
    /\ deps \in Graphs

\* Reach, of a graph.
ReachIn(g, c) == {d \in Containers :
                    \A S \in SUBSET Containers :
                      (c \in S /\ \A e \in S : g[e] \subseteq S) => d \in S}

\* A container comes after those that depend on it, directly or not, in the list.
DependentsFirst(g, list) ==
    \A i, k \in DOMAIN list : list[i] \in ReachIn(g, list[k]) \ {list[k]} =>
        \E j \in DOMAIN list : j < i /\ list[j] = list[k]

\* Only the start of a container makes it run, and only its own start.
LEMMA ThreadStepRuns ==
    ASSUME IInv, StopInv, NEW b \in Containers, StartStep(b) \/ Crash(b)
    PROVE  StopInv'
<1>1. UNCHANGED <<main, pos, deps>>
  BY DEF StartStep, Crash, AskDependency, JoinDependencies, StartReuse, StartRun,
    StartRaises, HealthRetry, HealthOk, HealthFails, mains
<1>2. ASSUME NEW c \in Containers, docker'[c] = "running"
      PROVE  handle'[c] /\ thread'[c] \in {"health", "done"}
  <2>1. CASE \E d \in Containers : AskDependency(b, d)
    <3>1. PICK d \in Containers : AskDependency(b, d)
      BY <2>1
    <3>2. UNCHANGED <<docker, handle>>
      BY <3>1 DEF AskDependency, objects
    <3>3. ~Joined
      BY <3>1 DEF AskDependency, Joined
    <3>4. thread[c] # "none" => assigned[c]
      BY <3>3 DEF IInv, ThreadInv
    <3>5. thread' = IF assigned[d] THEN thread ELSE [thread EXCEPT ![d] = "deps"]
      BY <3>1 DEF AskDependency, RequestStart
    <3> QED BY <1>2, <3>2, <3>4, <3>5 DEF StopInv, IInv, TypeOK
  <2>2. CASE JoinDependencies(b)
    BY <1>2, <2>2 DEF StopInv, IInv, TypeOK, JoinDependencies, objects
  <2>3. CASE StartReuse(b) \/ StartRun(b)
    BY <1>2, <2>3 DEF StopInv, IInv, TypeOK, StartReuse, StartRun, ThreadEnds
  <2>4. CASE StartRaises(b)
    <3>1. docker[b] # "running" /\ thread[b] = "start"
      BY <2>4 DEF StopInv, StartRaises
    <3>2. c # b /\ docker[c] = "running"
      BY <1>2, <2>4, <3>1 DEF IInv, TypeOK, StartRaises, Exists
    <3> QED BY <2>4, <3>2 DEF StopInv, IInv, TypeOK, StartRaises, ThreadEnds
  <2>5. CASE HealthRetry(b) \/ HealthOk(b) \/ HealthFails(b) \/ Crash(b)
    BY <1>2, <2>5 DEF StopInv, IInv, TypeOK, HealthRetry, HealthOk, HealthFails, Crash,
      ThreadEnds, objects, starts
  <2> QED BY <2>1, <2>2, <2>3, <2>4, <2>5 DEF StartStep
<1>3. ASSUME main = "stop", NEW i \in DOMAIN StopOrder, i < pos
      PROVE  docker'[StopOrder[i]] # "running"
  <2>1. Idle
    BY <1>3 DEF IInv, PhaseInv
  <2>2. Crash(b)
    BY <2>1 DEF Idle, StartStep, AskDependency, JoinDependencies, StartReuse, StartRun,
      StartRaises, HealthRetry, HealthOk, HealthFails
  <2> QED BY <1>3, <2>2, StopAssumption DEF StopInv, Crash, IInv, TypeOK
<1> QED BY <1>1, <1>2, <1>3 DEF StopInv

\* The main thread starts no container; it goes past one once it does not run.
LEMMA MainStepRuns ==
    ASSUME IInv, StopInv, MainStep \/ Signal
    PROVE  StopInv'
<1>1. CASE \/ AsyncCircular \/ AsyncEnd \/ Started \/ StartedUnhealthy \/ Warmups \/ WarmupsFail
           \/ DevModeExit \/ Collected \/ SetupsDone \/ SetupFails \/ StopsDone
           \/ RemoveFails \/ RemoveRaises \/ Closed \/ Finish \/ Signal
  <2>1. UNCHANGED <<docker, handle, thread, deps>>
    BY <1>1 DEF AsyncCircular, AsyncEnd, Started, StartedUnhealthy, Warmups, WarmupsFail,
      DevModeExit, Collected, SetupsDone, SetupFails, StopsDone, RemoveFails, RemoveRaises,
      Closed, Finish, Signal, Interrupt, SetupInterrupted, SleepEnds, objects, starts
  <2>2. main' = "stop" => pos' = 1
    BY <1>1 DEF AsyncCircular, AsyncEnd, Started, StartedUnhealthy, Warmups, WarmupsFail,
      DevModeExit, Collected, SetupsDone, SetupFails, StopsDone, RemoveFails, RemoveRaises,
      Closed, Finish, Signal, Interrupt, SetupInterrupted, SleepEnds, Close, AfterClose
  <2>3. \A i \in DOMAIN StopOrder : ~(i < 1)
    BY StopAssumption
  <2> QED BY <2>1, <2>2, <2>3 DEF StopInv
<1>2. CASE Configure
  <2>1. UNCHANGED <<handle, thread, deps>> /\ main' # "stop"
    BY <1>2 DEF Configure, starts
  <2>2. \A c \in Containers : docker'[c] \in {docker[c], "absent"}
    BY <1>2 DEF Configure, IInv, TypeOK
  <2> QED BY <2>1, <2>2 DEF StopInv
<1>3. CASE AsyncStart
  <2>1. UNCHANGED <<docker, handle, deps>> /\ main' # "stop"
    BY <1>3 DEF AsyncStart, objects
  <2>2. \A c \in Containers : thread[c] # "none" => assigned[c]
    BY <1>3 DEF AsyncStart, IInv, ThreadInv
  <2>3. \A c \in Containers : thread[c] # "none" => thread'[c] = thread[c]
    BY <1>3, <2>2 DEF AsyncStart, RequestStart, IInv, TypeOK
  <2> QED BY <2>1, <2>3 DEF StopInv
<1>4. CASE \E c \in Containers : Stop(c)
  <2>1. PICK c \in Containers : Stop(c)
    BY <1>4
  <2>2. UNCHANGED <<handle, thread, deps>>
    BY <2>1 DEF Stop
  <2>3. docker'[c] # "running" /\ \A d \in Containers : docker'[d] \in {docker[d], "exited"}
    BY <2>1 DEF Stop, StopInv, IInv, TypeOK
  <2>4. main = "stop" /\ pos \in Nat /\ c = StopOrder[pos] /\ pos' = pos + 1
    BY <2>1 DEF Stop, Stopping, IInv, TypeOK
  <2>5. ASSUME NEW i \in DOMAIN StopOrder, i < pos'
        PROVE  docker'[StopOrder[i]] # "running"
    <3>1. i = pos \/ i < pos
      BY <2>4, <2>5, StopAssumption
    <3>2. StopOrder[i] \in Containers
      BY StopAssumption
    <3> QED BY <2>3, <2>4, <3>1, <3>2 DEF StopInv
  <2>6. pos' >= 1
    BY <2>4
  <2> QED BY <2>2, <2>3, <2>5, <2>6 DEF StopInv
<1>5. CASE \E c \in Containers : StopExits(c)
  <2>1. PICK c \in Containers : StopExits(c)
    BY <1>5
  <2>2. UNCHANGED <<handle, thread, deps>> /\ main' # "stop"
    BY <2>1 DEF StopExits, Close
  <2>3. \A d \in Containers : docker'[d] \in {docker[d], "exited"}
    BY <2>1 DEF StopExits, IInv, TypeOK
  <2> QED BY <2>2, <2>3 DEF StopInv
<1>6. CASE Remove
  <2>1. UNCHANGED <<handle, thread, deps>> /\ main' # "stop"
    BY <1>6 DEF Remove, starts
  <2>2. \A c \in Containers : docker'[c] \in {docker[c], "absent"}
    BY <1>6 DEF Remove, IInv, TypeOK
  <2> QED BY <2>1, <2>2 DEF StopInv
<1> QED BY <1>1, <1>2, <1>3, <1>4, <1>5, <1>6
  DEF MainStep, SessionStart, SessionRun, SessionEnd

LEMMA NextStopInv == IInv /\ StopInv /\ [Next]_vars => StopInv'
<1>1. IInv /\ StopInv /\ UNCHANGED vars => StopInv'
  BY DEF StopInv, vars, mains, objects, starts
<1> QED BY <1>1, ThreadStepRuns, MainStepRuns DEF Next

\* A list in which dependents come first is stopped in an order that suits them:
\* the main thread is at d, hence past every container that depends on d.
LEMMA StopsDependentsFirst ==
    ASSUME IInv, StopInv, \A g \in Graphs : DependentsFirst(g, StopOrder), Next,
           main = "stop", mains' # mains, NEW c \in Containers, NEW d \in Containers,
           d \in Reach(c) \ {c}, c \in {StopOrder[i] : i \in DOMAIN StopOrder},
           docker[d] = "running", docker'[d] = "exited"
    PROVE  docker[c] # "running"
<1>1. ~ \E b \in Containers : StartStep(b) \/ Crash(b)
  BY DEF StartStep, Crash, AskDependency, JoinDependencies, StartReuse, StartRun,
    StartRaises, HealthRetry, HealthOk, HealthFails
<1>2. PICK b \in Containers : Stop(b) \/ StopExits(b)
  BY <1>1 DEF Next, MainStep, SessionStart, SessionRun, SessionEnd, Signal, Configure,
    AsyncStart, AsyncCircular, AsyncEnd, Started, StartedUnhealthy, Warmups, WarmupsFail,
    DevModeExit, Collected, SetupsDone, SetupFails, StopsDone, Remove, RemoveFails,
    RemoveRaises, Closed, Finish, Interrupt, SetupInterrupted, SleepEnds, objects
<1>3. \A e \in Containers : e # b => docker'[e] = docker[e]
  BY <1>2 DEF Stop, StopExits, IInv, TypeOK
<1>4. d = b
  BY <1>3
<1>5. pos \in DOMAIN StopOrder /\ d = StopOrder[pos]
  BY <1>2, <1>4, StopAssumption DEF Stop, StopExits, Stopping, StopInv, IInv, TypeOK
<1>6. PICK k \in DOMAIN StopOrder : c = StopOrder[k]
  OBVIOUS
<1>7. Reach(c) = ReachIn(deps, c)
  BY DEF Reach, ReachIn
<1>8. PICK j \in DOMAIN StopOrder : j < pos /\ StopOrder[j] = c
  BY <1>5, <1>6, <1>7 DEF StopInv, DependentsFirst
<1> QED BY <1>8 DEF StopInv

\* Whatever the containers, a list of stops in which a container comes after those
\* that depend on it makes _wait_and_stop_containers stop the receivers last.
THEOREM StopOrderSuffices ==
    ASSUME \A g \in Graphs : DependentsFirst(g, StopOrder)
    PROVE  Spec => ReceiversStopLast
<1>1. Init => StopInv
  BY DEF Init, StopInv
<1>2. IInv /\ StopInv /\ [Next]_vars =>
        [main = "stop" /\ mains' # mains =>
           \A c, d \in Containers :
             /\ d \in Reach(c) \ {c}
             /\ c \in {StopOrder[i] : i \in DOMAIN StopOrder}
             /\ docker[d] = "running" /\ docker'[d] = "exited"
             => docker[c] # "running"]_vars
  BY StopsDependentsFirst
<1> QED BY <1>1, <1>2, NextStopInv, Invariance, PTL DEF Spec, ReceiversStopLast

-----------------------------------------------------------------------------
(* The stops of an EndToEndScenario, for every choice of its options.      *)

\* list is a list of the members of S.
Lists(list, S) == list \in Seq(S) /\ \A x \in S : \E i \in DOMAIN list : list[i] = x

LEMMA ListsOne == \A x : Lists(<<x>>, {x})
<1> SUFFICES ASSUME NEW x
             PROVE  Lists(<<x>>, {x})
  OBVIOUS
<1>1. <<x>> \in Seq({x}) /\ 1 \in DOMAIN <<x>> /\ <<x>>[1] = x
  OBVIOUS
<1> QED BY <1>1 DEF Lists

LEMMA ListsPart == \A x : \A cond \in BOOLEAN : Lists(Part(cond, x), {y \in {x} : cond})
<1> SUFFICES ASSUME NEW x, NEW cond \in BOOLEAN
             PROVE  Lists(Part(cond, x), {y \in {x} : cond})
  OBVIOUS
<1>1. CASE cond
  <2>1. Part(cond, x) = <<x>> /\ {y \in {x} : cond} = {x}
    BY <1>1 DEF Part
  <2> QED BY <2>1, ListsOne
<1>2. CASE ~cond
  <2>1. Part(cond, x) = <<>> /\ {y \in {x} : cond} = {}
    BY <1>2 DEF Part
  <2> QED BY <2>1 DEF Lists
<1> QED BY <1>1, <1>2

LEMMA ListsConcat ==
    \A s, t, A, B : Lists(s, A) /\ Lists(t, B) => Lists(s \o t, A \cup B)
<1> SUFFICES ASSUME NEW s, NEW t, NEW A, NEW B, Lists(s, A), Lists(t, B)
             PROVE  Lists(s \o t, A \cup B)
  OBVIOUS
<1>1. s \in Seq(A \cup B) /\ t \in Seq(A \cup B)
  BY DEF Lists
<1>2. s \o t \in Seq(A \cup B) /\ Len(s \o t) = Len(s) + Len(t)
  BY <1>1
<1>3. ASSUME NEW x \in A
      PROVE  \E i \in DOMAIN (s \o t) : (s \o t)[i] = x
  <2>1. PICK i \in DOMAIN s : s[i] = x
    BY DEF Lists
  <2>2. i \in DOMAIN (s \o t) /\ (s \o t)[i] = x
    BY <1>1, <1>2, <2>1
  <2> QED BY <2>2
<1>4. ASSUME NEW x \in B
      PROVE  \E i \in DOMAIN (s \o t) : (s \o t)[i] = x
  <2>1. PICK i \in DOMAIN t : t[i] = x
    BY DEF Lists
  <2>2. Len(s) + i \in DOMAIN (s \o t) /\ (s \o t)[Len(s) + i] = x
    BY <1>1, <1>2, <2>1
  <2> QED BY <2>2
<1> QED BY <1>2, <1>3, <1>4 DEF Lists

\* Which containers are in the scenario.
LEMMA ScenarioContainers ==
    InScenario = {x \in {proxy} : UseProxy} \cup {backend} \cup {x \in {agent} : Agent}
                 \cup {x \in {buddy} : Buddies} \cup {weblog} \cup Databases
<1> DEFINE S == {x \in {proxy} : UseProxy} \cup {backend} \cup {x \in {agent} : Agent}
                \cup {x \in {buddy} : Buddies} \cup {weblog}
                \cup {x \in {db} : db \in Databases} \cup {x \in {mssql} : mssql \in Databases}
<1>1. /\ Lists(Part(UseProxy, proxy), {x \in {proxy} : UseProxy})
      /\ Lists(Part(Agent, agent), {x \in {agent} : Agent})
      /\ Lists(Part(Buddies, buddy), {x \in {buddy} : Buddies})
      /\ Lists(Part(db \in Databases, db), {x \in {db} : db \in Databases})
      /\ Lists(Part(mssql \in Databases, mssql), {x \in {mssql} : mssql \in Databases})
  <2>1. /\ UseProxy \in BOOLEAN /\ Agent \in BOOLEAN /\ Buddies \in BOOLEAN
        /\ (db \in Databases) \in BOOLEAN /\ (mssql \in Databases) \in BOOLEAN
    BY TopologyAssumption
  <2>2. Lists(Part(db \in Databases, db), {x \in {db} : db \in Databases})
    BY <2>1, ListsPart, Zenon
  <2>3. Lists(Part(mssql \in Databases, mssql), {x \in {mssql} : mssql \in Databases})
    BY <2>1, ListsPart, Zenon
  <2> QED BY <2>1, <2>2, <2>3, ListsPart, Zenon
<1>2. Lists(<<backend>>, {backend}) /\ Lists(<<weblog>>, {weblog})
  BY ListsOne, Zenon
<1>3. Lists(ContainerList, S)
  BY <1>1, <1>2, ListsConcat, Zenon DEF ContainerList
<1>4. S = {x \in {proxy} : UseProxy} \cup {backend} \cup {x \in {agent} : Agent}
          \cup {x \in {buddy} : Buddies} \cup {weblog} \cup Databases
  BY TopologyAssumption
<1>5. InScenario = S
  <2> HIDE DEF S
  <2> QED BY <1>3 DEF Lists, InScenario
<1> QED BY <1>4, <1>5

\* What a container can depend on: the data go from the weblog and the buddies to
\* the agent, and from there to the backend. MsSql, that nothing stops, is aside.
LEMMA Upstream ==
    ASSUME Containers = InScenario
    PROVE  /\ ReachIn(DependsOn, backend) \subseteq {backend, mssql}
           /\ Agent => ReachIn(DependsOn, agent) \subseteq {agent, backend, mssql}
           /\ Buddies => ReachIn(DependsOn, buddy) \subseteq {buddy, agent, backend, mssql}
<1> DEFINE M == {x \in {mssql} : x \in Databases}
<1>1. /\ M \subseteq InScenario /\ backend \in InScenario
      /\ Agent => agent \in InScenario
      /\ Buddies => buddy \in InScenario /\ Agent
  BY ScenarioContainers, TopologyAssumption
<1>2. \A x \in InScenario : DependsOn[x] = DirectDependencies(x) \cup {y \in M : x # mssql}
  BY DEF DependsOn
<1>3. DirectDependencies(mssql) = {} /\ DirectDependencies(backend) = {}
  BY KindAssumption DEF DirectDependencies
<1>4. DirectDependencies(agent) = {backend} /\ DirectDependencies(buddy) = {agent}
  BY KindAssumption DEF DirectDependencies
<1>5. \A x \in M : DependsOn[x] \subseteq M
  BY <1>1, <1>2, <1>3
<1>6. DependsOn[backend] \subseteq M
  BY <1>1, <1>2, <1>3
<1>7. Agent => DependsOn[agent] \subseteq {backend} \cup M
  BY <1>1, <1>2, <1>4
<1>8. Buddies => DependsOn[buddy] \subseteq {agent} \cup M
  BY <1>1, <1>2, <1>4
<1>9. ASSUME NEW x, NEW S \in SUBSET Containers, x \in S, \A y \in S : DependsOn[y] \subseteq S
      PROVE  ReachIn(DependsOn, x) \subseteq S
  BY <1>9 DEF ReachIn
<1>10. M \subseteq {mssql}
  OBVIOUS
<1>11. ReachIn(DependsOn, backend) \subseteq {backend} \cup M
  <2> HIDE DEF M
  <2>1. {backend} \cup M \in SUBSET Containers
    BY <1>1
  <2>2. \A y \in {backend} \cup M : DependsOn[y] \subseteq {backend} \cup M
    BY <1>5, <1>6
  <2> QED BY <1>9, <2>1, <2>2
<1>12. Agent => ReachIn(DependsOn, agent) \subseteq {agent, backend} \cup M
  <2> HIDE DEF M
  <2> SUFFICES ASSUME Agent
               PROVE  ReachIn(DependsOn, agent) \subseteq {agent, backend} \cup M
    OBVIOUS
  <2>1. {agent, backend} \cup M \in SUBSET Containers
    BY <1>1
  <2>2. \A y \in {agent, backend} \cup M : DependsOn[y] \subseteq {agent, backend} \cup M
    BY <1>5, <1>6, <1>7
  <2> QED BY <1>9, <2>1, <2>2
<1>13. Buddies => ReachIn(DependsOn, buddy) \subseteq {buddy, agent, backend} \cup M
  <2> HIDE DEF M
  <2> SUFFICES ASSUME Buddies
               PROVE  ReachIn(DependsOn, buddy) \subseteq {buddy, agent, backend} \cup M
    OBVIOUS
  <2>1. {buddy, agent, backend} \cup M \in SUBSET Containers
    BY <1>1
  <2>2. \A y \in {buddy, agent, backend} \cup M : DependsOn[y] \subseteq {buddy, agent, backend} \cup M
    BY <1>1, <1>5, <1>6, <1>7, <1>8
  <2> QED BY <1>9, <2>1, <2>2
<1> HIDE DEF M
<1> QED BY <1>10, <1>11, <1>12, <1>13

\* Whatever the options, what is stopped comes after what depends on it.
LEMMA StopListIsOrdered ==
    ASSUME Containers = InScenario
    PROVE  DependentsFirst(DependsOn, StopList)
<1> SUFFICES ASSUME NEW i \in DOMAIN StopList, NEW k \in DOMAIN StopList,
                    StopList[i] \in ReachIn(DependsOn, StopList[k]), StopList[i] # StopList[k]
             PROVE  \E j \in DOMAIN StopList : j < i /\ StopList[j] = StopList[k]
  BY DEF DependentsFirst
<1>1. CASE Buddies
  <2>1. /\ Agent /\ DOMAIN StopList = 1 .. 4 /\ StopList[1] = weblog
        /\ StopList[2] = buddy /\ StopList[3] = agent /\ StopList[4] = backend
    BY <1>1, TopologyAssumption DEF StopList, Part
  <2> QED BY <1>1, <2>1, Upstream, KindAssumption
<1>2. CASE ~Buddies /\ Agent
  <2>1. /\ DOMAIN StopList = 1 .. 3
        /\ StopList[1] = weblog /\ StopList[2] = agent /\ StopList[3] = backend
    BY <1>2 DEF StopList, Part
  <2> QED BY <1>2, <2>1, Upstream, KindAssumption
<1>3. CASE ~Buddies /\ ~Agent
  <2>1. DOMAIN StopList = 1 .. 2 /\ StopList[1] = weblog /\ StopList[2] = backend
    BY <1>3 DEF StopList, Part
  <2> QED BY <2>1, Upstream, KindAssumption
<1> QED BY <1>1, <1>2, <1>3, TopologyAssumption

\* With any options of an EndToEndScenario, its containers, their dependencies and
\* its stops make the receivers stop last: the mocked backend outlives the agent,
\* the agent outlives the buddies, all outlive the weblog.
THEOREM ReceiversLast ==
    ASSUME Order = ContainerList, StopOrder = StopList, Graphs = {DependsOn}
    PROVE  Spec => ReceiversStopLast
<1>1. Containers = InScenario
  BY DEF Containers, InScenario
<1> QED BY <1>1, StopListIsOrdered, StopOrderSuffices
================================================================================

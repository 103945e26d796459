---------------------------- MODULE DockerScenario ----------------------------
(***************************************************************************)
(* A pytest session of a DockerScenario: the containers of one previous    *)
(* session are cleaned up (configure), each container is started in a      *)
(* thread of its own once the containers it depends on are healthy         *)
(* (TestedContainer), the setups run, the containers are stopped in order, *)
(* then removed (close_targets), and the session checks that nothing is    *)
(* left.                                                                   *)
(*                                                                         *)
(* The actors are the pytest main thread, one start_<name> thread for each *)
(* container, and the docker daemon, whose containers may exit on their    *)
(* own. depends_on is a list in the code; the order in which a thread asks *)
(* for its dependencies is left open here.                                 *)
(***************************************************************************)
EXTENDS Naturals, Sequences, FiniteSets

CONSTANTS
    Order,       \* scenario._containers
    StopOrder,   \* the containers _wait_and_stop_containers stops, in its order
    Graphs,      \* the possible values of depends_on
    AllowOld,    \* containers with allow_old_container
    Probed,      \* containers whose post_start reads the healthcheck log
    Modes,       \* the command line options that select what a session does
    Retries,     \* retries of a healthcheck
    MaxCrashes,  \* bound: containers that exit on their own
    MaxRefusals, \* bound: removals that docker refuses
    Interrupts   \* TRUE: the main thread may receive a KeyboardInterrupt

Containers == {Order[i] : i \in DOMAIN Order}

ASSUME OrderAssumption ==
    /\ Order \in Seq(Containers)
    /\ \A i, j \in DOMAIN Order : Order[i] = Order[j] => i = j
ASSUME StopAssumption == StopOrder \in Seq(Containers)
ASSUME GraphAssumption == Graphs \subseteq [Containers -> SUBSET Containers]
ASSUME FlagAssumption ==
    /\ AllowOld \subseteq Containers
    /\ Probed \subseteq Containers
    /\ Interrupts \in BOOLEAN
    /\ Modes \subseteq {"run", "replay", "collectonly", "declaration_report", "sleep"}
ASSUME BoundAssumption ==
    Retries \in Nat /\ MaxCrashes \in Nat /\ MaxRefusals \in Nat

VARIABLES
    deps,      \* depends_on of each container: fixed once the session starts
    mode,      \* the option of this session
    main,      \* where the main thread is
    pos,       \* position of the main thread in a list of containers
    cause,     \* why the session ends early
    docker,    \* what the daemon has under the name of each container
    handle,    \* _container is not None
    healthy,   \* healthy
    assigned,  \* _starting_thread is not None
    thread,    \* where the start_<name> thread is
    asked,     \* dependencies whose start the thread has asked for
    tries,     \* number of failed tries of the healthcheck
    reused,    \* containers of a previous session taken over by this one
    stuck,     \* containers whose removal failed
    crashes

mains == <<main, pos, cause>>
objects == <<docker, handle, healthy>>
starts == <<assigned, thread, asked, tries>>
marks == <<reused, stuck, crashes>>
vars == <<deps, mode, mains, objects, starts, marks>>

Causes == {"none", "circular", "unhealthy", "interrupted", "warmup", "devmode",
           "declaration_report", "setup", "setup_interrupted", "stop", "not_removed"}

\* There is a container under this name, of this session or of a previous one.
Exists(c) == docker[c] # "absent"

\* The containers reached from c through depends_on.
Reach(c) == {d \in Containers :
               \A S \in SUBSET Containers :
                 (c \in S /\ \A e \in S : deps[e] \subseteq S) => d \in S}

\* Fault: only a container that depends on itself is seen.
CircularDirect(c) == c \in deps[c]

\* check_circular_dependencies raises: a path from c goes twice through a container.
Circular(c) == \E d \in Reach(c) : \E e \in deps[d] : d \in Reach(e)

Init ==
    /\ deps \in Graphs
    /\ mode \in Modes
    /\ main = "configure"
    /\ pos = 0
    /\ cause = "none"
    /\ docker \in [Containers -> {"absent", "old"}]
    /\ handle = [c \in Containers |-> FALSE]
    /\ healthy = [c \in Containers |-> "None"]
    /\ assigned = [c \in Containers |-> FALSE]
    /\ thread = [c \in Containers |-> "none"]
    /\ asked = [c \in Containers |-> {}]
    /\ tries = [c \in Containers |-> 0]
    /\ reused = {}
    /\ stuck = {}
    /\ crashes = 0

-----------------------------------------------------------------------------
(* TestedContainer: the thread that starts a container.                    *)

\* Fault: a thread is started on every call.
RequestStartAgain(c) ==
    /\ assigned' = [assigned EXCEPT ![c] = TRUE]
    /\ thread' = [thread EXCEPT ![c] = "deps"]

\* async_start_recursive: under _starting_lock, the thread is created once.
RequestStart(c) ==
    /\ assigned' = [assigned EXCEPT ![c] = TRUE]
    /\ thread' = IF assigned[c] THEN thread ELSE [thread EXCEPT ![c] = "deps"]

AskDependency(c, d) ==
    /\ thread[c] = "deps"
    /\ d \in deps[c] \ asked[c]
    /\ asked' = [asked EXCEPT ![c] = @ \cup {d}]
    /\ RequestStart(d)
    /\ UNCHANGED <<deps, mode, mains, objects, tries, marks>>

ThreadEnds(c) == thread' = [thread EXCEPT ![c] = "done"]

\* Fault: a dependency is in the way only if it is known to be unhealthy.
JoinDependenciesNoneIsFine(c) ==
    /\ thread[c] = "deps"
    /\ asked[c] = deps[c]
    /\ \A d \in deps[c] : thread[d] = "done"
    /\ thread' = [thread EXCEPT ![c] =
                    IF \E d \in deps[c] : healthy[d] = "False" THEN "done" ELSE "start"]
    /\ UNCHANGED <<deps, mode, mains, objects, assigned, asked, tries, marks>>

\* A dependency that is not healthy ends the thread: healthy stays None.
JoinDependencies(c) ==
    /\ thread[c] = "deps"
    /\ asked[c] = deps[c]
    /\ \A d \in deps[c] : thread[d] = "done"
    /\ thread' = [thread EXCEPT ![c] =
                    IF \A d \in deps[c] : healthy[d] = "True" THEN "start" ELSE "done"]
    /\ UNCHANGED <<deps, mode, mains, objects, assigned, asked, tries, marks>>

\* The container of a previous session is taken over: healthy stays None.
StartReuse(c) ==
    /\ thread[c] = "start"
    /\ Exists(c) /\ c \in AllowOld
    /\ handle' = [handle EXCEPT ![c] = TRUE]
    /\ docker' = [docker EXCEPT ![c] = "running"]
    /\ reused' = reused \cup {c}
    /\ ThreadEnds(c)
    /\ UNCHANGED <<deps, mode, mains, healthy, assigned, asked, tries, stuck, crashes>>

StartRun(c) ==
    /\ thread[c] = "start"
    /\ ~Exists(c)
    /\ docker' = [docker EXCEPT ![c] = "running"]
    /\ handle' = [handle EXCEPT ![c] = TRUE]
    /\ thread' = [thread EXCEPT ![c] = "health"]
    /\ UNCHANGED <<deps, mode, mains, healthy, assigned, asked, tries, marks>>

\* start raises: restart fails, an old container is in the way, or run fails,
\* possibly once the container is created, which _container then does not know.
StartRaises(c) ==
    /\ thread[c] = "start"
    /\ healthy' = [healthy EXCEPT ![c] = "False"]
    /\ handle' = [handle EXCEPT ![c] = Exists(c) /\ c \in AllowOld]
    /\ docker' \in {docker, [docker EXCEPT ![c] = IF Exists(c) THEN @ ELSE "exited"]}
    /\ ThreadEnds(c)
    /\ UNCHANGED <<deps, mode, mains, assigned, asked, tries, marks>>

\* execute_command: range(retries + 1) tries, as long as the container runs.
HealthRetry(c) ==
    /\ thread[c] = "health"
    /\ docker[c] = "running"
    /\ tries[c] < Retries
    /\ tries' = [tries EXCEPT ![c] = @ + 1]
    /\ UNCHANGED <<deps, mode, mains, objects, assigned, thread, asked, marks>>

HealthOk(c) ==
    /\ thread[c] = "health"
    /\ docker[c] = "running"
    /\ healthy' = [healthy EXCEPT ![c] = "True"]
    /\ ThreadEnds(c)
    /\ UNCHANGED <<deps, mode, mains, docker, handle, assigned, asked, tries, marks>>

\* The last try fails, the container is not running, docker answers with an
\* error, the warmup fails, or one of these raises.
HealthFails(c) ==
    /\ thread[c] = "health"
    /\ healthy' = [healthy EXCEPT ![c] = "False"]
    /\ ThreadEnds(c)
    /\ UNCHANGED <<deps, mode, mains, docker, handle, assigned, asked, tries, marks>>

Crash(c) ==
    /\ docker[c] = "running"
    /\ crashes < MaxCrashes
    /\ crashes' = crashes + 1
    /\ docker' = [docker EXCEPT ![c] = "exited"]
    /\ UNCHANGED <<deps, mode, mains, handle, healthy, starts, reused, stuck>>

-----------------------------------------------------------------------------
(* The main thread: configure and pytest_sessionstart.                     *)

\* Every container kills the one a previous session left under its name, unless
\* it may be taken over. The session only starts when it is not a collection.
Configure ==
    /\ main = "configure"
    /\ docker' = IF mode = "replay" THEN docker
                 ELSE [c \in Containers |->
                         IF c \in AllowOld THEN docker[c] ELSE "absent"]
    /\ main' = CASE mode = "collectonly" -> "finish"
                 [] mode = "replay"      -> "warmups"
                 [] OTHER                -> "async"
    /\ pos' = 1
    /\ UNCHANGED <<deps, mode, cause, handle, healthy, starts, marks>>

\* The main thread goes to close_targets, whatever ends the session.
Close(why) ==
    /\ main' = "close"
    /\ pos' = Len(Order)
    /\ cause' = why

AsyncStart ==
    /\ main = "async" /\ pos <= Len(Order)
    /\ ~Circular(Order[pos])
    /\ RequestStart(Order[pos])
    /\ pos' = pos + 1
    /\ UNCHANGED <<deps, mode, main, cause, objects, asked, tries, marks>>

\* RuntimeError: the threads already started are not joined.
AsyncCircular ==
    /\ main = "async" /\ pos <= Len(Order)
    /\ Circular(Order[pos])
    /\ Close("circular")
    /\ UNCHANGED <<deps, mode, objects, starts, marks>>

AsyncEnd ==
    /\ main = "async" /\ pos > Len(Order)
    /\ main' = "join"
    /\ UNCHANGED <<deps, mode, pos, cause, objects, starts, marks>>

Joined == \A c \in Containers : thread[c] = "done"

\* Fault: the main thread does not wait for all the threads.
StartedEarly ==
    /\ main = "join" /\ \E c \in Containers : thread[c] = "done"
    /\ \A c \in Containers : healthy[c] # "False"
    /\ main' = "warmups"
    /\ UNCHANGED <<deps, mode, pos, cause, objects, starts, marks>>

\* _start_containers returns: "healthy is False" does not hold of None.
Started ==
    /\ main = "join" /\ Joined
    /\ \A c \in Containers : healthy[c] # "False"
    /\ main' = "warmups"
    /\ UNCHANGED <<deps, mode, pos, cause, objects, starts, marks>>

StartedUnhealthy ==
    /\ main = "join" /\ Joined
    /\ \E c \in Containers : healthy[c] = "False"
    /\ Close("unhealthy")
    /\ UNCHANGED <<deps, mode, objects, starts, marks>>

\* The other warmups: post_start, the readiness of the application...
Warmups ==
    /\ main = "warmups"
    /\ mode # "replay" => \A c \in Probed : healthy[c] # "None"
    /\ main' = "started"
    /\ UNCHANGED <<deps, mode, pos, cause, objects, starts, marks>>

WarmupsFail ==
    /\ main = "warmups"
    /\ Close("warmup")
    /\ UNCHANGED <<deps, mode, objects, starts, marks>>

Interrupt ==
    /\ Interrupts
    /\ main \in {"async", "join", "warmups"}
    /\ Close("interrupted")
    /\ UNCHANGED <<deps, mode, objects, starts, marks>>

\* SYSTEM_TESTS_DEV_MODE: pytest.exit, once the scenario is started.
DevModeExit ==
    /\ main = "started"
    /\ main' = "over"
    /\ cause' = "devmode"
    /\ UNCHANGED <<deps, mode, pos, objects, starts, marks>>

-----------------------------------------------------------------------------
(* The main thread: pytest_collection_finish and post_setup.               *)

Collected ==
    /\ main = "started"
    /\ main' = CASE mode = "declaration_report" -> "finish"
                 [] mode = "sleep"              -> "sleep"
                 [] OTHER                       -> "setup"
    /\ cause' = IF mode = "declaration_report" THEN mode ELSE cause
    /\ UNCHANGED <<deps, mode, pos, objects, starts, marks>>

\* Ctrl-C
SleepEnds ==
    /\ main = "sleep"
    /\ Close("none")
    /\ UNCHANGED <<deps, mode, objects, starts, marks>>

\* Replayed data come from the logs: there is no container to stop.
SetupsDone ==
    /\ main = "setup"
    /\ IF mode = "replay" THEN Close("none")
       ELSE main' = "stop" /\ pos' = 1 /\ cause' = cause
    /\ UNCHANGED <<deps, mode, objects, starts, marks>>

SetupFails ==
    /\ main = "setup"
    /\ Close("setup")
    /\ UNCHANGED <<deps, mode, objects, starts, marks>>

\* Not an Exception (KeyboardInterrupt, pytest.exit), or one of the dump that follows
\* the setups: the targets are not closed.
SetupInterrupted ==
    /\ Interrupts
    /\ main = "setup"
    /\ main' = "finish"
    /\ cause' = "setup_interrupted"
    /\ UNCHANGED <<deps, mode, pos, objects, starts, marks>>

Stopping(c) == main = "stop" /\ pos <= Len(StopOrder) /\ c = StopOrder[pos]

\* stop forgets the thread in every case.
Forget(c) == assigned' = [assigned EXCEPT ![c] = FALSE]

Stop(c) ==
    /\ Stopping(c)
    /\ handle[c] => docker[c] = "running" /\ healthy[c] = "True"
    /\ docker' = IF handle[c] THEN [docker EXCEPT ![c] = "exited"] ELSE docker
    /\ Forget(c)
    /\ pos' = pos + 1
    /\ UNCHANGED <<deps, mode, main, cause, handle, healthy, thread, asked, tries, marks>>

\* pytest.exit: the container is not running, or docker times out, or the
\* container is stopped but was not healthy, or a message was not deserialised.
StopExits(c) ==
    /\ Stopping(c) /\ handle[c]
    /\ \/ /\ docker[c] # "running"
          /\ healthy' = [healthy EXCEPT ![c] = "False"]
          /\ UNCHANGED docker
       \/ /\ docker[c] = "running"
          /\ docker' \in {docker, [docker EXCEPT ![c] = "exited"]}
          /\ UNCHANGED healthy
    /\ Forget(c)
    /\ Close("stop")
    /\ UNCHANGED <<deps, mode, handle, thread, asked, tries, marks>>

StopsDone ==
    /\ main = "stop" /\ pos > Len(StopOrder)
    /\ Close("none")
    /\ UNCHANGED <<deps, mode, objects, starts, marks>>

-----------------------------------------------------------------------------
(* The main thread: close_targets and pytest_sessionfinish.                *)

\* Fault: remove skips a container that is not healthy.
RemoveHealthyOnly ==
    /\ main = "close" /\ pos > 0
    /\ docker' = IF handle[Order[pos]] /\ healthy[Order[pos]] = "True"
                 THEN [docker EXCEPT ![Order[pos]] = "absent"] ELSE docker
    /\ pos' = pos - 1
    /\ UNCHANGED <<deps, mode, main, cause, handle, healthy, starts, marks>>

Remove ==
    /\ main = "close" /\ pos > 0
    /\ docker' = IF handle[Order[pos]]
                 THEN [docker EXCEPT ![Order[pos]] = "absent"] ELSE docker
    /\ pos' = pos - 1
    /\ UNCHANGED <<deps, mode, main, cause, handle, healthy, starts, marks>>

\* An APIError of collect_logs or of remove is ignored.
RemoveFails ==
    /\ main = "close" /\ pos > 0
    /\ handle[Order[pos]] /\ Cardinality(stuck) < MaxRefusals
    /\ stuck' = stuck \cup {Order[pos]}
    /\ pos' = pos - 1
    /\ UNCHANGED <<deps, mode, main, cause, objects, starts, reused, crashes>>

\* pytest calls pytest_sessionfinish only if pytest_sessionstart returned.
BeforeStart == {"circular", "unhealthy", "interrupted", "warmup"}
AfterClose == main' = IF cause \in BeforeStart THEN "over" ELSE "finish"

\* Any other exception (the docker client times out) ends close_targets.
RemoveRaises ==
    /\ main = "close" /\ pos > 0
    /\ handle[Order[pos]] /\ Cardinality(stuck) < MaxRefusals
    /\ stuck' = stuck \cup {Order[i] : i \in 1 .. pos}
    /\ AfterClose
    /\ UNCHANGED <<deps, mode, pos, cause, objects, starts, reused, crashes>>

Closed ==
    /\ main = "close" /\ pos = 0
    /\ AfterClose
    /\ UNCHANGED <<deps, mode, pos, cause, objects, starts, marks>>

\* The tests have run: every container must be gone, even after a replay.
Finish ==
    /\ main = "finish"
    /\ main' = "over"
    /\ cause' = IF mode # "collectonly" /\ \E c \in Containers : Exists(c)
                THEN "not_removed" ELSE cause
    /\ UNCHANGED <<deps, mode, pos, objects, starts, marks>>

-----------------------------------------------------------------------------

StartStep(c) ==
    \/ \E d \in Containers : AskDependency(c, d)
    \/ JoinDependencies(c)
    \/ StartReuse(c) \/ StartRun(c) \/ StartRaises(c)
    \/ HealthRetry(c) \/ HealthOk(c) \/ HealthFails(c)

SessionStart ==
    \/ Configure \/ AsyncStart \/ AsyncCircular \/ AsyncEnd
    \/ Started \/ StartedUnhealthy \/ Warmups \/ WarmupsFail

SessionRun ==
    \/ DevModeExit \/ Collected
    \/ SetupsDone \/ SetupFails
    \/ \E c \in Containers : Stop(c) \/ StopExits(c)
    \/ StopsDone

SessionEnd == Remove \/ RemoveFails \/ RemoveRaises \/ Closed \/ Finish

MainStep == SessionStart \/ SessionRun \/ SessionEnd

Signal == Interrupt \/ SetupInterrupted \/ SleepEnds

Next ==
    \/ MainStep
    \/ Signal
    \/ \E c \in Containers : StartStep(c) \/ Crash(c)

Spec == Init /\ [][Next]_vars

\* Threads run until they end; nobody has to press Ctrl-C, nothing has to crash.
Fairness ==
    /\ WF_vars(MainStep)
    /\ \A c \in Containers : WF_vars(StartStep(c))

FairSpec == Spec /\ Fairness

-----------------------------------------------------------------------------
(* Properties.                                                             *)

\* Every variable has its type.
TypeOK ==
    /\ deps \in [Containers -> SUBSET Containers]
    /\ mode \in Modes
    /\ main \in {"configure", "async", "join", "warmups", "started", "setup", "sleep",
                 "stop", "close", "finish", "over"}
    /\ pos \in Nat
    /\ cause \in Causes
    /\ docker \in [Containers -> {"absent", "old", "running", "exited"}]
    /\ handle \in [Containers -> BOOLEAN]
    /\ healthy \in [Containers -> {"None", "False", "True"}]
    /\ assigned \in [Containers -> BOOLEAN]
    /\ thread \in [Containers -> {"none", "deps", "start", "health", "done"}]
    /\ asked \in [Containers -> SUBSET Containers]
    /\ tries \in [Containers -> 0 .. Retries]
    /\ reused \subseteq Containers
    /\ stuck \subseteq Containers
    /\ crashes \in 0 .. MaxCrashes

\* A container is started, or taken over, only once every container it depends
\* on, directly or not, has answered its healthcheck (_start_with_dependencies
\* joins the threads of its direct dependencies and looks at their health).
StartsAfterDependencies ==
    [][\A c \in Containers :
         ~handle[c] /\ handle'[c] =>
           \A d \in Reach(c) \ {c} : healthy[d] = "True"]_vars

\* The health that dependents and _start_containers have read is not revised
\* behind them: until the containers are stopped, a verdict is final.
HealthIsFinal ==
    [][\A c \in Containers :
         healthy[c] # "None" /\ healthy'[c] # healthy[c] => main = "stop"]_vars

\* When the session gets past _start_containers, a container without a healthy
\* verdict is one taken over from a previous session, or depends on such a one.
NoneIsExplained ==
    mode # "replay" /\ main \in {"warmups", "started", "setup", "sleep"} =>
      \A c \in Containers :
        healthy[c] = "True" \/ \E d \in Reach(c) : d \in reused

\* _wait_and_stop_containers stops a container only when the containers that
\* depend on it, and that it stops too, no longer run: the mocked backend
\* receives what the agent and the weblog send until they stop.
ReceiversStopLast ==
    [][main = "stop" /\ mains' # mains =>
         \A c, d \in Containers :
           /\ d \in Reach(c) \ {c}
           /\ c \in {StopOrder[i] : i \in DOMAIN StopOrder}
           /\ docker[d] = "running" /\ docker'[d] = "exited"
           => docker[c] # "running"]_vars

\* A session that ends well leaves no container; one that a failure ends leaves,
\* of the containers it started, only those docker failed to remove. (An
\* interruption, and a circular dependency found after the first threads are
\* started, are other matters: the threads outlive close_targets; so is a dump of
\* the properties of the setups that raises: close_targets is not called.)
LeavesNothing ==
    main = "over" /\ mode # "collectonly" =>
      /\ cause = "none" => \A c \in Containers : ~Exists(c)
      /\ cause \in {"unhealthy", "warmup", "setup", "stop"} =>
           \A c \in Containers : handle[c] /\ Exists(c) => c \in stuck

\* Every session ends, whatever the dependencies of its containers: circular
\* ones are found before a thread waits on itself, and every healthcheck ends. And
\* no thread is left waiting for the thread of a dependency, even when the session
\* was interrupted or refused a circular dependency.
SessionEnds ==
    /\ (mode # "sleep") ~> (main = "over")
    /\ <>[](\A c \in Containers : thread[c] \in {"none", "done"})

-----------------------------------------------------------------------------
(* The inductive invariant behind the safety properties.                   *)

Idle == \A c \in Containers : thread[c] \in {"none", "done"}

\* A container gets past its dependencies with all of them healthy; a verdict is
\* the last thing its thread gives; as long as a thread runs, what a healthy
\* container depends on is healthy; a thread that was created is remembered until
\* the containers are stopped, and then no thread runs any more.
ThreadInv ==
    /\ \A c \in Containers : thread[c] \in {"start", "health"} =>
         \A d \in deps[c] : thread[d] = "done" /\ healthy[d] = "True"
    /\ \A c \in Containers : healthy[c] # "None" => thread[c] = "done"
    /\ \/ Joined
       \/ \A c \in Containers : healthy[c] = "True" =>
            \A d \in deps[c] : healthy[d] = "True"
    /\ \A c \in Containers : thread[c] # "none" =>
         assigned[c] \/ (Joined /\ main \in {"stop", "close", "finish", "over"})

\* Where the main thread may be in each mode, and what it knows of the threads.
PhaseInv ==
    /\ mode \in {"replay", "collectonly"} =>
         /\ main \notin {"async", "join", "sleep", "stop"}
         /\ \A c \in Containers : thread[c] = "none"
    /\ mode = "collectonly" => main \in {"configure", "finish", "over"}
    /\ main = "configure" => cause = "none"
    /\ main \in {"warmups", "started", "setup", "sleep", "stop"} =>
         Idle /\ (mode # "replay" => Joined)
    /\ main = "async" => pos >= 1
    /\ main = "close" => pos <= Len(Order)

Settled(c) == handle[c] /\ Exists(c) => c \in stuck

\* The threads are idle when close_targets runs, unless it runs because of a
\* circular dependency or an interruption: what it has gone through stays removed.
CloseInv ==
    /\ main \in {"close", "finish", "over"} /\ cause \notin {"circular", "interrupted"} => Idle
    /\ main = "finish" => cause \notin BeforeStart
    /\ main = "close" /\ cause \notin {"circular", "interrupted"} =>
         \A i \in DOMAIN Order : i > pos => Settled(Order[i])
    /\ main \in {"finish", "over"} /\ cause \in {"unhealthy", "warmup", "setup", "stop"} =>
         \A c \in Containers : Settled(c)
    /\ main = "over" /\ cause = "none" /\ mode # "collectonly" =>
         \A c \in Containers : ~Exists(c)

IInv == TypeOK /\ ThreadInv /\ PhaseInv /\ CloseInv
================================================================================

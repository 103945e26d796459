------------------------------- MODULE AgentPool -------------------------------
(***************************************************************************)
(* One xdist worker of the parametric scenario and its test agents:        *)
(* WorkerAgentPool (utils/docker_fixtures/_test_agent_pool.py), docker_run *)
(* and start_agent, the test_agent and test_library fixtures, and the      *)
(* polling helpers of TestAgentAPI. The tests run one after the other; the *)
(* library containers, the agents and docker act on their own. A recorded  *)
(* request is its kind (it is in a session of the agent or of its OTLP     *)
(* part) and the test it comes from; a served remote configuration is its  *)
(* test. Agents are numbered as they are created, 0 is no agent.           *)
(***************************************************************************)
EXTENDS Naturals, Sequences

CONSTANTS
    MaxTests,   \* bound: number of tests of the worker
    MaxFaults,  \* bound: number of faults (docker, network, dead agents)
    WaitLoops   \* wait_loops of the polling helpers

ASSUME BoundAssumption == MaxTests \in Nat /\ MaxFaults \in Nat /\ WaitLoops \in Nat

Tests == 1 .. MaxTests
Paths == {"pool", "fresh"}
Items == {"session", "otlp"} \X Tests

VARIABLES
    pc,       \* where the worker is
    then,     \* where it goes once the current agent is torn down
    test,     \* the current test
    path,     \* whether it is poolable, or gets an agent of its own
    cur,      \* the agent it uses, or that is being opened or closed
    entry,    \* the agent in WorkerAgentPool._entries
    agent,    \* every agent created: its container, its sessions
    libs,     \* the library containers that run: their test and their agent
    seen,     \* the requests the current test was given
    loops,    \* polls of the current wait
    result,   \* how the setup of the current test ended
    faults,   \* number of faults so far
    broke,    \* history: something failed under the current setup itself
    refused,  \* history: agents whose removal docker refused
    left,     \* history: libraries docker failed to stop and to remove
    dirty     \* history: the OTLP part refused its clear, unnoticed, in this setup

fixture == <<then, test, path, result>>
outside == <<faults, refused, left>>
setup   == <<broke, dirty>>
vars    == <<pc, fixture, cur, entry, agent, libs, seen, loops, outside, setup>>

Agents == DOMAIN agent
\* The tests whose library was left running against the current agent.
Leftover == {l[1] : l \in {k \in left : k[2] = cur}}
Session(items) == {d \in items : d[1] = "session"}
Otlp(items)    == {d \in items : d[1] = "otlp"}

Init ==
    /\ pc = "idle" /\ then = "idle" /\ test = 0 /\ path = "pool"
    /\ cur = 0 /\ entry = 0 /\ agent = <<>> /\ libs = {}
    /\ seen = {} /\ loops = 0
    /\ result = "none"
    /\ faults = 0 /\ refused = {} /\ left = {} /\ broke = FALSE /\ dirty = FALSE

Fault == faults < MaxFaults /\ faults' = faults + 1

-----------------------------------------------------------------------------
(* The fixture test_agent: acquire for the poolable tests, get_test_agent_api *)
(* for the others.                                                         *)

\* A poolable test whose agent is cached reuses it (rebind_request), any other
\* one opens an agent.
Begin(p) ==
    /\ pc = "idle" /\ test < MaxTests
    /\ test' = test + 1 /\ path' = p /\ result' = "none"
    /\ IF p = "pool" /\ entry # 0
       THEN pc' = "clear" /\ cur' = entry
       ELSE pc' = "open" /\ cur' = 0
    /\ broke' = FALSE /\ dirty' = FALSE
    /\ UNCHANGED <<then, entry, agent, libs, seen, loops, outside>>

\* Fault: the agent is reused as it is.
ClearNothing ==
    /\ pc = "clear" /\ agent[cur].alive
    /\ pc' = "otlp"
    /\ UNCHANGED <<fixture, cur, entry, agent, libs, seen, loops, outside, setup>>

\* _reset: clear() drops the recorded requests, those of the agent's session ...
Clear ==
    /\ pc = "clear" /\ agent[cur].alive
    /\ agent' = [agent EXCEPT ![cur].data = Otlp(@)]
    /\ pc' = "otlp"
    /\ UNCHANGED <<fixture, cur, entry, libs, seen, loops, outside, setup>>

\* ... then those of its OTLP part, which may refuse: the status of this answer
\* is not looked at ...
ClearOtlp ==
    /\ pc = "otlp" /\ agent[cur].alive
    /\ \/ agent' = [agent EXCEPT ![cur].data = Session(@)] /\ dirty' = FALSE
       \/ dirty' = TRUE /\ UNCHANGED agent
    /\ pc' = "resetrc"
    /\ UNCHANGED <<fixture, cur, entry, libs, seen, loops, outside, broke>>

\* ... and reset_remote_config() the served configuration. Only then is a new
\* agent cached.
ResetRemoteConfig ==
    /\ pc = "resetrc" /\ agent[cur].alive
    /\ agent' = [agent EXCEPT ![cur].rc = 0]
    /\ entry' = cur
    /\ pc' = "library"
    /\ UNCHANGED <<fixture, cur, libs, seen, loops, outside, setup>>

\* A request of _reset fails: the agent is dead, or the call was lost.
ResetBreaks ==
    /\ pc \in {"clear", "otlp", "resetrc"}
    /\ IF agent[cur].alive THEN Fault ELSE UNCHANGED faults

\* Fault: the evicted agent is forgotten, not closed.
EvictForgets ==
    /\ ResetBreaks /\ cur = entry
    /\ entry' = 0
    /\ pc' = "open" /\ then' = "open"
    /\ UNCHANGED <<test, path, result, cur, agent, libs, seen, loops, refused, left, setup>>

\* A cached agent is evicted, torn down, and replaced.
Evict ==
    /\ ResetBreaks /\ cur = entry
    /\ entry' = 0
    /\ pc' = "close" /\ then' = "open"
    /\ UNCHANGED <<test, path, result, cur, agent, libs, seen, loops, refused, left, setup>>

Fail == then' = "idle" /\ result' = "error" /\ broke' = TRUE

\* Fault: a new one is left as it is.
NewAgentBreaksLeaks ==
    /\ ResetBreaks /\ cur # entry
    /\ pc' = "idle" /\ cur' = 0
    /\ Fail
    /\ UNCHANGED <<test, path, entry, agent, libs, seen, loops, refused, left, dirty>>

\* A new one is torn down and the exception goes to the test.
NewAgentBreaks ==
    /\ ResetBreaks /\ cur # entry
    /\ pc' = "close"
    /\ Fail
    /\ UNCHANGED <<test, path, cur, entry, agent, libs, seen, loops, refused, left, dirty>>

-----------------------------------------------------------------------------
(* docker_run and start_agent. Pooled agents share one name, their ports and *)
(* the name of their network; the others only share their ports. A network   *)
(* can not be removed while a library still runs on it, which is ignored.    *)

Blocks(a) ==
    /\ agent[a].path = path
    /\ \/ agent[a].box = "running"
       \/ path = "pool" /\ (agent[a].box = "stopped" \/ agent[a].net)

Box(b) ==
    [path |-> path, box |-> b, alive |-> b = "running", net |-> FALSE, data |-> {}, rc |-> 0]
\* What is left of the current agent once its container is b: nothing asks it any more.
Closed(b) ==
    [path |-> agent[cur].path, box |-> b, alive |-> FALSE,
     net |-> \E l \in libs : l[2] = cur, data |-> {}, rc |-> 0]

Open ==
    /\ pc = "open"
    /\ \A a \in Agents : ~Blocks(a)
    /\ agent' = Append(agent, Box("running"))
    /\ cur' = Len(agent) + 1
    /\ pc' = "info"
    /\ UNCHANGED <<fixture, entry, libs, seen, loops, outside, setup>>

\* The network or the container can not be created. What this invocation created
\* is removed, unless that fails too.
OpenRaises ==
    /\ pc = "open"
    /\ Fault
    /\ \/ UNCHANGED <<agent, refused>>
       \/ /\ agent' = Append(agent, Box("stopped"))
          /\ refused' = refused \cup {Len(agent) + 1}
    /\ cur' = 0 /\ pc' = "idle"
    /\ Fail
    /\ UNCHANGED <<test, path, entry, libs, seen, loops, left, dirty>>

\* The name or the port is taken by a container that could not be removed, or
\* the network by a library.
OpenConflicts ==
    /\ pc = "open"
    /\ \E a \in Agents : Blocks(a)
    /\ cur' = 0 /\ pc' = "idle" /\ then' = "idle"
    /\ result' = "error"
    /\ UNCHANGED <<test, path, entry, agent, libs, seen, loops, outside, setup>>

\* start_agent waits for /info.
Info ==
    /\ pc = "info" /\ agent[cur].alive
    /\ pc' = IF path = "pool" THEN "clear" ELSE "library"
    /\ UNCHANGED <<fixture, cur, entry, agent, libs, seen, loops, outside, setup>>

\* No answer after 100 attempts, or not the expected version.
InfoRaises ==
    /\ pc = "info"
    /\ IF agent[cur].alive THEN Fault ELSE UNCHANGED faults
    /\ pc' = "close"
    /\ Fail
    /\ UNCHANGED <<test, path, cur, entry, agent, libs, seen, loops, refused, left, dirty>>

\* Leaving docker_run: stop, then remove, even if stop raised.
Close ==
    /\ pc = "close"
    /\ agent' = [agent EXCEPT ![cur] = Closed("gone")]
    /\ pc' = then /\ cur' = 0
    /\ UNCHANGED <<fixture, entry, libs, seen, loops, outside, setup>>

\* The removal fails, before or after the container has stopped. The pool only
\* logs it; the fixture of a fresh agent raises in its teardown.
CloseRaises ==
    /\ pc = "close"
    /\ Fault
    /\ \E b \in {"running", "stopped"} :
         agent' = [agent EXCEPT ![cur] = Closed(b)]
    /\ refused' = refused \cup {cur}
    /\ pc' = then /\ cur' = 0
    /\ UNCHANGED <<fixture, entry, libs, seen, loops, left, setup>>

-----------------------------------------------------------------------------
(* The fixture test_library and the body of the test.                      *)

\* The library container starts and answers. The libraries of the worker have
\* one host port, whatever the test.
StartLibrary ==
    /\ pc = "library" /\ libs = {}
    /\ libs' = {<<test, cur>>}
    /\ result' = "ran"
    /\ pc' = "body"
    /\ UNCHANGED <<then, test, path, cur, entry, agent, seen, loops, outside, setup>>

LeaveTest ==
    /\ then' = "idle"
    /\ IF path = "pool" THEN pc' = "idle" /\ cur' = 0 ELSE pc' = "close" /\ UNCHANGED cur

\* It can not be created, or does not answer. It is removed again, unless that
\* fails too.
LibraryRaises ==
    /\ pc = "library"
    /\ Fault
    /\ \/ UNCHANGED <<libs, left>>
       \/ libs = {} /\ libs' = {<<test, cur>>} /\ left' = left \cup libs'
    /\ result' = "error" /\ broke' = TRUE
    /\ LeaveTest
    /\ UNCHANGED <<test, path, entry, agent, seen, loops, refused, dirty>>

\* The port is taken by the library of an earlier test.
LibraryConflicts ==
    /\ pc = "library" /\ libs # {}
    /\ result' = "error"
    /\ LeaveTest
    /\ UNCHANGED <<test, path, entry, agent, libs, seen, loops, outside, setup>>

\* A library sends to the agent it was started with, as long as both run.
Send(l, k) ==
    /\ agent[l[2]].alive /\ <<k, l[1]>> \notin agent[l[2]].data
    /\ agent' = [agent EXCEPT ![l[2]].data = @ \cup {<<k, l[1]>>}]
    /\ UNCHANGED <<pc, fixture, cur, entry, libs, seen, loops, outside, setup>>

\* A library ends by itself, such as when a late stop gets to it.
LibraryExits(l) ==
    /\ libs' = libs \ {l}
    /\ UNCHANGED <<pc, fixture, cur, entry, agent, seen, loops, outside, setup>>

SetRemoteConfig ==
    /\ pc = "body" /\ agent[cur].alive /\ agent[cur].rc # test
    /\ agent' = [agent EXCEPT ![cur].rc = test]
    /\ UNCHANGED <<pc, fixture, cur, entry, libs, seen, loops, outside, setup>>

\* What a test reads of its agent; an unreachable one is ignored. What was read
\* may be cleared, which also drops what arrived meanwhile.
Read(clear) ==
    IF agent[cur].alive
    THEN /\ seen' = seen \cup agent[cur].data
         /\ \E kept \in {{}, Otlp(agent[cur].data)} :
              agent' = IF clear THEN [agent EXCEPT ![cur].data = kept] ELSE agent
    ELSE UNCHANGED <<seen, agent>>

\* Fault: the polls of a wait are not counted.
PollForEver(clear) ==
    /\ pc = "body" /\ loops < WaitLoops
    /\ Read(clear)
    /\ UNCHANGED <<pc, fixture, cur, entry, libs, loops, outside, setup>>

\* One round of a wait_for_... helper.
Poll(clear) ==
    /\ pc = "body" /\ loops < WaitLoops
    /\ loops' = loops + 1
    /\ Read(clear)
    /\ UNCHANGED <<pc, fixture, cur, entry, libs, outside, setup>>

\* The wait has what it wants, or raises after its last round. The library is
\* stopped and removed; if docker refuses, it may go on running.
EndBody ==
    /\ pc = "body"
    /\ loops = WaitLoops \/ seen # {}
    /\ \/ libs' = {} /\ UNCHANGED <<faults, left>>
       \/ Fault /\ left' = left \cup libs /\ UNCHANGED libs
    /\ seen' = {} /\ loops' = 0
    /\ LeaveTest
    /\ UNCHANGED <<test, path, result, entry, agent, refused, setup>>

\* An agent dies, or stops answering.
Die(a) ==
    /\ agent[a].alive
    /\ Fault
    /\ agent' = [agent EXCEPT ![a].alive = FALSE]
    /\ broke' = (broke \/ (a = cur /\ cur # entry))
    /\ UNCHANGED <<pc, fixture, cur, entry, libs, seen, loops, refused, left, dirty>>

\* __exit__ of the pool closes what it holds.
Exit ==
    /\ pc = "idle" /\ test = MaxTests
    /\ pc' = IF entry = 0 THEN "done" ELSE "close"
    /\ then' = "done" /\ cur' = entry /\ entry' = 0
    /\ UNCHANGED <<test, path, result, agent, libs, seen, loops, outside, setup>>

Acquire ==
    \/ Clear \/ ClearOtlp \/ ResetRemoteConfig \/ Evict \/ NewAgentBreaks
    \/ Open \/ OpenRaises \/ OpenConflicts \/ Info \/ InfoRaises \/ Close \/ CloseRaises

Body ==
    \/ StartLibrary \/ LibraryRaises \/ LibraryConflicts \/ EndBody
    \/ \E clear \in BOOLEAN : Poll(clear)

Step == Acquire \/ Body \/ Exit \/ \E p \in Paths : Begin(p)

Next ==
    \/ Step
    \/ SetRemoteConfig
    \/ \E l \in libs : LibraryExits(l) \/ \E k \in {"session", "otlp"} : Send(l, k)
    \/ \E a \in Agents : Die(a)

Spec == Init /\ [][Next]_vars

\* The worker does not stop by itself: every call it makes returns.
FairSpec == Spec /\ WF_vars(Step)

-----------------------------------------------------------------------------
(* Properties.                                                             *)

\* Every variable has its type; at most one agent is in use.
AgentRecord ==
    [path : Paths, box : {"running", "stopped", "gone"}, alive : BOOLEAN,
     net : BOOLEAN, data : SUBSET Items, rc : 0 .. MaxTests]
WorkerTypes ==
    /\ pc \in {"idle", "clear", "otlp", "resetrc", "open", "info", "close", "library", "body", "done"}
    /\ then \in {"idle", "open", "done"}
    /\ test \in 0 .. MaxTests /\ path \in Paths
    /\ result \in {"none", "ran", "error"}
    /\ seen \subseteq Items /\ loops \in 0 .. WaitLoops
AgentTypes ==
    /\ agent \in Seq(AgentRecord)
    /\ cur \in 0 .. Len(agent) /\ entry \in 0 .. Len(agent)
    /\ libs \subseteq Tests \X Agents /\ left \subseteq Tests \X Agents
    /\ refused \subseteq Agents
TypeOK ==
    /\ WorkerTypes /\ AgentTypes
    /\ faults \in 0 .. MaxFaults /\ broke \in BOOLEAN /\ dirty \in BOOLEAN

\* No test is shown the requests of another one, nor has its library served the
\* remote configuration of another one, although the agent is shared by the
\* tests of the worker, dies, is evicted or replaced. There are two ways in: a
\* library of an earlier test that docker failed to stop, and, for the OTLP
\* requests alone, the refusal that the clear() of this very setup ignored.
MayShow(d) == d[2] \in {test} \cup Leftover \/ (d[1] = "otlp" /\ dirty)
TestsAreIsolated ==
    pc = "body" =>
        /\ \A d \in seen : MayShow(d)
        /\ agent[cur].rc \in {0, test}

\* One dead or unreachable agent does not fail the tests after it: the setup of
\* a test raises only if something broke under that very setup, or if docker
\* refused to remove an agent of the same kind, or to stop the library of an
\* earlier test, which keeps the port or the network of the worker.
SetupErrorIsExplained ==
    (pc = "idle" /\ test > 0 /\ result = "error") =>
        \/ broke
        \/ \E a \in refused : agent[a].path = path
        \/ \E l \in left : l[1] < test

\* When the worker is done, no agent is left that docker did not refuse to
\* remove, whatever failed on the way: every agent created is closed, once.
NoAgentIsLeft ==
    pc = "done" => \A a \in Agents : agent[a].box = "gone" \/ a \in refused

\* The worker gets to the end of its tests: no wait, no eviction and no creation
\* goes on for ever.
WorkerEnds == <>(pc = "done")
=============================================================================

---------------------------- MODULE AgentPoolProofs ----------------------------
(***************************************************************************)
(* Proofs about AgentPool, for any number of tests, faults and polls.      *)
(* The argument: an agent that exists is in the pool, in the hands of the  *)
(* current test, or docker refused to remove it (OwnedInv), so that what   *)
(* keeps a name or a port busy when an agent is opened is a refused one    *)
(* or one whose network a library kept (ResultInv); a library that runs    *)
(* outside the body of its test was left by docker (LibraryInv); and       *)
(* between the reset of an agent and the end of the test only the          *)
(* libraries started against it write to it, so that what it shows beside  *)
(* theirs is what the reset itself did not drop (IsolationInv).            *)
(***************************************************************************)
EXTENDS AgentPool, SequenceTheorems, TLAPS

InUse == {"clear", "otlp", "resetrc", "info", "close", "library", "body"}

\* Which agent the worker holds, where it is: a poolable test has the cached one
\* from the end of the reset on, and the pool is empty while it opens another.
ControlInv ==
    /\ pc \in InUse <=> cur # 0
    /\ pc \in {"clear", "otlp", "resetrc"} => path = "pool" /\ entry \in {0, cur}
    /\ pc \in {"open", "info"} /\ path = "pool" => entry = 0
    /\ pc \in {"library", "body"} /\ path = "pool" => entry = cur
    /\ pc = "close" /\ then = "open" => path = "pool"
    /\ pc = "close" /\ then \in {"open", "done"} => entry = 0
    /\ pc = "done" => entry = 0
    /\ pc \notin {"idle", "close", "done"} \/ (pc = "close" /\ then = "open") => test \in Tests

\* Every agent is gone, cached, in use, or docker refused to remove it.
OwnedInv ==
    /\ \A a \in Agents : agent[a].box = "gone" \/ a \in refused \/ a = entry \/ a = cur
    /\ entry # 0 => agent[entry].path = "pool"
    /\ pc = "info" => agent[cur].path = path
    /\ pc \in {"clear", "otlp", "resetrc"} => agent[cur].path = "pool"

\* An error has its reason.
ResultInv ==
    (test > 0 /\ result = "error") =>
        \/ broke
        \/ \E a \in refused : agent[a].path = path
        \/ \E l \in left : l[1] < test

\* A library that runs is the one of the current test or was left; those that were
\* left during a setup are of earlier tests; and a network that could not be
\* removed has a library that was left.
InSetup ==
    pc \in {"clear", "otlp", "resetrc", "open", "info", "library"} \/ (pc = "close" /\ then = "open")
LibraryInv ==
    /\ \A l \in libs : l \in left \/ (pc = "body" /\ l = <<test, cur>>)
    /\ \A l \in left : l[1] <= test
    /\ InSetup => \A l \in left : l[1] < test
    /\ \A a \in Agents : agent[a].net => \E l \in left : l[2] = a

\* From the reset on, the agent has only what its libraries sent, up to what the
\* reset did not drop, and serves the remote configuration of the test or none.
IsolationInv ==
    /\ pc # "body" => seen = {}
    /\ pc = "otlp" => \A d \in Session(agent[cur].data) : MayShow(d)
    /\ pc \in {"info", "resetrc", "library", "body"} => \A d \in agent[cur].data : MayShow(d)
    /\ pc \in {"info", "library"} => agent[cur].rc = 0
    /\ pc = "body" => (\A d \in seen : MayShow(d)) /\ agent[cur].rc \in {0, test}

IInv == TypeOK /\ ControlInv /\ OwnedInv /\ ResultInv /\ LibraryInv /\ IsolationInv

-----------------------------------------------------------------------------
(* What the updates of an agent leave alone.                               *)

\* The agents are the same ones, each with its path and its type.
Kept ==
    /\ agent' \in Seq(AgentRecord) /\ Len(agent') = Len(agent) /\ Agents' = Agents
    /\ \A b \in Agents : agent'[b].path = agent[b].path

\* The agents are numbered from 1.
LEMMA AgentNumbers ==
    ASSUME AgentTypes
    PROVE  /\ Agents = 1 .. Len(agent) /\ Len(agent) \in Nat
           /\ \A a \in Agents : agent[a] \in AgentRecord
           /\ cur # 0 => cur \in Agents
           /\ entry # 0 => entry \in Agents
<1>1. Len(agent) \in Nat /\ agent \in [1 .. Len(agent) -> AgentRecord]
      /\ Agents = 1 .. Len(agent)
  BY LenProperties DEF AgentTypes, Agents
<1>2. \A n \in 0 .. Len(agent) : n # 0 => n \in 1 .. Len(agent)
  BY <1>1
<1> QED
  BY <1>1, <1>2 DEF AgentTypes

\* One agent is replaced by a record.
LEMMA Replaced ==
    ASSUME AgentTypes, NEW a \in Agents, NEW r \in AgentRecord, r.path = agent[a].path,
           agent' = [agent EXCEPT ![a] = r]
    PROVE  Kept /\ agent'[a] = r /\ \A b \in Agents \ {a} : agent'[b] = agent[b]
<1>1. a \in 1 .. Len(agent) /\ agent \in Seq(AgentRecord) /\ Agents = 1 .. Len(agent)
  BY AgentNumbers DEF AgentTypes
<1>2. /\ agent' \in Seq(AgentRecord) /\ Len(agent') = Len(agent)
      /\ \A j \in 1 .. Len(agent) : agent'[j] = IF j = a THEN r ELSE agent[j]
  BY <1>1, ExceptSeq
<1>3. Agents' = 1 .. Len(agent)
  BY <1>2, LenProperties DEF Agents
<1> QED
  BY <1>1, <1>2, <1>3 DEF Kept

\* The requests of one agent change.
LEMMA DataReplaced ==
    ASSUME AgentTypes, NEW a \in Agents, NEW d \in SUBSET Items,
           agent' = [agent EXCEPT ![a].data = d]
    PROVE  /\ Kept /\ agent'[a].data = d
           /\ \A b \in Agents : agent'[b].rc = agent[b].rc /\ agent'[b].box = agent[b].box /\ agent'[b].net = agent[b].net
           /\ \A b \in Agents \ {a} : agent'[b] = agent[b]
<1> DEFINE r == [agent[a] EXCEPT !.data = d]
<1>1. agent[a] \in AgentRecord
  BY AgentNumbers
<1>2. r \in AgentRecord /\ r.path = agent[a].path /\ r.net = agent[a].net /\ r.rc = agent[a].rc
      /\ r.box = agent[a].box /\ r.data = d
  BY <1>1 DEF AgentRecord
<1>3. agent' = [agent EXCEPT ![a] = r]
  OBVIOUS
<1> HIDE DEF r
<1>4. Kept /\ agent'[a] = r /\ \A b \in Agents \ {a} : agent'[b] = agent[b]
  BY <1>2, <1>3, Replaced
<1> QED
  BY <1>2, <1>4

\* The remote configuration of one agent changes.
LEMMA RcReplaced ==
    ASSUME AgentTypes, NEW a \in Agents, NEW c \in 0 .. MaxTests,
           agent' = [agent EXCEPT ![a].rc = c]
    PROVE  /\ Kept /\ agent'[a].rc = c
           /\ \A b \in Agents : agent'[b].data = agent[b].data /\ agent'[b].box = agent[b].box /\ agent'[b].net = agent[b].net
           /\ \A b \in Agents \ {a} : agent'[b] = agent[b]
<1> DEFINE r == [agent[a] EXCEPT !.rc = c]
<1>1. agent[a] \in AgentRecord
  BY AgentNumbers
<1>2. r \in AgentRecord /\ r.path = agent[a].path /\ r.net = agent[a].net /\ r.rc = c
      /\ r.box = agent[a].box /\ r.data = agent[a].data
  BY <1>1 DEF AgentRecord
<1>3. agent' = [agent EXCEPT ![a] = r]
  OBVIOUS
<1> HIDE DEF r
<1>4. Kept /\ agent'[a] = r /\ \A b \in Agents \ {a} : agent'[b] = agent[b]
  BY <1>2, <1>3, Replaced
<1> QED
  BY <1>2, <1>4

\* The current agent is closed.
LEMMA ClosedAgent ==
    ASSUME AgentTypes, cur \in Agents, NEW x \in {"running", "stopped", "gone"},
           agent' = [agent EXCEPT ![cur] = Closed(x)]
    PROVE  /\ Kept /\ agent'[cur].box = x /\ agent'[cur].net = \E l \in libs : l[2] = cur
           /\ \A b \in Agents \ {cur} : agent'[b] = agent[b]
<1>1. agent[cur] \in AgentRecord
  BY AgentNumbers
<1>2. (\E l \in libs : l[2] = cur) \in BOOLEAN /\ 0 \in 0 .. MaxTests
  BY BoundAssumption
<1>3. /\ Closed(x) \in AgentRecord /\ Closed(x).path = agent[cur].path
      /\ Closed(x).box = x /\ Closed(x).net = \E l \in libs : l[2] = cur
  BY <1>1, <1>2 DEF AgentRecord, Closed
<1>4. Kept /\ agent'[cur] = Closed(x) /\ \A b \in Agents \ {cur} : agent'[b] = agent[b]
  <2> HIDE DEF Closed
  <2> QED BY <1>3, Replaced
<1> QED
  BY <1>3, <1>4

\* An agent dies.
LEMMA AliveReplaced ==
    ASSUME AgentTypes, NEW a \in Agents, agent' = [agent EXCEPT ![a].alive = FALSE]
    PROVE  /\ Kept
           /\ \A b \in Agents : /\ agent'[b].data = agent[b].data /\ agent'[b].rc = agent[b].rc
                                /\ agent'[b].box = agent[b].box /\ agent'[b].net = agent[b].net
<1> DEFINE r == [agent[a] EXCEPT !.alive = FALSE]
<1>1. agent[a] \in AgentRecord
  BY AgentNumbers
<1>2. r \in AgentRecord /\ r.path = agent[a].path /\ r.net = agent[a].net /\ r.rc = agent[a].rc
      /\ r.box = agent[a].box /\ r.data = agent[a].data
  BY <1>1 DEF AgentRecord
<1>3. agent' = [agent EXCEPT ![a] = r]
  OBVIOUS
<1> HIDE DEF r
<1>4. Kept /\ agent'[a] = r /\ \A b \in Agents \ {a} : agent'[b] = agent[b]
  BY <1>2, <1>3, Replaced
<1> QED
  BY <1>2, <1>4

\* A container is created.
LEMMA Created ==
    ASSUME AgentTypes, path \in Paths, NEW x \in {"running", "stopped"},
           agent' = Append(agent, Box(x))
    PROVE  /\ agent' \in Seq(AgentRecord) /\ Len(agent') = Len(agent) + 1
           /\ Agents' = Agents \cup {Len(agent) + 1}
           /\ \A b \in Agents : agent'[b] = agent[b]
           /\ agent'[Len(agent) + 1].path = path /\ agent'[Len(agent) + 1].data = {}
           /\ agent'[Len(agent) + 1].rc = 0 /\ ~agent'[Len(agent) + 1].net
<1>1. Agents = 1 .. Len(agent) /\ Len(agent) \in Nat
  BY AgentNumbers
<1>2. /\ Box(x) \in AgentRecord /\ Box(x).path = path /\ Box(x).data = {} /\ Box(x).rc = 0 /\ ~Box(x).net
  BY BoundAssumption DEF Box, AgentRecord
<1>3. /\ agent' \in Seq(AgentRecord) /\ Len(agent') = Len(agent) + 1
      /\ \A i \in 1 .. Len(agent) : agent'[i] = agent[i]
      /\ agent'[Len(agent) + 1] = Box(x)
  BY <1>2, AppendProperties DEF AgentTypes
<1>4. Agents' = 1 .. (Len(agent) + 1)
  BY <1>3, LenProperties DEF Agents
<1> QED
  BY <1>1, <1>2, <1>3, <1>4

-----------------------------------------------------------------------------
(* The inductive invariant.                                                *)

\* The invariant of everything but the flags.
Core == WorkerTypes /\ AgentTypes /\ ControlInv /\ OwnedInv /\ ResultInv /\ LibraryInv /\ IsolationInv

\* The worker starts without an agent.
LEMMA InitIInv == Init => IInv
<1> SUFFICES ASSUME Init PROVE IInv
  OBVIOUS
<1>1. WorkerTypes /\ faults \in 0 .. MaxFaults
  BY BoundAssumption DEF Init, WorkerTypes, Paths, Tests
<1>2. Agents = {}
  BY DEF Init, Agents
<1>3. AgentTypes
  BY <1>2, EmptySeq DEF Init, AgentTypes
<1>4. ControlInv /\ OwnedInv /\ ResultInv /\ LibraryInv /\ IsolationInv
  BY <1>2 DEF Init, ControlInv, OwnedInv, ResultInv, LibraryInv, InSetup, IsolationInv, InUse
<1> QED
  BY <1>1, <1>3, <1>4 DEF Init, IInv, TypeOK

\* Faults are counted, and broke is a flag.
LEMMA FlagStep ==
    ASSUME TypeOK, [Next]_vars
    PROVE  faults' \in 0 .. MaxFaults /\ broke' \in BOOLEAN /\ dirty' \in BOOLEAN
<1> USE DEF Next, Step, Acquire, Body, Begin, Clear, ClearOtlp, ResetRemoteConfig, Evict, NewAgentBreaks,
            Open, OpenRaises, OpenConflicts, Info, InfoRaises, Close, CloseRaises, StartLibrary,
            LibraryRaises, LibraryConflicts, EndBody, Poll, Exit, SetRemoteConfig, Send, LibraryExits, Die,
            ResetBreaks, vars, outside, setup
<1>1. UNCHANGED faults \/ Fault
  OBVIOUS
<1>2. faults' \in 0 .. MaxFaults
  BY <1>1, BoundAssumption DEF TypeOK, Fault
<1>3. \/ broke' \in {broke, FALSE, TRUE}
      \/ \E a \in Agents : broke' = (broke \/ (a = cur /\ cur # entry))
  BY DEF Fail
<1>4. broke' \in BOOLEAN
  BY <1>3 DEF TypeOK
<1>5. dirty' \in {dirty, FALSE, TRUE}
  BY DEF Fail, setup
<1> QED
  BY <1>2, <1>4, <1>5 DEF TypeOK

\* A test begins with the cached agent, or with none.
LEMMA BeginStep ==
    ASSUME IInv, NEW p \in Paths, Begin(p)
    PROVE  Core'
<1> USE DEF IInv, TypeOK, Begin, outside, setup
<1>0. /\ Agents = 1 .. Len(agent) /\ Len(agent) \in Nat
      /\ cur # 0 => cur \in Agents
      /\ entry # 0 => entry \in Agents
  BY AgentNumbers
<1>p. test + 1 \in Tests /\ \A t \in Tests : t <= test => t < test + 1 /\ t <= test + 1
  BY BoundAssumption DEF WorkerTypes, Tests
<1>1. WorkerTypes'
  BY <1>0, <1>p, BoundAssumption DEF WorkerTypes, ControlInv, Paths, Tests
<1>2. AgentTypes'
  BY <1>0, <1>p DEF AgentTypes, Agents, WorkerTypes, ControlInv, InUse, Tests
<1>3. ControlInv'
  BY <1>0, <1>p DEF ControlInv, InUse, WorkerTypes, AgentTypes, Paths, Tests
<1>4. OwnedInv'
  BY <1>0, <1>p DEF OwnedInv, ControlInv, InUse, WorkerTypes, AgentTypes, Paths, Agents
<1>5. ResultInv'
  BY DEF ResultInv
<1>6. IsolationInv'
  BY <1>0, <1>p DEF IsolationInv, MayShow, Session, ControlInv, InUse, WorkerTypes, AgentTypes, Leftover, Paths
<1>7. LibraryInv'
  <2>1. \A l \in left : l[1] \in Tests
    BY DEF AgentTypes
  <2>2. \A l \in left : l[1] < test' /\ l[1] <= test'
    BY <1>p, <2>1 DEF LibraryInv
  <2>3. \A l \in libs : l \in left
    BY DEF LibraryInv
  <2>4. \A a \in Agents' : agent'[a].net => \E l \in left' : l[2] = a
    BY DEF LibraryInv, Agents
  <2> QED BY <2>2, <2>3, <2>4 DEF LibraryInv
<1> QED
  BY <1>1, <1>2, <1>3, <1>4, <1>5, <1>6, <1>7 DEF Core

\* The cached agent goes out of the pool and stays in hand until it is closed.
LEMMA EvictStep ==
    ASSUME IInv, Evict
    PROVE  Core'
<1> USE DEF IInv, TypeOK, Evict, ResetBreaks, outside, setup
<1>0. /\ Agents = 1 .. Len(agent) /\ Len(agent) \in Nat
      /\ cur # 0 => cur \in Agents
      /\ entry # 0 => entry \in Agents
  BY AgentNumbers
<1>1. WorkerTypes'
  BY <1>0, BoundAssumption DEF WorkerTypes, ControlInv, Paths, Tests
<1>2. AgentTypes'
  BY <1>0 DEF AgentTypes, Agents, WorkerTypes, ControlInv, InUse, Tests
<1>3. ControlInv'
  BY <1>0 DEF ControlInv, InUse, WorkerTypes, AgentTypes, Paths, Tests
<1>4. OwnedInv'
  BY <1>0 DEF OwnedInv, ControlInv, InUse, WorkerTypes, AgentTypes, Paths, Agents
<1>5. ResultInv'
  BY <1>0 DEF ResultInv, OwnedInv, ControlInv, InUse, WorkerTypes, AgentTypes, Tests, Paths, Agents
<1>6. IsolationInv'
  BY <1>0 DEF IsolationInv, MayShow, Session, ControlInv, InUse, WorkerTypes, AgentTypes, Leftover, Paths
<1>7. LibraryInv'
  BY <1>0 DEF LibraryInv, InSetup, ControlInv, InUse, WorkerTypes, AgentTypes, Paths, Tests, Agents
<1> QED
  BY <1>1, <1>2, <1>3, <1>4, <1>5, <1>6, <1>7 DEF Core

\* A new agent stays in hand until it is closed.
LEMMA NewAgentBreaksStep ==
    ASSUME IInv, NewAgentBreaks
    PROVE  Core'
<1> USE DEF IInv, TypeOK, NewAgentBreaks, ResetBreaks, Fail, setup
<1>0. /\ Agents = 1 .. Len(agent) /\ Len(agent) \in Nat
      /\ cur # 0 => cur \in Agents
      /\ entry # 0 => entry \in Agents
  BY AgentNumbers
<1>1. WorkerTypes'
  BY <1>0, BoundAssumption DEF WorkerTypes, ControlInv, Paths, Tests
<1>2. AgentTypes'
  BY <1>0 DEF AgentTypes, Agents, WorkerTypes, ControlInv, InUse, Tests
<1>3. ControlInv'
  BY <1>0 DEF ControlInv, InUse, WorkerTypes, AgentTypes, Paths, Tests
<1>4. OwnedInv'
  BY <1>0 DEF OwnedInv, ControlInv, InUse, WorkerTypes, AgentTypes, Paths, Agents
<1>5. ResultInv'
  BY <1>0 DEF ResultInv, OwnedInv, ControlInv, InUse, WorkerTypes, AgentTypes, Tests, Paths, Agents
<1>6. IsolationInv'
  BY <1>0 DEF IsolationInv, MayShow, Session, ControlInv, InUse, WorkerTypes, AgentTypes, Leftover, Paths
<1>7. LibraryInv'
  BY <1>0 DEF LibraryInv, InSetup, ControlInv, InUse, WorkerTypes, AgentTypes, Paths, Tests, Agents
<1> QED
  BY <1>1, <1>2, <1>3, <1>4, <1>5, <1>6, <1>7 DEF Core

\* What is in the way was refused: the pool is empty, or of the other path.
LEMMA OpenConflictsStep ==
    ASSUME IInv, OpenConflicts
    PROVE  Core'
<1> USE DEF IInv, TypeOK, OpenConflicts, Blocks, outside, setup
<1>0. /\ Agents = 1 .. Len(agent) /\ Len(agent) \in Nat
      /\ cur # 0 => cur \in Agents
      /\ entry # 0 => entry \in Agents
  BY AgentNumbers
<1>1. WorkerTypes'
  BY <1>0, BoundAssumption DEF WorkerTypes, ControlInv, Paths, Tests
<1>2. AgentTypes'
  BY <1>0 DEF AgentTypes, Agents, WorkerTypes, ControlInv, InUse, Tests
<1>3. ControlInv'
  BY <1>0 DEF ControlInv, InUse, WorkerTypes, AgentTypes, Paths, Tests
<1>4. OwnedInv'
  BY <1>0 DEF OwnedInv, ControlInv, InUse, WorkerTypes, AgentTypes, Paths, Agents
<1>5. ResultInv'
  BY <1>0 DEF ResultInv, LibraryInv, InSetup, OwnedInv, ControlInv, InUse, WorkerTypes, AgentTypes, Tests, Paths, Agents
<1>6. IsolationInv'
  BY <1>0 DEF IsolationInv, MayShow, Session, ControlInv, InUse, WorkerTypes, AgentTypes, Leftover, Paths
<1>7. LibraryInv'
  BY <1>0 DEF LibraryInv, InSetup, ControlInv, InUse, WorkerTypes, AgentTypes, Paths, Tests, Agents
<1> QED
  BY <1>1, <1>2, <1>3, <1>4, <1>5, <1>6, <1>7 DEF Core

\* The agent answers, or not.
LEMMA InfoStep ==
    ASSUME IInv, Info \/ InfoRaises
    PROVE  Core'
<1> USE DEF IInv, TypeOK, Info, InfoRaises, Fail, fixture, outside, setup
<1>0. /\ Agents = 1 .. Len(agent) /\ Len(agent) \in Nat
      /\ cur # 0 => cur \in Agents
      /\ entry # 0 => entry \in Agents
  BY AgentNumbers
<1>1. WorkerTypes'
  BY <1>0, BoundAssumption DEF WorkerTypes, ControlInv, Paths, Tests
<1>2. AgentTypes'
  BY <1>0 DEF AgentTypes, Agents, WorkerTypes, ControlInv, InUse, Tests
<1>3. ControlInv'
  BY <1>0 DEF ControlInv, InUse, WorkerTypes, AgentTypes, Paths, Tests
<1>4. OwnedInv'
  BY <1>0 DEF OwnedInv, ControlInv, InUse, WorkerTypes, AgentTypes, Paths, Agents
<1>5. ResultInv'
  BY <1>0 DEF ResultInv, OwnedInv, ControlInv, InUse, WorkerTypes, AgentTypes, Tests, Paths, Agents
<1>6. IsolationInv'
  BY <1>0 DEF IsolationInv, MayShow, Session, ControlInv, InUse, WorkerTypes, AgentTypes, Leftover, Paths
<1>7. LibraryInv'
  BY <1>0 DEF LibraryInv, InSetup, ControlInv, InUse, WorkerTypes, AgentTypes, Paths, Tests, Agents
<1> QED
  BY <1>1, <1>2, <1>3, <1>4, <1>5, <1>6, <1>7 DEF Core

\* The library joins the ones of the agent.
LEMMA StartLibraryStep ==
    ASSUME IInv, StartLibrary
    PROVE  Core'
<1> USE DEF IInv, TypeOK, StartLibrary, outside, setup
<1>0. /\ Agents = 1 .. Len(agent) /\ Len(agent) \in Nat
      /\ cur # 0 => cur \in Agents
      /\ entry # 0 => entry \in Agents
  BY AgentNumbers
<1>1. WorkerTypes'
  BY <1>0, BoundAssumption DEF WorkerTypes, ControlInv, Paths, Tests
<1>2. AgentTypes'
  BY <1>0 DEF AgentTypes, Agents, WorkerTypes, ControlInv, InUse, Tests
<1>3. ControlInv'
  BY <1>0 DEF ControlInv, InUse, WorkerTypes, AgentTypes, Paths, Tests
<1>4. OwnedInv'
  BY <1>0 DEF OwnedInv, ControlInv, InUse, WorkerTypes, AgentTypes, Paths, Agents
<1>5. ResultInv'
  BY <1>0 DEF ResultInv, OwnedInv, ControlInv, InUse, WorkerTypes, AgentTypes, Tests, Paths, Agents
<1>6. IsolationInv'
  BY <1>0 DEF IsolationInv, MayShow, Session, ControlInv, InUse, WorkerTypes, AgentTypes, Leftover, Paths
<1>7. LibraryInv'
  BY <1>0 DEF LibraryInv, InSetup, ControlInv, InUse, WorkerTypes, AgentTypes, Paths, Tests, Agents
<1> QED
  BY <1>1, <1>2, <1>3, <1>4, <1>5, <1>6, <1>7 DEF Core

\* The test lets go of a cached agent, and closes one of its own.
LEMMA LeaveStep ==
    ASSUME IInv, LibraryRaises \/ LibraryConflicts \/ EndBody
    PROVE  Core'
<1> USE DEF IInv, TypeOK, LibraryRaises, LibraryConflicts, EndBody, LeaveTest, outside, setup
<1>0. /\ Agents = 1 .. Len(agent) /\ Len(agent) \in Nat
      /\ cur # 0 => cur \in Agents
      /\ entry # 0 => entry \in Agents
  BY AgentNumbers
<1>1. WorkerTypes'
  BY <1>0, BoundAssumption DEF WorkerTypes, ControlInv, Paths, Tests
<1>2. AgentTypes'
  BY <1>0 DEF AgentTypes, Agents, WorkerTypes, ControlInv, InUse, Tests
<1>3. ControlInv'
  BY <1>0 DEF ControlInv, InUse, WorkerTypes, AgentTypes, Paths, Tests
<1>4. OwnedInv'
  BY <1>0 DEF OwnedInv, ControlInv, InUse, WorkerTypes, AgentTypes, Paths, Agents
<1>5. ResultInv'
  BY <1>0 DEF ResultInv, LibraryInv, InSetup, OwnedInv, ControlInv, InUse, WorkerTypes, AgentTypes, Tests, Paths, Agents
<1>6. IsolationInv'
  BY <1>0 DEF IsolationInv, MayShow, Session, ControlInv, InUse, WorkerTypes, AgentTypes, Leftover, Paths
<1>7. LibraryInv'
  BY <1>0 DEF LibraryInv, InSetup, ControlInv, InUse, WorkerTypes, AgentTypes, Paths, Tests, Agents
<1> QED
  BY <1>1, <1>2, <1>3, <1>4, <1>5, <1>6, <1>7 DEF Core

\* The pool gives up its agent to close it.
LEMMA ExitStep ==
    ASSUME IInv, Exit
    PROVE  Core'
<1> USE DEF IInv, TypeOK, Exit, outside, setup
<1>0. /\ Agents = 1 .. Len(agent) /\ Len(agent) \in Nat
      /\ cur # 0 => cur \in Agents
      /\ entry # 0 => entry \in Agents
  BY AgentNumbers
<1>1. WorkerTypes'
  BY <1>0, BoundAssumption DEF WorkerTypes, ControlInv, Paths, Tests
<1>2. AgentTypes'
  BY <1>0 DEF AgentTypes, Agents, WorkerTypes, ControlInv, InUse, Tests
<1>3. ControlInv'
  BY <1>0 DEF ControlInv, InUse, WorkerTypes, AgentTypes, Paths, Tests
<1>4. OwnedInv'
  BY <1>0 DEF OwnedInv, ControlInv, InUse, WorkerTypes, AgentTypes, Paths, Agents
<1>5. ResultInv'
  BY <1>0 DEF ResultInv, OwnedInv, ControlInv, InUse, WorkerTypes, AgentTypes, Tests, Paths, Agents
<1>6. IsolationInv'
  BY <1>0 DEF IsolationInv, MayShow, Session, ControlInv, InUse, WorkerTypes, AgentTypes, Leftover, Paths
<1>7. LibraryInv'
  BY <1>0 DEF LibraryInv, InSetup, ControlInv, InUse, WorkerTypes, AgentTypes, Paths, Tests, Agents
<1> QED
  BY <1>1, <1>2, <1>3, <1>4, <1>5, <1>6, <1>7 DEF Core

\* The requests of the session are dropped.
LEMMA ClearStep ==
    ASSUME IInv, Clear
    PROVE  Core'
<1> USE DEF IInv, TypeOK, Clear, fixture, outside, setup
<1>0. /\ Agents = 1 .. Len(agent) /\ Len(agent) \in Nat
      /\ cur # 0 => cur \in Agents
      /\ entry # 0 => entry \in Agents
  BY AgentNumbers
<1>p. /\ Kept /\ agent'[cur].data = Otlp(agent[cur].data)
      /\ \A b \in Agents : agent'[b].rc = agent[b].rc /\ agent'[b].box = agent[b].box /\ agent'[b].net = agent[b].net
      /\ \A b \in Agents \ {cur} : agent'[b] = agent[b]
  <2>1. cur \in Agents
    BY <1>0 DEF ControlInv, InUse
  <2>2. Otlp(agent[cur].data) \in SUBSET Items
    BY <2>1, AgentNumbers DEF AgentRecord, Otlp
  <2>3. agent' = [agent EXCEPT ![cur].data = Otlp(agent[cur].data)]
    OBVIOUS
  <2> HIDE DEF Otlp
  <2> QED BY <2>1, <2>2, <2>3, DataReplaced
<1>1. WorkerTypes'
  BY <1>0, <1>p, BoundAssumption DEF WorkerTypes, ControlInv, Paths, Tests
<1>2. AgentTypes'
  BY <1>0, <1>p DEF AgentTypes, WorkerTypes, ControlInv, InUse, Kept
<1>3. ControlInv'
  BY <1>0, <1>p DEF ControlInv, InUse, WorkerTypes, AgentTypes, Paths, Tests
<1>4. OwnedInv'
  BY <1>0, <1>p DEF OwnedInv, ControlInv, InUse, WorkerTypes, AgentTypes, Paths, Kept
<1>5. ResultInv'
  BY <1>0, <1>p DEF ResultInv, OwnedInv, ControlInv, InUse, WorkerTypes, AgentTypes, Tests, Paths, Kept
<1>6. IsolationInv'
  BY <1>0, <1>p DEF IsolationInv, MayShow, Session, Otlp, ControlInv, InUse, WorkerTypes, AgentTypes, Leftover, Paths, Kept
<1>7. LibraryInv'
  BY <1>0, <1>p DEF LibraryInv, InSetup, ControlInv, InUse, WorkerTypes, AgentTypes, Paths, Tests, Kept
<1> QED
  BY <1>1, <1>2, <1>3, <1>4, <1>5, <1>6, <1>7 DEF Core

\* The OTLP requests are dropped, or the refusal is noted.
LEMMA ClearOtlpStep ==
    ASSUME IInv, ClearOtlp
    PROVE  Core'
<1> USE DEF IInv, TypeOK, ClearOtlp, fixture, outside, setup
<1>0. /\ Agents = 1 .. Len(agent) /\ Len(agent) \in Nat
      /\ cur # 0 => cur \in Agents
      /\ entry # 0 => entry \in Agents
  BY AgentNumbers
<1>p. /\ Kept
      /\ \/ agent'[cur].data = Session(agent[cur].data)
         \/ agent'[cur].data = agent[cur].data /\ dirty'
      /\ \A b \in Agents : agent'[b].rc = agent[b].rc /\ agent'[b].box = agent[b].box /\ agent'[b].net = agent[b].net
      /\ \A b \in Agents \ {cur} : agent'[b] = agent[b]
  <2>1. cur \in Agents
    BY <1>0 DEF ControlInv, InUse
  <2>2. Session(agent[cur].data) \in SUBSET Items
    BY <2>1, AgentNumbers DEF AgentRecord, Session
  <2>3. CASE agent' = [agent EXCEPT ![cur].data = Session(agent[cur].data)]
    <3> HIDE DEF Session
    <3> QED BY <2>1, <2>2, <2>3, DataReplaced
  <2>4. CASE UNCHANGED agent /\ dirty'
    BY <2>4 DEF Kept, Agents, AgentTypes
  <2> QED BY <2>3, <2>4
<1>1. WorkerTypes'
  BY <1>0, <1>p, BoundAssumption DEF WorkerTypes, ControlInv, Paths, Tests
<1>2. AgentTypes'
  BY <1>0, <1>p DEF AgentTypes, WorkerTypes, ControlInv, InUse, Kept
<1>3. ControlInv'
  BY <1>0, <1>p DEF ControlInv, InUse, WorkerTypes, AgentTypes, Paths, Tests
<1>4. OwnedInv'
  BY <1>0, <1>p DEF OwnedInv, ControlInv, InUse, WorkerTypes, AgentTypes, Paths, Kept
<1>5. ResultInv'
  BY <1>0, <1>p DEF ResultInv, OwnedInv, ControlInv, InUse, WorkerTypes, AgentTypes, Tests, Paths, Kept
<1>6. IsolationInv'
  <2>1. cur \in Agents /\ agent[cur].data \subseteq Items
    BY <1>0, AgentNumbers DEF ControlInv, InUse, AgentRecord
  <2>2. \A d \in agent[cur].data : d[1] \in {"session", "otlp"}
    BY <2>1 DEF Items
  <2>3. \A d \in agent[cur].data : d[1] = "session" => d[2] \in {test} \cup Leftover
    BY DEF IsolationInv, Session, MayShow
  <2>4. \A d \in agent'[cur].data : MayShow(d)'
    <3>1. Leftover' = Leftover /\ test' = test
      BY DEF Leftover
    <3>2. CASE agent'[cur].data = Session(agent[cur].data)
      BY <2>3, <3>1, <3>2 DEF MayShow, Session
    <3>3. CASE agent'[cur].data = agent[cur].data /\ dirty'
      BY <2>2, <2>3, <3>1, <3>3 DEF MayShow
    <3> QED BY <1>p, <3>2, <3>3
  <2> QED BY <2>4 DEF IsolationInv
<1>7. LibraryInv'
  BY <1>0, <1>p DEF LibraryInv, InSetup, ControlInv, InUse, WorkerTypes, AgentTypes, Paths, Tests, Kept
<1> QED
  BY <1>1, <1>2, <1>3, <1>4, <1>5, <1>6, <1>7 DEF Core

\* The agent serves no configuration, and is cached.
LEMMA ResetRemoteConfigStep ==
    ASSUME IInv, ResetRemoteConfig
    PROVE  Core'
<1> USE DEF IInv, TypeOK, ResetRemoteConfig, fixture, outside, setup
<1>0. /\ Agents = 1 .. Len(agent) /\ Len(agent) \in Nat
      /\ cur # 0 => cur \in Agents
      /\ entry # 0 => entry \in Agents
  BY AgentNumbers
<1>p. /\ Kept /\ agent'[cur].rc = 0
      /\ \A b \in Agents : agent'[b].data = agent[b].data /\ agent'[b].box = agent[b].box /\ agent'[b].net = agent[b].net
      /\ \A b \in Agents \ {cur} : agent'[b] = agent[b]
  <2>1. cur \in Agents /\ 0 \in 0 .. MaxTests
    BY <1>0, BoundAssumption DEF ControlInv, InUse
  <2>2. agent' = [agent EXCEPT ![cur].rc = 0]
    OBVIOUS
  <2> QED BY <2>1, <2>2, RcReplaced
<1>1. WorkerTypes'
  BY <1>0, <1>p, BoundAssumption DEF WorkerTypes, ControlInv, Paths, Tests
<1>2. AgentTypes'
  BY <1>0, <1>p DEF AgentTypes, WorkerTypes, ControlInv, InUse, Kept
<1>3. ControlInv'
  BY <1>0, <1>p DEF ControlInv, InUse, WorkerTypes, AgentTypes, Paths, Tests
<1>4. OwnedInv'
  BY <1>0, <1>p DEF OwnedInv, ControlInv, InUse, WorkerTypes, AgentTypes, Paths, Kept
<1>5. ResultInv'
  BY <1>0, <1>p DEF ResultInv, OwnedInv, ControlInv, InUse, WorkerTypes, AgentTypes, Tests, Paths, Kept
<1>6. IsolationInv'
  BY <1>0, <1>p DEF IsolationInv, MayShow, Session, ControlInv, InUse, WorkerTypes, AgentTypes, Leftover, Paths, Kept
<1>7. LibraryInv'
  BY <1>0, <1>p DEF LibraryInv, InSetup, ControlInv, InUse, WorkerTypes, AgentTypes, Paths, Tests, Kept
<1> QED
  BY <1>1, <1>2, <1>3, <1>4, <1>5, <1>6, <1>7 DEF Core

\* The new agent is in hand, empty.
LEMMA OpenStep ==
    ASSUME IInv, Open
    PROVE  Core'
<1> USE DEF IInv, TypeOK, Open, fixture, outside, setup
<1>0. /\ Agents = 1 .. Len(agent) /\ Len(agent) \in Nat
      /\ cur # 0 => cur \in Agents
      /\ entry # 0 => entry \in Agents
  BY AgentNumbers
<1>p. /\ agent' \in Seq(AgentRecord) /\ Len(agent') = Len(agent) + 1
      /\ Agents' = Agents \cup {Len(agent) + 1}
      /\ \A b \in Agents : agent'[b] = agent[b]
      /\ agent'[Len(agent) + 1].path = path /\ agent'[Len(agent) + 1].data = {}
      /\ agent'[Len(agent) + 1].rc = 0 /\ ~agent'[Len(agent) + 1].net
  BY Created DEF WorkerTypes
<1>1. WorkerTypes'
  BY <1>0, <1>p, BoundAssumption DEF WorkerTypes, ControlInv, Paths, Tests
<1>2. AgentTypes'
  BY <1>0, <1>p DEF AgentTypes, WorkerTypes, ControlInv, InUse, Kept
<1>3. ControlInv'
  BY <1>0, <1>p DEF ControlInv, InUse, WorkerTypes, AgentTypes, Paths, Tests
<1>4. OwnedInv'
  BY <1>0, <1>p DEF OwnedInv, ControlInv, InUse, WorkerTypes, AgentTypes, Paths
<1>5. ResultInv'
  BY <1>0, <1>p DEF ResultInv, OwnedInv, ControlInv, InUse, WorkerTypes, AgentTypes, Tests, Paths
<1>6. IsolationInv'
  BY <1>0, <1>p DEF IsolationInv, MayShow, Session, ControlInv, InUse, WorkerTypes, AgentTypes, Leftover, Paths
<1>7. LibraryInv'
  BY <1>0, <1>p DEF LibraryInv, InSetup, ControlInv, InUse, WorkerTypes, AgentTypes, Paths, Tests
<1> QED
  BY <1>1, <1>2, <1>3, <1>4, <1>5, <1>6, <1>7 DEF Core

\* Nothing is in hand; what may be left was refused.
LEMMA OpenRaisesStep ==
    ASSUME IInv, OpenRaises
    PROVE  Core'
<1> USE DEF IInv, TypeOK, OpenRaises, Fault, Fail, setup
<1>0. /\ Agents = 1 .. Len(agent) /\ Len(agent) \in Nat
      /\ cur # 0 => cur \in Agents
      /\ entry # 0 => entry \in Agents
  BY AgentNumbers
<1>p. \/ UNCHANGED <<agent, refused>> /\ Agents' = Agents
      \/ /\ agent' \in Seq(AgentRecord) /\ Len(agent') = Len(agent) + 1
         /\ Agents' = Agents \cup {Len(agent) + 1}
         /\ refused' = refused \cup {Len(agent) + 1}
         /\ \A b \in Agents : agent'[b] = agent[b]
         /\ ~agent'[Len(agent) + 1].net
  <2>1. CASE UNCHANGED <<agent, refused>>
    BY <2>1 DEF Agents
  <2>2. CASE agent' = Append(agent, Box("stopped")) /\ refused' = refused \cup {Len(agent) + 1}
    BY <2>2, Created DEF WorkerTypes
  <2> QED BY <2>1, <2>2
<1>1. WorkerTypes'
  BY <1>0, <1>p, BoundAssumption DEF WorkerTypes, ControlInv, Paths, Tests
<1>2. AgentTypes'
  <2>1. agent' \in Seq(AgentRecord) /\ Len(agent') \in Nat /\ Len(agent') >= Len(agent)
    BY <1>0, <1>p DEF AgentTypes
  <2>2. Agents \subseteq Agents' /\ refused' \subseteq Agents'
    BY <1>p DEF AgentTypes
  <2>3. cur' = 0 /\ entry' = entry /\ libs' = libs
    OBVIOUS
  <2>4. cur' \in 0 .. Len(agent') /\ entry' \in 0 .. Len(agent')
    BY <1>0, <2>1, <2>3 DEF AgentTypes
  <2> QED BY <2>1, <2>2, <2>3, <2>4 DEF AgentTypes
<1>3. ControlInv'
  BY <1>0, <1>p DEF ControlInv, InUse, WorkerTypes, AgentTypes, Paths, Tests
<1>4. OwnedInv'
  BY <1>0, <1>p DEF OwnedInv, ControlInv, InUse, WorkerTypes, AgentTypes, Paths
<1>5. ResultInv'
  BY DEF ResultInv
<1>6. IsolationInv'
  BY <1>0, <1>p DEF IsolationInv, MayShow, Session, ControlInv, InUse, WorkerTypes, AgentTypes, Leftover, Paths
<1>7. LibraryInv'
  BY <1>0, <1>p DEF LibraryInv, InSetup, ControlInv, InUse, WorkerTypes, AgentTypes, Paths, Tests
<1> QED
  BY <1>1, <1>2, <1>3, <1>4, <1>5, <1>6, <1>7 DEF Core

\* The agent in hand is gone.
LEMMA CloseStep ==
    ASSUME IInv, Close
    PROVE  Core'
<1> USE DEF IInv, TypeOK, Close, fixture, outside, setup
<1>0. /\ Agents = 1 .. Len(agent) /\ Len(agent) \in Nat
      /\ cur # 0 => cur \in Agents
      /\ entry # 0 => entry \in Agents
  BY AgentNumbers
<1>p. /\ Kept /\ cur \in Agents /\ agent'[cur].box = "gone"
      /\ agent'[cur].net = \E l \in libs : l[2] = cur
      /\ \A b \in Agents \ {cur} : agent'[b] = agent[b]
  <2>1. cur \in Agents
    BY <1>0 DEF ControlInv, InUse
  <2>2. agent' = [agent EXCEPT ![cur] = Closed("gone")]
    OBVIOUS
  <2> HIDE DEF Closed
  <2> QED BY <2>1, <2>2, ClosedAgent
<1>1. WorkerTypes'
  BY <1>0, <1>p, BoundAssumption DEF WorkerTypes, ControlInv, Paths, Tests
<1>2. AgentTypes'
  BY <1>0, <1>p DEF AgentTypes, WorkerTypes, ControlInv, InUse, Kept
<1>3. ControlInv'
  BY <1>0, <1>p DEF ControlInv, InUse, WorkerTypes, AgentTypes, Paths, Tests
<1>4. OwnedInv'
  BY <1>0, <1>p DEF OwnedInv, ControlInv, InUse, WorkerTypes, AgentTypes, Paths, Kept
<1>5. ResultInv'
  BY <1>0, <1>p DEF ResultInv, OwnedInv, ControlInv, InUse, WorkerTypes, AgentTypes, Tests, Paths, Kept
<1>6. IsolationInv'
  BY <1>0, <1>p DEF IsolationInv, MayShow, Session, ControlInv, InUse, WorkerTypes, AgentTypes, Leftover, Paths, Kept
<1>7. LibraryInv'
  <2>1. \A l \in libs : l \in left
    BY DEF LibraryInv
  <2>2. \A a \in Agents' : agent'[a].net => \E l \in left' : l[2] = a
    BY <1>p, <2>1 DEF LibraryInv, Kept
  <2>3. InSetup' => InSetup
    BY DEF InSetup, WorkerTypes
  <2> QED BY <2>1, <2>2, <2>3 DEF LibraryInv
<1> QED
  BY <1>1, <1>2, <1>3, <1>4, <1>5, <1>6, <1>7 DEF Core

\* The agent in hand was refused.
LEMMA CloseRaisesStep ==
    ASSUME IInv, CloseRaises
    PROVE  Core'
<1> USE DEF IInv, TypeOK, CloseRaises, Fault, fixture, setup
<1>0. /\ Agents = 1 .. Len(agent) /\ Len(agent) \in Nat
      /\ cur # 0 => cur \in Agents
      /\ entry # 0 => entry \in Agents
  BY AgentNumbers
<1>p. /\ Kept /\ cur \in Agents
      /\ agent'[cur].net = \E l \in libs : l[2] = cur
      /\ \A b \in Agents \ {cur} : agent'[b] = agent[b]
  <2>1. cur \in Agents
    BY <1>0 DEF ControlInv, InUse
  <2>2. PICK x \in {"running", "stopped"} : agent' = [agent EXCEPT ![cur] = Closed(x)]
    OBVIOUS
  <2> HIDE DEF Closed
  <2> QED BY <2>1, <2>2, ClosedAgent
<1>1. WorkerTypes'
  BY <1>0, <1>p, BoundAssumption DEF WorkerTypes, ControlInv, Paths, Tests
<1>2. AgentTypes'
  BY <1>0, <1>p DEF AgentTypes, WorkerTypes, ControlInv, InUse, Kept
<1>3. ControlInv'
  BY <1>0, <1>p DEF ControlInv, InUse, WorkerTypes, AgentTypes, Paths, Tests
<1>4. OwnedInv'
  BY <1>0, <1>p DEF OwnedInv, ControlInv, InUse, WorkerTypes, AgentTypes, Paths, Kept
<1>5. ResultInv'
  BY <1>0, <1>p DEF ResultInv, OwnedInv, ControlInv, InUse, WorkerTypes, AgentTypes, Tests, Paths, Kept
<1>6. IsolationInv'
  BY <1>0, <1>p DEF IsolationInv, MayShow, Session, ControlInv, InUse, WorkerTypes, AgentTypes, Leftover, Paths, Kept
<1>7. LibraryInv'
  <2>1. \A l \in libs : l \in left
    BY DEF LibraryInv
  <2>2. \A a \in Agents' : agent'[a].net => \E l \in left' : l[2] = a
    BY <1>p, <2>1 DEF LibraryInv, Kept
  <2>3. InSetup' => InSetup
    BY DEF InSetup, WorkerTypes
  <2> QED BY <2>1, <2>2, <2>3 DEF LibraryInv
<1> QED
  BY <1>1, <1>2, <1>3, <1>4, <1>5, <1>6, <1>7 DEF Core

\* The test sets its own configuration.
LEMMA SetRemoteConfigStep ==
    ASSUME IInv, SetRemoteConfig
    PROVE  Core'
<1> USE DEF IInv, TypeOK, SetRemoteConfig, fixture, outside, setup
<1>0. /\ Agents = 1 .. Len(agent) /\ Len(agent) \in Nat
      /\ cur # 0 => cur \in Agents
      /\ entry # 0 => entry \in Agents
  BY AgentNumbers
<1>p. /\ Kept /\ agent'[cur].rc = test
      /\ \A b \in Agents : agent'[b].data = agent[b].data /\ agent'[b].box = agent[b].box /\ agent'[b].net = agent[b].net
      /\ \A b \in Agents \ {cur} : agent'[b] = agent[b]
  <2>1. cur \in Agents /\ test \in 0 .. MaxTests
    BY <1>0 DEF ControlInv, InUse, WorkerTypes
  <2>2. agent' = [agent EXCEPT ![cur].rc = test]
    OBVIOUS
  <2> QED BY <2>1, <2>2, RcReplaced
<1>1. WorkerTypes'
  BY <1>0, <1>p, BoundAssumption DEF WorkerTypes, ControlInv, Paths, Tests
<1>2. AgentTypes'
  BY <1>0, <1>p DEF AgentTypes, WorkerTypes, ControlInv, InUse, Kept
<1>3. ControlInv'
  BY <1>0, <1>p DEF ControlInv, InUse, WorkerTypes, AgentTypes, Paths, Tests
<1>4. OwnedInv'
  BY <1>0, <1>p DEF OwnedInv, ControlInv, InUse, WorkerTypes, AgentTypes, Paths, Kept
<1>5. ResultInv'
  BY <1>0, <1>p DEF ResultInv, OwnedInv, ControlInv, InUse, WorkerTypes, AgentTypes, Tests, Paths, Kept
<1>6. IsolationInv'
  BY <1>0, <1>p DEF IsolationInv, MayShow, Session, ControlInv, InUse, WorkerTypes, AgentTypes, Leftover, Paths, Kept
<1>7. LibraryInv'
  BY <1>0, <1>p DEF LibraryInv, InSetup, ControlInv, InUse, WorkerTypes, AgentTypes, Paths, Tests, Kept
<1> QED
  BY <1>1, <1>2, <1>3, <1>4, <1>5, <1>6, <1>7 DEF Core

\* A library writes to the agent it was started with.
LEMMA SendStep ==
    ASSUME IInv, NEW l \in libs, NEW k \in {"session", "otlp"}, Send(l, k)
    PROVE  Core'
<1> USE DEF IInv, TypeOK, Send, fixture, outside, setup
<1>0. /\ Agents = 1 .. Len(agent) /\ Len(agent) \in Nat
      /\ cur # 0 => cur \in Agents
      /\ entry # 0 => entry \in Agents
  BY AgentNumbers
<1>p. /\ Kept /\ l[2] \in Agents /\ agent'[l[2]].data = agent[l[2]].data \cup {<<k, l[1]>>}
      /\ \A b \in Agents : agent'[b].rc = agent[b].rc /\ agent'[b].box = agent[b].box /\ agent'[b].net = agent[b].net
      /\ \A b \in Agents \ {l[2]} : agent'[b] = agent[b]
  <2>1. l[2] \in Agents /\ l[1] \in Tests
    BY DEF AgentTypes
  <2>2. agent[l[2]].data \cup {<<k, l[1]>>} \in SUBSET Items
    BY <2>1, AgentNumbers DEF AgentRecord, Items
  <2> DEFINE a == l[2]
             d == agent[l[2]].data \cup {<<k, l[1]>>}
  <2>3. agent' = [agent EXCEPT ![a].data = d]
    OBVIOUS
  <2> HIDE DEF a, d
  <2>4. /\ Kept /\ agent'[a].data = d
        /\ \A b \in Agents : agent'[b].rc = agent[b].rc /\ agent'[b].box = agent[b].box /\ agent'[b].net = agent[b].net
        /\ \A b \in Agents \ {a} : agent'[b] = agent[b]
    <3>1. a \in Agents /\ d \in SUBSET Items
      BY <2>1, <2>2 DEF a, d
    <3> QED BY <2>3, <3>1, DataReplaced
  <2> QED BY <2>1, <2>4 DEF a, d
<1>1. WorkerTypes'
  BY <1>0, <1>p, BoundAssumption DEF WorkerTypes, ControlInv, Paths, Tests
<1>2. AgentTypes'
  BY <1>0, <1>p DEF AgentTypes, WorkerTypes, ControlInv, InUse, Kept
<1>3. ControlInv'
  BY <1>0, <1>p DEF ControlInv, InUse, WorkerTypes, AgentTypes, Paths, Tests
<1>4. OwnedInv'
  BY <1>0, <1>p DEF OwnedInv, ControlInv, InUse, WorkerTypes, AgentTypes, Paths, Kept
<1>5. ResultInv'
  BY <1>0, <1>p DEF ResultInv, OwnedInv, ControlInv, InUse, WorkerTypes, AgentTypes, Tests, Paths, Kept
<1>6. IsolationInv'
  BY <1>0, <1>p DEF LibraryInv, IsolationInv, MayShow, Session, ControlInv, InUse, WorkerTypes, AgentTypes, Leftover, Paths, Kept
<1>7. LibraryInv'
  BY <1>0, <1>p DEF LibraryInv, InSetup, ControlInv, InUse, WorkerTypes, AgentTypes, Paths, Tests, Kept
<1> QED
  BY <1>1, <1>2, <1>3, <1>4, <1>5, <1>6, <1>7 DEF Core

\* A library less runs.
LEMMA LibraryExitsStep ==
    ASSUME IInv, NEW l \in libs, LibraryExits(l)
    PROVE  Core'
<1> USE DEF IInv, TypeOK, LibraryExits, fixture, outside, setup
<1>1. WorkerTypes' /\ ControlInv' /\ ResultInv'
  BY DEF WorkerTypes, ControlInv, ResultInv
<1>2. AgentTypes' /\ OwnedInv'
  BY DEF AgentTypes, OwnedInv, Agents
<1>3. IsolationInv'
  BY DEF IsolationInv, MayShow, Session, Leftover
<1>4. LibraryInv'
  BY DEF LibraryInv, InSetup, Agents
<1> QED
  BY <1>1, <1>2, <1>3, <1>4 DEF Core

\* The test reads the agent, and may empty it.
LEMMA PollStep ==
    ASSUME IInv, NEW clear \in BOOLEAN, Poll(clear)
    PROVE  Core'
<1> USE DEF IInv, TypeOK, Poll, Read, fixture, outside, setup
<1>0. /\ Agents = 1 .. Len(agent) /\ Len(agent) \in Nat
      /\ cur # 0 => cur \in Agents
      /\ entry # 0 => entry \in Agents
  BY AgentNumbers
<1>p. /\ Kept /\ cur \in Agents
      /\ agent'[cur].data \subseteq agent[cur].data /\ agent[cur].data \subseteq Items
      /\ \A b \in Agents : agent'[b].rc = agent[b].rc /\ agent'[b].box = agent[b].box /\ agent'[b].net = agent[b].net
      /\ seen' \subseteq seen \cup agent[cur].data
  <2>1. cur \in Agents /\ {} \in SUBSET Items
    BY <1>0 DEF ControlInv, InUse
  <2>2. agent[cur].data \subseteq Items
    BY <2>1, AgentNumbers DEF AgentRecord
  <2>3. CASE UNCHANGED agent
    BY <2>1, <2>2, <2>3 DEF Kept, Agents, AgentTypes
  <2>4. CASE \E kept \in {{}, Otlp(agent[cur].data)} : agent' = [agent EXCEPT ![cur].data = kept]
    <3>1. PICK kept \in {{}, Otlp(agent[cur].data)} : agent' = [agent EXCEPT ![cur].data = kept]
      BY <2>4
    <3>2. kept \in SUBSET Items /\ kept \subseteq agent[cur].data
      BY <2>2 DEF Otlp
    <3> QED BY <2>1, <2>2, <3>1, <3>2, DataReplaced
  <2> QED BY <2>3, <2>4
<1>1. WorkerTypes'
  BY <1>0, <1>p, BoundAssumption DEF WorkerTypes, ControlInv, Paths, Tests
<1>2. AgentTypes'
  BY <1>0, <1>p DEF AgentTypes, WorkerTypes, ControlInv, InUse, Kept
<1>3. ControlInv'
  BY <1>0, <1>p DEF ControlInv, InUse, WorkerTypes, AgentTypes, Paths, Tests
<1>4. OwnedInv'
  BY <1>0, <1>p DEF OwnedInv, ControlInv, InUse, WorkerTypes, AgentTypes, Paths, Kept
<1>5. ResultInv'
  BY <1>0, <1>p DEF ResultInv, OwnedInv, ControlInv, InUse, WorkerTypes, AgentTypes, Tests, Paths, Kept
<1>6. IsolationInv'
  BY <1>0, <1>p DEF IsolationInv, MayShow, Session, ControlInv, InUse, WorkerTypes, AgentTypes, Leftover, Paths, Kept
<1>7. LibraryInv'
  BY <1>0, <1>p DEF LibraryInv, InSetup, ControlInv, InUse, WorkerTypes, AgentTypes, Paths, Tests, Kept
<1> QED
  BY <1>1, <1>2, <1>3, <1>4, <1>5, <1>6, <1>7 DEF Core

\* An agent that dies keeps what it has.
LEMMA DieStep ==
    ASSUME IInv, NEW a \in Agents, Die(a)
    PROVE  Core'
<1> USE DEF IInv, TypeOK, Die, fixture, setup
<1>0. /\ Agents = 1 .. Len(agent) /\ Len(agent) \in Nat
      /\ cur # 0 => cur \in Agents
      /\ entry # 0 => entry \in Agents
  BY AgentNumbers
<1>p. /\ Kept
      /\ \A b \in Agents : /\ agent'[b].data = agent[b].data /\ agent'[b].rc = agent[b].rc
                           /\ agent'[b].box = agent[b].box /\ agent'[b].net = agent[b].net
  BY AliveReplaced
<1>1. WorkerTypes'
  BY <1>0, <1>p, BoundAssumption DEF WorkerTypes, ControlInv, Paths, Tests
<1>2. AgentTypes'
  BY <1>0, <1>p DEF AgentTypes, WorkerTypes, ControlInv, InUse, Kept
<1>3. ControlInv'
  BY <1>0, <1>p DEF ControlInv, InUse, WorkerTypes, AgentTypes, Paths, Tests
<1>4. OwnedInv'
  BY <1>0, <1>p DEF OwnedInv, ControlInv, InUse, WorkerTypes, AgentTypes, Paths, Kept
<1>5. ResultInv'
  BY <1>0, <1>p DEF ResultInv, OwnedInv, ControlInv, InUse, WorkerTypes, AgentTypes, Tests, Paths, Kept
<1>6. IsolationInv'
  BY <1>0, <1>p DEF IsolationInv, MayShow, Session, ControlInv, InUse, WorkerTypes, AgentTypes, Leftover, Paths, Kept
<1>7. LibraryInv'
  BY <1>0, <1>p DEF LibraryInv, InSetup, ControlInv, InUse, WorkerTypes, AgentTypes, Paths, Tests, Kept
<1> QED
  BY <1>1, <1>2, <1>3, <1>4, <1>5, <1>6, <1>7 DEF Core

-----------------------------------------------------------------------------
(* The theorems.                                                           *)

\* The inductive invariant holds for any number of tests, faults and polls.
THEOREM Invariance == Spec => []IInv
<1>1. IInv /\ [Next]_vars => IInv'
  <2> SUFFICES ASSUME IInv, [Next]_vars PROVE IInv'
    OBVIOUS
  <2>1. CASE Next
    <3>1. Acquire => Core'
      BY ClearStep, ClearOtlpStep, ResetRemoteConfigStep, EvictStep, NewAgentBreaksStep, OpenStep,
         OpenRaisesStep, OpenConflictsStep, InfoStep, CloseStep, CloseRaisesStep
      DEF Acquire
    <3>2. Body => Core'
      BY StartLibraryStep, LeaveStep, PollStep DEF Body
    <3>3. Exit \/ (\E p \in Paths : Begin(p)) => Core'
      BY ExitStep, BeginStep
    <3>4. SetRemoteConfig \/ (\E l \in libs : LibraryExits(l) \/ \E k \in {"session", "otlp"} : Send(l, k)) \/ (\E a \in Agents : Die(a)) => Core'
      BY SetRemoteConfigStep, SendStep, LibraryExitsStep, DieStep
    <3>5. Core'
      BY <2>1, <3>1, <3>2, <3>3, <3>4 DEF Next, Step
    <3>6. faults' \in 0 .. MaxFaults /\ broke' \in BOOLEAN /\ dirty' \in BOOLEAN
      BY <2>1, FlagStep DEF IInv
    <3> QED BY <3>5, <3>6 DEF Core, IInv, TypeOK
  <2>2. CASE UNCHANGED vars
    <3> USE <2>2 DEF vars, fixture, outside, setup
    <3>1. WorkerTypes' /\ AgentTypes'
      BY DEF IInv, TypeOK, WorkerTypes, AgentTypes, Agents
    <3>2. faults' \in 0 .. MaxFaults /\ broke' \in BOOLEAN /\ dirty' \in BOOLEAN
      BY DEF IInv, TypeOK
    <3>3. ControlInv' /\ OwnedInv' /\ ResultInv' /\ LibraryInv' /\ IsolationInv'
      BY DEF IInv, ControlInv, OwnedInv, ResultInv, LibraryInv, InSetup, IsolationInv,
         MayShow, Session, Leftover, Agents
    <3> QED BY <3>1, <3>2, <3>3 DEF IInv, TypeOK
  <2> QED BY <2>1, <2>2
<1> QED
  BY InitIInv, <1>1, PTL DEF Spec

\* Every variable of the pool keeps its type: what is in use, cached or refused
\* is an agent that was created.
THEOREM TypeCorrect == Spec => []TypeOK
<1>1. IInv => TypeOK
  BY DEF IInv
<1> QED
  BY Invariance, <1>1, PTL

\* A test only sees its own requests and configuration, however agents die and
\* are replaced, up to the libraries that docker failed to stop and to the OTLP
\* requests that the reset of this very test left because it ignored a refusal.
THEOREM Isolation == Spec => []TestsAreIsolated
<1>1. IInv => TestsAreIsolated
  BY DEF IInv, IsolationInv, TestsAreIsolated
<1> QED
  BY Invariance, <1>1, PTL

\* An error of a setup comes from that setup, or from what docker refused to
\* remove, an agent of the same kind or the library of an earlier test: no dead
\* agent fails the tests after it.
THEOREM ErrorsAreExplained == Spec => []SetupErrorIsExplained
<1>1. IInv => SetupErrorIsExplained
  BY DEF IInv, ResultInv, SetupErrorIsExplained
<1> QED
  BY Invariance, <1>1, PTL

\* The worker closes every agent it created.
THEOREM NothingIsLeft == Spec => []NoAgentIsLeft
<1>1. IInv => NoAgentIsLeft
  <2> SUFFICES ASSUME IInv, pc = "done", NEW a \in Agents
               PROVE  agent[a].box = "gone" \/ a \in refused
    BY DEF NoAgentIsLeft
  <2>1. entry = 0 /\ cur = 0
    BY DEF IInv, ControlInv, InUse
  <2>2. a # 0
    BY AgentNumbers DEF IInv, TypeOK
  <2> QED BY <2>1, <2>2 DEF IInv, OwnedInv
<1> QED
  BY Invariance, <1>1, PTL
=============================================================================

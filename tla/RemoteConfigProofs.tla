-------------------------- MODULE RemoteConfigProofs --------------------------
(***************************************************************************)
(* Proofs about RemoteConfig, for any number of library processes and      *)
(* files, any bound on the version and any subscriptions.                  *)
(* The argument: the version identifies the payload. Nothing that carries  *)
(* the served version existed before the payload was stored (VersionInv,   *)
(* PollInv), and whatever carries it reports on the served files.          *)
(***************************************************************************)
EXTENDS RemoteConfig, TLAPS

Settled == {"UNACKNOWLEDGED", "ACKNOWLEDGED", "ERROR"}

\* What the test waits for is what the proxy serves, and no process is ahead.
VersionInv ==
    /\ Waiting => wait.version = served.version /\ wait.files = served.files
    /\ served.version <= version
    /\ \A c \in Clients : client[c].version <= served.version

\* A process holds the served files if it has the served version, only files it
\* is subscribed to, and has taken the ones it reports a settled state for.
ClientInv ==
    \A c \in Clients, p \in Paths :
        /\ client[c].states[p] # "none" =>
             /\ c \in subscribers[p]
             /\ client[c].version = served.version => client[c].files[p] = served.files[p]
        /\ client[c].states[p] \in Settled => <<p, client[c].files[p]>> \in taken

\* The same of the report a poll makes, once the process has moved on.
Sound(q) ==
    /\ q.version <= served.version
    /\ \A p \in Paths :
        /\ q.states[p] # "none" => subscribers[p] # {}
        /\ q.version = served.version /\ q.states[p] \in Settled =>
             <<p, served.files[p]>> \in taken

\* Requests in flight and recorded polls are sound, and not ahead of a process.
PollInv ==
    /\ \A c \in Clients : request[c] # NoPoll =>
         Sound(request[c]) /\ request[c].version <= client[c].version
    /\ \A q \in log : Sound(q) /\ \E c \in Clients : q.version <= client[c].version

\* What send_state has collected comes from sound polls of the awaited version.
WaitInv ==
    /\ \A p \in Awaited : wait.states[p] # "none"
    /\ \A p \in Paths :
        /\ wait.states[p] \in Settled =>
             subscribers[p] # {} /\ <<p, wait.files[p]>> \in taken
    /\ AcknowledgedIsCurrent

IInv == TypeOK /\ VersionInv /\ ClientInv /\ PollInv /\ WaitInv

\* The payload with no file, and the report on no file, are well typed.
LEMMA EmptyTypes == NoFiles \in Contents /\ NoReports \in Reports /\ 0 \in Versions
  BY VersionAssumption DEF NoFiles, NoReports, Contents, Reports, Versions

\* Nothing is sent, reported or taken at the start.
LEMMA InitInv == Init => IInv
<1> SUFFICES ASSUME Init PROVE IInv
  OBVIOUS
<1>1. FlagTypes
  BY DEF Init, FlagTypes
<1>2. TestTypes /\ ProxyTypes
  BY EmptyTypes DEF Init, Payload, TestTypes, ProxyTypes
<1>3. ClientTypes /\ LibraryTypes
  BY EmptyTypes DEF Init, ClientTypes, LibraryTypes
<1>4. VersionInv /\ ClientInv /\ PollInv /\ WaitInv
  BY DEF Init, Payload, VersionInv, ClientInv, PollInv, WaitInv, Awaited,
         AcknowledgedIsCurrent, NoFiles, NoReports, Settled
<1> QED
  BY <1>1, <1>2, <1>3, <1>4 DEF IInv, TypeOK

\* Editing the state touches neither the proxy nor the library.
LEMMA EditStep ==
    ASSUME IInv, (\E p \in Paths : SetConfig(p) \/ DelConfig(p)) \/ Reset
    PROVE  IInv'
<1> USE DEF IInv, TypeOK
<1>1. TypeOK'
  <2>1. FlagTypes'
    BY DEF FlagTypes, SetConfig, DelConfig, Reset, test
  <2>2. TestTypes'
    <3>1. targets' \in Contents
      BY EmptyTypes, VersionAssumption
      DEF TestTypes, SetConfig, DelConfig, Reset, Contents, Versions
    <3>2. UNCHANGED <<version, test>>
      BY DEF SetConfig, DelConfig, Reset
    <3> QED BY <3>1, <3>2 DEF TestTypes, test
  <2>3. ProxyTypes'
    BY DEF ProxyTypes, SetConfig, DelConfig, Reset, proxy
  <2>4. ClientTypes'
    BY DEF ClientTypes, SetConfig, DelConfig, Reset, lib
  <2>5. LibraryTypes'
    BY DEF LibraryTypes, SetConfig, DelConfig, Reset, lib
  <2> QED
    BY <2>1, <2>2, <2>3, <2>4, <2>5
<1>2. VersionInv'
  BY DEF VersionInv, SetConfig, DelConfig, Reset, Waiting, test, proxy, lib
<1>3. ClientInv'
  BY DEF ClientInv, SetConfig, DelConfig, Reset, proxy, lib
<1>4. PollInv'
  BY DEF PollInv, Sound, SetConfig, DelConfig, Reset, proxy, lib
<1>5. WaitInv'
  BY DEF WaitInv, Awaited, AcknowledgedIsCurrent, SetConfig, DelConfig, Reset, test, lib
<1> QED
  BY <1>1, <1>2, <1>3, <1>4, <1>5

\* send_state stores a payload nobody has heard of yet.
LEMMA SendStep ==
    ASSUME IInv, NEW a \in BOOLEAN, ApplyEmpties(a) \/ Apply(a) \/ ApplyAfterEmptying
    PROVE  IInv'
<1> USE DEF IInv, TypeOK
<1>a. PICK f \in Contents :
        /\ version + 1 \in Versions /\ version' = version + 1
        /\ targets' \in Contents /\ saved' \in Contents /\ pc' \in {"emptying", "applying"}
        /\ Send(version + 1, f) /\ UNCHANGED <<log, lib>>
  BY EmptyTypes, VersionAssumption
  DEF TestTypes, ApplyEmpties, Apply, ApplyAfterEmptying, SendFiles, Versions
<1>b. [p \in Paths |-> IF f[p] = 0 THEN "none" ELSE "UNKNOWN"] \in Reports
  BY DEF Reports, ApplyState
<1>1. TypeOK'
  <2>1. FlagTypes'
    BY DEF FlagTypes, ApplyEmpties, Apply, ApplyAfterEmptying, SendFiles
  <2>2. TestTypes'
    BY <1>a, <1>b DEF TestTypes, Send
  <2>3. ProxyTypes'
    BY <1>a DEF ProxyTypes, Send, Payload
  <2>4. ClientTypes'
    BY <1>a DEF ClientTypes, lib
  <2>5. LibraryTypes'
    BY <1>a DEF LibraryTypes, lib
  <2> QED
    BY <2>1, <2>2, <2>3, <2>4, <2>5
<1>2. VersionInv'
  BY <1>a DEF Send, Payload, VersionInv, lib, TestTypes, ProxyTypes, ClientTypes, Versions
<1>3. ClientInv'
  BY <1>a DEF Send, Payload, VersionInv, ClientInv, lib, TestTypes, ProxyTypes, Versions
<1>4. PollInv'
  <2>1. ASSUME NEW q \in Polls, Sound(q) PROVE Sound(q)'
    <3>1. q.version < served'.version
      BY <1>a, <2>1 DEF Sound, Send, Payload, VersionInv, Polls, TestTypes, ProxyTypes,
             Versions
    <3>2. q.version <= served'.version /\ q.version # served'.version
      BY <1>a, <3>1 DEF Send, Payload, Polls, Versions
    <3> QED
      BY <1>a, <2>1, <3>2 DEF Sound, lib
  <2> QED
    BY <1>a, <2>1 DEF PollInv, lib, ProxyTypes, LibraryTypes
<1>5. WaitInv'
  BY <1>a DEF Send, WaitInv, AcknowledgedIsCurrent, Awaited, Settled
<1> QED
  BY <1>1, <1>2, <1>3, <1>4, <1>5

\* An exception on the way to the proxy: it may have stored the payload.
LEMMA RaiseStep ==
    ASSUME IInv, ApplyEmptiesRaises \/ ApplyRaises
    PROVE  IInv'
<1> USE DEF IInv, TypeOK
<1>a. PICK f \in Contents :
        /\ version + 1 \in Versions /\ version' = version + 1
        /\ targets' \in Contents /\ saved' \in Contents /\ pc' = "idle"
        /\ served' \in {served, Payload(version + 1, f)} /\ UNCHANGED <<wait, log, lib>>
  BY EmptyTypes, VersionAssumption
  DEF TestTypes, ApplyEmptiesRaises, ApplyRaises, SendRaises, Versions, test
<1>b. UNCHANGED ack
  BY DEF ApplyEmptiesRaises, ApplyRaises, test
<1>c. ~Waiting'
  BY <1>a DEF Waiting
<1>1. TypeOK'
  <2>1. FlagTypes'
    BY DEF FlagTypes, ApplyEmptiesRaises, ApplyRaises, test
  <2>2. TestTypes'
    BY <1>a DEF TestTypes
  <2>3. ProxyTypes'
    BY <1>a DEF ProxyTypes, Payload
  <2>4. ClientTypes'
    BY <1>a DEF ClientTypes, lib
  <2>5. LibraryTypes'
    BY <1>a DEF LibraryTypes, lib
  <2> QED
    BY <2>1, <2>2, <2>3, <2>4, <2>5
<1>2. VersionInv'
  BY <1>a, <1>c DEF Payload, VersionInv, lib, TestTypes, ProxyTypes, ClientTypes, Versions
<1>3. ClientInv'
  BY <1>a DEF Payload, VersionInv, ClientInv, lib, TestTypes, ProxyTypes, Versions
<1>4. PollInv'
  <2>1. ASSUME NEW q \in Polls, Sound(q) PROVE Sound(q)'
    <3>1. CASE served' = served
      BY <1>a, <2>1, <3>1 DEF Sound, lib
    <3>2. CASE served' = Payload(version + 1, f)
      <4>1. q.version < served'.version
        BY <1>a, <2>1, <3>2 DEF Sound, Payload, VersionInv, Polls, TestTypes, ProxyTypes,
               Versions
      <4>2. q.version <= served'.version /\ q.version # served'.version
        BY <1>a, <3>2, <4>1 DEF Payload, Polls, Versions
      <4> QED
        BY <1>a, <2>1, <4>2 DEF Sound, lib
    <3> QED
      BY <1>a, <3>1, <3>2
  <2> QED
    BY <1>a, <2>1 DEF PollInv, lib, ProxyTypes, LibraryTypes
<1>5. WaitInv'
  BY <1>a, <1>b DEF WaitInv, Awaited, AcknowledgedIsCurrent, lib
<1> QED
  BY <1>1, <1>2, <1>3, <1>4, <1>5

\* wait_for looks at a recorded poll.
LEMMA LookStep ==
    ASSUME IInv, NEW q \in log, LookAccepts(q) \/ LookContinues(q)
    PROVE  IInv'
<1> USE DEF IInv, TypeOK
<1>a. Reported(q) \in Reports
  BY DEF TestTypes, ProxyTypes, Reported, Polls, Reports
<1>b. PICK r \in {wait.result, "ACKNOWLEDGED"} :
        /\ wait' = [wait EXCEPT !.states = Reported(q), !.result = r]
        /\ r = wait.result \/ Accepts(q)
        /\ pc' \in {pc, "emptied", "idle"} /\ Waiting
  BY DEF LookAccepts, LookContinues, TestTypes, Returned
<1>c. /\ wait'.version = wait.version /\ wait'.files = wait.files
      /\ wait'.states = Reported(q) /\ wait'.result = r
      /\ wait' \in [version : Versions, files : Contents, states : Reports,
                    result : {"none", "UNKNOWN", "ACKNOWLEDGED"}]
  BY <1>a, <1>b DEF TestTypes
<1>d. UNCHANGED <<state, saved, ack, proxy, lib>>
  BY DEF LookAccepts, LookContinues
<1>1. TypeOK'
  <2>1. FlagTypes'
    BY DEF FlagTypes, LookAccepts, LookContinues, state
  <2>2. TestTypes'
    BY <1>b, <1>c, <1>d DEF TestTypes, state
  <2>3. ProxyTypes'
    BY <1>d DEF ProxyTypes, proxy
  <2>4. ClientTypes'
    BY <1>d DEF ClientTypes, lib
  <2>5. LibraryTypes'
    BY <1>d DEF LibraryTypes, lib
  <2> QED
    BY <2>1, <2>2, <2>3, <2>4, <2>5
<1>2. VersionInv'
  BY <1>b, <1>c, <1>d DEF VersionInv, state, proxy, lib
<1>3. ClientInv'
  BY <1>d DEF ClientInv, proxy, lib
<1>4. PollInv'
  BY <1>d DEF PollInv, Sound, proxy, lib
<1>5. WaitInv'
  <2>1. Awaited' = Awaited
    BY <1>c DEF Awaited
  <2>2. \A p \in Awaited : Reported(q)[p] # "none"
    BY DEF Reported, WaitInv, Awaited
  <2>3. ASSUME NEW p \in Paths, Reported(q)[p] \in Settled
        PROVE  subscribers[p] # {} /\ <<p, wait.files[p]>> \in taken
    BY <1>b, <2>3 DEF Reported, WaitInv, PollInv, Sound, VersionInv
  <2>4. AcknowledgedIsCurrent'
    <3>1. CASE r = wait.result
      BY <1>c, <1>d, <2>1, <3>1 DEF WaitInv, AcknowledgedIsCurrent, lib
    <3>2. CASE Accepts(q)
      <4>1. \E c \in Clients : client[c].version >= wait.version
        BY <3>2 DEF Accepts, PollInv, Polls
      <4>2. ASSUME ack PROVE \A p \in Awaited : <<p, wait.files[p]>> \in taken
        <5>1. \A p \in Awaited : Reported(q)[p] \in Settled
          BY <1>a, <2>2, <3>2, <4>2 DEF Accepts, Settled, Reports, ApplyState, Awaited
        <5> QED
          BY <2>3, <5>1 DEF Awaited
      <4> QED
        BY <1>c, <1>d, <2>1, <4>1, <4>2 DEF AcknowledgedIsCurrent, lib
    <3> QED
      BY <1>b, <3>1, <3>2
  <2> QED
    BY <1>c, <1>d, <2>1, <2>2, <2>3, <2>4 DEF WaitInv, lib
<1> QED
  BY <1>1, <1>2, <1>3, <1>4, <1>5

\* wait_for gives up.
LEMMA TimeoutStep ==
    ASSUME IInv, Timeout
    PROVE  IInv'
<1> USE DEF IInv, TypeOK
<1>1. TypeOK'
  <2>1. FlagTypes'
    BY DEF FlagTypes, Timeout, Returned, state
  <2>2. TestTypes'
    BY DEF TestTypes, Timeout, Returned, state
  <2>3. ProxyTypes'
    BY DEF ProxyTypes, Timeout, Returned, proxy
  <2>4. ClientTypes'
    BY DEF ClientTypes, Timeout, Returned, lib
  <2>5. LibraryTypes'
    BY DEF LibraryTypes, Timeout, Returned, lib
  <2> QED
    BY <2>1, <2>2, <2>3, <2>4, <2>5
<1>2. VersionInv'
  BY DEF VersionInv, Timeout, state, proxy, lib
<1>3. ClientInv'
  BY DEF ClientInv, Timeout, proxy, lib
<1>4. PollInv'
  BY DEF PollInv, Sound, Timeout, proxy, lib
<1>5. WaitInv'
  BY DEF WaitInv, Awaited, AcknowledgedIsCurrent, Timeout, lib
<1> QED
  BY <1>1, <1>2, <1>3, <1>4, <1>5

\* A process sends its current state.
LEMMA RequestStep ==
    ASSUME IInv, NEW c \in Clients, Request(c)
    PROVE  IInv'
<1> USE DEF IInv, TypeOK
<1>1. TypeOK'
  <2>1. FlagTypes'
    BY DEF FlagTypes, Request, state, test
  <2>2. TestTypes'
    BY DEF TestTypes, Request, state, test
  <2>3. ProxyTypes'
    BY DEF ProxyTypes, Request, proxy, Polls
  <2>4. ClientTypes'
    BY DEF ClientTypes, Request, state, test
  <2>5. LibraryTypes'
    BY DEF ClientTypes, LibraryTypes, Request, Polls
  <2> QED
    BY <2>1, <2>2, <2>3, <2>4, <2>5
<1>2. VersionInv'
  BY DEF VersionInv, Request, Waiting, state, test, proxy
<1>3. ClientInv'
  BY DEF ClientInv, Request, proxy, ApplyState
<1>4. PollInv'
  <2> DEFINE q == [version |-> client[c].version, states |-> client[c].states]
  <2>1. Sound(q)
    <3>1. q.version = client[c].version /\ q.states = client[c].states
      OBVIOUS
    <3>2. \A p \in Paths : client[c].states[p] \in Settled => client[c].states[p] # "none"
      BY DEF Settled
    <3> QED
      BY <3>1, <3>2 DEF Sound, ClientInv, VersionInv
  <2>2. q.version <= client[c].version
    BY DEF ClientTypes, Versions
  <2>3. request' = [request EXCEPT ![c] = q] /\ UNCHANGED <<proxy, subscribers, client, taken>>
    BY DEF Request
  <2>4. \A x : Sound(x)' <=> Sound(x)
    BY <2>3 DEF Sound, proxy
  <2> HIDE DEF q
  <2>5. ASSUME NEW d \in Clients, request'[d] # NoPoll
        PROVE  Sound(request'[d]) /\ request'[d].version <= client[d].version
    BY <2>1, <2>2, <2>3, <2>5 DEF PollInv
  <2> QED
    BY <2>3, <2>4, <2>5 DEF PollInv, proxy
<1>5. WaitInv'
  BY DEF WaitInv, Awaited, AcknowledgedIsCurrent, Request, test
<1> QED
  BY <1>1, <1>2, <1>3, <1>4, <1>5

\* The proxy answers, and the process takes the served payload.
LEMMA RespondStep ==
    ASSUME IInv, NEW c \in Clients, Respond(c)
    PROVE  IInv'
<1> USE DEF IInv, TypeOK
<1>a. Gate(c) \in Contents
  BY EmptyTypes DEF Gate, Contents, ProxyTypes
<1>b. Taken(c).states \in Reports
  BY <1>a DEF Taken, Reports, ClientTypes, ApplyState
<1>1. TypeOK'
  <2>1. FlagTypes'
    BY DEF FlagTypes, Respond, state, test
  <2>2. TestTypes'
    BY DEF TestTypes, Respond, state, test
  <2>3. ProxyTypes'
    BY DEF ProxyTypes, LibraryTypes, Respond, Gate
  <2>4. ClientTypes'
    BY <1>a, <1>b DEF Respond, Taken, ClientTypes, ProxyTypes
  <2>5. LibraryTypes'
    BY DEF LibraryTypes, Respond, Taken, Gate
  <2> QED
    BY <2>1, <2>2, <2>3, <2>4, <2>5
<1>2. VersionInv'
  BY DEF VersionInv, Respond, Waiting, Taken, state, test, ProxyTypes, Versions
<1>3. ClientInv'
  BY DEF ClientInv, Settled, Respond, Taken, Gate
<1>4. PollInv'
  BY DEF PollInv, Sound, Respond, Taken
<1>5. WaitInv'
  BY DEF VersionInv, WaitInv, Awaited, AcknowledgedIsCurrent, Respond, Taken, test,
         TestTypes, ProxyTypes, ClientTypes, LibraryTypes, Versions
<1> QED
  BY <1>1, <1>2, <1>3, <1>4, <1>5

\* A process settles a file it holds.
LEMMA SettleStep ==
    ASSUME IInv, NEW c \in Clients, NEW p \in Paths, NEW s \in Outcomes, Settle(c, p, s)
    PROVE  IInv'
<1> USE DEF IInv, TypeOK
<1>a. [client[c].states EXCEPT ![p] = s] \in Reports
  BY ClientAssumption DEF ClientTypes, Reports
<1>b. client' = [client EXCEPT ![c] =
                   [client[c] EXCEPT !.states = [client[c].states EXCEPT ![p] = s]]]
  BY DEF Settle, ClientTypes
<1>c. \A d \in Clients : client'[d].version = client[d].version
  BY <1>b DEF ClientTypes
<1>d. taken \subseteq taken' /\ UNCHANGED <<state, test, proxy, subscribers, request>>
  BY DEF Settle
<1>1. TypeOK'
  <2>1. FlagTypes'
    BY DEF FlagTypes, Settle, state, test
  <2>2. TestTypes'
    BY DEF TestTypes, Settle, state, test
  <2>3. ProxyTypes'
    BY DEF ProxyTypes, Settle, proxy, Polls
  <2>4. ClientTypes'
    BY <1>a, <1>b DEF ClientTypes
  <2>5. LibraryTypes'
    BY DEF ClientTypes, LibraryTypes, Settle, Contents
  <2> QED
    BY <2>1, <2>2, <2>3, <2>4, <2>5
<1>2. VersionInv'
  BY DEF VersionInv, Settle, Waiting, state, test, proxy
<1>3. ClientInv'
  BY DEF ClientInv, Settle, proxy, ApplyState
<1>4. PollInv'
  <2>1. \A q : Sound(q) => Sound(q)'
    BY <1>d DEF Sound, proxy
  <2> QED
    BY <1>c, <1>d, <2>1 DEF PollInv, proxy
<1>5. WaitInv'
  BY DEF WaitInv, Awaited, AcknowledgedIsCurrent, Settle, test, TestTypes
<1> QED
  BY <1>1, <1>2, <1>3, <1>4, <1>5

\* The inductive invariant holds in every reachable state.
THEOREM Invariance == Spec => []IInv
<1>1. IInv /\ [Next]_vars => IInv'
  <2> SUFFICES ASSUME IInv, [Next]_vars PROVE IInv'
    OBVIOUS
  <2>1. CASE UNCHANGED vars
    BY <2>1 DEF vars, state, test, proxy, lib, IInv, TypeOK, FlagTypes, TestTypes,
           ProxyTypes, ClientTypes, LibraryTypes, VersionInv, Waiting, ClientInv, PollInv,
           Sound, WaitInv, Awaited, AcknowledgedIsCurrent
  <2>2. CASE Next
    BY <2>2, EditStep, SendStep, RaiseStep, LookStep, TimeoutStep, RequestStep,
       RespondStep, SettleStep
    DEF Next
  <2> QED
    BY <2>1, <2>2
<1> QED
  BY InitInv, <1>1, PTL DEF Spec

\* Every variable keeps its type: versions stay within what the state counted.
THEOREM TypeCorrect == Spec => []TypeOK
<1>1. IInv => TypeOK
  BY DEF IInv
<1> QED
  BY Invariance, <1>1, PTL

\* send_state never takes a report about an earlier payload for an answer to the
\* current one, however many processes poll and whatever was in flight.
THEOREM NoStaleAcknowledgement == Spec => []AcknowledgedIsCurrent
<1>1. IInv => AcknowledgedIsCurrent
  BY DEF IInv, WaitInv
<1> QED
  BY Invariance, <1>1, PTL

\* A file nobody subscribes to stays UNKNOWN: the gate of the proxy holds for
\* any payload and any set of processes.
THEOREM GateHolds == Spec => []UnsubscribedIsUnknown
<1>1. IInv => UnsubscribedIsUnknown
  BY DEF IInv, TypeOK, TestTypes, WaitInv, UnsubscribedIsUnknown, Awaited, Settled,
         Reports, ApplyState
<1> QED
  BY Invariance, <1>1, PTL

\* A process of the library only moves to later versions.
THEOREM NoRollBack == Spec => NeverRollsBack
<1>1. IInv /\ [Next]_vars => [\A c \in Clients : client'[c].version >= client[c].version]_vars
  <2> SUFFICES ASSUME IInv, Next PROVE \A c \in Clients : client'[c].version >= client[c].version
    OBVIOUS
  <2> USE DEF IInv, TypeOK, ClientTypes, Versions
  <2>1. CASE UNCHANGED client
    BY <2>1
  <2>2. ASSUME NEW c \in Clients, Respond(c) PROVE client'[c].version >= client[c].version
                                                /\ \A d \in Clients \ {c} : client'[d] = client[d]
    BY <2>2 DEF Respond, Taken, VersionInv
  <2>3. ASSUME NEW c \in Clients, NEW p \in Paths, NEW s \in Outcomes, Settle(c, p, s)
        PROVE  \A d \in Clients : client'[d].version = client[d].version
    BY <2>3 DEF Settle
  <2>4. \/ UNCHANGED client
        \/ \E c \in Clients : Respond(c)
        \/ \E c \in Clients, p \in Paths, s \in Outcomes : Settle(c, p, s)
    BY DEF Next, SetConfig, DelConfig, Reset, ApplyEmpties, Apply, ApplyEmptiesRaises,
           ApplyAfterEmptying, ApplyRaises, LookAccepts, LookContinues, Timeout, Request,
           lib
  <2>5. CASE \E c \in Clients : Respond(c)
    BY <2>2, <2>5
  <2>6. CASE \E c \in Clients, p \in Paths, s \in Outcomes : Settle(c, p, s)
    BY <2>3, <2>6
  <2> QED
    BY <2>1, <2>4, <2>5, <2>6
<1> QED
  BY Invariance, <1>1, PTL DEF Spec, NeverRollsBack

\* A process that has the served version holds files of the served payload only; as
\* long as apply empties the library, that payload is empty, and the wait for it
\* ends with an answer or with a timeout.
EmptyInv ==
    /\ \A c \in Clients, p \in Paths :
         client[c].version = served.version => client[c].files[p] \in {0, served.files[p]}
    /\ pc \in {"emptying", "emptied"} =>
         wait.version = version /\ served = Payload(version, NoFiles)
    /\ pc = "emptied" => wait.result \in {"UNKNOWN", "ACKNOWLEDGED"}

\* Only apply stores a payload, always under a new version.
LEMMA NextEmptyInv == IInv /\ EmptyInv /\ [Next]_vars => EmptyInv'
<1> SUFFICES ASSUME IInv, EmptyInv, [Next]_vars PROVE EmptyInv'
  OBVIOUS
<1>0. /\ \A c \in Clients : client[c].version \in Nat /\ client[c].version <= served.version
      /\ served.version \in Nat /\ version \in Nat /\ served.version <= version
  BY VersionAssumption DEF IInv, TypeOK, TestTypes, ProxyTypes, ClientTypes, VersionInv, Versions
<1>1. CASE (\E p \in Paths : SetConfig(p) \/ DelConfig(p)) \/ Reset \/ UNCHANGED vars
  BY <1>1 DEF EmptyInv, SetConfig, DelConfig, Reset, vars, state, test, proxy, lib
<1>2. ASSUME NEW f, served' = Payload(version + 1, f), UNCHANGED client
      PROVE  \A c \in Clients : client'[c].version # served'.version
  BY <1>0, <1>2 DEF Payload
<1>3. ASSUME NEW a \in BOOLEAN, ApplyEmpties(a) PROVE EmptyInv'
  <2>1. /\ served' = Payload(version + 1, NoFiles) /\ wait'.version = version + 1
        /\ version' = version + 1 /\ pc' = "emptying" /\ UNCHANGED client
    BY <1>3 DEF ApplyEmpties, Send, lib
  <2> QED BY <1>2, <2>1 DEF EmptyInv
<1>4. ASSUME NEW a \in BOOLEAN, Apply(a) \/ ApplyAfterEmptying PROVE EmptyInv'
  <2>1. pc' = "applying" /\ UNCHANGED client /\ \E f : served' = Payload(version + 1, f)
    BY <1>4 DEF Apply, ApplyAfterEmptying, SendFiles, Send, lib
  <2> QED BY <1>2, <2>1 DEF EmptyInv
<1>5. CASE ApplyEmptiesRaises \/ ApplyRaises
  <2>1. /\ pc' = "idle" /\ UNCHANGED client
        /\ UNCHANGED served \/ \E f : served' = Payload(version + 1, f)
    BY <1>5 DEF ApplyEmptiesRaises, ApplyRaises, SendRaises, test, lib
  <2> QED BY <1>2, <2>1 DEF EmptyInv
<1>6. ASSUME NEW q \in log, LookAccepts(q) \/ LookContinues(q) PROVE EmptyInv'
  <2>1. wait'.version = wait.version /\ UNCHANGED <<version, served, client>>
    BY <1>6 DEF LookAccepts, LookContinues, IInv, TypeOK, TestTypes, state, proxy, lib
  <2>2. pc' \in {"emptying", "emptied"} => pc \in {"emptying", "emptied"}
    BY <1>6 DEF LookAccepts, LookContinues, Waiting, Returned
  <2>3. pc' = "emptied" => wait'.result = "ACKNOWLEDGED"
    BY <1>6 DEF LookAccepts, LookContinues, Waiting, IInv, TypeOK, TestTypes
  <2> QED BY <2>1, <2>2, <2>3 DEF EmptyInv
<1>7. CASE Timeout
  <2>1. /\ wait'.version = wait.version /\ wait'.result = "UNKNOWN"
        /\ UNCHANGED <<version, served, client>>
    BY <1>7 DEF Timeout, IInv, TypeOK, TestTypes, state, proxy, lib
  <2>2. pc' \in {"emptying", "emptied"} => pc \in {"emptying", "emptied"}
    BY <1>7 DEF Timeout, Waiting, Returned
  <2> QED BY <2>1, <2>2 DEF EmptyInv
<1>8. ASSUME NEW c \in Clients, Request(c) PROVE EmptyInv'
  BY <1>8 DEF EmptyInv, Request, state, test, proxy
<1>9. ASSUME NEW c \in Clients, Respond(c) PROVE EmptyInv'
  <2>1. client' = [client EXCEPT ![c] = Taken(c)] /\ UNCHANGED <<version, pc, wait, served>>
    BY <1>9 DEF Respond, state, test
  <2>2. \A p \in Paths : Taken(c).files[p] \in {0, served.files[p]}
    BY DEF Taken, Gate
  <2> QED BY <2>1, <2>2 DEF EmptyInv, IInv, TypeOK, ClientTypes
<1>10. ASSUME NEW c \in Clients, NEW p \in Paths, NEW s \in Outcomes, Settle(c, p, s)
       PROVE  EmptyInv'
  <2>1. UNCHANGED <<version, pc, wait, served>>
    BY <1>10 DEF Settle, state, test, proxy
  <2>2. \A d \in Clients : client'[d].version = client[d].version /\ client'[d].files = client[d].files
    BY <1>10 DEF Settle, IInv, TypeOK, ClientTypes
  <2> QED BY <2>1, <2>2 DEF EmptyInv
<1> QED
  BY <1>1, <1>3, <1>4, <1>5, <1>6, <1>7, <1>8, <1>9, <1>10 DEF Next

\* After a reset, apply sends new files to Go and Java only once some process has
\* been seen without any file, or the wait for that has timed out.
THEOREM EmptiesFirstHolds == Spec => EmptiedBeforeReload
<1> DEFINE Reload ==
        (pc' = "applying" /\ pc # "applying" /\ NeedsEmptying /\ resetPending
           /\ wait'.files # NoFiles /\ ~(pc = "emptied" /\ wait.result = "UNKNOWN"))
          => \E c \in Clients : client[c].version = version /\ client[c].files = NoFiles
<1>1. Init => EmptyInv
  BY DEF Init, EmptyInv, NoFiles, Payload
<1>2. IInv /\ EmptyInv /\ [Next]_vars => [Reload]_vars
  <2> SUFFICES ASSUME IInv, EmptyInv, [Next]_vars, pc' = "applying", pc # "applying",
                      NeedsEmptying, resetPending, wait'.files # NoFiles,
                      ~(pc = "emptied" /\ wait.result = "UNKNOWN")
               PROVE  \E c \in Clients : client[c].version = version /\ client[c].files = NoFiles
    OBVIOUS
  <2>1. ApplyAfterEmptying \/ \E a \in BOOLEAN : Apply(a)
    BY DEF Next, SetConfig, DelConfig, Reset, ApplyEmpties, ApplyEmptiesRaises, ApplyRaises,
           LookAccepts, LookContinues, Timeout, Returned, Request, Respond, Settle, vars, test
  <2>2. ASSUME NEW a \in BOOLEAN, Apply(a) PROVE FALSE
    <3>1. wait'.files = targets /\ targets = NoFiles
      BY <2>2 DEF Apply, EmptiesFirst, SendFiles, Send
    <3> QED BY <3>1
  <2>3. pc = "emptied"
    BY <2>1, <2>2 DEF ApplyAfterEmptying
  <2>4. /\ wait.result = "ACKNOWLEDGED" /\ wait.version = version
        /\ served.version = version /\ served.files = NoFiles
    BY <2>3 DEF EmptyInv, Payload
  <2>5. PICK c \in Clients : client[c].version >= version
    BY <2>4 DEF IInv, WaitInv, AcknowledgedIsCurrent
  <2>6. client[c].version = version
    BY <2>4, <2>5 DEF IInv, TypeOK, TestTypes, ClientTypes, VersionInv, Versions
  <2>7. \A p \in Paths : client[c].files[p] = 0
    BY <2>4, <2>6 DEF EmptyInv, NoFiles
  <2>8. client[c].files = NoFiles
    BY <2>7 DEF IInv, TypeOK, ClientTypes, Contents, NoFiles
  <2> QED BY <2>6, <2>8
<1> QED
  BY <1>1, <1>2, NextEmptyInv, Invariance, PTL DEF Spec, EmptiedBeforeReload
=============================================================================

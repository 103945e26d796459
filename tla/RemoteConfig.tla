----------------------------- MODULE RemoteConfig -----------------------------
(***************************************************************************)
(* Remote configuration through the proxy, utils/_remote_config.py and     *)
(* utils/proxy. A test edits the files of a _RemoteConfigState and applies *)
(* it: send_state stores the payload in the proxy, which from then on      *)
(* answers every poll of /v0.7/config with it, and waits until a recorded  *)
(* poll shows that the library took it. The library is external: each of   *)
(* its processes polls with its current state, takes the response and      *)
(* settles the new files one by one.                                       *)
(* A file's content is its config_file_version, 0 standing for no file.    *)
(***************************************************************************)
EXTENDS Naturals

CONSTANTS
    Clients,        \* processes of the library that poll
    Paths,          \* paths of the configuration files, each with its own id
    Outcomes,       \* apply_states the library may settle a file in
    NeedsEmptying,  \* context.library.name in ("golang", "java")
    MaxVersion,     \* bound: version of the state
    NoPoll          \* a client has no request in flight

Versions   == 0 .. MaxVersion
ApplyState == {"UNKNOWN", "UNACKNOWLEDGED", "ACKNOWLEDGED", "ERROR"}
Contents   == [Paths -> Versions]
Reports    == [Paths -> ApplyState \cup {"none"}]
Polls      == [version : Versions, states : Reports]

ASSUME ClientAssumption ==
    Outcomes \subseteq ApplyState \ {"UNKNOWN"} /\ NoPoll \notin Polls
ASSUME VersionAssumption == MaxVersion \in Nat /\ NeedsEmptying \in BOOLEAN

VARIABLES
    targets,       \* _RemoteConfigState.targets
    version,       \* _RemoteConfigState.version
    resetPending,  \* _RemoteConfigState._reset_pending
    pc,            \* where apply is
    saved,         \* apply's copy of targets while it empties the library
    ack,           \* wait_for_acknowledged_status
    wait,          \* the current, or last, send_state: its payload and results
    served,        \* the payload the proxy answers with
    log,           \* the recorded polls
    subscribers,   \* the clients subscribed to the product of each path
    client,        \* each client: targets_version, contents and their states
    request,       \* each client's poll in flight
    taken          \* history: contents a client left the UNKNOWN state for

state == <<targets, version, resetPending>>
test  == <<pc, saved, ack, wait>>
proxy == <<served, log>>
lib   == <<subscribers, client, request, taken>>
vars  == <<state, test, proxy, lib>>

NoFiles   == [p \in Paths |-> 0]
NoReports == [p \in Paths |-> "none"]
Awaited   == {p \in Paths : wait.files[p] # 0}

\* to_payload: the signed version, and the files with their contents.
Payload(v, files) == [version |-> v, files |-> files]

Init ==
    /\ targets = NoFiles /\ version = 0 /\ resetPending = FALSE
    /\ pc = "idle" /\ saved = NoFiles /\ ack = TRUE
    /\ wait = [version |-> 0, files |-> NoFiles, states |-> NoReports, result |-> "none"]
    /\ served = Payload(0, NoFiles)
    /\ log = {}
    /\ subscribers \in [Paths -> SUBSET Clients]
    /\ client = [c \in Clients |->
                   [version |-> 0, files |-> NoFiles, states |-> NoReports]]
    /\ request = [c \in Clients |-> NoPoll]
    /\ taken = {}

-----------------------------------------------------------------------------
(* The test edits the state.                                               *)

SetConfig(p) ==
    /\ pc = "idle"
    /\ version < MaxVersion
    /\ targets' = [targets EXCEPT ![p] = version + 1]
    /\ UNCHANGED <<version, resetPending, test, proxy, lib>>

DelConfig(p) ==
    /\ pc = "idle"
    /\ targets[p] # 0
    /\ targets' = [targets EXCEPT ![p] = 0]
    /\ UNCHANGED <<version, resetPending, test, proxy, lib>>

\* Fault: reset also starts the versions again.
ResetToZero ==
    /\ pc = "idle"
    /\ targets' = NoFiles
    /\ resetPending' = TRUE
    /\ version' = 0
    /\ UNCHANGED <<test, proxy, lib>>

Reset ==
    /\ pc = "idle"
    /\ targets' = NoFiles
    /\ resetPending' = TRUE
    /\ UNCHANGED <<version, test, proxy, lib>>

-----------------------------------------------------------------------------
(* apply and send_state.                                                   *)

\* send_state up to wait_for: the payload replaces the proxy's mocked response,
\* no file has a known response yet.
Send(v, files) ==
    /\ served' = Payload(v, files)
    /\ wait' = [version |-> v, files |-> files,
                states |-> [p \in Paths |-> IF files[p] = 0 THEN "none" ELSE "UNKNOWN"],
                result |-> "none"]

\* Fault: the library's name is not looked at, no library is ever emptied.
EmptiesNever == FALSE

\* Go and Java are sent an empty payload first when a reset is pending.
EmptiesFirst == resetPending /\ targets # NoFiles /\ NeedsEmptying

ApplyEmpties(a) ==
    /\ pc = "idle"
    /\ EmptiesFirst
    /\ version + 2 <= MaxVersion
    /\ ack' = a
    /\ saved' = targets
    /\ targets' = NoFiles
    /\ version' = version + 1
    /\ pc' = "emptying"
    /\ Send(version + 1, NoFiles)
    /\ UNCHANGED <<resetPending, log, lib>>

\* The request to the proxy raises: the proxy refused the payload, or its answer
\* was lost after it had stored it.
SendRaises(v, files) == served' \in {served, Payload(v, files)}

\* An exception on the empty payload leaves apply before the files are put back.
ApplyEmptiesRaises ==
    /\ pc = "idle"
    /\ EmptiesFirst
    /\ version < MaxVersion
    /\ targets' = NoFiles
    /\ version' = version + 1
    /\ SendRaises(version + 1, NoFiles)
    /\ UNCHANGED <<resetPending, test, log, lib>>

\* The end of apply, with the files the test has set.
SendFiles(files) ==
    /\ version < MaxVersion
    /\ resetPending' = FALSE
    /\ version' = version + 1
    /\ targets' = files
    /\ pc' = "applying"
    /\ Send(version + 1, files)

Apply(a) ==
    /\ pc = "idle"
    /\ ~EmptiesFirst
    /\ ack' = a
    /\ SendFiles(targets)
    /\ UNCHANGED <<saved, log, lib>>

ApplyAfterEmptying ==
    /\ pc = "emptied"
    /\ SendFiles(saved)
    /\ saved' = NoFiles
    /\ UNCHANGED <<ack, log, lib>>

\* An exception on the files: the version and the flag have changed.
ApplyRaises ==
    /\ version < MaxVersion
    /\ \/ pc = "idle" /\ ~EmptiesFirst /\ UNCHANGED targets
       \/ pc = "emptied" /\ targets' = saved
    /\ resetPending' = FALSE
    /\ version' = version + 1
    /\ saved' = NoFiles
    /\ pc' = "idle"
    /\ SendRaises(version + 1, targets')
    /\ UNCHANGED <<ack, wait, log, lib>>

Waiting == pc \in {"emptying", "applying"}

\* Where send_state returns to.
Returned == IF pc = "emptying" THEN "emptied" ELSE "idle"

\* The states known after a poll: it is of the awaited version, and the last
\* report on a file wins.
Reported(q) ==
    [p \in Paths |-> IF p \in Awaited /\ q.version = wait.version /\ q.states[p] # "none"
                     THEN q.states[p] ELSE wait.states[p]]

\* Fault: the version of the poll is not compared.
AcceptsAnyVersion(q) ==
    IF Awaited = {} THEN q.states = NoReports
    ELSE \A p \in Awaited : q.states[p] \notin {"none", "UNKNOWN"}

\* Fault: state_version is not passed, an empty payload waits for version -1.
AcceptsDefaultVersion(q) ==
    /\ q.version = wait.version
    /\ Awaited # {}
    /\ ack => \A p \in Awaited : Reported(q)[p] # "UNKNOWN"

\* remote_config_applied, once the reports of poll q have been recorded.
Accepts(q) ==
    /\ q.version = wait.version
    /\ IF Awaited = {} THEN q.states = NoReports
       ELSE ack => \A p \in Awaited : Reported(q)[p] # "UNKNOWN"

\* wait_for calls remote_config_applied on the recorded polls, the ones recorded
\* before the wait included. Their order is left open, and a poll may be looked
\* at again: a client repeats its poll as long as nothing changes.
LookAccepts(q) ==
    /\ Waiting
    /\ Accepts(q)
    /\ wait' = [wait EXCEPT !.states = Reported(q), !.result = "ACKNOWLEDGED"]
    /\ pc' = Returned
    /\ UNCHANGED <<state, saved, ack, proxy, lib>>

LookContinues(q) ==
    /\ Waiting
    /\ ~Accepts(q)
    /\ wait' = [wait EXCEPT !.states = Reported(q)]
    /\ UNCHANGED <<state, pc, saved, ack, proxy, lib>>

\* wait_for gives up after APPLY_TIMEOUT; apply carries on in the same way.
Timeout ==
    /\ Waiting
    /\ wait' = [wait EXCEPT !.result = "UNKNOWN"]
    /\ pc' = Returned
    /\ UNCHANGED <<state, saved, ack, proxy, lib>>

-----------------------------------------------------------------------------
(* The library and the proxy.                                              *)

Request(c) ==
    /\ request[c] = NoPoll
    /\ request' = [request EXCEPT ![c] =
                     [version |-> client[c].version, states |-> client[c].states]]
    /\ UNCHANGED <<state, test, proxy, subscribers, client, taken>>

\* Fault: the response holds the files of every product.
GateNothing(c) == served.files

\* The response holds only the files of the products the client asks for. (One
\* whose request has no list of products is outside: it is sent all of them.)
Gate(c) == [p \in Paths |-> IF c \in subscribers[p] THEN served.files[p] ELSE 0]

\* What a client is after it has received the served payload.
Taken(c) ==
    [version |-> served.version,
     files   |-> Gate(c),
     states  |-> [p \in Paths |->
                    CASE Gate(c)[p] = 0 -> "none"
                      [] Gate(c)[p] # 0 /\ Gate(c)[p] = client[c].files[p] -> client[c].states[p]
                      [] OTHER -> "UNKNOWN"]]

\* The proxy overwrites the agent's response and records the poll.
Respond(c) ==
    /\ request[c] # NoPoll
    /\ log' = log \cup {request[c]}
    /\ request' = [request EXCEPT ![c] = NoPoll]
    /\ client' = [client EXCEPT ![c] = Taken(c)]
    /\ UNCHANGED <<state, test, served, subscribers, taken>>

\* The client starts on a file, finishes with it, or fails.
Settle(c, p, s) ==
    /\ \/ client[c].states[p] = "UNKNOWN" /\ s \in Outcomes
       \/ client[c].states[p] = "UNACKNOWLEDGED" /\ s \in Outcomes \ {"UNACKNOWLEDGED"}
    /\ client' = [client EXCEPT ![c].states[p] = s]
    /\ taken' = taken \cup {<<p, client[c].files[p]>>}
    /\ UNCHANGED <<state, test, proxy, subscribers, request>>

Next ==
    \/ \E p \in Paths : SetConfig(p) \/ DelConfig(p)
    \/ Reset
    \/ \E a \in BOOLEAN : ApplyEmpties(a) \/ Apply(a)
    \/ ApplyEmptiesRaises \/ ApplyAfterEmptying \/ ApplyRaises
    \/ \E q \in log : LookAccepts(q) \/ LookContinues(q)
    \/ Timeout
    \/ \E c \in Clients : Request(c) \/ Respond(c)
    \/ \E c \in Clients, p \in Paths, s \in Outcomes : Settle(c, p, s)

Spec == Init /\ [][Next]_vars

\* The library keeps polling and does not leave a file in the UNKNOWN state for
\* ever, the proxy answers, and a recorded poll that ends the wait is looked at.
Fairness ==
    /\ WF_vars(\E q \in log : LookAccepts(q))
    /\ \A c \in Clients : WF_vars(Request(c)) /\ WF_vars(Respond(c))
    /\ \A c \in Clients, p \in Paths : WF_vars(\E s \in Outcomes : Settle(c, p, s))

FairSpec == Spec /\ Fairness

-----------------------------------------------------------------------------
(* Properties.                                                             *)

FlagTypes == resetPending \in BOOLEAN /\ ack \in BOOLEAN

TestTypes ==
    /\ targets \in Contents /\ version \in Versions
    /\ pc \in {"idle", "emptying", "emptied", "applying"}
    /\ saved \in Contents
    /\ wait \in [version : Versions, files : Contents, states : Reports,
                 result : {"none", "UNKNOWN", "ACKNOWLEDGED"}]

ProxyTypes == served \in [version : Versions, files : Contents] /\ log \subseteq Polls

ClientTypes ==
    client \in [Clients -> [version : Versions, files : Contents, states : Reports]]

LibraryTypes ==
    /\ subscribers \in [Paths -> SUBSET Clients]
    /\ request \in [Clients -> Polls \cup {NoPoll}]
    /\ taken \subseteq Paths \X Versions

\* The variables keep their types: in particular every version stays within the
\* ones the state has counted, and a poll reports on known files only.
TypeOK == FlagTypes /\ TestTypes /\ ProxyTypes /\ ClientTypes /\ LibraryTypes

\* When send_state says ACKNOWLEDGED, some process of the library has received
\* this very version, and, if the test asked for acknowledgement, some process
\* has started on exactly the content that was sent of each file: neither a
\* poll recorded for an earlier payload nor a request that was in flight when
\* the payload was stored can end the wait.
AcknowledgedIsCurrent ==
    wait.result = "ACKNOWLEDGED" =>
        /\ \E c \in Clients : client[c].version >= wait.version
        /\ ack => \A p \in Awaited : <<p, wait.files[p]>> \in taken

\* A file whose product no process subscribes to is never counted as
\* acknowledged: the proxy gates the response, so its state stays UNKNOWN.
UnsubscribedIsUnknown ==
    \A p \in Awaited : subscribers[p] = {} => wait.states[p] = "UNKNOWN"

\* Go and Java, after a reset: unless the emptying wait timed out, some process
\* of the library holds no file at all when apply sends the new ones, so that
\* what was loaded before has been deactivated there.
EmptiedBeforeReload ==
    [][(pc' = "applying" /\ pc # "applying" /\ NeedsEmptying /\ resetPending
          /\ wait'.files # NoFiles /\ ~(pc = "emptied" /\ wait.result = "UNKNOWN"))
         => \E c \in Clients : client[c].version = version /\ client[c].files = NoFiles]_vars

\* No process of the library is ever sent back to an earlier version of the
\* state, whatever was in flight when a new payload was stored.
NeverRollsBack ==
    [][\A c \in Clients : client'[c].version >= client[c].version]_vars

\* As long as every awaited file has a subscribed process, the wait ends even
\* if it never times out: what the library will report is enough for send_state.
EventuallyApplied ==
    (Waiting /\ \A p \in Awaited : subscribers[p] # {}) ~> ~Waiting
=============================================================================

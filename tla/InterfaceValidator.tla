-------------------------- MODULE InterfaceValidator --------------------------
(***************************************************************************)
(* One ProxyBasedInterfaceValidator of utils/interfaces/_core.py and the   *)
(* threads that share it:                                                  *)
(*   - the request threads of a recorder (the proxy, or the mocked         *)
(*     backend), which number each request and write it to a JSON file;    *)
(*     when the mocked backend runs inside the pytest process they also    *)
(*     hand the message to the validator (_on_message);                    *)
(*   - the polling emitter and the dispatching thread of the watchdog,     *)
(*     which call ingest_file on the created or modified files;            *)
(*   - the pytest main thread, which calls wait_for, ingest_all_files and  *)
(*     check_deserialization_errors.                                       *)
(* A wait_for_function is the outcome it gives on each message.            *)
(***************************************************************************)
EXTENDS Naturals, Sequences, FiniteSets

CONSTANTS
    N,           \* bound: number of recorded messages; message m has number m
    Handlers,    \* request threads of the recorder
    Watchdog,    \* the dispatching thread of the PollingObserver
    Main,        \* the pytest main thread
    NoThread,    \* the lock is free
    NoFunction,  \* _wait_for_function is None
    Functions,   \* the wait_for_functions the tests may use
    Bad,         \* messages whose content could not be deserialised
    MaxWaits,    \* bound: number of calls to wait_for
    Modes        \* how the validator may be fed (see mode)

Messages == 1 .. N
Outcome  == {"true", "false", "raise"}
Threads  == Handlers \cup {Watchdog, Main}

ASSUME NAssumption == N \in Nat
\* The entries are sorted by the names of their files, as strings. The names begin
\* with the number, on three digits in the mocked backend and on five in the proxy:
\* up to here, and not beyond, their order is that of the numbers.
ASSUME NameAssumption == N <= 999
ASSUME ThreadAssumption ==
    /\ Watchdog \notin Handlers /\ Main \notin Handlers /\ Main # Watchdog
    /\ NoThread \notin Threads
ASSUME FunctionAssumption ==
    Functions \subseteq [Messages -> Outcome] /\ NoFunction \notin Functions
ASSUME BadAssumption == Bad \subseteq Messages
ASSUME ModeAssumption ==
    MaxWaits \in Nat /\ Modes \subseteq {"watched", "drained", "direct"}

VARIABLES
    mode,       \* fed by the watchdog; by the watchdog and, before the final
                \* check, by ingest_all_files; or by the mocked backend in the
                \* pytest process, without a watchdog
    disk,       \* state of each recorded file
    next,       \* number of the next message (message_count + 1)
    recording,  \* the recorder accepts requests
    seen,       \* state of each file in the emitter's last snapshot
    pending,    \* files with an event in the observer's queue
    pc,         \* where each thread is
    msg,        \* the message a thread is handling
    lock,       \* owner of _lock
    list,       \* _data_list
    ingested,   \* _ingested_files
    fn,         \* _wait_for_function
    event,      \* _wait_for_event
    ready,      \* the ready event
    dead,       \* the dispatching thread was killed by an exception
    wait,       \* the current, or last, call to wait_for
    waits,      \* number of calls to wait_for so far
    walk        \* the in-place walk of check_deserialization_errors

disks == <<disk, next, recording>>
polls == <<seen, pending>>
store == <<lock, list, ingested>>
waitvars == <<wait, waits>>
vars == <<mode, disks, polls, pc, msg, store, fn, event, ready, dead, waitvars, walk>>

\* The in-place walk: the index it reached, what the list held when it began
\* (a history variable), and how it ended.
NoWalk == [idx |-> 0, present |-> {}, status |-> "none"]
NoWait == [f |-> NoFunction, result |-> "none", stale |-> FALSE]

InProcess == mode = "direct"
Drains    == mode = "drained"

Contents(s) == {s[i] : i \in DOMAIN s}

\* Fault: the new entry takes the place of the last one.
InsertOverwrites(s, m) ==
    IF s = <<>> THEN <<m>> ELSE [s EXCEPT ![Len(s)] = m]

\* list.append followed by the sort on log_filename (by number: NameAssumption),
\* on a list that was already sorted: the new entry goes after the entries not
\* larger than it.
Position(s, m) == Cardinality({i \in DOMAIN s : s[i] <= m})

Insert(s, m) ==
    [i \in 1 .. Len(s) + 1 |->
        IF i <= Position(s, m) THEN s[i]
        ELSE IF i = Position(s, m) + 1 THEN m ELSE s[i - 1]]

Init ==
    /\ mode \in Modes
    /\ disk = [m \in Messages |-> "absent"]
    /\ next = 1
    /\ recording = TRUE
    /\ seen = [m \in Messages |-> "absent"]
    /\ pending = {}
    /\ pc = [t \in Threads |-> "idle"]
    /\ msg = [t \in Threads |-> 0]
    /\ lock = NoThread
    /\ list = <<>>
    /\ ingested = {}
    /\ fn = NoFunction
    /\ event = FALSE
    /\ ready = FALSE
    /\ dead = FALSE
    /\ wait = NoWait
    /\ waits = 0
    /\ walk = NoWalk

Goto(t, from, to) == pc[t] = from /\ pc' = [pc EXCEPT ![t] = to]

-----------------------------------------------------------------------------
(* The recorder: number the request, write its file, then pass it on.      *)

Number(h) ==
    /\ Goto(h, "idle", "create")
    /\ recording
    /\ next <= N
    /\ msg' = [msg EXCEPT ![h] = next]
    /\ next' = next + 1
    /\ UNCHANGED <<mode, disk, recording, polls, store, fn, event, ready, dead, waitvars, walk>>

Create(h) ==
    /\ Goto(h, "create", "write")
    /\ disk' = [disk EXCEPT ![msg[h]] = "partial"]
    /\ UNCHANGED <<mode, next, recording, polls, msg, store, fn, event, ready, dead, waitvars, walk>>

Write(h) ==
    /\ Goto(h, "write", IF InProcess THEN "onmessage" ELSE "idle")
    /\ disk' = [disk EXCEPT ![msg[h]] = "complete"]
    /\ UNCHANGED <<mode, next, recording, polls, msg, store, fn, event, ready, dead, waitvars, walk>>

\* The container is stopped: its threads end wherever they are. In the pytest
\* process only new requests stop, the (daemon) request threads carry on.
StopRecorder ==
    /\ recording
    /\ pc[Main] = "idle"
    /\ recording' = FALSE
    /\ pc' = [t \in Threads |->
                IF t \in Handlers /\ ~InProcess THEN "gone" ELSE pc[t]]
    /\ UNCHANGED <<mode, disk, next, polls, msg, store, fn, event, ready, dead, waitvars, walk>>

-----------------------------------------------------------------------------
(* The watchdog.                                                           *)

\* The emitter compares a directory snapshot with the previous one.
Poll(m) ==
    /\ ~InProcess
    /\ disk[m] # seen[m]
    /\ seen' = [seen EXCEPT ![m] = disk[m]]
    /\ pending' = pending \cup {m}
    /\ UNCHANGED <<mode, disks, pc, msg, store, fn, event, ready, dead, waitvars, walk>>

Dispatch(m) ==
    /\ Goto(Watchdog, "idle", "enter")
    /\ ~dead
    /\ m \in pending
    /\ msg' = [msg EXCEPT ![Watchdog] = m]
    /\ pending' = pending \ {m}
    /\ ready' = TRUE
    /\ UNCHANGED <<mode, disks, seen, store, fn, event, dead, waitvars, walk>>

-----------------------------------------------------------------------------
(* ingest_file, called by the watchdog, and by the main thread from         *)
(* ingest_all_files.                                                        *)

\* Where a thread goes once ingest_file has returned.
Back(t) == IF t = Main THEN "drain" ELSE "idle"

\* Fault: a file that is not finished is put among the ingested ones as well.
IngestSkipMarks(t) ==
    /\ Goto(t, "enter", Back(t))
    /\ lock = NoThread
    /\ msg[t] \in ingested \/ disk[msg[t]] = "partial"
    /\ ingested' = ingested \cup {msg[t]}
    /\ UNCHANGED <<mode, disks, polls, msg, lock, list, fn, event, ready, dead, waitvars, walk>>

IngestSkip(t) ==
    /\ Goto(t, "enter", Back(t))
    /\ lock = NoThread
    /\ msg[t] \in ingested \/ disk[msg[t]] = "partial"
    /\ UNCHANGED <<mode, disks, polls, msg, store, fn, event, ready, dead, waitvars, walk>>

\* Fault: _ingested_files is filled and not consulted.
IngestAppendNoDedup(t) ==
    /\ Goto(t, "enter", "sort")
    /\ lock = NoThread
    /\ disk[msg[t]] = "complete"
    /\ lock' = t
    /\ ingested' = ingested \cup {msg[t]}
    /\ UNCHANGED <<mode, disks, polls, msg, list, fn, event, ready, dead, waitvars, walk>>

IngestAppend(t) ==
    /\ Goto(t, "enter", "sort")
    /\ lock = NoThread
    /\ msg[t] \notin ingested
    /\ disk[msg[t]] = "complete"
    /\ lock' = t
    /\ ingested' = ingested \cup {msg[t]}
    /\ UNCHANGED <<mode, disks, polls, msg, list, fn, event, ready, dead, waitvars, walk>>

\* _on_message of the in-process mocked backend: no _ingested_files.
OnMessage(t) ==
    /\ Goto(t, "onmessage", "sort")
    /\ lock = NoThread
    /\ lock' = t
    /\ UNCHANGED <<mode, disks, polls, msg, list, ingested, fn, event, ready, dead, waitvars, walk>>

\* Fault: the entry is added without notifying wait_for.
SortEndNoNotify(t) ==
    /\ Goto(t, "sort", Back(t))
    /\ list' = Insert(list, msg[t])
    /\ lock' = NoThread
    /\ UNCHANGED <<mode, disks, polls, msg, ingested, fn, event, ready, dead, waitvars, walk>>

\* Append, then sort, under the lock. CPython empties a list while it sorts it,
\* which only an unlocked reader can notice (see Visible).
SortEnd(t) ==
    /\ Goto(t, "sort", "test")
    /\ list' = Insert(list, msg[t])
    /\ lock' = NoThread
    /\ UNCHANGED <<mode, disks, polls, msg, ingested, fn, event, ready, dead, waitvars, walk>>

TestFunction(t) ==
    /\ Goto(t, "test", IF fn = NoFunction THEN Back(t) ELSE "call")
    /\ UNCHANGED <<mode, disks, polls, msg, store, fn, event, ready, dead, waitvars, walk>>

\* The attribute is read a second time: it may have changed since.
CallFunction(t) ==
    /\ pc[t] = "call"
    /\ fn # NoFunction /\ fn[msg[t]] # "raise"
    /\ pc' = [pc EXCEPT ![t] = IF fn[msg[t]] = "true" THEN "set" ELSE Back(t)]
    /\ UNCHANGED <<mode, disks, polls, msg, store, fn, event, ready, dead, waitvars, walk>>

\* The call raises, or None is called: the exception ends a request thread's
\* request, but kills the dispatching thread.
CallRaises(t) ==
    /\ Goto(t, "call", Back(t))
    /\ fn # NoFunction => fn[msg[t]] = "raise"
    /\ dead' = (dead \/ t = Watchdog)
    /\ UNCHANGED <<mode, disks, polls, msg, store, fn, event, ready, waitvars, walk>>

SetEvent(t) ==
    /\ Goto(t, "set", Back(t))
    /\ event' = TRUE
    /\ UNCHANGED <<mode, disks, polls, msg, store, fn, ready, dead, waitvars, walk>>

-----------------------------------------------------------------------------
(* wait_for, called by the main thread.                                    *)

WaitForCall(f, result) ==
    /\ pc[Main] = "idle"
    /\ waits < MaxWaits
    /\ lock = NoThread
    /\ waits' = waits + 1
    /\ wait' = [f |-> f, result |-> result,
                stale |-> \E t \in Threads : pc[t] = "set"]

\* The scan of the existing data stops on the first entry that is not "false".
ScanStopsAt(f, i) == f[list[i]] # "false" /\ \A j \in 1 .. i - 1 : f[list[j]] = "false"

WaitForExisting(f) ==
    /\ \E i \in DOMAIN list : ScanStopsAt(f, i) /\ WaitForCall(f, f[list[i]])
    /\ UNCHANGED <<mode, disks, polls, pc, msg, store, fn, event, ready, dead, walk>>

\* Fault: wait_for does not look at the existing data.
WaitForInstallNoScan(f) ==
    /\ WaitForCall(f, "none")
    /\ Goto(Main, "idle", "wait")
    /\ event' = FALSE
    /\ fn' = f
    /\ UNCHANGED <<mode, disks, polls, msg, store, ready, dead, walk>>

\* Fault: the event of the previous wait is not cleared.
WaitForInstallNoClear(f) ==
    /\ \A m \in Contents(list) : f[m] = "false"
    /\ WaitForCall(f, "none")
    /\ Goto(Main, "idle", "wait")
    /\ fn' = f
    /\ UNCHANGED <<mode, disks, polls, msg, store, event, ready, dead, walk>>

WaitForInstall(f) ==
    /\ Goto(Main, "idle", "wait")
    /\ \A m \in Contents(list) : f[m] = "false"
    /\ WaitForCall(f, "none")
    /\ event' = FALSE
    /\ fn' = f
    /\ UNCHANGED <<mode, disks, polls, msg, store, ready, dead, walk>>

WaitReturns ==
    /\ Goto(Main, "wait", "reset")
    /\ event
    /\ wait' = [wait EXCEPT !.result = "true"]
    /\ UNCHANGED <<mode, disks, polls, msg, store, fn, event, ready, dead, waits, walk>>

\* The timeout may also race with a set() that comes too late to be seen.
WaitTimeout ==
    /\ Goto(Main, "wait", "reset")
    /\ wait' = [wait EXCEPT !.result = "false"]
    /\ UNCHANGED <<mode, disks, polls, msg, store, fn, event, ready, dead, waits, walk>>

WaitReset ==
    /\ Goto(Main, "reset", "idle")
    /\ fn' = NoFunction
    /\ UNCHANGED <<mode, disks, polls, msg, store, event, ready, dead, waitvars, walk>>

-----------------------------------------------------------------------------
(* ingest_all_files, then check_deserialization_errors.                    *)

\* Fault: ingest_all_files runs before the mocked backend is stopped.
DrainStartEarly ==
    /\ Goto(Main, "idle", "drain")
    /\ Drains
    /\ msg' = [msg EXCEPT ![Main] = 0]
    /\ UNCHANGED <<mode, disks, polls, store, fn, event, ready, dead, waitvars, walk>>

\* glob is evaluated once the recorder is stopped: its files do not change.
DrainStart ==
    /\ Goto(Main, "idle", "drain")
    /\ Drains /\ ~recording
    /\ msg' = [msg EXCEPT ![Main] = 0]
    /\ UNCHANGED <<mode, disks, polls, store, fn, event, ready, dead, waitvars, walk>>

Remaining == {m \in Messages : m > msg[Main] /\ disk[m] # "absent"}

DrainNext ==
    /\ Goto(Main, "drain", "enter")
    /\ \E m \in Remaining :
        /\ \A n \in Remaining : m <= n
        /\ msg' = [msg EXCEPT ![Main] = m]
    /\ ready' = TRUE
    /\ UNCHANGED <<mode, disks, polls, store, fn, event, dead, waitvars, walk>>

DrainEnd ==
    /\ Goto(Main, "drain", "drained")
    /\ Remaining = {}
    /\ UNCHANGED <<mode, disks, polls, msg, store, fn, event, ready, dead, waitvars, walk>>

\* Fault: check_deserialization_errors runs before ingest_all_files.
WalkStartEarly ==
    /\ Goto(Main, "idle", "walk")
    /\ walk' = [idx |-> 0, present |-> Contents(list), status |-> "walking"]
    /\ UNCHANGED <<mode, disks, polls, msg, store, fn, event, ready, dead, waitvars>>

WalkStart ==
    /\ Goto(Main, IF Drains THEN "drained" ELSE "idle", "walk")
    /\ walk' = [idx |-> 0, present |-> Contents(list), status |-> "walking"]
    /\ UNCHANGED <<mode, disks, polls, msg, store, fn, event, ready, dead, waitvars>>

\* What an unlocked reader may find in _data_list: while another thread holds
\* the lock the entry is not yet appended, or appended and not yet sorted, or
\* the list is being sorted.
Visible ==
    {list} \cup UNION {{Append(list, msg[t]), <<>>} : t \in {u \in Threads : pc[u] = "sort"}}

WalkStep ==
    /\ pc[Main] = "walk"
    /\ \E v \in Visible :
        /\ walk.idx < Len(v)
        /\ v[walk.idx + 1] \notin Bad
    /\ walk' = [walk EXCEPT !.idx = @ + 1]
    /\ UNCHANGED <<mode, disks, polls, pc, msg, store, fn, event, ready, dead, waitvars>>

\* pytest.exit
WalkError ==
    /\ Goto(Main, "walk", "exit")
    /\ \E v \in Visible :
        /\ walk.idx < Len(v)
        /\ v[walk.idx + 1] \in Bad
    /\ walk' = [walk EXCEPT !.status = "error"]
    /\ UNCHANGED <<mode, disks, polls, msg, store, fn, event, ready, dead, waitvars>>

WalkEnd ==
    /\ Goto(Main, "walk", "exit")
    /\ \E v \in Visible : walk.idx >= Len(v)
    /\ walk' = [walk EXCEPT !.status = "success"]
    /\ UNCHANGED <<mode, disks, polls, msg, store, fn, event, ready, dead, waitvars>>

-----------------------------------------------------------------------------

RecorderStep(h) == Number(h) \/ Create(h) \/ Write(h)

IngestStep(t) ==
    \/ IngestSkip(t) \/ IngestAppend(t) \/ OnMessage(t) \/ SortEnd(t)
    \/ TestFunction(t) \/ CallFunction(t) \/ CallRaises(t) \/ SetEvent(t)

WaitStep == WaitReturns \/ WaitTimeout \/ WaitReset

CheckStep ==
    \/ DrainStart \/ DrainNext \/ DrainEnd
    \/ WalkStart \/ WalkStep \/ WalkError \/ WalkEnd

Next ==
    \/ \E h \in Handlers : RecorderStep(h)
    \/ StopRecorder
    \/ \E m \in Messages : Poll(m) \/ Dispatch(m)
    \/ \E t \in Threads : IngestStep(t)
    \/ \E f \in Functions : WaitForExisting(f) \/ WaitForInstall(f)
    \/ WaitStep
    \/ CheckStep

Spec == Init /\ [][Next]_vars

\* The emitter polls for ever, and threads that can run do run. The requests,
\* the calls of the tests and a timeout are nobody's obligation.
Fairness ==
    /\ \A m \in Messages : WF_vars(Poll(m)) /\ WF_vars(Dispatch(m))
    /\ \A t \in Threads : WF_vars(IngestStep(t))
    /\ WF_vars(WaitReturns)

FairSpec == Spec /\ Fairness

-----------------------------------------------------------------------------
(* Properties.                                                             *)

PC == {"idle", "create", "write", "onmessage", "gone", "enter", "sort", "test",
       "call", "set", "wait", "reset", "drain", "drained", "walk", "exit"}

\* Every variable has its type (the state of the validator and its threads).
TypeOK ==
    /\ mode \in Modes
    /\ disk \in [Messages -> {"absent", "partial", "complete"}]
    /\ next \in 1 .. N + 1
    /\ recording \in BOOLEAN
    /\ seen \in [Messages -> {"absent", "partial", "complete"}]
    /\ pending \subseteq Messages
    /\ pc \in [Threads -> PC]
    /\ msg \in [Threads -> 0 .. N]
    /\ lock \in Threads \cup {NoThread}
    /\ list \in Seq(Messages)
    /\ ingested \subseteq Messages
    /\ fn \in Functions \cup {NoFunction}
    /\ event \in BOOLEAN
    /\ ready \in BOOLEAN
    /\ dead \in BOOLEAN
    /\ wait \in [f : Functions \cup {NoFunction},
                 result : Outcome \cup {"none"}, stale : BOOLEAN]
    /\ waits \in 0 .. MaxWaits
    /\ walk \in [idx : Nat, present : SUBSET Messages,
                 status : {"none", "walking", "success", "error"}]

\* _data_list holds every message at most once, in the order of the numbers
\* the recorder gave, although the watchdog, ingest_all_files and the request
\* threads insert concurrently and files complete out of order.
OnceAndInOrder ==
    \A i, j \in DOMAIN list : i < j => list[i] < list[j]

\* A thread between the append of m and the end of its notification.
Notifying(m) == \E t \in Threads : msg[t] = m /\ pc[t] \in {"test", "call", "set"}

\* No lost wake-up: while wait_for sleeps and its event is not set, any entry
\* that satisfies its function is about to be notified by the thread that
\* appended it, so the wait can not sleep through a message it waits for.
NoLostWakeup ==
    pc[Main] = "wait" /\ ~event =>
        \A m \in Contents(list) : fn[m] = "true" => Notifying(m)

\* wait_for answers True only if an entry satisfies its function, or if, when
\* it was called, a notification meant for an earlier wait was under way.
TrueIsJustified ==
    wait.result = "true" /\ ~wait.stale =>
        \E m \in Contents(list) : wait.f[m] = "true"

\* docs/edit/mocked-backend-interface-validation-methods.md:40: wait_for
\* waits until its function is true for a request, and "Returns whether it
\* happened".
TrueMeansItHappened ==
    wait.result = "true" => \E m \in Contents(list) : wait.f[m] = "true"

\* ingest_all_files leaves nothing behind: once it has run, every completely
\* written file is in _data_list, whatever the watchdog did or died of.
DrainIsComplete ==
    pc[Main] = "drained" =>
        Contents(list) = {m \in Messages : disk[m] = "complete"}

\* A mocked backend's check, run after ingest_all_files, accepts no bad entry
\* at all: nothing enters _data_list during or after the walk.
CheckIsFinal == Drains /\ walk.status = "success" => Contents(list) \cap Bad = {}

\* The validator seen by a test is the log of MessageLog: the files, the
\* watchdog, the request threads and the lock only show as messages that appear
\* at their place, and wait_for only as calls answered from that log.
Log == INSTANCE MessageLog WITH
         Message <- Messages, Function <- Functions, Unset <- NoFunction,
         log <- list, call <- wait, open <- pc[Main] = "wait"

\* Every step of the threads is a step of the log, or is not seen at all: no
\* entry is dropped, replaced, repeated or put out of order by concurrent
\* insertions, and every answer of wait_for is one the log justifies.
ImplementsLog == Log!Spec

\* A wait_for whose message is in the log is answered, even if its timeout is
\* unbounded: whichever thread inserted it, the notification gets through.
AnswersWait == Log!Liveness

\* Every completely written file is eventually in _data_list, unless an
\* exception killed the dispatching thread.
EventuallyIngested ==
    \A m \in Messages :
        disk[m] = "complete" ~> (m \in Contents(list) \/ dead)

-----------------------------------------------------------------------------
(* The inductive invariant behind OnceAndInOrder, NoLostWakeup,            *)
(* TrueIsJustified and DrainIsComplete.                                    *)

\* The thread that appends, and only it, owns the lock.
LockInv == \A t \in Threads : lock = t <=> pc[t] = "sort"

Recording == {"create", "write", "onmessage", "sort"}

\* Two request threads never handle the same message, and none handles a
\* message that is already in _data_list or already on disk.
RecorderInv ==
    /\ \A h \in Handlers : pc[h] \in Recording => msg[h] \in 1 .. next - 1
    /\ \A h \in Handlers : pc[h] \in {"create", "write"} =>
            disk[msg[h]] # "complete" /\ msg[h] \notin Contents(list)
    /\ \A h \in Handlers : pc[h] = "onmessage" =>
            disk[msg[h]] = "complete" /\ msg[h] \notin Contents(list)
    /\ \A g, h \in Handlers :
            g # h /\ pc[g] \in Recording /\ pc[h] \in Recording => msg[g] # msg[h]
    /\ \A m \in Messages : m >= next => disk[m] = "absent"

\* Which threads may be where, in each mode.
ModeInv ==
    /\ \A h \in Handlers :
        /\ pc[h] \in {"idle", "gone", "test", "call", "set"} \cup Recording
        /\ ~InProcess => pc[h] \in {"idle", "gone", "create", "write"}
        /\ ~InProcess /\ ~recording => pc[h] = "gone"
    /\ pc[Watchdog] \in {"idle", "enter", "sort", "test", "call", "set"}
    /\ pc[Main] \notin {"create", "write", "onmessage", "gone"}
    /\ InProcess => pc[Watchdog] = "idle" /\ pending = {}
    /\ pc[Main] \in {"drain", "enter", "sort", "test", "call", "set", "drained"} =>
            Drains /\ ~recording

\* Who is about to insert what; _ingested_files is what was, or is being,
\* inserted.
IngestInv ==
    /\ \A t \in Threads : pc[t] = "sort" =>
            /\ msg[t] \in Messages /\ msg[t] \notin Contents(list)
            /\ disk[msg[t]] = "complete"
            /\ ~InProcess => msg[t] \in ingested
    /\ \A t \in Threads : pc[t] \in {"test", "call", "set"} => msg[t] \in Contents(list)
    /\ pc[Watchdog] = "enter" => msg[Watchdog] \in Messages
    /\ pc[Main] = "enter" => msg[Main] \in Messages
    /\ \A m \in Contents(list) : disk[m] = "complete"
    /\ ~InProcess =>
            /\ Contents(list) \subseteq ingested
            /\ \A m \in ingested : m \in Contents(list) \/ \E t \in Threads : pc[t] = "sort" /\ msg[t] = m

\* While main sleeps, the installed function is the one it waits for, and a
\* notification under way has a reason in _data_list.
Justified == \E m \in Contents(list) : wait.f[m] = "true"

WaitInv ==
    /\ pc[Main] = "wait" => fn = wait.f /\ wait.f \in Functions
    /\ pc[Main] = "wait" /\ ~wait.stale =>
        ((event \/ \E t \in Threads : pc[t] = "set") => Justified)
    /\ wait.result = "true" => wait.f \in Functions

\* The files ingest_all_files has gone past are ingested.
DrainInv ==
    /\ pc[Main] \in {"drain", "test", "call", "set"} =>
        \A m \in Messages : m <= msg[Main] /\ disk[m] = "complete" => m \in Contents(list)
    /\ pc[Main] \in {"enter", "sort"} =>
        \A m \in Messages : m < msg[Main] /\ disk[m] = "complete" => m \in Contents(list)

IInv ==
    /\ TypeOK /\ LockInv /\ RecorderInv /\ ModeInv /\ IngestInv /\ WaitInv /\ DrainInv
    /\ OnceAndInOrder /\ NoLostWakeup /\ TrueIsJustified /\ DrainIsComplete
=============================================================================

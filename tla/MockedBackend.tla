---------------------------- MODULE MockedBackend ----------------------------
(***************************************************************************)
(* The mocked backend of utils/mocked_backend: a ThreadingHTTPServer that  *)
(* records every request, serves mocked responses and remote configuration *)
(* and delivers feature flags (FFE) along a timeline of responses that the *)
(* test sets while the library polls. One process per request thread; the  *)
(* test acts through the control endpoints, which are neither mocked,      *)
(* numbered nor recorded. Every action is one critical section, or one     *)
(* stretch without shared state.                                           *)
(***************************************************************************)
EXTENDS Integers, Sequences, FiniteSets

CONSTANTS
    Threads,     \* request threads
    Kinds,       \* what is asked: "json" and "rules" are FFE, "other" the rest
    Mocks,       \* the sets of kinds tests set mocked responses for
    Timelines,   \* the lists of responses that tests set, per FFE format
    MaxRequests, \* bound: number of recorded requests
    MaxControls  \* bound: number of control requests

Formats   == {"json", "rules"}
Ids       == [json  |-> {"valid", "unauthorized", "malformed", "not_modified",
                         "server_error", "delayed_valid", "timeout"},
              rules |-> {"valid", "malformed", "server_error", "forbidden", "redirect",
                         "empty", "wrong_content_type", "delayed", "delayed_body",
                         "disconnect", "truncated_body", "selection_ignored"}]
AnyId     == Ids.json \cup Ids.rules
Lines     == Seq(AnyId) \ {<<>>}
NoRequest == [kind |-> "other", mock |-> FALSE, n |-> 0, id |-> "valid"]

\* validate_responses
ASSUME TimelineAssumption ==
    \A f \in Formats : \A s \in Timelines[f] : s \in Seq(Ids[f]) /\ s # <<>>
ASSUME KindAssumption ==
    Kinds \subseteq Formats \cup {"other"} /\ Mocks \subseteq SUBSET Kinds
ASSUME ThreadAssumption == IsFiniteSet(Threads)

VARIABLES
    pc,         \* where each request thread is
    req,        \* the request it handles
    mocked,     \* the kinds of path that _mocked_responses has a response for
    count,      \* message_count
    recorded,   \* the numbers whose file is written
    answered,   \* the numbers whose response was sent
    running,    \* the server serves
    responses,  \* _MockedBackendFFEState.responses
    ffe,        \* its counters: total, inFlight, max, codes
    controls,   \* number of control requests so far
    failed,     \* history: numbers whose handler raised
    told,       \* history: the timeline last set for each format, and how many
                \* requests it has answered
    mark        \* history: requests in flight at the last reset (strays), or at
                \* the last reset or set_responses (late), the largest overlap
                \* since the last reset (peak), and, since the codes were last
                \* cleared, the formats asked for and the timelines begun (set)

server == <<mocked, count, recorded, answered, running>>
state  == <<responses, ffe>>
past   == <<failed, told, mark>>
vars   == <<pc, req, server, state, controls, past>>

NoCounts  == [total |-> 0, inFlight |-> 0, max |-> 0, codes |-> <<>>]
Default   == [f \in Formats |-> <<"valid">>]
InHandler == {t \in Threads : pc[t] \in {"respond", "finish"}}
Unanswered == {t \in Threads : pc[t] = "respond"}

Init ==
    /\ pc = [t \in Threads |-> "idle"]
    /\ req = [t \in Threads |-> NoRequest]
    /\ mocked = {}
    /\ count = 0
    /\ recorded = {}
    /\ answered = {}
    /\ running = TRUE
    /\ responses = Default
    /\ ffe = NoCounts
    /\ controls = 0
    /\ failed = {}
    /\ told = [f \in Formats |-> [line |-> <<"valid">>, used |-> 0]]
    /\ mark = [strays |-> 0, late |-> 0, peak |-> 0, formats |-> {}, set |-> Formats]

Goto(t, from, to) == pc[t] = from /\ pc' = [pc EXCEPT ![t] = to]

-----------------------------------------------------------------------------
(* get_handler, then _handle.                                              *)

\* The mocked responses are looked at under their own lock, before the number
\* is drawn: a mock set in between is not seen.
Lookup(t, k) ==
    /\ Goto(t, "idle", "number")
    /\ running /\ count < MaxRequests
    /\ req' = [req EXCEPT ![t] = [NoRequest EXCEPT !.kind = k, !.mock = k \in mocked]]
    /\ UNCHANGED <<server, state, controls, past>>

\* A mock answers by itself; FFE paths go to their state; the rest of the routes
\* (remote configuration, intakes, default) have a fixed answer.
Number(t) ==
    /\ count < MaxRequests
    /\ Goto(t, "number", IF req[t].kind \in Formats /\ ~req[t].mock
                         THEN "record" ELSE "write")
    /\ count' = count + 1
    /\ req' = [req EXCEPT ![t].n = count + 1]
    /\ UNCHANGED <<mocked, recorded, answered, running, state, controls, past>>

\* Status codes: _response_for_response, _ffe_handle_rules_config.
Status(id) ==
    CASE id = "unauthorized" -> 401 [] id = "not_modified" -> 304
      [] id = "server_error" -> 500 [] id = "forbidden" -> 403
      [] id = "redirect" -> 302     [] OTHER -> 200

\* The last response of a timeline is repeated.
Pop(s) == IF Len(s) > 1 THEN Tail(s) ELSE s

Larger(a, b) == IF a > b THEN a ELSE b

\* record_request
RecordRequest(t) ==
    LET f == req[t].kind IN
    /\ Goto(t, "record", "respond")
    /\ req' = [req EXCEPT ![t].id = Head(responses[f])]
    /\ responses' = [responses EXCEPT ![f] = Pop(responses[f])]
    /\ ffe' = [ffe EXCEPT !.total = @ + 1, !.inFlight = @ + 1,
                          !.max = Larger(@, ffe.inFlight + 1)]
    /\ told' = [told EXCEPT ![f].used = @ + 1]
    /\ mark' = [mark EXCEPT !.peak = Larger(@, Cardinality(InHandler) + 1),
                            !.formats = @ \cup {f}]
    /\ UNCHANGED <<server, controls, failed>>

\* The response is made, after its delay, and its status noted.
RecordResponse(t) ==
    /\ Goto(t, "respond", "finish")
    /\ ffe' = [ffe EXCEPT !.codes = Append(@, Status(req[t].id))]
    /\ UNCHANGED <<req, server, responses, controls, past>>

\* Fault: finish_request does not stop at zero.
LeaveBelowZero(counts) == [counts EXCEPT !.inFlight = @ - 1]

\* finish_request
Leave(counts) == [counts EXCEPT !.inFlight = Larger(0, @ - 1)]

FinishRequest(t) ==
    /\ Goto(t, "finish", "write")
    /\ ffe' = Leave(ffe)
    /\ UNCHANGED <<req, server, responses, controls, past>>

\* The fixture can not be read: finish_request still runs, nothing is recorded,
\* the connection is closed without an answer.
HandlerRaises(t) ==
    /\ Goto(t, "respond", "idle")
    /\ ffe' = Leave(ffe)
    /\ failed' = failed \cup {req[t].n}
    /\ req' = [req EXCEPT ![t] = NoRequest]
    /\ UNCHANGED <<server, responses, controls, told, mark>>

\* Fault: the answer goes out first.
WriteLater(t) ==
    /\ Goto(t, "write", "send")
    /\ answered' = answered \cup {req[t].n}
    /\ UNCHANGED <<req, mocked, count, recorded, running, state, controls, past>>

Write(t) ==
    /\ Goto(t, "write", "send")
    /\ recorded' = recorded \cup {req[t].n}
    /\ UNCHANGED <<req, mocked, count, answered, running, state, controls, past>>

\* The body is sent; the client may have left (BrokenPipeError), or the response
\* is one that cuts the connection.
Send(t) ==
    /\ Goto(t, "send", "idle")
    /\ answered' \in {answered} \cup
         (IF req[t].id \in {"disconnect", "truncated_body"} THEN {}
          ELSE {answered \cup {req[t].n}})
    /\ req' = [req EXCEPT ![t] = NoRequest]
    /\ UNCHANGED <<mocked, count, recorded, running, state, controls, past>>

\* close: in the pytest process the request threads carry on, in a container they
\* die where they are.
Close ==
    /\ running
    /\ running' = FALSE
    /\ \/ UNCHANGED <<pc, req>>
       \/ /\ pc' = [t \in Threads |-> "gone"]
          /\ req' = [t \in Threads |-> NoRequest]
    /\ UNCHANGED <<mocked, count, recorded, answered, state, controls, past>>

-----------------------------------------------------------------------------
(* The control endpoints, called one after the other by the test.          *)

Control == running /\ controls < MaxControls /\ controls' = controls + 1

\* _handle_mocked_responses: the list is replaced.
SetMocked(kinds) ==
    /\ Control
    /\ mocked' = kinds
    /\ UNCHANGED <<pc, req, count, recorded, answered, running, state, past>>

\* Fault: set_responses keeps the status codes of the earlier timeline.
SetResponsesKeepsCodes(f, s) ==
    /\ Control
    /\ responses' = [responses EXCEPT ![f] = s]
    /\ told' = [told EXCEPT ![f] = [line |-> s, used |-> 0]]
    /\ mark' = [mark EXCEPT !.late = Cardinality(Unanswered), !.formats = {}, !.set = {f}]
    /\ UNCHANGED <<pc, req, server, ffe, failed>>

\* set_responses: the codes start again, the counters do not.
SetResponses(f, s) ==
    /\ Control
    /\ responses' = [responses EXCEPT ![f] = s]
    /\ ffe' = [ffe EXCEPT !.codes = <<>>]
    /\ told' = [told EXCEPT ![f] = [line |-> s, used |-> 0]]
    /\ mark' = [mark EXCEPT !.late = Cardinality(Unanswered), !.formats = {}, !.set = {f}]
    /\ UNCHANGED <<pc, req, server, failed>>

CountsAfterReset == NoCounts

\* reset, while requests may be in flight
Reset ==
    /\ Control
    /\ responses' = Default
    /\ ffe' = CountsAfterReset
    /\ told' = [f \in Formats |-> [line |-> <<"valid">>, used |-> 0]]
    /\ mark' = [strays |-> Cardinality(InHandler), late |-> Cardinality(Unanswered),
                peak |-> 0, formats |-> {}, set |-> Formats]
    /\ UNCHANGED <<pc, req, server, failed>>

Next ==
    \/ \E t \in Threads :
         \/ \E k \in Kinds : Lookup(t, k)
         \/ Number(t) \/ RecordRequest(t) \/ RecordResponse(t) \/ FinishRequest(t)
         \/ HandlerRaises(t) \/ Write(t) \/ Send(t)
    \/ \E kinds \in Mocks : SetMocked(kinds)
    \/ \E f \in Formats : \E s \in Timelines[f] : SetResponses(f, s)
    \/ Reset
    \/ Close

Spec == Init /\ [][Next]_vars

-----------------------------------------------------------------------------
(* Properties.                                                             *)

\* Requests are numbered, responses are ids, timelines and what is left of them
\* are never empty, and no counter is negative.
PcTypes ==
    pc \in [Threads -> {"idle", "number", "record", "respond", "finish", "write", "send", "gone"}]
ReqTypes ==
    req \in [Threads -> [kind : Formats \cup {"other"}, mock : BOOLEAN, n : Nat, id : AnyId]]
ServerTypes ==
    /\ mocked \subseteq Kinds /\ controls \in Nat
    /\ count \in Nat /\ recorded \subseteq Nat /\ answered \subseteq Nat /\ failed \subseteq Nat
StateTypes ==
    /\ responses \in [Formats -> Lines]
    /\ ffe \in [total : Nat, inFlight : Nat, max : Nat, codes : Seq(Nat)]
    /\ told \in [Formats -> [line : Lines, used : Nat]]
    /\ mark \in [strays : Nat, late : Nat, peak : Nat,
                 formats : SUBSET Formats, set : SUBSET Formats]
TypeOK == PcTypes /\ ReqTypes /\ ServerTypes /\ StateTypes /\ running \in BOOLEAN

\* No request thread was killed.
Alive == \A t \in Threads : pc[t] # "gone"

\* What the tests of the pollers read: in_flight never counts a request that is
\* over, although requests end in any order, raise, or straddle a reset; and it
\* counts all of them unless some were in flight during the reset (their end is
\* charged to newer ones). max_in_flight is the largest overlap since the reset,
\* too small by at most the number of those.
InFlightIsReal ==
    /\ ffe.max <= mark.peak /\ mark.peak - ffe.max <= mark.strays
    /\ Alive =>
        /\ 0 <= ffe.inFlight /\ ffe.inFlight <= Cardinality(InHandler)
        /\ Cardinality(InHandler) - ffe.inFlight <= mark.strays

\* A timeline is served in its order, each response once and the last one for
\* ever, whatever the other format, the overlap of requests and the controls.
InOrder(f) ==
    LET line == told[f].line
        next == IF told[f].used < Len(line) THEN told[f].used + 1 ELSE Len(line)
    IN  responses[f] = SubSeq(line, next, Len(line))

\* Timelines are served in order, and the status codes a test reads are those of
\* its timeline, in order, as long as the library polls one format without overlap
\* and no request was in flight when the timeline was set: no answer to an earlier
\* timeline is among them.
CodesFollowTimeline ==
    /\ \A f \in Formats : InOrder(f)
    /\ \A f \in mark.set :
        (mark.late = 0 /\ mark.peak <= 1 /\ mark.strays = 0 /\ mark.formats \subseteq {f}
           /\ failed = {}) =>
            \A i \in DOMAIN ffe.codes :
                LET line == told[f].line
                IN  i <= told[f].used
                    /\ ffe.codes[i] = Status(line[IF i < Len(line) THEN i ELSE Len(line)])

\* Every request whose answer a client has seen is on disk, even if the server is
\* stopped at the worst moment; and every number drawn is on disk, in some thread's
\* hands, or of a handler that raised: no request overwrites the file of another.
EveryRequestIsRecorded ==
    /\ answered \subseteq recorded
    /\ Alive => \A n \in 1 .. count :
         \/ n \in recorded \cup failed
         \/ \E t \in Threads : pc[t] \in {"record", "respond", "finish", "write"} /\ req[t].n = n
    /\ \A t, u \in Threads :
         t # u /\ pc[t] \in {"record", "respond", "finish", "write"} /\ pc[u] \in {"write", "send"}
           => req[t].n # req[u].n
=============================================================================

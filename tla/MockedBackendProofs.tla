------------------------- MODULE MockedBackendProofs -------------------------
(***************************************************************************)
(* Proofs about MockedBackend, for any number of request threads, any      *)
(* timelines and any bounds.                                               *)
(* The argument: a number belongs to one thread from the moment it is      *)
(* drawn until the answer is sent, and its file comes before its answer    *)
(* (NumberInv); in_flight lags behind the threads inside record_request    *)
(* and finish_request by no more than the strays of the last reset         *)
(* (CountInv); and what is left of a timeline determines the response of   *)
(* the next request, which is the only one in the handler as long as       *)
(* requests do not overlap (LineInv, PollInv).                             *)
(***************************************************************************)
EXTENDS MockedBackend, FiniteSetTheorems, SequenceTheorems, TLAPS

Holding == {"record", "respond", "finish", "write"}

\* Only a whole process dies; FFE states are reached by FFE requests.
ThreadInv ==
    /\ Alive \/ \A t \in Threads : pc[t] = "gone"
    /\ \A t \in Threads : pc[t] \in {"record", "respond", "finish"} => req[t].kind \in Formats

\* Numbers were drawn, each is in the hands of one thread, and files come first.
NumberInv ==
    /\ recorded \cup failed \subseteq 1 .. count
    /\ answered \subseteq recorded
    /\ \A t \in Threads : pc[t] \in Holding \cup {"send"} => req[t].n \in 1 .. count
    /\ \A t \in Threads : pc[t] = "send" => req[t].n \in recorded
    /\ \A t, u \in Threads :
         t # u /\ pc[t] \in Holding \cup {"send"} /\ pc[u] \in Holding \cup {"send"}
           => req[t].n # req[u].n
    /\ Alive => \A n \in 1 .. count :
         \/ n \in recorded \cup failed
         \/ \E t \in Threads : pc[t] \in Holding /\ req[t].n = n

\* in_flight and max_in_flight against the threads that are there.
CountInv == InFlightIsReal

\* The index of the response that request number i of a timeline gets.
Idx(line, i) == IF i < Len(line) THEN i ELSE Len(line)

\* What is left of a timeline.
LineInv == \A f \in Formats : responses[f] =
               SubSeq(told[f].line, Idx(told[f].line, told[f].used + 1), Len(told[f].line))

\* Since the last reset requests did not overlap, since the codes were cleared they
\* were all of format f, and none was on its way then.
Calm(f) == /\ mark.late = 0 /\ mark.peak <= 1 /\ mark.strays = 0
           /\ mark.formats \subseteq {f} /\ failed = {}

\* Without overlap one request at a time is in the handler.
OneAtATime ==
    (mark.peak <= 1 /\ mark.strays = 0) => \A t, u \in InHandler : t = u

\* The codes are those of the timeline, and the request that has its response
\* but not its code yet is the last one.
Served(f) ==
    LET line == told[f].line
        used == told[f].used
    IN  /\ Len(ffe.codes) <= used
        /\ Alive /\ Unanswered = {} => Len(ffe.codes) = used
        /\ \A t \in Unanswered : Len(ffe.codes) + 1 = used /\ req[t].id = line[Idx(line, used)]
        /\ \A i \in 1 .. Len(ffe.codes) : ffe.codes[i] = Status(line[Idx(line, i)])

PollInv == OneAtATime /\ \A f \in mark.set : Calm(f) => Served(f)

IInv == TypeOK /\ ThreadInv /\ NumberInv /\ CountInv /\ LineInv /\ PollInv

-----------------------------------------------------------------------------
(* Lemmas on the operators.                                                *)

\* A timeline has a length, which is not zero, and ids.
LEMMA LineLength ==
    ASSUME NEW s \in Lines
    PROVE  /\ s \in Seq(AnyId) /\ Len(s) \in Nat \ {0}
           /\ DOMAIN s = 1 .. Len(s) /\ \A i \in 1 .. Len(s) : s[i] \in AnyId
  BY EmptySeq, LenProperties DEF Lines

\* The index is one of the timeline, and follows the requests up to the last.
LEMMA IdxRange ==
    ASSUME NEW s \in Lines, NEW u \in Nat
    PROVE  /\ Idx(s, u + 1) \in 1 .. Len(s)
           /\ u + 1 < Len(s) => Idx(s, u + 1) = u + 1 /\ Idx(s, u + 2) = u + 2
           /\ ~ (u + 1 < Len(s)) => Idx(s, u + 1) = Len(s) /\ Idx(s, u + 2) = Len(s)
<1>1. \A n \in Nat \ {0} :
        /\ (IF u + 1 < n THEN u + 1 ELSE n) \in 1 .. n
        /\ u + 1 < n => (IF u + 1 < n THEN u + 1 ELSE n) = u + 1
                        /\ (IF u + 2 < n THEN u + 2 ELSE n) = u + 2
        /\ ~ (u + 1 < n) => (IF u + 1 < n THEN u + 1 ELSE n) = n
                            /\ (IF u + 2 < n THEN u + 2 ELSE n) = n
  OBVIOUS
<1> QED
  BY <1>1, LineLength DEF Idx

\* Serving a response of a timeline leaves what the next request is due.
LEMMA PopLine ==
    ASSUME NEW s \in Lines, NEW u \in Nat,
           NEW r, r = SubSeq(s, Idx(s, u + 1), Len(s))
    PROVE  /\ r \in Lines
           /\ Head(r) = s[Idx(s, u + 1)]
           /\ Pop(r) = SubSeq(s, Idx(s, u + 2), Len(s))
           /\ Pop(r) \in Lines
<1>1. s \in Seq(AnyId) /\ Len(s) \in Nat \ {0} /\ \A i \in 1 .. Len(s) : s[i] \in AnyId
  BY LineLength
<1> DEFINE m == Idx(s, u + 1)
<1>2. m \in 1 .. Len(s)
  BY IdxRange
<1>3. r \in Seq(AnyId) /\ Len(r) = Len(s) - m + 1
  <2>1. \A i \in m .. Len(s) : s[i] \in AnyId
    BY <1>1, <1>2
  <2> QED BY <1>1, <1>2, <2>1, SubSeqProperties
<1>4. Head(r) = s[m] /\ Tail(r) = SubSeq(s, m + 1, Len(s))
  <2>1. Len(s) \in m .. Len(s)
    BY <1>1, <1>2
  <2> QED BY <1>1, <1>2, <2>1, HeadTailOfSubSeq
<1>5. r # <<>>
  BY <1>1, <1>2, <1>3, EmptySeq
<1>6. Pop(r) = SubSeq(s, Idx(s, u + 2), Len(s)) /\ Pop(r) \in Lines
  <2>1. CASE u + 1 < Len(s)
    <3>1. m = u + 1 /\ Idx(s, u + 2) = u + 2 /\ m + 1 = u + 2
      BY IdxRange, <2>1
    <3>2. Len(r) > 1
      BY <1>1, <1>3, <2>1, <3>1
    <3>3. Tail(r) \in Seq(AnyId) /\ Len(Tail(r)) = Len(r) - 1
      BY <1>3, <1>5, HeadTailProperties
    <3>4. Tail(r) # <<>>
      <4>1. \A n \in Nat : n > 1 => n - 1 # 0
        OBVIOUS
      <4>2. Len(r) \in Nat
        BY <1>3, LenProperties
      <4> QED BY <3>2, <3>3, <4>1, <4>2, EmptySeq
    <3> QED BY <1>4, <3>1, <3>2, <3>3, <3>4 DEF Pop, Lines
  <2>2. CASE ~ (u + 1 < Len(s))
    <3>1. m = Len(s) /\ Idx(s, u + 2) = Len(s)
      BY IdxRange, <2>2
    <3>2. ~ (Len(r) > 1)
      BY <1>1, <1>3, <3>1
    <3> QED BY <1>3, <1>5, <3>1, <3>2 DEF Pop, Lines
  <2> QED BY <2>1, <2>2
<1> QED
  BY <1>3, <1>4, <1>5, <1>6 DEF Lines

\* A timeline that has not been used yet is all there.
LEMMA NewLine ==
    ASSUME NEW s \in Lines
    PROVE  s = SubSeq(s, Idx(s, 0 + 1), Len(s))
<1>1. Idx(s, 1) = 1
  <2>1. \A n \in Nat \ {0} : (IF 1 < n THEN 1 ELSE n) = 1
    OBVIOUS
  <2> QED BY <2>1, LineLength DEF Idx
<1>2. 0 + 1 = 1
  OBVIOUS
<1> QED
  BY <1>1, <1>2, LineLength, SubSeqFull

\* What tests set is a timeline.
LEMMA TimelineLines == ASSUME NEW f \in Formats, NEW s \in Timelines[f] PROVE s \in Lines
<1>1. s \in Seq(Ids[f]) /\ s # <<>>
  BY TimelineAssumption
<1>2. Ids[f] \subseteq AnyId
  BY DEF Formats, Ids, AnyId
<1> QED
  BY <1>1, <1>2, SeqMonotonic DEF Lines

\* Status codes are numbers.
LEMMA StatusType == ASSUME NEW id PROVE Status(id) \in Nat
  BY DEF Status

\* The default timeline is a timeline.
LEMMA DefaultType == <<"valid">> \in Lines
<1>1. "valid" \in AnyId
  BY DEF AnyId, Ids
<1>2. <<"valid">> = Append(<<>>, "valid")
  OBVIOUS
<1> QED
  BY <1>1, <1>2, AppendProperties, EmptySeq DEF Lines

\* A thread without a request has the type of one with a request.
LEMMA NoRequestType ==
    NoRequest \in [kind : Formats \cup {"other"}, mock : BOOLEAN, n : Nat, id : AnyId]
  BY DEF NoRequest, AnyId, Ids

\* So does a request that has just been looked up.
LEMMA NewRequestType ==
    ASSUME NEW k \in Formats \cup {"other"}, NEW b \in BOOLEAN
    PROVE  [NoRequest EXCEPT !.kind = k, !.mock = b]
             \in [kind : Formats \cup {"other"}, mock : BOOLEAN, n : Nat, id : AnyId]
  BY DEF NoRequest, AnyId, Ids

\* The threads inside a handler can be counted.
LEMMA Countable ==
    /\ IsFiniteSet(InHandler) /\ Cardinality(InHandler) \in Nat
    /\ IsFiniteSet(Unanswered) /\ Cardinality(Unanswered) \in Nat
    /\ Cardinality(InHandler) = 0 <=> InHandler = {}
    /\ Cardinality(Unanswered) = 0 <=> Unanswered = {}
<1>1. InHandler \in SUBSET Threads /\ Unanswered \in SUBSET Threads
  BY DEF InHandler, Unanswered
<1>2. IsFiniteSet(InHandler) /\ IsFiniteSet(Unanswered)
  BY <1>1, ThreadAssumption, FS_Subset
<1> QED
  BY <1>2, FS_CardinalityType, FS_EmptySet

-----------------------------------------------------------------------------
(* The inductive invariant.                                                *)

USE DEF Goto

\* The server starts with no request.
LEMMA InitIInv == Init => IInv
<1> SUFFICES ASSUME Init PROVE IInv
  OBVIOUS
<1>1. TypeOK
  <2>1. PcTypes /\ ServerTypes
    BY DEF Init, PcTypes, ServerTypes
  <2>2. ReqTypes
    BY NoRequestType DEF Init, ReqTypes
  <2>3. StateTypes
    BY DefaultType, EmptySeq DEF Init, StateTypes, Default, NoCounts
  <2> QED BY <2>1, <2>2, <2>3 DEF Init, TypeOK
<1>2. ThreadInv /\ NumberInv
  BY DEF Init, ThreadInv, NumberInv, Alive, Holding
<1>3. InHandler = {} /\ Unanswered = {}
  BY DEF Init, InHandler, Unanswered
<1>4. CountInv
  BY <1>3, FS_EmptySet DEF Init, CountInv, InFlightIsReal, NoCounts
<1>5. LineInv
  BY DefaultType, NewLine DEF Init, LineInv, Default
<1>6. PollInv
  BY <1>3, EmptySeq DEF Init, PollInv, OneAtATime, Served, NoCounts
<1> QED
  BY <1>1, <1>2, <1>4, <1>5, <1>6 DEF IInv

\* Threads only go where they are sent to.
LEMMA PcStep == PcTypes /\ [Next]_vars => PcTypes'
<1> SUFFICES ASSUME PcTypes, Next PROVE PcTypes'
  BY DEF PcTypes, vars
<1>1. CASE UNCHANGED pc
  BY <1>1 DEF PcTypes
<1>2. CASE \E t \in Threads :
         \/ \E k \in Kinds : Lookup(t, k)
         \/ Number(t) \/ RecordRequest(t) \/ RecordResponse(t) \/ FinishRequest(t)
         \/ HandlerRaises(t) \/ Write(t) \/ Send(t)
  BY <1>2 DEF PcTypes, Lookup, Number, RecordRequest, RecordResponse, FinishRequest,
              HandlerRaises, Write, Send
<1>3. CASE Close
  BY <1>3 DEF PcTypes, Close
<1> QED
  BY <1>1, <1>2, <1>3 DEF Next, SetMocked, SetResponses, Reset

\* The request of a thread is new, gets its number or its response, or is over.
LEMMA ReqStep == IInv /\ [Next]_vars => ReqTypes'
<1> SUFFICES ASSUME IInv, Next PROVE ReqTypes'
  BY DEF IInv, TypeOK, ReqTypes, vars
<1> USE DEF IInv, TypeOK, ReqTypes
<1>1. CASE UNCHANGED req
  BY <1>1
<1>2. ASSUME NEW t \in Threads, NEW k \in Kinds, Lookup(t, k) PROVE ReqTypes'
  <2> DEFINE r == [NoRequest EXCEPT !.kind = k, !.mock = k \in mocked]
  <2>1. k \in Formats \cup {"other"} /\ (k \in mocked) \in BOOLEAN
    BY KindAssumption
  <2>2. r \in [kind : Formats \cup {"other"}, mock : BOOLEAN, n : Nat, id : AnyId]
    BY <2>1, NewRequestType, Zenon
  <2>3. req' = [req EXCEPT ![t] = r]
    BY <1>2 DEF Lookup
  <2> HIDE DEF r
  <2> QED BY <2>2, <2>3
<1>3. ASSUME NEW t \in Threads, Number(t) PROVE ReqTypes'
  BY <1>3 DEF Number, ServerTypes
<1>4. ASSUME NEW t \in Threads, RecordRequest(t) PROVE ReqTypes'
  <2>1. req[t].kind \in Formats
    BY <1>4 DEF RecordRequest, ThreadInv
  <2>2. Head(responses[req[t].kind]) \in AnyId
    BY <2>1, HeadTailProperties DEF StateTypes, Lines
  <2>3. req' = [req EXCEPT ![t].id = Head(responses[req[t].kind])]
    BY <1>4 DEF RecordRequest
  <2> QED BY <2>2, <2>3
<1>5. ASSUME NEW t \in Threads, HandlerRaises(t) \/ Send(t) PROVE ReqTypes'
  BY <1>5, NoRequestType DEF HandlerRaises, Send
<1>6. CASE Close
  BY <1>6, NoRequestType DEF Close
<1> QED
  BY <1>1, <1>2, <1>3, <1>4, <1>5, <1>6
  DEF Next, RecordResponse, FinishRequest, Write, SetMocked, SetResponses, Reset

\* The files, the answers and the number of messages.
LEMMA ServerStep == IInv /\ [Next]_vars => ServerTypes' /\ running' \in BOOLEAN
<1> SUFFICES ASSUME IInv, [Next]_vars PROVE ServerTypes' /\ running' \in BOOLEAN
  OBVIOUS
<1> USE DEF IInv, TypeOK
<1>1. running' \in BOOLEAN
  <2>1. UNCHANGED running \/ running' = FALSE
    BY DEF Next, Lookup, Number, RecordRequest, RecordResponse, FinishRequest, HandlerRaises,
           Write, Send, SetMocked, SetResponses, Reset, Close, vars, server
  <2> QED BY <2>1
<1>2. mocked' \subseteq Kinds
  <2>1. UNCHANGED mocked \/ mocked' \in Mocks
    BY DEF Next, Lookup, Number, RecordRequest, RecordResponse, FinishRequest, HandlerRaises,
           Write, Send, SetMocked, SetResponses, Reset, Close, vars, server
  <2> QED BY <2>1, KindAssumption DEF ServerTypes
<1>3. count' \in Nat /\ controls' \in Nat
  <2>1. UNCHANGED count \/ count' = count + 1
    BY DEF Next, Lookup, Number, RecordRequest, RecordResponse, FinishRequest, HandlerRaises,
           Write, Send, SetMocked, SetResponses, Reset, Close, vars, server
  <2>2. UNCHANGED controls \/ controls' = controls + 1
    BY DEF Next, Lookup, Number, RecordRequest, RecordResponse, FinishRequest, HandlerRaises,
           Write, Send, SetMocked, SetResponses, Reset, Close, Control, vars, server
  <2> QED BY <2>1, <2>2 DEF ServerTypes
<1>4. recorded' \subseteq Nat /\ failed' \subseteq Nat /\ answered' \subseteq Nat
  <2>1. \A t \in Threads : req[t].n \in Nat
    BY DEF ReqTypes
  <2>2. UNCHANGED recorded \/ \E t \in Threads : recorded' = recorded \cup {req[t].n}
    BY DEF Next, Lookup, Number, RecordRequest, RecordResponse, FinishRequest, HandlerRaises,
           Write, Send, SetMocked, SetResponses, Reset, Close, vars, server, past
  <2>3. UNCHANGED failed \/ \E t \in Threads : failed' = failed \cup {req[t].n}
    BY DEF Next, Lookup, Number, RecordRequest, RecordResponse, FinishRequest, HandlerRaises,
           Write, Send, SetMocked, SetResponses, Reset, Close, vars, server, past
  <2>4. UNCHANGED answered \/ \E t \in Threads : answered' = answered \cup {req[t].n}
    BY DEF Next, Lookup, Number, RecordRequest, RecordResponse, FinishRequest, HandlerRaises,
           Write, Send, SetMocked, SetResponses, Reset, Close, vars, server, past
  <2> QED
    BY <2>1, <2>2, <2>3, <2>4 DEF ServerTypes
<1> QED
  BY <1>1, <1>2, <1>3, <1>4 DEF ServerTypes

\* The state of FFE and what is remembered of it.
LEMMA StateStep == IInv /\ [Next]_vars => StateTypes'
<1> SUFFICES ASSUME IInv, [Next]_vars PROVE StateTypes'
  OBVIOUS
<1> USE DEF IInv, TypeOK, StateTypes
<1>1. ASSUME NEW t \in Threads, RecordRequest(t) PROVE StateTypes'
  <2> DEFINE f == req[t].kind
  <2>1. f \in Formats
    BY <1>1 DEF RecordRequest, ThreadInv
  <2>2. Pop(responses[f]) \in Lines
    <3>1. told[f].line \in Lines /\ told[f].used \in Nat
      BY <2>1
    <3>2. responses[f] = SubSeq(told[f].line, Idx(told[f].line, told[f].used + 1), Len(told[f].line))
      BY <2>1 DEF LineInv
    <3> QED BY <3>1, <3>2, PopLine
  <2>3. responses' \in [Formats -> Lines]
    BY <1>1, <2>1, <2>2 DEF RecordRequest
  <2>4. ffe' \in [total : Nat, inFlight : Nat, max : Nat, codes : Seq(Nat)]
    <3>1. ffe' = [total |-> ffe.total + 1, inFlight |-> ffe.inFlight + 1,
                  max |-> Larger(ffe.max, ffe.inFlight + 1), codes |-> ffe.codes]
      BY <1>1 DEF RecordRequest
    <3>2. Larger(ffe.max, ffe.inFlight + 1) \in Nat
      BY DEF Larger
    <3> QED BY <3>1, <3>2
  <2>5. told' \in [Formats -> [line : Lines, used : Nat]]
    <3>1. told' = [told EXCEPT ![f] = [told[f] EXCEPT !.used = told[f].used + 1]]
      BY <1>1 DEF RecordRequest
    <3>2. \A r \in [line : Lines, used : Nat] :
            [r EXCEPT !.used = r.used + 1] \in [line : Lines, used : Nat]
      OBVIOUS
    <3> QED BY <2>1, <3>1, <3>2
  <2>6. mark' \in [strays : Nat, late : Nat, peak : Nat,
                  formats : SUBSET Formats, set : SUBSET Formats]
    <3> DEFINE p == Larger(mark.peak, Cardinality(InHandler) + 1)
    <3>1. mark' = [strays |-> mark.strays, late |-> mark.late, peak |-> p,
                   formats |-> mark.formats \cup {f}, set |-> mark.set]
      BY <1>1 DEF RecordRequest
    <3>2. p \in Nat
      BY Countable DEF Larger
    <3> QED BY <2>1, <3>1, <3>2
  <2> QED BY <2>3, <2>4, <2>5, <2>6
<1>2. ASSUME NEW t \in Threads, RecordResponse(t) PROVE StateTypes'
  <2>1. Append(ffe.codes, Status(req[t].id)) \in Seq(Nat)
    BY StatusType, AppendProperties
  <2> QED BY <1>2, <2>1 DEF RecordResponse, past
<1>3. ASSUME NEW t \in Threads, FinishRequest(t) \/ HandlerRaises(t) PROVE StateTypes'
  <2>1. Leave(ffe) = [total |-> ffe.total, inFlight |-> Larger(0, ffe.inFlight - 1),
                      max |-> ffe.max, codes |-> ffe.codes]
    BY DEF Leave
  <2>2. Larger(0, ffe.inFlight - 1) \in Nat
    BY DEF Larger
  <2> QED BY <1>3, <2>1, <2>2 DEF FinishRequest, HandlerRaises, past
<1>4. ASSUME NEW f \in Formats, NEW s \in Timelines[f], SetResponses(f, s) PROVE StateTypes'
  <2>1. s \in Lines
    BY TimelineLines
  <2> QED BY <1>4, <2>1, Countable, EmptySeq DEF SetResponses
<1>5. CASE Reset
  BY <1>5, Countable, DefaultType, EmptySeq DEF Reset, Default, CountsAfterReset, NoCounts
<1>6. CASE UNCHANGED <<responses, ffe, told, mark>>
  BY <1>6
<1> QED
  BY <1>1, <1>2, <1>3, <1>4, <1>5, <1>6
  DEF Next, Lookup, Number, Write, Send, SetMocked, Close, vars, state, past

\* A thread that has its answer in hand came through record_request.
LEMMA ThreadStep == IInv /\ [Next]_vars => ThreadInv'
<1> SUFFICES ASSUME IInv, [Next]_vars PROVE ThreadInv'
  OBVIOUS
<1> USE DEF IInv, TypeOK, PcTypes, ReqTypes, ThreadInv, Alive
<1>1. ASSUME NEW t \in Threads, NEW k \in Kinds, Lookup(t, k) PROVE ThreadInv'
  BY <1>1 DEF Lookup
<1>2. ASSUME NEW t \in Threads, Number(t) PROVE ThreadInv'
  BY <1>2 DEF Number
<1>3. ASSUME NEW t \in Threads, RecordRequest(t) PROVE ThreadInv'
  BY <1>3 DEF RecordRequest
<1>4. ASSUME NEW t \in Threads, RecordResponse(t) \/ FinishRequest(t) \/ Write(t)
      PROVE ThreadInv'
  BY <1>4 DEF RecordResponse, FinishRequest, Write
<1>5. ASSUME NEW t \in Threads, HandlerRaises(t) \/ Send(t) PROVE ThreadInv'
  BY <1>5 DEF HandlerRaises, Send
<1>6. CASE Close
  BY <1>6 DEF Close
<1>7. CASE UNCHANGED <<pc, req>>
  BY <1>7
<1> QED
  BY <1>1, <1>2, <1>3, <1>4, <1>5, <1>6, <1>7
  DEF Next, SetMocked, SetResponses, Reset, vars

\* Numbers.
LEMMA NumberStep == IInv /\ [Next]_vars => NumberInv'
<1> SUFFICES ASSUME IInv, [Next]_vars PROVE NumberInv'
  OBVIOUS
<1> USE DEF IInv, TypeOK, PcTypes, ReqTypes, ServerTypes, NumberInv, Alive, Holding
<1>1. ASSUME NEW t \in Threads, NEW k \in Kinds, Lookup(t, k) PROVE NumberInv'
  BY <1>1 DEF Lookup, server, past
<1>2. ASSUME NEW t \in Threads, Number(t) PROVE NumberInv'
  <2>1. pc'[t] \in Holding /\ pc[t] = "number" /\ req'[t].n = count + 1
    BY <1>2 DEF Number
  <2>2. \A u \in Threads \ {t} : pc'[u] = pc[u] /\ req'[u].n = req[u].n
    BY <1>2 DEF Number
  <2>3. count' = count + 1 /\ UNCHANGED <<recorded, answered, failed>>
    BY <1>2 DEF Number, past
  <2>4. 1 .. count' = (1 .. count) \cup {count + 1} /\ count + 1 \notin 1 .. count
    BY <2>3
  <2> QED BY <2>1, <2>2, <2>3, <2>4
<1>3. ASSUME NEW t \in Threads, RecordRequest(t) \/ RecordResponse(t) \/ FinishRequest(t)
      PROVE  NumberInv'
  <2>1. pc[t] \in Holding /\ pc'[t] \in Holding /\ req'[t].n = req[t].n
    BY <1>3 DEF RecordRequest, RecordResponse, FinishRequest
  <2>2. \A u \in Threads \ {t} : pc'[u] = pc[u] /\ req'[u].n = req[u].n
    BY <1>3 DEF RecordRequest, RecordResponse, FinishRequest
  <2>3. UNCHANGED <<count, recorded, answered, failed>>
    BY <1>3 DEF RecordRequest, RecordResponse, FinishRequest, server, past
  <2> QED BY <2>1, <2>2, <2>3
<1>5. ASSUME NEW t \in Threads, HandlerRaises(t) PROVE NumberInv'
  <2>1. pc[t] = "respond" /\ pc'[t] = "idle"
    BY <1>5 DEF HandlerRaises
  <2>2. \A u \in Threads \ {t} : pc'[u] = pc[u] /\ req'[u].n = req[u].n
    BY <1>5 DEF HandlerRaises
  <2>3. failed' = failed \cup {req[t].n} /\ UNCHANGED <<count, recorded, answered>>
    BY <1>5 DEF HandlerRaises, server
  <2>4. Alive' => \A n \in 1 .. count' :
          \/ n \in recorded' \cup failed'
          \/ \E u \in Threads : pc'[u] \in Holding /\ req'[u].n = n
    <3> SUFFICES ASSUME Alive', NEW n \in 1 .. count, n \notin recorded \cup failed, n # req[t].n
                 PROVE  \E u \in Threads : pc'[u] \in Holding /\ req'[u].n = n
      BY <2>3
    <3>1. Alive
      BY <2>1, <2>2
    <3>2. PICK u \in Threads : pc[u] \in Holding /\ req[u].n = n
      BY <3>1
    <3> QED BY <2>2, <3>2
  <2>5. req[t].n \in 1 .. count
    BY <2>1
  <2>6. recorded' \cup failed' \subseteq 1 .. count' /\ answered' \subseteq recorded'
    BY <2>3, <2>5
  <2>7. \A u \in Threads : pc'[u] \in Holding \cup {"send"} =>
          /\ pc[u] \in Holding \cup {"send"} /\ req'[u].n = req[u].n
          /\ pc'[u] = "send" => req'[u].n \in recorded'
    BY <2>1, <2>2, <2>3
  <2> QED BY <2>3, <2>4, <2>6, <2>7
<1>6. ASSUME NEW t \in Threads, Write(t) PROVE NumberInv'
  <2>1. pc[t] = "write" /\ pc'[t] = "send" /\ req'[t].n = req[t].n
    BY <1>6 DEF Write
  <2>2. \A u \in Threads \ {t} : pc'[u] = pc[u] /\ req'[u].n = req[u].n
    BY <1>6 DEF Write
  <2>3. recorded' = recorded \cup {req[t].n} /\ UNCHANGED <<count, failed, answered>>
    BY <1>6 DEF Write, past
  <2>4. Alive' => \A n \in 1 .. count' :
          \/ n \in recorded' \cup failed'
          \/ \E u \in Threads : pc'[u] \in Holding /\ req'[u].n = n
    <3> SUFFICES ASSUME Alive', NEW n \in 1 .. count, n \notin recorded \cup failed, n # req[t].n
                 PROVE  \E u \in Threads : pc'[u] \in Holding /\ req'[u].n = n
      BY <2>3
    <3>1. Alive
      BY <2>1, <2>2
    <3>2. PICK u \in Threads : pc[u] \in Holding /\ req[u].n = n
      BY <3>1
    <3> QED BY <2>2, <3>2
  <2>5. req[t].n \in 1 .. count
    BY <2>1
  <2>6. recorded' \cup failed' \subseteq 1 .. count' /\ answered' \subseteq recorded'
    BY <2>3, <2>5
  <2>7. \A u \in Threads : pc'[u] \in Holding \cup {"send"} =>
          /\ pc[u] \in Holding \cup {"send"} /\ req'[u].n = req[u].n
          /\ pc'[u] = "send" => req'[u].n \in recorded'
    BY <2>1, <2>2, <2>3
  <2> QED BY <2>3, <2>4, <2>6, <2>7
<1>7. ASSUME NEW t \in Threads, Send(t) PROVE NumberInv'
  BY <1>7 DEF Send, past
<1>8. CASE Close
  BY <1>8 DEF Close, past
<1>9. CASE UNCHANGED <<pc, req, count, recorded, answered, failed>>
  BY <1>9
<1> QED
  BY <1>1, <1>2, <1>3, <1>5, <1>6, <1>7, <1>8, <1>9
  DEF Next, SetMocked, SetResponses, Reset, vars, server, past

\* The counters follow the threads: in_flight rises and falls with them, except
\* that the strays of a reset leave without having been counted.
LEMMA CountStep == IInv /\ [Next]_vars => CountInv'
<1> SUFFICES ASSUME IInv, [Next]_vars PROVE CountInv'
  OBVIOUS
<1> DEFINE K == Cardinality(InHandler)
<1> USE DEF IInv, TypeOK, PcTypes, StateTypes, CountInv, InFlightIsReal
<1>0. K \in Nat /\ IsFiniteSet(InHandler)
  BY Countable
<1>1. ASSUME NEW t \in Threads, RecordRequest(t) PROVE CountInv'
  <2>1. InHandler' = InHandler \cup {t} /\ t \notin InHandler
    BY <1>1 DEF RecordRequest, InHandler
  <2>2. K' = K + 1
    BY <1>0, <2>1, FS_AddElement
  <2>3. Alive
    BY <1>1 DEF RecordRequest, ThreadInv, Alive
  <2>4. ffe'.inFlight = ffe.inFlight + 1 /\ ffe'.max = Larger(ffe.max, ffe.inFlight + 1)
    BY <1>1 DEF RecordRequest
  <2>5. mark'.peak = Larger(mark.peak, K + 1) /\ mark'.strays = mark.strays
    BY <1>1 DEF RecordRequest
  <2> QED BY <1>0, <2>2, <2>3, <2>4, <2>5 DEF Larger
<1>2. ASSUME NEW t \in Threads, FinishRequest(t) \/ HandlerRaises(t) PROVE CountInv'
  <2>1. InHandler' = InHandler \ {t} /\ t \in InHandler
    BY <1>2 DEF FinishRequest, HandlerRaises, InHandler
  <2>2. K' = K - 1
    BY <1>0, <2>1, FS_RemoveElement
  <2>3. Alive
    BY <1>2 DEF FinishRequest, HandlerRaises, ThreadInv, Alive
  <2>4. ffe'.inFlight = Larger(0, ffe.inFlight - 1) /\ ffe'.max = ffe.max
    BY <1>2 DEF FinishRequest, HandlerRaises, Leave
  <2>5. mark' = mark
    BY <1>2 DEF FinishRequest, HandlerRaises, past
  <2>6. K # 0
    BY <1>0, <2>1, FS_EmptySet
  <2> QED BY <1>0, <2>2, <2>3, <2>4, <2>5, <2>6 DEF Larger
<1>3. CASE Reset
  <2>1. InHandler' = InHandler
    BY <1>3 DEF Reset, InHandler
  <2>2. ffe'.inFlight = 0 /\ ffe'.max = 0 /\ mark'.peak = 0 /\ mark'.strays = K
    BY <1>3 DEF Reset, CountsAfterReset, NoCounts
  <2> QED BY <1>0, <2>1, <2>2
<1>4. CASE /\ InHandler' = InHandler /\ (Alive' => Alive)
           /\ ffe'.inFlight = ffe.inFlight /\ ffe'.max = ffe.max
           /\ mark'.peak = mark.peak /\ mark'.strays = mark.strays
  BY <1>4
<1>5. ASSUME NEW t \in Threads,
             RecordResponse(t) \/ (\E k \in Kinds : Lookup(t, k)) \/ Number(t) \/ Write(t) \/ Send(t)
      PROVE  CountInv'
  <2>1. InHandler' = InHandler /\ (Alive' => Alive)
    BY <1>5 DEF RecordResponse, Lookup, Number, Write, Send, InHandler, Alive
  <2>2. ffe'.inFlight = ffe.inFlight /\ ffe'.max = ffe.max /\ mark' = mark
    BY <1>5 DEF RecordResponse, Lookup, Number, Write, Send, past, state
  <2> QED BY <1>4, <2>1, <2>2
<1>6. ASSUME NEW f \in Formats, NEW s \in Timelines[f], SetResponses(f, s) PROVE CountInv'
  BY <1>4, <1>6 DEF SetResponses, InHandler, Alive
<1>7. CASE Close
  <2>1. UNCHANGED <<ffe, mark>>
    BY <1>7 DEF Close, state, past
  <2>2. CASE UNCHANGED pc
    BY <1>4, <2>1, <2>2 DEF InHandler, Alive
  <2>3. CASE pc' = [t \in Threads |-> "gone"]
    <3>1. CASE Threads = {}
      BY <1>4, <2>1, <3>1 DEF InHandler, Alive
    <3>2. CASE Threads # {}
      BY <2>1, <2>3, <3>2 DEF Alive
    <3> QED BY <3>1, <3>2
  <2> QED BY <1>7, <2>2, <2>3 DEF Close
<1>8. CASE UNCHANGED <<pc, ffe, mark>>
  BY <1>4, <1>8 DEF InHandler, Alive
<1> QED
  BY <1>1, <1>2, <1>3, <1>5, <1>6, <1>7, <1>8 DEF Next, SetMocked, vars, state, past

\* What is left of the timelines.
LEMMA LineStep == IInv /\ [Next]_vars => LineInv'
<1> SUFFICES ASSUME IInv, [Next]_vars PROVE LineInv'
  OBVIOUS
<1> USE DEF IInv, TypeOK, StateTypes, LineInv
<1>1. ASSUME NEW t \in Threads, RecordRequest(t) PROVE LineInv'
  <2> DEFINE f == req[t].kind
             line == told[f].line
             used == told[f].used
  <2>1. f \in Formats /\ line \in Lines /\ used \in Nat
    BY <1>1 DEF RecordRequest, ThreadInv
  <2>2. Pop(responses[f]) = SubSeq(line, Idx(line, used + 2), Len(line))
    BY <2>1, PopLine
  <2>3. told'[f].line = line /\ told'[f].used = used + 1 /\ responses'[f] = Pop(responses[f])
    BY <1>1, <2>1 DEF RecordRequest
  <2>4. used + 2 = (used + 1) + 1
    BY <2>1
  <2>5. \A g \in Formats \ {f} : told'[g] = told[g] /\ responses'[g] = responses[g]
    BY <1>1 DEF RecordRequest
  <2> QED BY <2>1, <2>2, <2>3, <2>4, <2>5
<1>2. ASSUME NEW f \in Formats, NEW s \in Timelines[f], SetResponses(f, s) PROVE LineInv'
  <2>1. s = SubSeq(s, Idx(s, 0 + 1), Len(s))
    BY TimelineLines, NewLine
  <2>2. told'[f].line = s /\ told'[f].used = 0 /\ responses'[f] = s
    BY <1>2 DEF SetResponses
  <2>3. \A g \in Formats \ {f} : told'[g] = told[g] /\ responses'[g] = responses[g]
    BY <1>2 DEF SetResponses
  <2> QED BY <2>1, <2>2, <2>3
<1>3. CASE Reset
  BY <1>3, DefaultType, NewLine DEF Reset, Default
<1>4. CASE UNCHANGED <<responses, told>>
  BY <1>4
<1> QED
  BY <1>1, <1>2, <1>3, <1>4
  DEF Next, Lookup, Number, RecordResponse, FinishRequest, HandlerRaises, Write, Send,
      SetMocked, Close, vars, state, past

\* One request at a time, each with the code of its response.
LEMMA PollStep == IInv /\ [Next]_vars => PollInv'
<1> SUFFICES ASSUME IInv, [Next]_vars PROVE PollInv'
  OBVIOUS
<1> USE DEF IInv, TypeOK, StateTypes, PollInv
<1>1. ASSUME NEW t \in Threads, RecordRequest(t) PROVE PollInv'
  <2> DEFINE g == req[t].kind
             line == told[g].line
             used == told[g].used
  <2>1. g \in Formats /\ line \in Lines /\ used \in Nat
    BY <1>1 DEF RecordRequest, ThreadInv
  <2>2. /\ mark'.peak >= mark.peak /\ mark'.peak >= Cardinality(InHandler) + 1
        /\ mark'.strays = mark.strays /\ mark'.late = mark.late /\ mark'.set = mark.set
        /\ mark'.formats = mark.formats \cup {g}
    BY <1>1, Countable DEF RecordRequest, Larger
  <2>3. mark'.peak <= 1 => InHandler = {} /\ Unanswered = {} /\ mark.peak <= 1
    <3>1. \A k, p, q \in Nat : p >= q /\ p >= k + 1 /\ p <= 1 => k = 0 /\ q <= 1
      OBVIOUS
    <3>2. mark'.peak \in Nat /\ mark.peak \in Nat /\ Cardinality(InHandler) \in Nat
      BY StateStep, Countable
    <3>3. mark'.peak <= 1 => Cardinality(InHandler) = 0 /\ mark.peak <= 1
      BY <2>2, <3>1, <3>2
    <3>4. InHandler = {} => Unanswered = {}
      BY DEF InHandler, Unanswered
    <3> QED BY <3>3, <3>4, Countable
  <2>4. InHandler' = InHandler \cup {t} /\ Unanswered' = Unanswered \cup {t}
    BY <1>1 DEF RecordRequest, InHandler, Unanswered, PcTypes
  <2>5. OneAtATime'
    BY <2>3, <2>4 DEF OneAtATime
  <2>6. ASSUME NEW f \in mark'.set, Calm(f)' PROVE Served(f)'
    <3>1. f = g /\ mark'.peak <= 1
      BY <2>2, <2>6 DEF Calm
    <3>2. Calm(f)
      BY <1>1, <2>2, <2>3, <2>6 DEF Calm, RecordRequest
    <3>3. Alive
      BY <1>1 DEF RecordRequest, ThreadInv, Alive
    <3>4. Served(f) /\ Len(ffe.codes) = used
      BY <2>2, <2>3, <3>1, <3>2, <3>3 DEF Served
    <3>5. ffe'.codes = ffe.codes
      BY <1>1 DEF RecordRequest
    <3>6. told'[g].line = line /\ told'[g].used = used + 1
      BY <1>1, <2>1 DEF RecordRequest
    <3>7. Unanswered' = {t}
      BY <2>3, <2>4, <3>1
    <3>8. req'[t].id = line[Idx(line, used + 1)]
      <4>1. req'[t].id = Head(responses[g])
        BY <1>1 DEF RecordRequest, ReqTypes
      <4>2. Head(responses[g]) = line[Idx(line, used + 1)]
        BY <2>1, PopLine DEF LineInv
      <4> QED BY <4>1, <4>2
    <3>9. \A i \in 1 .. Len(ffe.codes) : ffe.codes[i] = Status(line[Idx(line, i)])
      BY <3>1, <3>4, Zenon DEF Served
    <3>10. f = g /\ Len(ffe.codes) = used /\ used \in Nat
      BY <2>1, <3>1, <3>4
    <3> HIDE DEF IInv, TypeOK, StateTypes, PollInv, g, line, used
    <3> QED BY <3>5, <3>6, <3>7, <3>8, <3>9, <3>10 DEF Served
  <2> QED BY <2>5, <2>6
<1>2. ASSUME NEW t \in Threads, RecordResponse(t) PROVE PollInv'
  <2>1. /\ InHandler' = InHandler /\ t \in InHandler
        /\ Unanswered' = Unanswered \ {t} /\ t \in Unanswered
    BY <1>2 DEF RecordResponse, InHandler, Unanswered, PcTypes
  <2>2. UNCHANGED <<mark, told, failed, req>>
    BY <1>2 DEF RecordResponse, past
  <2>3. OneAtATime'
    BY <2>1, <2>2 DEF OneAtATime
  <2>4. ASSUME NEW f \in mark'.set, Calm(f)' PROVE Served(f)'
    <3>1. Calm(f) /\ Served(f) /\ f \in Formats
      BY <2>2, <2>4 DEF Calm
    <3>2. Unanswered' = {}
      BY <2>1, <3>1 DEF Calm, OneAtATime, Unanswered, InHandler
    <3> DEFINE codes == ffe.codes
               code == Status(req[t].id)
    <3>3. ffe'.codes = Append(codes, code)
      BY <1>2 DEF RecordResponse
    <3>4. /\ Len(ffe'.codes) = Len(codes) + 1 /\ Len(codes) \in Nat
          /\ \A i \in 1 .. Len(codes) : ffe'.codes[i] = codes[i]
          /\ ffe'.codes[Len(codes) + 1] = code
      BY <3>3, StatusType, AppendProperties, LenProperties
    <3>5. told[f].used = Len(codes) + 1
          /\ code = Status(told[f].line[Idx(told[f].line, Len(codes) + 1)])
      BY <2>1, <3>1 DEF Served
    <3> HIDE DEF codes, code
    <3>6. \A i \in 1 .. Len(ffe'.codes) :
            ffe'.codes[i] = Status(told[f].line[Idx(told[f].line, i)])
      <4>1. \A i \in 1 .. Len(ffe'.codes) : i \in 1 .. Len(codes) \/ i = Len(codes) + 1
        BY <3>4
      <4>2. \A i \in 1 .. Len(codes) : codes[i] = Status(told[f].line[Idx(told[f].line, i)])
        BY <3>1 DEF Served, codes
      <4> QED BY <3>4, <3>5, <4>1, <4>2
    <3> QED BY <2>2, <3>2, <3>4, <3>5, <3>6 DEF Served
  <2> QED BY <2>3, <2>4
<1>3. ASSUME NEW t \in Threads, FinishRequest(t) PROVE PollInv'
  <2>1. InHandler' \subseteq InHandler /\ Unanswered' = Unanswered
    BY <1>3 DEF FinishRequest, InHandler, Unanswered, PcTypes
  <2>2. UNCHANGED <<mark, told, failed, req>> /\ ffe'.codes = ffe.codes
    BY <1>3 DEF FinishRequest, Leave, past
  <2>3. Alive' => Alive
    BY <1>3 DEF FinishRequest, PcTypes, Alive
  <2> QED BY <2>1, <2>2, <2>3 DEF OneAtATime, Calm, Served
<1>4. ASSUME NEW t \in Threads, HandlerRaises(t) PROVE PollInv'
  <2>1. InHandler' \subseteq InHandler /\ failed' # {} /\ UNCHANGED mark
    BY <1>4 DEF HandlerRaises, InHandler, PcTypes
  <2> QED BY <2>1 DEF OneAtATime, Calm
<1>5. ASSUME NEW g \in Formats, NEW s \in Timelines[g], SetResponses(g, s) PROVE PollInv'
  <2>1. /\ mark'.late = Cardinality(Unanswered) /\ mark'.set = {g}
        /\ mark'.peak = mark.peak /\ mark'.strays = mark.strays
        /\ told'[g].used = 0 /\ ffe'.codes = <<>>
    BY <1>5 DEF SetResponses
  <2>2. InHandler' = InHandler /\ Unanswered' = Unanswered
    BY <1>5 DEF SetResponses, InHandler, Unanswered
  <2> QED BY <2>1, <2>2, Countable, EmptySeq DEF OneAtATime, Calm, Served
<1>6. CASE Reset
  <2>1. /\ mark'.late = Cardinality(Unanswered) /\ mark'.set = Formats
        /\ mark'.strays = Cardinality(InHandler)
        /\ ffe'.codes = <<>> /\ \A f \in Formats : told'[f].used = 0
    BY <1>6 DEF Reset, CountsAfterReset, NoCounts
  <2>2. InHandler' = InHandler /\ Unanswered' = Unanswered
    BY <1>6 DEF Reset, InHandler, Unanswered
  <2> QED BY <2>1, <2>2, Countable, EmptySeq DEF OneAtATime, Calm, Served
<1>7. ASSUME InHandler' \subseteq InHandler, Unanswered' \subseteq Unanswered,
             Alive' /\ Unanswered' = {} => Alive /\ Unanswered = {},
             UNCHANGED <<mark, told, failed, ffe>>,
             \A t \in Unanswered' : req'[t].id = req[t].id
      PROVE  PollInv'
  BY <1>7 DEF OneAtATime, Calm, Served
<1>8. ASSUME NEW t \in Threads,
             (\E k \in Kinds : Lookup(t, k)) \/ Number(t) \/ Write(t) \/ Send(t)
      PROVE  PollInv'
  <2>1. InHandler' = InHandler /\ Unanswered' = Unanswered /\ (Alive' => Alive)
    BY <1>8 DEF Lookup, Number, Write, Send, InHandler, Unanswered, Alive, PcTypes
  <2>2. UNCHANGED <<mark, told, failed, ffe>>
    BY <1>8 DEF Lookup, Number, Write, Send, past, state
  <2>3. \A u \in Unanswered : req'[u].id = req[u].id
    BY <1>8 DEF Lookup, Number, Write, Send, Unanswered, PcTypes, ReqTypes
  <2> QED BY <1>7, <2>1, <2>2, <2>3
<1>9. CASE Close
  <2>1. UNCHANGED <<mark, told, failed, ffe>>
    BY <1>9 DEF Close, past, state
  <2>2. CASE UNCHANGED <<pc, req>>
    BY <1>7, <2>1, <2>2 DEF InHandler, Unanswered, Alive
  <2>3. CASE pc' = [t \in Threads |-> "gone"]
    <3>1. InHandler' = {} /\ Unanswered' = {}
      BY <2>3 DEF InHandler, Unanswered
    <3>2. Alive' => Threads = {}
      BY <2>3 DEF Alive
    <3>3. Threads = {} => Alive /\ Unanswered = {}
      BY DEF Alive, Unanswered
    <3> QED BY <1>7, <2>1, <3>1, <3>2, <3>3
  <2> QED BY <1>9, <2>2, <2>3 DEF Close
<1>10. CASE UNCHANGED <<pc, req, mark, told, failed, ffe>>
  BY <1>7, <1>10 DEF InHandler, Unanswered, Alive
<1> QED
  BY <1>1, <1>2, <1>3, <1>4, <1>5, <1>6, <1>8, <1>9, <1>10
  DEF Next, SetMocked, vars, state, past

-----------------------------------------------------------------------------
(* The theorems.                                                           *)

\* The inductive invariant holds for any number of threads and any timelines.
THEOREM Invariance == Spec => []IInv
<1>1. IInv /\ [Next]_vars => IInv'
  <2> SUFFICES ASSUME IInv, [Next]_vars PROVE IInv'
    OBVIOUS
  <2>1. TypeOK'
    BY PcStep, ReqStep, ServerStep, StateStep DEF IInv, TypeOK
  <2> QED BY <2>1, ThreadStep, NumberStep, CountStep, LineStep, PollStep DEF IInv
<1> QED
  BY InitIInv, <1>1, PTL DEF Spec

\* Every variable of the mocked backend keeps its type: in_flight is never
\* negative and there is always a response left to serve.
THEOREM TypeCorrect == Spec => []TypeOK
<1>1. IInv => TypeOK
  BY DEF IInv
<1> QED
  BY Invariance, <1>1, PTL

\* An answered request is on disk, no number is lost or used twice, whatever
\* order the threads of the server run in.
THEOREM NothingUnrecorded == Spec => []EveryRequestIsRecorded
<1>1. IInv => EveryRequestIsRecorded
  BY DEF IInv, NumberInv, Holding, EveryRequestIsRecorded
<1> QED
  BY Invariance, <1>1, PTL

\* in_flight and max_in_flight are those of the threads, up to the strays of a reset.
THEOREM CountersAreReal == Spec => []InFlightIsReal
<1>1. IInv => InFlightIsReal
  BY DEF IInv, CountInv
<1> QED
  BY Invariance, <1>1, PTL

\* A timeline is served in its order, and its status codes are read in that order
\* when requests do not overlap.
THEOREM TimelineIsServed == Spec => []CodesFollowTimeline
<1>1. IInv => CodesFollowTimeline
  <2> SUFFICES ASSUME IInv PROVE CodesFollowTimeline
    OBVIOUS
  <2>1. \A f \in Formats : InOrder(f)
    <3> SUFFICES ASSUME NEW f \in Formats PROVE InOrder(f)
      OBVIOUS
    <3> DEFINE line == told[f].line
               used == told[f].used
    <3>1. line \in Lines /\ used \in Nat
      BY DEF IInv, TypeOK, StateTypes
    <3>2. Idx(line, used + 1) = IF used < Len(line) THEN used + 1 ELSE Len(line)
      <4>1. \A n \in Nat \ {0} : (IF used + 1 < n THEN used + 1 ELSE n)
                                 = (IF used < n THEN used + 1 ELSE n)
        BY <3>1
      <4> QED BY <3>1, <4>1, LineLength DEF Idx
    <3> QED BY <3>2 DEF IInv, LineInv, InOrder
  <2>2. \A f \in mark.set : Calm(f) => \A i \in DOMAIN ffe.codes :
          i <= told[f].used /\ ffe.codes[i] = Status(told[f].line[Idx(told[f].line, i)])
    <3> SUFFICES ASSUME NEW f \in mark.set, Calm(f), NEW i \in DOMAIN ffe.codes
                 PROVE  /\ i <= told[f].used
                        /\ ffe.codes[i] = Status(told[f].line[Idx(told[f].line, i)])
      OBVIOUS
    <3>1. DOMAIN ffe.codes = 1 .. Len(ffe.codes) /\ Len(ffe.codes) \in Nat
      BY LenProperties DEF IInv, TypeOK, StateTypes
    <3>2. Served(f) /\ told[f].used \in Nat
      BY DEF IInv, PollInv, TypeOK, StateTypes
    <3> QED BY <3>1, <3>2 DEF Served
  <2> QED BY <2>1, <2>2 DEF CodesFollowTimeline, Calm, Idx
<1> QED
  BY Invariance, <1>1, PTL
=============================================================================

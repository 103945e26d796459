------------------------------ MODULE MessageLog ------------------------------
(***************************************************************************)
(* What an interface validator of utils/interfaces promises to a test,     *)
(* without files, threads, events or locks: a log of messages that only    *)
(* grows and is always in the order of the requests, and calls of wait_for *)
(* that answer from that log.                                              *)
(***************************************************************************)
EXTENDS Naturals, Sequences

CONSTANTS
    Message,     \* the numbers of the messages
    Function,    \* the wait_for_functions, each an outcome per message
    Unset        \* no wait_for has been called

VARIABLES
    log,         \* the messages a test can see, in order
    call,        \* the current, or last, wait_for: function, result, and whether
                 \* it inherits a notification of the call before it
    open         \* wait_for has not returned yet

vars == <<log, call, open>>

Logged == {log[i] : i \in DOMAIN log}

Init ==
    /\ log = <<>>
    /\ call = [f |-> Unset, result |-> "none", stale |-> FALSE]
    /\ open = FALSE

\* A message becomes visible, at its place.
Deliver(m) ==
    /\ m \notin Logged
    /\ Logged' = Logged \cup {m} /\ Len(log') = Len(log) + 1
    /\ \A i, j \in DOMAIN log' : i < j => log'[i] < log'[j]
    /\ UNCHANGED <<call, open>>

\* The call answers at once from what is logged ...
CallAnswers(f) ==
    /\ ~open
    /\ \E i \in DOMAIN log :
         /\ f[log[i]] # "false" /\ \A j \in 1 .. i - 1 : f[log[j]] = "false"
         /\ \E s \in BOOLEAN : call' = [f |-> f, result |-> f[log[i]], stale |-> s]
    /\ UNCHANGED <<log, open>>

\* ... or, if nothing logged decides it, stays open.
CallOpens(f) ==
    /\ ~open
    /\ \A m \in Logged : f[m] = "false"
    /\ \E s \in BOOLEAN : call' = [f |-> f, result |-> "none", stale |-> s]
    /\ open' = TRUE
    /\ UNCHANGED log

Satisfied == open /\ \E m \in Logged : call.f[m] = "true"

AnswerTrue ==
    /\ open
    /\ Satisfied \/ call.stale
    /\ call' = [call EXCEPT !.result = "true"]
    /\ open' = FALSE
    /\ UNCHANGED log

AnswerTimeout ==
    /\ open
    /\ call' = [call EXCEPT !.result = "false"]
    /\ open' = FALSE
    /\ UNCHANGED log

Next ==
    \/ \E m \in Message : Deliver(m)
    \/ \E f \in Function : CallAnswers(f) \/ CallOpens(f)
    \/ AnswerTrue \/ AnswerTimeout

Spec == Init /\ [][Next]_vars

\* A call whose message has come is answered, even if it never times out.
Liveness == WF_vars(Satisfied /\ (AnswerTrue \/ AnswerTimeout))
=============================================================================

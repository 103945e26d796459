---------------------------- MODULE InterfaceProofs ----------------------------
(***************************************************************************)
(* Proofs about InterfaceValidator, for every number of messages, every    *)
(* set of request threads, every set of wait functions and both modes.     *)
(***************************************************************************)
EXTENDS InterfaceValidator, FiniteSetTheorems, TLAPS

-----------------------------------------------------------------------------
(* What an insertion does to _data_list.                                   *)

\* The position of a new entry lies within the list.
LEMMA PositionType ==
    ASSUME NEW s \in Seq(Messages), NEW m \in Messages
    PROVE  Position(s, m) \in 0 .. Len(s)
<1> DEFINE S == {i \in DOMAIN s : s[i] <= m}
<1>1. S \subseteq 1 .. Len(s) /\ Len(s) \in Nat
  <2>1. DOMAIN s = 1 .. Len(s) /\ Len(s) \in Nat
    OBVIOUS
  <2> QED BY <2>1
<1>2. IsFiniteSet(1 .. Len(s)) /\ Cardinality(1 .. Len(s)) = Len(s)
  <2>1. PICK n \in Nat : n = Len(s)
    BY <1>1
  <2>2. IsFiniteSet(1 .. n) /\ Cardinality(1 .. n) = n
    BY FS_Interval
  <2> QED BY <2>1, <2>2
<1>3. IsFiniteSet(S) /\ Cardinality(S) <= Len(s)
  BY <1>1, <1>2, FS_Subset
<1>4. Cardinality(S) \in Nat
  BY <1>3, FS_CardinalityType
<1> QED
  BY <1>3, <1>4 DEF Position

\* Inserting an entry adds it to the list and keeps all the others.
LEMMA InsertContents ==
    ASSUME NEW s \in Seq(Messages), NEW m \in Messages
    PROVE  /\ Insert(s, m) \in Seq(Messages)
           /\ Contents(Insert(s, m)) = Contents(s) \cup {m}
<1> DEFINE k == Position(s, m)
           r == Insert(s, m)
<1>0. k \in 0 .. Len(s)
  BY PositionType
<1>1. /\ r = [i \in 1 .. Len(s) + 1 |->
                IF i <= k THEN s[i] ELSE IF i = k + 1 THEN m ELSE s[i - 1]]
      /\ DOMAIN r = 1 .. Len(s) + 1
  BY DEF Insert
<1> HIDE DEF k, r
<1>2. \A i \in 1 .. Len(s) + 1 : r[i] \in Messages
  <2>1. Len(s) \in Nat /\ \A i \in 1 .. Len(s) : s[i] \in Messages
    OBVIOUS
  <2> QED BY <1>0, <1>1, <2>1
<1>3. r \in Seq(Messages)
  BY <1>1, <1>2
<1>4. Contents(r) \subseteq Contents(s) \cup {m}
  BY <1>0, <1>1 DEF Contents
<1>5. m \in Contents(r)
  <2>1. k + 1 \in DOMAIN r /\ r[k + 1] = m
    BY <1>0, <1>1
  <2> QED BY <2>1 DEF Contents
<1>6. ASSUME NEW i \in DOMAIN s PROVE s[i] \in Contents(r)
  <2>1. CASE i <= k
    <3>1. i \in DOMAIN r /\ r[i] = s[i]
      BY <1>0, <1>1, <2>1
    <3> QED BY <3>1 DEF Contents
  <2>2. CASE ~(i <= k)
    <3>1. i + 1 \in DOMAIN r /\ r[i + 1] = s[i]
      BY <1>0, <1>1, <2>2
    <3> QED BY <3>1 DEF Contents
  <2> QED BY <2>1, <2>2
<1> QED
  BY <1>3, <1>4, <1>5, <1>6 DEF Contents, r

Increasing(s) == \A i, j \in DOMAIN s : i < j => s[i] < s[j]

\* In a strictly increasing list exactly the entries up to the position of m
\* are not larger than m.
LEMMA PositionSplits ==
    ASSUME NEW s \in Seq(Messages), NEW m \in Messages, Increasing(s),
           NEW i \in DOMAIN s
    PROVE  s[i] <= m <=> i <= Position(s, m)
<1> DEFINE S == {j \in DOMAIN s : s[j] <= m}
<1>0. /\ Position(s, m) \in Nat /\ Position(s, m) = Cardinality(S)
      /\ i \in 1 .. Len(s) /\ Len(s) \in Nat
      /\ \A j \in DOMAIN s : s[j] \in Nat
      /\ m \in Nat
  BY PositionType, NAssumption DEF Position, Messages
<1>1. IsFiniteSet(S)
  <2>1. S \subseteq 1 .. Len(s) OBVIOUS
  <2>2. IsFiniteSet(1 .. Len(s)) BY <1>0, FS_Interval
  <2> QED BY <2>1, <2>2, FS_Subset
<1>2. CASE s[i] <= m
  <2>1. ASSUME NEW j \in 1 .. i PROVE j \in S
    <3>1. j \in DOMAIN s /\ s[j] \in Nat /\ s[i] \in Nat /\ m \in Nat
      BY <1>0
    <3>2. j = i \/ s[j] < s[i]
      BY <1>0, <3>1 DEF Increasing
    <3> QED BY <1>2, <3>1, <3>2
  <2>2. Cardinality(1 .. i) = i
    BY <1>0, FS_Interval
  <2>3. i <= Cardinality(S)
    <3>1. 1 .. i \subseteq S
      BY <2>1
    <3> QED BY <1>1, <2>2, <3>1, FS_Subset
  <2> QED BY <1>0, <1>2, <2>3
<1>3. CASE ~(s[i] <= m)
  <2>1. S \subseteq 1 .. (i - 1)
    BY <1>0, <1>3 DEF Increasing
  <2>2. IsFiniteSet(1 .. (i - 1)) /\ Cardinality(1 .. (i - 1)) = i - 1
    <3>1. PICK n \in Nat : n = i - 1
      BY <1>0
    <3>2. IsFiniteSet(1 .. n) /\ Cardinality(1 .. n) = n
      BY FS_Interval
    <3> QED BY <3>1, <3>2
  <2>3. Cardinality(S) <= i - 1
    BY <2>1, <2>2, FS_Subset
  <2> QED BY <1>0, <1>3, <2>3
<1> QED BY <1>2, <1>3

\* Inserting a new entry into a strictly increasing list keeps it so.
LEMMA InsertIncreasing ==
    ASSUME NEW s \in Seq(Messages), NEW m \in Messages, Increasing(s),
           m \notin Contents(s)
    PROVE  Increasing(Insert(s, m))
<1> DEFINE k == Position(s, m)
           r == Insert(s, m)
<1>0. k \in 0 .. Len(s)
  BY PositionType
<1>1. /\ r = [i \in 1 .. Len(s) + 1 |->
                IF i <= k THEN s[i] ELSE IF i = k + 1 THEN m ELSE s[i - 1]]
      /\ DOMAIN r = 1 .. Len(s) + 1
  BY DEF Insert
<1>2. \A i \in DOMAIN s : s[i] \in Nat /\ s[i] # m /\ (s[i] < m <=> i <= k)
  <2>1. \A i \in DOMAIN s : s[i] <= m <=> i <= k
    BY PositionSplits
  <2>2. \A i \in DOMAIN s : s[i] \in Nat /\ s[i] # m /\ m \in Nat
    BY NAssumption DEF Contents, Messages
  <2> QED BY <2>1, <2>2
<1> HIDE DEF k, r
<1>3. m \in Nat
  BY NAssumption DEF Messages
<1>4. SUFFICES ASSUME NEW i \in DOMAIN r, NEW j \in DOMAIN r, i < j
               PROVE  r[i] < r[j]
  BY DEF Increasing, r
<1>5. CASE j <= k
  BY <1>0, <1>1, <1>2, <1>4, <1>5 DEF Increasing
<1>6. CASE j = k + 1
  BY <1>0, <1>1, <1>2, <1>3, <1>4, <1>6
<1>7. CASE j > k + 1
  <2>1. r[j] = s[j - 1] /\ j - 1 \in DOMAIN s /\ ~(j - 1 <= k)
    BY <1>0, <1>1, <1>7
  <2>2. CASE i <= k
    BY <1>0, <1>1, <1>2, <1>4, <2>1, <2>2 DEF Increasing
  <2>3. CASE i = k + 1
    BY <1>0, <1>1, <1>2, <1>3, <1>4, <2>1, <2>3
  <2>4. CASE i > k + 1
    BY <1>0, <1>1, <1>2, <1>4, <2>1, <2>4 DEF Increasing
  <2> QED BY <1>0, <1>1, <2>2, <2>3, <2>4
<1> QED BY <1>0, <1>1, <1>5, <1>6, <1>7

-----------------------------------------------------------------------------
(* The inductive invariant.                                                *)

USE DEF Back, Goto, disks, polls, store, waitvars, InProcess, Drains

\* A new validator satisfies the inductive invariant.
LEMMA InitIInv == Init => IInv
<1> SUFFICES ASSUME Init PROVE IInv
  OBVIOUS
<1>1. Contents(list) = {} /\ list \in Seq(Messages)
  BY DEF Init, Contents
<1>2. TypeOK
  <2>1. next \in 1 .. N + 1 /\ waits \in 0 .. MaxWaits /\ msg \in [Threads -> 0 .. N]
    BY NAssumption, ModeAssumption DEF Init
  <2>2. /\ wait \in [f : Functions \cup {NoFunction},
                     result : Outcome \cup {"none"}, stale : BOOLEAN]
        /\ walk \in [idx : Nat, present : SUBSET Messages,
                     status : {"none", "walking", "success", "error"}]
    BY DEF Init, NoWait, NoWalk
  <2> QED BY <1>1, <2>1, <2>2 DEF Init, TypeOK, PC
<1>3. LockInv /\ RecorderInv /\ ModeInv /\ IngestInv
  BY <1>1, ThreadAssumption DEF Init, LockInv, RecorderInv, ModeInv, IngestInv, Recording,
         Threads
<1>4. WaitInv /\ DrainInv /\ OnceAndInOrder /\ NoLostWakeup /\ TrueIsJustified /\ DrainIsComplete
  BY <1>1 DEF Init, WaitInv, DrainInv, OnceAndInOrder, NoLostWakeup, TrueIsJustified,
         DrainIsComplete, NoWait, Threads
<1> QED BY <1>2, <1>3, <1>4 DEF IInv

\* Entries of _data_list are messages.
LEMMA ContentsMessages ==
    ASSUME TypeOK PROVE Contents(list) \subseteq Messages
BY DEF TypeOK, Contents

\* Number preserves the inductive invariant.
LEMMA NumberStep ==
    ASSUME IInv, NEW h \in Handlers, Number(h)
    PROVE  IInv'
<1> USE NAssumption, ThreadAssumption, FunctionAssumption, ModeAssumption DEF IInv, Threads
<1>0. UNCHANGED list /\ Contents(list') = Contents(list)
  BY DEF Number
<1>1. (TypeOK)'
  BY <1>0 DEF Number, TypeOK, PC
<1>2. (LockInv /\ ModeInv /\ RecorderInv /\ IngestInv)'
  <2>1. next \in Messages /\ disk[next] = "absent" /\ next \notin Contents(list)
    <3>1. next \in Messages
      BY DEF Number, TypeOK, Messages
    <3>2. disk[next] = "absent"
      BY <3>1 DEF RecorderInv, Messages
    <3> QED BY <3>1, <3>2 DEF IngestInv
  <2>2. \A g \in Handlers : pc[g] \in Recording => msg[g] # next
    BY DEF TypeOK, RecorderInv
  <2>3. next' = next + 1 /\ next \in Nat
    BY DEF Number, TypeOK
  <2>4. RecorderInv'
    BY <1>0, <2>1, <2>2, <2>3 DEF Number, RecorderInv, TypeOK
  <2> QED BY <1>0, <2>1, <2>4 DEF Number, LockInv, ModeInv, IngestInv, Recording, TypeOK
<1>3. (WaitInv /\ NoLostWakeup /\ TrueIsJustified)'
  BY <1>0 DEF Number, WaitInv, NoLostWakeup, TrueIsJustified, Justified, Notifying
<1>4. (DrainInv /\ DrainIsComplete /\ OnceAndInOrder)'
  BY <1>0 DEF Number, DrainInv, DrainIsComplete, OnceAndInOrder
<1> QED BY <1>1, <1>2, <1>3, <1>4

\* Create preserves the inductive invariant.
LEMMA CreateStep ==
    ASSUME IInv, NEW h \in Handlers, Create(h)
    PROVE  IInv'
<1> USE NAssumption, ThreadAssumption, FunctionAssumption, ModeAssumption DEF IInv, Threads
<1>0. UNCHANGED list /\ Contents(list') = Contents(list)
  BY DEF Create
<1>1. TypeOK'
  <2>1. msg[h] \in Messages
    BY DEF Create, TypeOK, RecorderInv, Recording, Messages
  <2> QED BY <1>0, <2>1 DEF Create, TypeOK, PC
<1>2. (LockInv /\ ModeInv /\ RecorderInv /\ IngestInv)'
  BY <1>0 DEF Create, LockInv, ModeInv, RecorderInv, IngestInv, Recording, TypeOK
<1>3. (WaitInv /\ NoLostWakeup /\ TrueIsJustified)'
  BY <1>0 DEF Create, WaitInv, NoLostWakeup, TrueIsJustified, Justified, Notifying
<1>4. (DrainInv /\ DrainIsComplete /\ OnceAndInOrder)'
  BY <1>0 DEF Create, DrainInv, DrainIsComplete, OnceAndInOrder, ModeInv
<1> QED BY <1>1, <1>2, <1>3, <1>4

\* Write preserves the inductive invariant.
LEMMA WriteStep ==
    ASSUME IInv, NEW h \in Handlers, Write(h)
    PROVE  IInv'
<1> USE NAssumption, ThreadAssumption, FunctionAssumption, ModeAssumption DEF IInv, Threads
<1>0. UNCHANGED list /\ Contents(list') = Contents(list)
  BY DEF Write
<1>1. TypeOK'
  <2>1. msg[h] \in Messages
    BY DEF Write, TypeOK, RecorderInv, Recording, Messages
  <2> QED BY <1>0, <2>1 DEF Write, TypeOK, PC
<1>2. (LockInv /\ ModeInv /\ RecorderInv /\ IngestInv)'
  <2>1. /\ msg[h] \in Messages /\ msg[h] < next /\ msg[h] \notin Contents(list)
        /\ \A g \in Handlers \ {h} : pc[g] \in Recording => msg[g] # msg[h]
        /\ next \in Nat
    BY DEF Write, TypeOK, RecorderInv, Recording, Messages
  <2>2. RecorderInv'
    BY <1>0, <2>1 DEF Write, RecorderInv, Recording, TypeOK
  <2> QED BY <1>0, <2>1, <2>2 DEF Write, LockInv, ModeInv, IngestInv, Recording, TypeOK
<1>3. (WaitInv /\ NoLostWakeup /\ TrueIsJustified)'
  BY <1>0 DEF Write, WaitInv, NoLostWakeup, TrueIsJustified, Justified, Notifying
<1>4. (DrainInv /\ DrainIsComplete /\ OnceAndInOrder)'
  BY <1>0 DEF Write, DrainInv, DrainIsComplete, OnceAndInOrder, ModeInv
<1> QED BY <1>1, <1>2, <1>3, <1>4

\* StopRecorder preserves the inductive invariant.
LEMMA StopRecorderStep ==
    ASSUME IInv, StopRecorder
    PROVE  IInv'
<1> USE NAssumption, ThreadAssumption, FunctionAssumption, ModeAssumption DEF IInv, Threads
<1>0. UNCHANGED list /\ Contents(list') = Contents(list)
  BY DEF StopRecorder
<1>1. TypeOK'
  <2>1. pc' \in [Threads -> PC]
    BY DEF StopRecorder, TypeOK, PC
  <2>2. /\ recording' = FALSE
        /\ UNCHANGED <<mode, disk, next, seen, pending, msg, lock, list, ingested, fn, event,
                       ready, dead, wait, waits, walk>>
    BY DEF StopRecorder, polls, store, waitvars
  <2>3. recording' \in BOOLEAN
    BY <2>2
  <2>4. TypeOK
    OBVIOUS
  <2> HIDE DEF IInv
  <2> QED BY <2>1, <2>2, <2>3, <2>4 DEF TypeOK
<1>2. (LockInv /\ ModeInv /\ RecorderInv /\ IngestInv)'
  BY <1>0 DEF StopRecorder, LockInv, ModeInv, RecorderInv, IngestInv, Recording
<1>3. (WaitInv /\ NoLostWakeup /\ TrueIsJustified)'
  BY <1>0 DEF StopRecorder, WaitInv, NoLostWakeup, TrueIsJustified
<1>4. (DrainInv /\ DrainIsComplete /\ OnceAndInOrder)'
  BY <1>0 DEF StopRecorder, DrainInv, DrainIsComplete, OnceAndInOrder
<1> QED BY <1>1, <1>2, <1>3, <1>4

\* Poll preserves the inductive invariant.
LEMMA PollStep ==
    ASSUME IInv, NEW m \in Messages, Poll(m)
    PROVE  IInv'
<1> USE NAssumption, ThreadAssumption, FunctionAssumption, ModeAssumption DEF IInv, Threads
<1>0. UNCHANGED list /\ Contents(list') = Contents(list)
  BY DEF Poll
<1>1. (TypeOK)'
  BY <1>0 DEF Poll, TypeOK, Outcome
<1>2. (LockInv /\ ModeInv /\ RecorderInv /\ IngestInv)'
  BY <1>0 DEF Poll, LockInv, ModeInv, RecorderInv, IngestInv
<1>3. (WaitInv /\ NoLostWakeup /\ TrueIsJustified)'
  BY <1>0 DEF Poll, WaitInv, NoLostWakeup, TrueIsJustified, Justified, Notifying
<1>4. (DrainInv /\ DrainIsComplete /\ OnceAndInOrder)'
  BY <1>0 DEF Poll, DrainInv, DrainIsComplete, OnceAndInOrder
<1> QED BY <1>1, <1>2, <1>3, <1>4

\* Dispatch preserves the inductive invariant.
LEMMA DispatchStep ==
    ASSUME IInv, NEW m \in Messages, Dispatch(m)
    PROVE  IInv'
<1> USE NAssumption, ThreadAssumption, FunctionAssumption, ModeAssumption DEF IInv, Threads
<1>0. UNCHANGED list /\ Contents(list') = Contents(list)
  BY DEF Dispatch
<1>1. TypeOK'
  <2>1. pending' \subseteq Messages /\ msg' \in [Threads -> 0 .. N]
    BY DEF Dispatch, TypeOK, Messages
  <2> QED BY <1>0, <2>1 DEF Dispatch, TypeOK, PC
<1>2. (LockInv /\ ModeInv /\ RecorderInv /\ IngestInv)'
  BY <1>0 DEF Dispatch, LockInv, ModeInv, RecorderInv, IngestInv, TypeOK
<1>3. (WaitInv /\ NoLostWakeup /\ TrueIsJustified)'
  BY <1>0 DEF Dispatch, WaitInv, NoLostWakeup, TrueIsJustified, Justified, Notifying
<1>4. (DrainInv /\ DrainIsComplete /\ OnceAndInOrder)'
  BY <1>0 DEF Dispatch, DrainInv, DrainIsComplete, OnceAndInOrder
<1> QED BY <1>1, <1>2, <1>3, <1>4

\* IngestSkip preserves the inductive invariant.
LEMMA IngestSkipStep ==
    ASSUME IInv, NEW t \in Threads, IngestSkip(t)
    PROVE  IInv'
<1> USE NAssumption, ThreadAssumption, FunctionAssumption, ModeAssumption DEF IInv, Threads
<1>0. UNCHANGED list /\ Contents(list') = Contents(list)
  BY DEF IngestSkip
<1>1. (TypeOK)'
  BY <1>0 DEF IngestSkip, TypeOK, PC
<1>2. (LockInv /\ ModeInv /\ RecorderInv /\ IngestInv)'
  BY <1>0 DEF IngestSkip, LockInv, ModeInv, RecorderInv, IngestInv
<1>3. (WaitInv /\ NoLostWakeup /\ TrueIsJustified)'
  BY <1>0 DEF IngestSkip, WaitInv, NoLostWakeup, TrueIsJustified, Justified, Notifying
<1>4. (DrainInv /\ DrainIsComplete /\ OnceAndInOrder)'
  <2>1. t = Main => msg[t] \in Contents(list) \/ disk[msg[t]] = "partial"
    BY DEF IngestSkip, IngestInv, LockInv, ModeInv
  <2> QED BY <1>0, <2>1 DEF IngestSkip, DrainInv, DrainIsComplete, OnceAndInOrder, ModeInv, TypeOK, Messages
<1> QED BY <1>1, <1>2, <1>3, <1>4

\* IngestAppend preserves the inductive invariant.
LEMMA IngestAppendStep ==
    ASSUME IInv, NEW t \in Threads, IngestAppend(t)
    PROVE  IInv'
<1> USE NAssumption, ThreadAssumption, FunctionAssumption, ModeAssumption DEF IInv, Threads
<1>0. UNCHANGED list /\ Contents(list') = Contents(list)
  BY DEF IngestAppend
<1>1. TypeOK'
  <2>1. msg[t] \in Messages
    BY DEF IngestAppend, IngestInv, ModeInv, Recording
  <2> QED BY <1>0, <2>1 DEF IngestAppend, TypeOK, PC
<1>2. (LockInv /\ ModeInv /\ RecorderInv /\ IngestInv)'
  BY <1>0 DEF IngestAppend, LockInv, ModeInv, RecorderInv, IngestInv, Recording, TypeOK
<1>3. (WaitInv /\ NoLostWakeup /\ TrueIsJustified)'
  BY <1>0 DEF IngestAppend, WaitInv, NoLostWakeup, TrueIsJustified, Justified, Notifying
<1>4. (DrainInv /\ DrainIsComplete /\ OnceAndInOrder)'
  BY <1>0 DEF IngestAppend, DrainInv, DrainIsComplete, OnceAndInOrder
<1> QED BY <1>1, <1>2, <1>3, <1>4

\* OnMessage preserves the inductive invariant.
LEMMA OnMessageStep ==
    ASSUME IInv, NEW t \in Threads, OnMessage(t)
    PROVE  IInv'
<1> USE NAssumption, ThreadAssumption, FunctionAssumption, ModeAssumption DEF IInv, Threads
<1>0. UNCHANGED list /\ Contents(list') = Contents(list)
  BY DEF OnMessage
<1>1. (TypeOK)'
  BY <1>0 DEF OnMessage, TypeOK, PC
<1>2. (LockInv /\ ModeInv /\ RecorderInv /\ IngestInv)'
  <2>1. t \in Handlers /\ InProcess
    BY DEF OnMessage, ModeInv
  <2>2. msg[t] \in Messages /\ disk[msg[t]] = "complete" /\ msg[t] \notin Contents(list)
    BY <2>1 DEF OnMessage, RecorderInv, Recording, TypeOK, Messages
  <2> QED BY <1>0, <2>1, <2>2 DEF OnMessage, LockInv, ModeInv, RecorderInv, IngestInv, Recording, TypeOK
<1>3. (WaitInv /\ NoLostWakeup /\ TrueIsJustified)'
  BY <1>0 DEF OnMessage, WaitInv, NoLostWakeup, TrueIsJustified, Justified, Notifying
<1>4. (DrainInv /\ DrainIsComplete /\ OnceAndInOrder)'
  BY <1>0 DEF OnMessage, DrainInv, DrainIsComplete, OnceAndInOrder, ModeInv
<1> QED BY <1>1, <1>2, <1>3, <1>4

\* SortEnd preserves the inductive invariant.
LEMMA SortEndStep ==
    ASSUME IInv, NEW t \in Threads, SortEnd(t)
    PROVE  IInv'
<1> USE NAssumption, ThreadAssumption, FunctionAssumption, ModeAssumption DEF IInv, Threads
<1>0. /\ msg[t] \in Messages /\ msg[t] \notin Contents(list)
      /\ list' \in Seq(Messages)
      /\ Contents(list') = Contents(list) \cup {msg[t]}
  BY InsertContents DEF SortEnd, IngestInv, TypeOK
<1>1. TypeOK'
  BY <1>0 DEF SortEnd, TypeOK, PC
<1>2. (LockInv /\ ModeInv /\ RecorderInv /\ IngestInv)'
  <2>1. \A u \in Threads : u # t => pc[u] # "sort" /\ pc'[u] = pc[u]
    BY DEF SortEnd, LockInv, TypeOK
  <2>2. (LockInv /\ ModeInv)'
    BY <2>1 DEF SortEnd, LockInv, ModeInv, TypeOK
  <2>3. \A h \in Handlers : h # t /\ pc[h] \in Recording => msg[h] # msg[t]
    BY <1>0 DEF SortEnd, RecorderInv, Recording, ModeInv, IngestInv
  <2>4. RecorderInv'
    BY <1>0, <2>1, <2>3 DEF SortEnd, RecorderInv, Recording
  <2>5. IngestInv'
    BY <1>0, <2>1 DEF SortEnd, IngestInv, TypeOK
  <2> QED BY <2>2, <2>4, <2>5
<1>3. (WaitInv /\ NoLostWakeup /\ TrueIsJustified)'
  BY <1>0 DEF SortEnd, WaitInv, NoLostWakeup, TrueIsJustified, Justified, Notifying, TypeOK
<1>4. (DrainInv /\ DrainIsComplete)'
  BY <1>0 DEF SortEnd, DrainInv, DrainIsComplete, IngestInv, Messages
<1>5. OnceAndInOrder'
  BY <1>0, InsertIncreasing DEF SortEnd, OnceAndInOrder, Increasing, TypeOK
<1> QED BY <1>1, <1>2, <1>3, <1>4, <1>5

\* TestFunction preserves the inductive invariant.
LEMMA TestFunctionStep ==
    ASSUME IInv, NEW t \in Threads, TestFunction(t)
    PROVE  IInv'
<1> USE NAssumption, ThreadAssumption, FunctionAssumption, ModeAssumption DEF IInv, Threads
<1>0. UNCHANGED list /\ Contents(list') = Contents(list)
  BY DEF TestFunction
<1>1. (TypeOK)'
  BY <1>0 DEF TestFunction, TypeOK, PC
<1>2. (LockInv /\ ModeInv /\ RecorderInv /\ IngestInv)'
  BY <1>0 DEF TestFunction, LockInv, ModeInv, RecorderInv, IngestInv, Recording
<1>3. (WaitInv /\ NoLostWakeup /\ TrueIsJustified)'
  BY <1>0 DEF TestFunction, WaitInv, NoLostWakeup, TrueIsJustified, Justified, Notifying
<1>4. (DrainInv /\ DrainIsComplete /\ OnceAndInOrder)'
  BY <1>0 DEF TestFunction, DrainInv, DrainIsComplete, OnceAndInOrder
<1> QED BY <1>1, <1>2, <1>3, <1>4

\* CallFunction preserves the inductive invariant.
LEMMA CallFunctionStep ==
    ASSUME IInv, NEW t \in Threads, CallFunction(t)
    PROVE  IInv'
<1> USE NAssumption, ThreadAssumption, FunctionAssumption, ModeAssumption DEF IInv, Threads
<1>0. UNCHANGED list /\ Contents(list') = Contents(list)
  BY DEF CallFunction
<1>1. (TypeOK)'
  BY <1>0 DEF CallFunction, TypeOK, PC
<1>2. (LockInv /\ ModeInv /\ RecorderInv /\ IngestInv)'
  BY <1>0 DEF CallFunction, LockInv, ModeInv, RecorderInv, IngestInv, Recording
<1>3. (WaitInv /\ NoLostWakeup /\ TrueIsJustified)'
  BY <1>0 DEF CallFunction, WaitInv, NoLostWakeup, TrueIsJustified, Justified, Notifying,
         IngestInv
<1>4. (DrainInv /\ DrainIsComplete /\ OnceAndInOrder)'
  BY <1>0 DEF CallFunction, DrainInv, DrainIsComplete, OnceAndInOrder
<1> QED BY <1>1, <1>2, <1>3, <1>4

\* CallRaises preserves the inductive invariant.
LEMMA CallRaisesStep ==
    ASSUME IInv, NEW t \in Threads, CallRaises(t)
    PROVE  IInv'
<1> USE NAssumption, ThreadAssumption, FunctionAssumption, ModeAssumption DEF IInv, Threads
<1>0. UNCHANGED list /\ Contents(list') = Contents(list)
  BY DEF CallRaises
<1>1. (TypeOK)'
  BY <1>0 DEF CallRaises, TypeOK, PC
<1>2. (LockInv /\ ModeInv /\ RecorderInv /\ IngestInv)'
  BY <1>0 DEF CallRaises, LockInv, ModeInv, RecorderInv, IngestInv, Recording
<1>3. (WaitInv /\ NoLostWakeup /\ TrueIsJustified)'
  BY <1>0 DEF CallRaises, WaitInv, NoLostWakeup, TrueIsJustified, Justified, Notifying
<1>4. (DrainInv /\ DrainIsComplete /\ OnceAndInOrder)'
  BY <1>0 DEF CallRaises, DrainInv, DrainIsComplete, OnceAndInOrder
<1> QED BY <1>1, <1>2, <1>3, <1>4

\* SetEvent preserves the inductive invariant.
LEMMA SetEventStep ==
    ASSUME IInv, NEW t \in Threads, SetEvent(t)
    PROVE  IInv'
<1> USE NAssumption, ThreadAssumption, FunctionAssumption, ModeAssumption DEF IInv, Threads
<1>0. UNCHANGED list /\ Contents(list') = Contents(list)
  BY DEF SetEvent
<1>1. (TypeOK)'
  BY <1>0 DEF SetEvent, TypeOK, PC
<1>2. (LockInv /\ ModeInv /\ RecorderInv /\ IngestInv)'
  BY <1>0 DEF SetEvent, LockInv, ModeInv, RecorderInv, IngestInv, Recording
<1>3. (WaitInv /\ NoLostWakeup /\ TrueIsJustified)'
  BY <1>0 DEF SetEvent, WaitInv, NoLostWakeup, TrueIsJustified, Justified
<1>4. (DrainInv /\ DrainIsComplete /\ OnceAndInOrder)'
  BY <1>0 DEF SetEvent, DrainInv, DrainIsComplete, OnceAndInOrder
<1> QED BY <1>1, <1>2, <1>3, <1>4

\* WaitForExisting preserves the inductive invariant.
LEMMA WaitForExistingStep ==
    ASSUME IInv, NEW f \in Functions, WaitForExisting(f)
    PROVE  IInv'
<1> USE NAssumption, ThreadAssumption, FunctionAssumption, ModeAssumption DEF IInv, Threads
<1>0. UNCHANGED list /\ Contents(list') = Contents(list)
  BY DEF WaitForExisting, WaitForCall
<1>1. (TypeOK)'
  BY <1>0 DEF WaitForExisting, WaitForCall, TypeOK
<1>2. (LockInv /\ ModeInv /\ RecorderInv /\ IngestInv)'
  BY <1>0 DEF WaitForExisting, LockInv, ModeInv, RecorderInv, IngestInv
<1>3. (WaitInv /\ NoLostWakeup /\ TrueIsJustified)'
  <2>1. PICK i \in DOMAIN list : ScanStopsAt(f, i) /\ WaitForCall(f, f[list[i]])
    BY DEF WaitForExisting
  <2>2. list[i] \in Contents(list)
    BY <2>1 DEF Contents
  <2>3. wait'.f = f /\ wait'.result = f[list[i]]
    BY <2>1 DEF WaitForCall
  <2> QED BY <1>0, <2>1, <2>2, <2>3 DEF WaitForExisting, WaitForCall, WaitInv, NoLostWakeup,
          TrueIsJustified, Notifying, TypeOK
<1>4. (DrainInv /\ DrainIsComplete /\ OnceAndInOrder)'
  BY <1>0 DEF WaitForExisting, DrainInv, DrainIsComplete, OnceAndInOrder
<1> QED BY <1>1, <1>2, <1>3, <1>4

\* WaitForInstall preserves the inductive invariant.
LEMMA WaitForInstallStep ==
    ASSUME IInv, NEW f \in Functions, WaitForInstall(f)
    PROVE  IInv'
<1> USE NAssumption, ThreadAssumption, FunctionAssumption, ModeAssumption DEF IInv, Threads
<1>0. UNCHANGED list /\ Contents(list') = Contents(list)
  BY DEF WaitForInstall, WaitForCall
<1>1. TypeOK'
  <2>1. wait' \in [f : Functions \cup {NoFunction},
                   result : Outcome \cup {"none"}, stale : BOOLEAN]
    BY DEF WaitForInstall, WaitForCall
  <2>2. waits' \in 0 .. MaxWaits
    BY DEF WaitForInstall, WaitForCall, TypeOK
  <2> QED BY <1>0, <2>1, <2>2 DEF WaitForInstall, TypeOK, PC
<1>2. (LockInv /\ ModeInv /\ RecorderInv /\ IngestInv)'
  BY <1>0 DEF WaitForInstall, LockInv, ModeInv, RecorderInv, IngestInv
<1>3. (WaitInv /\ NoLostWakeup /\ TrueIsJustified)'
  BY <1>0 DEF WaitForInstall, WaitForCall, WaitInv, NoLostWakeup, TrueIsJustified
<1>4. (DrainInv /\ DrainIsComplete /\ OnceAndInOrder)'
  BY <1>0 DEF WaitForInstall, DrainInv, DrainIsComplete, OnceAndInOrder
<1> QED BY <1>1, <1>2, <1>3, <1>4

\* WaitReturns preserves the inductive invariant.
LEMMA WaitReturnsStep ==
    ASSUME IInv, WaitReturns
    PROVE  IInv'
<1> USE NAssumption, ThreadAssumption, FunctionAssumption, ModeAssumption DEF IInv, Threads
<1>0. UNCHANGED list /\ Contents(list') = Contents(list)
  BY DEF WaitReturns
<1>1. TypeOK'
  <2>1. pc' \in [Threads -> PC]
    BY DEF WaitReturns, Goto, TypeOK, PC
  <2>2. wait' \in [f : Functions \cup {NoFunction},
                   result : Outcome \cup {"none"}, stale : BOOLEAN]
    <3>1. wait \in [f : Functions \cup {NoFunction},
                    result : Outcome \cup {"none"}, stale : BOOLEAN]
      BY DEF TypeOK
    <3> QED BY <3>1 DEF WaitReturns, Outcome
  <2>3. TypeOK /\ UNCHANGED <<mode, disk, next, recording, seen, pending, msg, lock, list,
                              ingested, fn, event, ready, dead, waits, walk>>
    BY DEF WaitReturns, disks, polls, store
  <2> HIDE DEF IInv
  <2> QED BY <2>1, <2>2, <2>3, ZenonT(40) DEF TypeOK
<1>2. (LockInv /\ ModeInv /\ RecorderInv /\ IngestInv)'
  BY <1>0 DEF WaitReturns, LockInv, ModeInv, RecorderInv, IngestInv
<1>3. (WaitInv /\ NoLostWakeup /\ TrueIsJustified)'
  BY <1>0 DEF WaitReturns, WaitInv, NoLostWakeup, TrueIsJustified, Justified
<1>4. (DrainInv /\ DrainIsComplete /\ OnceAndInOrder)'
  BY <1>0 DEF WaitReturns, DrainInv, DrainIsComplete, OnceAndInOrder
<1> QED BY <1>1, <1>2, <1>3, <1>4

\* WaitTimeout preserves the inductive invariant.
LEMMA WaitTimeoutStep ==
    ASSUME IInv, WaitTimeout
    PROVE  IInv'
<1> USE NAssumption, ThreadAssumption, FunctionAssumption, ModeAssumption DEF IInv, Threads
<1>0. UNCHANGED list /\ Contents(list') = Contents(list)
  BY DEF WaitTimeout
<1>1. TypeOK'
  <2>1. pc' \in [Threads -> PC]
    BY DEF WaitTimeout, Goto, TypeOK, PC
  <2>2. wait' \in [f : Functions \cup {NoFunction},
                   result : Outcome \cup {"none"}, stale : BOOLEAN]
    <3>1. wait \in [f : Functions \cup {NoFunction},
                    result : Outcome \cup {"none"}, stale : BOOLEAN]
      BY DEF TypeOK
    <3> QED BY <3>1 DEF WaitTimeout, Outcome
  <2>3. TypeOK /\ UNCHANGED <<mode, disk, next, recording, seen, pending, msg, lock, list,
                              ingested, fn, event, ready, dead, waits, walk>>
    BY DEF WaitTimeout, disks, polls, store
  <2> HIDE DEF IInv
  <2> QED BY <2>1, <2>2, <2>3, ZenonT(40) DEF TypeOK
<1>2. (LockInv /\ ModeInv /\ RecorderInv /\ IngestInv)'
  BY <1>0 DEF WaitTimeout, LockInv, ModeInv, RecorderInv, IngestInv
<1>3. (WaitInv /\ NoLostWakeup /\ TrueIsJustified)'
  BY <1>0 DEF WaitTimeout, WaitInv, NoLostWakeup, TrueIsJustified, Justified, Notifying
<1>4. (DrainInv /\ DrainIsComplete /\ OnceAndInOrder)'
  BY <1>0 DEF WaitTimeout, DrainInv, DrainIsComplete, OnceAndInOrder
<1> QED BY <1>1, <1>2, <1>3, <1>4

\* WaitReset preserves the inductive invariant.
LEMMA WaitResetStep ==
    ASSUME IInv, WaitReset
    PROVE  IInv'
<1> USE NAssumption, ThreadAssumption, FunctionAssumption, ModeAssumption DEF IInv, Threads
<1>0. UNCHANGED list /\ Contents(list') = Contents(list)
  BY DEF WaitReset
<1>1. (TypeOK)'
  BY <1>0 DEF WaitReset, TypeOK, PC
<1>2. (LockInv /\ ModeInv /\ RecorderInv /\ IngestInv)'
  BY <1>0 DEF WaitReset, LockInv, ModeInv, RecorderInv, IngestInv
<1>3. (WaitInv /\ NoLostWakeup /\ TrueIsJustified)'
  BY <1>0 DEF WaitReset, WaitInv, NoLostWakeup, TrueIsJustified
<1>4. (DrainInv /\ DrainIsComplete /\ OnceAndInOrder)'
  BY <1>0 DEF WaitReset, DrainInv, DrainIsComplete, OnceAndInOrder
<1> QED BY <1>1, <1>2, <1>3, <1>4

\* DrainStart preserves the inductive invariant.
LEMMA DrainStartStep ==
    ASSUME IInv, DrainStart
    PROVE  IInv'
<1> USE NAssumption, ThreadAssumption, FunctionAssumption, ModeAssumption DEF IInv, Threads
<1>0. UNCHANGED list /\ Contents(list') = Contents(list)
  BY DEF DrainStart
<1>1. (TypeOK)'
  BY <1>0 DEF DrainStart, TypeOK, PC
<1>2. (LockInv /\ ModeInv /\ RecorderInv /\ IngestInv)'
  BY <1>0 DEF DrainStart, LockInv, ModeInv, RecorderInv, IngestInv
<1>3. (WaitInv /\ NoLostWakeup /\ TrueIsJustified)'
  BY <1>0 DEF DrainStart, WaitInv, NoLostWakeup, TrueIsJustified
<1>4. (DrainInv /\ DrainIsComplete /\ OnceAndInOrder)'
  BY <1>0 DEF DrainStart, DrainInv, DrainIsComplete, OnceAndInOrder, TypeOK, Messages
<1> QED BY <1>1, <1>2, <1>3, <1>4

\* DrainNext preserves the inductive invariant.
LEMMA DrainNextStep ==
    ASSUME IInv, DrainNext
    PROVE  IInv'
<1> USE NAssumption, ThreadAssumption, FunctionAssumption, ModeAssumption DEF IInv, Threads
<1>0. UNCHANGED list /\ Contents(list') = Contents(list)
  BY DEF DrainNext
<1>1. TypeOK'
  BY <1>0 DEF DrainNext, Remaining, TypeOK, PC, Messages
<1>2. (LockInv /\ ModeInv /\ RecorderInv /\ IngestInv)'
  BY <1>0 DEF DrainNext, Remaining, LockInv, ModeInv, RecorderInv, IngestInv, TypeOK
<1>3. (WaitInv /\ NoLostWakeup /\ TrueIsJustified)'
  BY <1>0 DEF DrainNext, WaitInv, NoLostWakeup, TrueIsJustified
<1>4. (DrainInv /\ DrainIsComplete /\ OnceAndInOrder)'
  <2>1. PICK m \in Remaining :
            (\A n \in Remaining : m <= n) /\ msg' = [msg EXCEPT ![Main] = m]
    BY DEF DrainNext
  <2>2. /\ msg[Main] \in Nat /\ msg'[Main] = m /\ m \in Messages
        /\ \A n \in Messages : n \in Nat
    BY <2>1 DEF TypeOK, Messages, Remaining
  <2>3. \A n \in Messages : n < m /\ disk[n] = "complete" => n \in Contents(list)
    <3>1. SUFFICES ASSUME NEW n \in Messages, n < m, disk[n] = "complete"
                   PROVE  n \in Contents(list)
      OBVIOUS
    <3>2. n \notin Remaining
      BY <2>1, <2>2, <3>1 DEF Remaining
    <3>3. n <= msg[Main]
      BY <2>2, <3>1, <3>2 DEF Remaining
    <3> QED BY <3>1, <3>3 DEF DrainNext, DrainInv
  <2> QED BY <1>0, <2>2, <2>3 DEF DrainNext, DrainInv, DrainIsComplete, OnceAndInOrder, TypeOK
<1> QED BY <1>1, <1>2, <1>3, <1>4

\* DrainEnd preserves the inductive invariant.
LEMMA DrainEndStep ==
    ASSUME IInv, DrainEnd
    PROVE  IInv'
<1> USE NAssumption, ThreadAssumption, FunctionAssumption, ModeAssumption DEF IInv, Threads
<1>0. UNCHANGED list /\ Contents(list') = Contents(list)
  BY DEF DrainEnd
<1>1. (TypeOK)'
  BY <1>0 DEF DrainEnd, TypeOK, PC
<1>2. (LockInv /\ ModeInv /\ RecorderInv /\ IngestInv)'
  BY <1>0 DEF DrainEnd, LockInv, ModeInv, RecorderInv, IngestInv
<1>3. (WaitInv /\ NoLostWakeup /\ TrueIsJustified)'
  BY <1>0 DEF DrainEnd, WaitInv, NoLostWakeup, TrueIsJustified
<1>4. (DrainInv /\ DrainIsComplete /\ OnceAndInOrder)'
  <2>1. ASSUME NEW m \in Messages, disk[m] = "complete" PROVE m <= msg[Main]
    <3>1. msg[Main] \in Nat /\ m \in Nat
      BY DEF TypeOK, Messages
    <3>2. m \notin Remaining
      BY DEF DrainEnd
    <3> QED BY <2>1, <3>1, <3>2 DEF Remaining
  <2>2. \A m \in Messages : disk[m] = "complete" => m \in Contents(list)
    BY <2>1 DEF DrainEnd, DrainInv
  <2> QED BY <1>0, <2>2, ContentsMessages DEF DrainEnd, DrainInv, DrainIsComplete, OnceAndInOrder, IngestInv, TypeOK
<1> QED BY <1>1, <1>2, <1>3, <1>4

\* WalkStart preserves the inductive invariant.
LEMMA WalkStartStep ==
    ASSUME IInv, WalkStart
    PROVE  IInv'
<1> USE NAssumption, ThreadAssumption, FunctionAssumption, ModeAssumption DEF IInv, Threads
<1>0. UNCHANGED list /\ Contents(list') = Contents(list)
  BY DEF WalkStart
<1>1. TypeOK'
  <2>1. walk' \in [idx : Nat, present : SUBSET Messages,
                   status : {"none", "walking", "success", "error"}]
    BY ContentsMessages DEF WalkStart
  <2> QED BY <1>0, <2>1 DEF WalkStart, TypeOK, PC
<1>2. (LockInv /\ ModeInv /\ RecorderInv /\ IngestInv)'
  BY <1>0 DEF WalkStart, LockInv, ModeInv, RecorderInv, IngestInv
<1>3. (WaitInv /\ NoLostWakeup /\ TrueIsJustified)'
  BY <1>0 DEF WalkStart, WaitInv, NoLostWakeup, TrueIsJustified
<1>4. (DrainInv /\ DrainIsComplete /\ OnceAndInOrder)'
  BY <1>0 DEF WalkStart, DrainInv, DrainIsComplete, OnceAndInOrder
<1> QED BY <1>1, <1>2, <1>3, <1>4

\* WalkStep preserves the inductive invariant.
LEMMA WalkStepStep ==
    ASSUME IInv, WalkStep
    PROVE  IInv'
<1> USE NAssumption, ThreadAssumption, FunctionAssumption, ModeAssumption DEF IInv, Threads
<1>0. /\ pc[Main] = "walk" /\ pc' = pc /\ walk' = [walk EXCEPT !.idx = @ + 1]
      /\ UNCHANGED <<mode, disk, next, recording, seen, pending, msg, lock, list, ingested, fn,
                     event, ready, dead, wait, waits>>
  BY DEF WalkStep, disks, store, waitvars
<1>a. Contents(list') = Contents(list)
  BY <1>0
<1>1. TypeOK'
  <2>1. pc' \in [Threads -> PC]
    BY <1>0 DEF TypeOK, PC
  <2>2. walk' \in [idx : Nat, present : SUBSET Messages,
                   status : {"none", "walking", "success", "error"}]
    <3>1. walk \in [idx : Nat, present : SUBSET Messages,
                     status : {"none", "walking", "success", "error"}]
      BY DEF TypeOK
    <3> QED BY <1>0, <3>1
  <2>3. TypeOK
    OBVIOUS
  <2> HIDE DEF IInv
  <2> QED BY <1>0, <2>1, <2>2, <2>3, ZenonT(40) DEF TypeOK
<1>2. (LockInv /\ ModeInv /\ RecorderInv /\ IngestInv)'
  BY <1>0, <1>a DEF LockInv, ModeInv, RecorderInv, IngestInv
<1>3. (WaitInv /\ NoLostWakeup /\ TrueIsJustified)'
  BY <1>0, <1>a DEF WaitInv, NoLostWakeup, TrueIsJustified
<1>4. (DrainInv /\ DrainIsComplete /\ OnceAndInOrder)'
  BY <1>0, <1>a DEF DrainInv, DrainIsComplete, OnceAndInOrder
<1> QED BY <1>1, <1>2, <1>3, <1>4

\* WalkError preserves the inductive invariant.
LEMMA WalkErrorStep ==
    ASSUME IInv, WalkError
    PROVE  IInv'
<1> USE NAssumption, ThreadAssumption, FunctionAssumption, ModeAssumption DEF IInv, Threads
<1>0. /\ pc[Main] = "walk" /\ pc' = [pc EXCEPT ![Main] = "exit"] /\ walk' = [walk EXCEPT !.status = "error"]
      /\ UNCHANGED <<mode, disk, next, recording, seen, pending, msg, lock, list, ingested, fn,
                     event, ready, dead, wait, waits>>
  BY DEF WalkError, Goto, disks, waitvars
<1>a. Contents(list') = Contents(list)
  BY <1>0
<1>1. TypeOK'
  <2>1. pc' \in [Threads -> PC]
    BY <1>0 DEF TypeOK, PC
  <2>2. walk' \in [idx : Nat, present : SUBSET Messages,
                   status : {"none", "walking", "success", "error"}]
    <3>1. walk \in [idx : Nat, present : SUBSET Messages,
                     status : {"none", "walking", "success", "error"}]
      BY DEF TypeOK
    <3> QED BY <1>0, <3>1
  <2>3. TypeOK
    OBVIOUS
  <2> HIDE DEF IInv
  <2> QED BY <1>0, <2>1, <2>2, <2>3, ZenonT(40) DEF TypeOK
<1>2. (LockInv /\ ModeInv /\ RecorderInv /\ IngestInv)'
  BY <1>0, <1>a DEF LockInv, ModeInv, RecorderInv, IngestInv
<1>3. (WaitInv /\ NoLostWakeup /\ TrueIsJustified)'
  BY <1>0, <1>a DEF WaitInv, NoLostWakeup, TrueIsJustified
<1>4. (DrainInv /\ DrainIsComplete /\ OnceAndInOrder)'
  BY <1>0, <1>a DEF DrainInv, DrainIsComplete, OnceAndInOrder
<1> QED BY <1>1, <1>2, <1>3, <1>4

\* WalkEnd preserves the inductive invariant.
LEMMA WalkEndStep ==
    ASSUME IInv, WalkEnd
    PROVE  IInv'
<1> USE NAssumption, ThreadAssumption, FunctionAssumption, ModeAssumption DEF IInv, Threads
<1>0. /\ pc[Main] = "walk" /\ pc' = [pc EXCEPT ![Main] = "exit"] /\ walk' = [walk EXCEPT !.status = "success"]
      /\ UNCHANGED <<mode, disk, next, recording, seen, pending, msg, lock, list, ingested, fn,
                     event, ready, dead, wait, waits>>
  BY DEF WalkEnd, Goto, disks, waitvars
<1>a. Contents(list') = Contents(list)
  BY <1>0
<1>1. TypeOK'
  <2>1. pc' \in [Threads -> PC]
    BY <1>0 DEF TypeOK, PC
  <2>2. walk' \in [idx : Nat, present : SUBSET Messages,
                   status : {"none", "walking", "success", "error"}]
    <3>1. walk \in [idx : Nat, present : SUBSET Messages,
                     status : {"none", "walking", "success", "error"}]
      BY DEF TypeOK
    <3> QED BY <1>0, <3>1
  <2>3. TypeOK
    OBVIOUS
  <2> HIDE DEF IInv
  <2> QED BY <1>0, <2>1, <2>2, <2>3, ZenonT(40) DEF TypeOK
<1>2. (LockInv /\ ModeInv /\ RecorderInv /\ IngestInv)'
  BY <1>0, <1>a DEF LockInv, ModeInv, RecorderInv, IngestInv
<1>3. (WaitInv /\ NoLostWakeup /\ TrueIsJustified)'
  BY <1>0, <1>a DEF WaitInv, NoLostWakeup, TrueIsJustified
<1>4. (DrainInv /\ DrainIsComplete /\ OnceAndInOrder)'
  BY <1>0, <1>a DEF DrainInv, DrainIsComplete, OnceAndInOrder
<1> QED BY <1>1, <1>2, <1>3, <1>4

-----------------------------------------------------------------------------
(* The theorems.                                                           *)

\* Every step of every thread preserves the inductive invariant.
LEMMA NextIInv == IInv /\ [Next]_vars => IInv'
<1> SUFFICES ASSUME IInv, [Next]_vars PROVE IInv'
  OBVIOUS
<1>1. ASSUME NEW h \in Handlers, RecorderStep(h) PROVE IInv'
  BY <1>1, NumberStep, CreateStep, WriteStep DEF RecorderStep
<1>2. CASE StopRecorder
  BY <1>2, StopRecorderStep
<1>3. ASSUME NEW m \in Messages, Poll(m) \/ Dispatch(m) PROVE IInv'
  BY <1>3, PollStep, DispatchStep
<1>4. ASSUME NEW t \in Threads, IngestStep(t) PROVE IInv'
  BY <1>4, IngestSkipStep, IngestAppendStep, OnMessageStep, SortEndStep, TestFunctionStep,
     CallFunctionStep, CallRaisesStep, SetEventStep
  DEF IngestStep
<1>5. ASSUME NEW f \in Functions, WaitForExisting(f) \/ WaitForInstall(f) PROVE IInv'
  BY <1>5, WaitForExistingStep, WaitForInstallStep
<1>6. CASE WaitStep
  BY <1>6, WaitReturnsStep, WaitTimeoutStep, WaitResetStep DEF WaitStep
<1>7. CASE CheckStep
  BY <1>7, DrainStartStep, DrainNextStep, DrainEndStep, WalkStartStep, WalkStepStep,
     WalkErrorStep, WalkEndStep
  DEF CheckStep
<1>8. CASE UNCHANGED vars
  BY <1>8 DEF vars, IInv, TypeOK, LockInv, RecorderInv, ModeInv, IngestInv, WaitInv,
         DrainInv, OnceAndInOrder, NoLostWakeup, TrueIsJustified, DrainIsComplete,
         Justified, Notifying
<1> QED
  BY <1>1, <1>2, <1>3, <1>4, <1>5, <1>6, <1>7, <1>8 DEF Next

\* The invariant holds in every reachable state of the validator.
THEOREM Invariance == Spec => []IInv
<1> QED BY InitIInv, NextIInv, PTL DEF Spec

\* Every variable of the validator and its threads keeps its type.
THEOREM TypeCorrect == Spec => []TypeOK
<1>1. IInv => TypeOK BY DEF IInv
<1> QED BY <1>1, Invariance, PTL

\* ingest_file and _on_message never put a message twice in _data_list, nor
\* out of the order of the recorder's numbers, as long as these have three digits
\* (NameAssumption).
THEOREM ListIsOrdered == Spec => []OnceAndInOrder
<1>1. IInv => OnceAndInOrder BY DEF IInv
<1> QED BY <1>1, Invariance, PTL

\* wait_for never sleeps through an entry that satisfies its function.
THEOREM NoWakeupIsLost == Spec => []NoLostWakeup
<1>1. IInv => NoLostWakeup BY DEF IInv
<1> QED BY <1>1, Invariance, PTL

\* The only True of wait_for without a matching entry comes from a late
\* notification of an earlier wait.
THEOREM TrueHasReason == Spec => []TrueIsJustified
<1>1. IInv => TrueIsJustified BY DEF IInv
<1> QED BY <1>1, Invariance, PTL

\* ingest_all_files ends with every complete file in _data_list.
THEOREM DrainCompleteness == Spec => []DrainIsComplete
<1>1. IInv => DrainIsComplete BY DEF IInv
<1> QED BY <1>1, Invariance, PTL

-----------------------------------------------------------------------------
(* The refinement of MessageLog.                                           *)

\* An insertion is the delivery of its message.
LEMMA SortEndDelivers ==
    ASSUME IInv, IInv', NEW t \in Threads, SortEnd(t)
    PROVE  Log!Deliver(msg[t]) /\ msg[t] \in Messages
<1>1. msg[t] \in Messages /\ list \in Seq(Messages) /\ list' = Insert(list, msg[t])
  BY DEF SortEnd, Goto, IInv, IngestInv, TypeOK
<1>2. msg[t] \notin Contents(list)
  BY DEF SortEnd, Goto, IInv, IngestInv
<1>3. Contents(list') = Contents(list) \cup {msg[t]}
  BY <1>1, InsertContents
<1>4. Len(list') = Len(list) + 1
  <2>1. Len(list) \in Nat
    BY <1>1
  <2>2. DOMAIN list' = 1 .. Len(list) + 1 /\ list' \in Seq(Messages)
    BY <1>1, InsertContents DEF Insert
  <2>3. DOMAIN list' = 1 .. Len(list') /\ Len(list') \in Nat
    BY <2>2
  <2> QED BY <2>1, <2>2, <2>3
<1>5. \A i, j \in DOMAIN list' : i < j => list'[i] < list'[j]
  BY DEF IInv, OnceAndInOrder
<1>6. wait' = wait /\ (pc'[Main] = "wait") = (pc[Main] = "wait")
  BY DEF SortEnd, Goto, waitvars, IInv, TypeOK
<1> QED BY <1>1, <1>2, <1>3, <1>4, <1>5, <1>6 DEF Log!Deliver, Log!Logged, Contents

\* A call of wait_for is a call on the log.
LEMMA WaitForIsCall ==
    ASSUME IInv, NEW f \in Functions, WaitForExisting(f) \/ WaitForInstall(f)
    PROVE  Log!CallAnswers(f) \/ Log!CallOpens(f)
<1>1. CASE WaitForExisting(f)
  BY <1>1 DEF WaitForExisting, WaitForCall, ScanStopsAt, Log!CallAnswers, store
<1>2. CASE WaitForInstall(f)
  BY <1>2 DEF WaitForInstall, WaitForCall, Goto, Contents, Log!CallOpens, Log!Logged, store,
     IInv, TypeOK, Threads
<1> QED BY <1>1, <1>2

\* The end of a wait is an answer the log justifies.
LEMMA WaitEndIsAnswer ==
    ASSUME IInv, WaitReturns \/ WaitTimeout
    PROVE  Log!AnswerTrue \/ Log!AnswerTimeout
<1>1. Main \in Threads /\ pc \in [Threads -> PC]
  BY DEF Threads, IInv, TypeOK
<1>2. CASE WaitReturns
  <2>1. (\E m \in Contents(list) : wait.f[m] = "true") \/ wait.stale
    BY <1>2 DEF WaitReturns, Goto, IInv, WaitInv, Justified
  <2> QED BY <1>1, <1>2, <2>1
      DEF WaitReturns, Goto, Contents, Log!AnswerTrue, Log!Satisfied, Log!Logged, store
<1>3. CASE WaitTimeout
  BY <1>1, <1>3 DEF WaitTimeout, Goto, Log!AnswerTimeout, store
<1> QED BY <1>2, <1>3

\* No other step shows in the log.
LEMMA OthersAreHidden ==
    ASSUME IInv, [Next]_vars,
           ~ \E t \in Threads : SortEnd(t),
           ~ \E f \in Functions : WaitForExisting(f) \/ WaitForInstall(f),
           ~ (WaitReturns \/ WaitTimeout)
    PROVE  UNCHANGED <<list, wait, pc[Main] = "wait">>
<1> USE DEF Goto, store, waitvars
<1>1. Main \in Threads /\ pc \in [Threads -> PC] /\ Main \notin Handlers /\ Main # Watchdog
  BY ThreadAssumption DEF Threads, IInv, TypeOK
<1>2. ASSUME NEW h \in Handlers, RecorderStep(h) PROVE UNCHANGED <<list, wait, pc[Main]>>
  BY <1>1, <1>2 DEF RecorderStep, Number, Create, Write
<1>3. CASE StopRecorder
  BY <1>1, <1>3 DEF StopRecorder
<1>4. ASSUME NEW m \in Messages, Poll(m) \/ Dispatch(m) PROVE UNCHANGED <<list, wait, pc[Main]>>
  BY <1>1, <1>4 DEF Poll, Dispatch
<1>5. ASSUME NEW t \in Threads, IngestStep(t)
      PROVE  UNCHANGED <<list, wait, pc[Main] = "wait">>
  BY <1>1, <1>5 DEF IngestStep, IngestSkip, IngestAppend, OnMessage, TestFunction, CallFunction,
     CallRaises, SetEvent, Back
<1>6. CASE WaitStep
  BY <1>1, <1>6 DEF WaitStep, WaitReset
<1>7. CASE CheckStep
  BY <1>1, <1>7 DEF CheckStep, DrainStart, DrainNext, DrainEnd, WalkStart, WalkStep, WalkError,
     WalkEnd
<1>8. CASE UNCHANGED vars
  BY <1>8 DEF vars
<1> QED BY <1>1, <1>2, <1>3, <1>4, <1>5, <1>6, <1>7, <1>8 DEF Next

\* The threads, the files and the lock implement the log: what a test sees of
\* the validator is a log that only grows, in order, and answers from it.
THEOREM Refinement == Spec => ImplementsLog
<1>1. Init => Log!Init
  BY DEF Init, Log!Init, NoWait, Threads
<1>2. IInv /\ IInv' /\ [Next]_vars => [Log!Next]_(Log!vars)
  <2> SUFFICES ASSUME IInv, IInv', [Next]_vars PROVE [Log!Next]_(Log!vars)
    OBVIOUS
  <2>1. ASSUME NEW t \in Threads, SortEnd(t) PROVE Log!Next
    BY <2>1, SortEndDelivers DEF Log!Next
  <2>2. ASSUME NEW f \in Functions, WaitForExisting(f) \/ WaitForInstall(f) PROVE Log!Next
    BY <2>2, WaitForIsCall DEF Log!Next
  <2>3. CASE WaitReturns \/ WaitTimeout
    BY <2>3, WaitEndIsAnswer DEF Log!Next
  <2> QED BY <2>1, <2>2, <2>3, OthersAreHidden DEF Log!vars
<1> QED BY <1>1, <1>2, Invariance, PTL DEF Spec, ImplementsLog, Log!Spec

-----------------------------------------------------------------------------
(* The check that follows ingest_all_files is final.                       *)

\* From the end of ingest_all_files on, the list is all there will ever be; the
\* walk has met no bad entry up to its index.
Done == {"drained", "walk", "exit"}

FinalInv ==
    /\ walk.status # "none" => pc[Main] \in {"walk", "exit"}
    /\ Drains /\ pc[Main] \in Done =>
          ~recording /\ Contents(list) = {m \in Messages : disk[m] = "complete"}
    /\ Drains /\ pc[Main] = "walk" =>
          walk.idx <= Len(list) /\ \A i \in 1 .. walk.idx : list[i] \notin Bad
    /\ CheckIsFinal

\* What a step does to the main thread and to its walk.
LEMMA WalkMoves ==
    ASSUME IInv, [Next]_vars
    PROVE  /\ UNCHANGED mode
           /\ \/ WalkStart \/ WalkStep \/ WalkError \/ WalkEnd
              \/ UNCHANGED walk /\ pc'[Main] = pc[Main]
              \/ UNCHANGED walk /\ pc[Main] \notin Done /\ pc'[Main] \notin {"walk", "exit"}
<1> USE DEF Goto, waitvars, Done
<1>1. Main \in Threads /\ pc \in [Threads -> PC] /\ Main \notin Handlers /\ Main # Watchdog
  BY ThreadAssumption DEF Threads, IInv, TypeOK
<1> DEFINE Quiet == UNCHANGED <<mode, walk>> /\ pc'[Main] = pc[Main]
           Earlier == UNCHANGED <<mode, walk>> /\ pc[Main] \notin Done
                      /\ pc'[Main] \notin {"walk", "exit"}
<1>2. ASSUME NEW h \in Handlers, RecorderStep(h) PROVE Quiet
  BY <1>1, <1>2 DEF RecorderStep, Number, Create, Write
<1>3. ASSUME StopRecorder PROVE Quiet
  BY <1>1, <1>3 DEF StopRecorder
<1>4. ASSUME NEW m \in Messages, Poll(m) \/ Dispatch(m) PROVE Quiet
  BY <1>1, <1>4 DEF Poll, Dispatch
<1>5. ASSUME NEW t \in Threads, IngestStep(t) PROVE Quiet \/ Earlier
  BY <1>1, <1>5 DEF IngestStep, IngestSkip, IngestAppend, OnMessage, SortEnd, TestFunction,
     CallFunction, CallRaises, SetEvent, Back
<1>6. ASSUME NEW f \in Functions, WaitForExisting(f) \/ WaitForInstall(f) PROVE Quiet \/ Earlier
  BY <1>1, <1>6 DEF WaitForExisting, WaitForInstall, WaitForCall
<1>7. ASSUME WaitStep PROVE Earlier
  BY <1>1, <1>7 DEF WaitStep, WaitReturns, WaitTimeout, WaitReset
<1>8. ASSUME DrainStart \/ DrainNext \/ DrainEnd PROVE Earlier
  BY <1>1, <1>8 DEF DrainStart, DrainNext, DrainEnd
<1>9. ASSUME WalkStart \/ WalkStep \/ WalkError \/ WalkEnd PROVE UNCHANGED mode
  BY <1>9 DEF WalkStart, WalkStep, WalkError, WalkEnd
<1>10. CASE UNCHANGED vars
  BY <1>10 DEF vars
<1> QED
  BY <1>2, <1>3, <1>4, <1>5, <1>6, <1>7, <1>8, <1>9, <1>10 DEF Next, CheckStep

\* After ingest_all_files nobody is inserting, and nothing changes on the disk or
\* in the list any more.
LEMMA ListIsFixed ==
    ASSUME IInv, FinalInv, Drains, pc[Main] \in Done, [Next]_vars
    PROVE  UNCHANGED <<list, disk, recording>> /\ Visible = {list}
<1> USE DEF Goto, disks, store
<1>1. /\ Main \in Threads /\ pc \in [Threads -> PC] /\ Main \notin Handlers /\ Main # Watchdog
      /\ ~recording /\ ~InProcess
  BY ThreadAssumption DEF Threads, IInv, TypeOK, FinalInv, Drains, InProcess
<1>2. \A t \in Threads : pc[t] # "sort"
  BY <1>1 DEF FinalInv, IInv, IngestInv
<1>3. \A h \in Handlers : pc[h] = "gone"
  BY <1>1 DEF IInv, ModeInv
<1>4. Visible = {list}
  BY <1>2 DEF Visible
<1>5. ASSUME NEW h \in Handlers, RecorderStep(h) PROVE FALSE
  BY <1>3, <1>5 DEF RecorderStep, Number, Create, Write
<1>6. ASSUME StopRecorder PROVE FALSE
  BY <1>1, <1>6 DEF StopRecorder
<1>7. ASSUME NEW m \in Messages, Poll(m) \/ Dispatch(m) PROVE UNCHANGED <<list, disk, recording>>
  BY <1>7 DEF Poll, Dispatch
<1>8. ASSUME NEW t \in Threads, IngestStep(t) PROVE UNCHANGED <<list, disk, recording>>
  BY <1>2, <1>8 DEF IngestStep, IngestSkip, IngestAppend, OnMessage, SortEnd, TestFunction,
     CallFunction, CallRaises, SetEvent
<1>9. ASSUME NEW f \in Functions, WaitForExisting(f) \/ WaitForInstall(f)
      PROVE  UNCHANGED <<list, disk, recording>>
  BY <1>9 DEF WaitForExisting, WaitForInstall
<1>10. ASSUME WaitStep \/ CheckStep PROVE UNCHANGED <<list, disk, recording>>
  BY <1>10 DEF WaitStep, WaitReturns, WaitTimeout, WaitReset, CheckStep, DrainStart, DrainNext,
     DrainEnd, WalkStart, WalkStep, WalkError, WalkEnd
<1>11. CASE UNCHANGED vars
  BY <1>4, <1>11 DEF vars
<1> QED
  BY <1>4, <1>5, <1>6, <1>7, <1>8, <1>9, <1>10, <1>11 DEF Next

\* The walk of a drained list: it stops on the first bad entry or at the end.
LEMMA NextFinalInv == IInv /\ IInv' /\ FinalInv /\ [Next]_vars => FinalInv'
<1> SUFFICES ASSUME IInv, IInv', FinalInv, [Next]_vars PROVE FinalInv'
  OBVIOUS
<1>0. /\ Main \in Threads /\ pc \in [Threads -> PC] /\ list \in Seq(Messages)
      /\ walk \in [idx : Nat, present : SUBSET Messages,
                   status : {"none", "walking", "success", "error"}]
  BY DEF Threads, IInv, TypeOK
<1>1. Drains' = Drains
  BY WalkMoves DEF Drains
<1>2. Drains /\ pc[Main] \in Done => UNCHANGED <<list, disk, recording>> /\ Visible = {list}
  BY ListIsFixed
<1>3. CASE UNCHANGED walk /\ pc'[Main] = pc[Main]
  BY <1>1, <1>2, <1>3 DEF FinalInv, CheckIsFinal, Done
<1>4. CASE UNCHANGED walk /\ pc[Main] \notin Done /\ pc'[Main] \notin {"walk", "exit"}
  <2>1. walk'.status = "none"
    BY <1>4 DEF FinalInv, Done
  <2>2. pc'[Main] = "drained" => ~recording' /\ Contents(list') = {m \in Messages : disk'[m] = "complete"}
    BY DEF IInv, ModeInv, DrainIsComplete
  <2> QED BY <1>4, <2>1, <2>2 DEF FinalInv, CheckIsFinal, Done
<1>5. CASE WalkStart
  <2>1. pc'[Main] = "walk" /\ walk'.idx = 0 /\ walk'.status = "walking" /\ UNCHANGED list
    BY <1>0, <1>5 DEF WalkStart, Goto, store
  <2>2. Drains => pc[Main] = "drained"
    BY <1>5 DEF WalkStart, Goto
  <2>3. Len(list) \in Nat
    BY <1>0
  <2> QED BY <1>1, <1>2, <2>1, <2>2, <2>3 DEF FinalInv, CheckIsFinal, Done
<1>6. CASE WalkStep
  <2>1. /\ pc[Main] = "walk" /\ UNCHANGED <<pc, list>>
        /\ walk'.idx = walk.idx + 1 /\ walk'.status = walk.status
    BY <1>0, <1>6 DEF WalkStep, store
  <2>2. Drains => walk.idx < Len(list) /\ list[walk.idx + 1] \notin Bad
    BY <1>2, <1>6, <2>1 DEF WalkStep, Done
  <2>3. Drains => walk'.idx <= Len(list) /\ \A i \in 1 .. walk'.idx : list[i] \notin Bad
    BY <1>0, <2>1, <2>2 DEF FinalInv
  <2> QED BY <1>1, <1>2, <2>1, <2>3 DEF FinalInv, CheckIsFinal, Done
<1>7. CASE WalkError
  <2>1. pc[Main] = "walk" /\ pc'[Main] = "exit" /\ walk'.status = "error"
    BY <1>0, <1>7 DEF WalkError, Goto
  <2> QED BY <1>1, <1>2, <2>1 DEF FinalInv, CheckIsFinal, Done
<1>8. CASE WalkEnd
  <2>1. pc[Main] = "walk" /\ pc'[Main] = "exit" /\ UNCHANGED list
    BY <1>0, <1>8 DEF WalkEnd, Goto, store
  <2>2. Drains => Contents(list) \cap Bad = {}
    <3>1. Drains => walk.idx >= Len(list)
      BY <1>2, <1>8, <2>1 DEF WalkEnd, Done
    <3> QED BY <1>0, <2>1, <3>1 DEF FinalInv, Contents
  <2> QED BY <1>1, <1>2, <2>1, <2>2 DEF FinalInv, CheckIsFinal, Done
<1> QED
  BY <1>3, <1>4, <1>5, <1>6, <1>7, <1>8, WalkMoves

\* A mocked backend whose check_deserialization_errors succeeded has no bad entry,
\* then or later.
THEOREM FinalCheck == Spec => []CheckIsFinal
<1>1. Init => FinalInv
  BY DEF Init, FinalInv, CheckIsFinal, NoWalk, Done, Threads
<1>2. FinalInv => CheckIsFinal
  BY DEF FinalInv
<1> QED
  BY <1>1, <1>2, NextFinalInv, Invariance, PTL DEF Spec
================================================================================

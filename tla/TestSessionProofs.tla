-------------------------- MODULE TestSessionProofs --------------------------
(***************************************************************************)
(* For every manifest, every version and every weblog, a test gets the     *)
(* declarations its entries mean: GetDeclarations, which goes through the  *)
(* conditions that the parser derives from the raw entries, collects       *)
(* exactly what Written reads off these entries. FlattenSeq is a recursive *)
(* function: what it computes is found by induction on the length of its   *)
(* argument, the induction of LeastNumber, on sets of numbers instead of   *)
(* predicates.                                                             *)
(*                                                                         *)
(* From these declarations on, the properties of TestSession for any tests, *)
(* manifests, versions, weblogs and forced tests, and any number of        *)
(* replays. The inductive invariant says, besides the types,               *)
(*   MarkInv    that the markers of the session are those of its manifest,  *)
(*              and stand until the process ends;                          *)
(*   LoopInv    what the two loops have done: a skipped test has its status *)
(*              when the setup loop has passed it, any other one when it    *)
(*              has run, and no test has two;                              *)
(*   ExitInv    that the reports are about the outcomes;                   *)
(*   PropsInv   that the store, the file and the instances hold what the   *)
(*              setups left, each as soon as it is written.                *)
(***************************************************************************)
EXTENDS TestSession, WellFoundedInduction, SequenceTheorems, FiniteSetTheorems, TLAPS

-----------------------------------------------------------------------------
(* Induction.                                                              *)

\* A set of natural numbers has a least one.
LEMMA LeastNumber ==
    ASSUME NEW S \in SUBSET Nat, S # {}
    PROVE  \E m \in S : \A n \in S : m <= n
<1>1. IsWellFoundedOn(OpToRel(<, Nat), Nat)
  BY NatLessThanWellFounded
<1>2. PICK m \in S : \A n \in S : ~(<<n, m>> \in OpToRel(<, Nat))
  BY <1>1, WFMin
<1>3. ASSUME NEW a \in Nat, NEW b \in Nat, a < b
      PROVE  <<a, b>> \in OpToRel(<, Nat)
  <2> DEFINE R == {ss \in Nat \X Nat : ss[1] < ss[2]}
  <2>1. <<a, b>> \in R
    BY <1>3
  <2>2. R = OpToRel(<, Nat)
    BY Zenon DEF OpToRel
  <2> QED
    BY <2>1, <2>2, Zenon
<1>4. \A n \in S : ~(n < m)
  BY <1>2, <1>3, Zenon
<1> QED
  BY <1>4

\* What holds for 0, and for i + 1 when it holds for i, holds up to n.
LEMMA Induction ==
    ASSUME NEW n \in Nat, NEW G, 0 \in G, \A i \in 0 .. n - 1 : i \in G => i + 1 \in G
    PROVE  \A i \in 0 .. n : i \in G
<1> DEFINE B == {i \in 0 .. n : i \notin G}
<1>1. B \in SUBSET Nat
  OBVIOUS
<1>2. SUFFICES ASSUME B # {} PROVE FALSE
  OBVIOUS
<1>3. PICK m \in B : \A i \in B : m <= i
  BY <1>1, <1>2, LeastNumber, Zenon
<1>4. m \in 1 .. n /\ m - 1 \notin B
  BY <1>3
<1>5. m - 1 \in G
  BY <1>4
<1> QED
  BY <1>3, <1>4, <1>5

-----------------------------------------------------------------------------
(* FlattenSeq concatenates: its elements are those of its parts.           *)

\* The recursion of FlattenSeq, up to n.
IsFlatten(f, seqs, n) ==
    f = [i \in 1 .. n |-> IF i = 1 THEN seqs[i] ELSE f[i - 1] \o seqs[i]]

\* There is a function that satisfies the recursion.
LEMMA FlattenExists ==
    ASSUME NEW seqs, NEW n \in Nat
    PROVE  \E f : IsFlatten(f, seqs, n)
<1> DEFINE G == {m \in 0 .. n : \E f : IsFlatten(f, seqs, m)}
<1>1. 0 \in G
  <2>1. IsFlatten([i \in 1 .. 0 |-> <<>>], seqs, 0)
    BY DEF IsFlatten
  <2> QED
    BY <2>1
<1>2. ASSUME NEW m \in 0 .. n - 1, m \in G
      PROVE  m + 1 \in G
  <2>1. PICK f : IsFlatten(f, seqs, m)
    BY <1>2
  <2> DEFINE last == IF m + 1 = 1 THEN seqs[m + 1] ELSE f[m] \o seqs[m + 1]
             g == [i \in 1 .. m + 1 |-> IF i = m + 1 THEN last ELSE f[i]]
  <2> HIDE DEF last
  <2>2. \A i \in 1 .. m : g[i] = f[i]
    OBVIOUS
  <2>3. \A i \in 1 .. m : f[i] = IF i = 1 THEN seqs[i] ELSE f[i - 1] \o seqs[i]
    BY <2>1 DEF IsFlatten
  <2>4. \A i \in 1 .. m : g[i] = IF i = 1 THEN seqs[i] ELSE g[i - 1] \o seqs[i]
    BY <2>2, <2>3
  <2>5. g[m + 1] = IF m + 1 = 1 THEN seqs[m + 1] ELSE g[m] \o seqs[m + 1]
    BY <2>2 DEF last
  <2>6. \A i \in 1 .. m + 1 : g[i] = IF i = 1 THEN seqs[i] ELSE g[i - 1] \o seqs[i]
    BY <2>4, <2>5
  <2>7. IsFlatten(g, seqs, m + 1)
    BY <2>6 DEF IsFlatten
  <2> QED
    BY <2>7
<1> HIDE DEF G
<1>3. n \in G
  BY <1>1, <1>2, Induction
<1> QED
  BY <1>3 DEF G

\* FlattenSeq is the last value of such a function.
LEMMA FlattenIs ==
    ASSUME NEW seqs, Len(seqs) \in Nat \ {0}
    PROVE  \E f : IsFlatten(f, seqs, Len(seqs)) /\ FlattenSeq(seqs) = f[Len(seqs)]
<1> DEFINE n == Len(seqs)
           c == CHOOSE f : f = [i \in 1 .. n |-> IF i = 1 THEN seqs[i] ELSE f[i - 1] \o seqs[i]]
<1>1. \E f : f = [i \in 1 .. n |-> IF i = 1 THEN seqs[i] ELSE f[i - 1] \o seqs[i]]
  BY FlattenExists, Zenon DEF IsFlatten
<1>2. c = [i \in 1 .. n |-> IF i = 1 THEN seqs[i] ELSE c[i - 1] \o seqs[i]]
  BY <1>1, Zenon
<1>3. FlattenSeq(seqs) = c[n]
  BY Zenon DEF FlattenSeq
<1>4. IsFlatten(c, seqs, n)
  BY <1>2, Zenon DEF IsFlatten
<1> QED
  BY <1>3, <1>4, Zenon

\* The elements of a concatenation are those of its two parts.
LEMMA ConcatElements ==
    ASSUME NEW V, NEW s \in Seq(V), NEW t \in Seq(V)
    PROVE  s \o t \in Seq(V) /\ ToSet(s \o t) = ToSet(s) \cup ToSet(t)
<1>1. /\ s \o t \in Seq(V) /\ Len(s \o t) = Len(s) + Len(t)
      /\ \A i \in 1 .. Len(s) : (s \o t)[i] = s[i]
      /\ \A i \in 1 .. Len(t) : (s \o t)[Len(s) + i] = t[i]
  OBVIOUS
<1>2. ASSUME NEW x \in ToSet(s \o t) PROVE x \in ToSet(s) \cup ToSet(t)
  <2>1. PICK i \in 1 .. Len(s) + Len(t) : x = (s \o t)[i]
    BY <1>1 DEF ToSet
  <2>2. CASE i <= Len(s)
    BY <1>1, <2>1, <2>2 DEF ToSet
  <2>3. CASE i > Len(s)
    <3>1. i - Len(s) \in 1 .. Len(t) /\ i = Len(s) + (i - Len(s))
      BY <2>1, <2>3
    <3>2. x = t[i - Len(s)]
      BY <1>1, <2>1, <3>1
    <3> QED
      BY <3>1, <3>2 DEF ToSet
  <2> QED
    BY <2>1, <2>2, <2>3
<1>3. ASSUME NEW x \in ToSet(s) PROVE x \in ToSet(s \o t)
  BY <1>1 DEF ToSet
<1>4. ASSUME NEW x \in ToSet(t) PROVE x \in ToSet(s \o t)
  <2>1. PICK i \in 1 .. Len(t) : x = t[i]
    BY DEF ToSet
  <2>2. Len(s) + i \in 1 .. Len(s \o t) /\ (s \o t)[Len(s) + i] = x
    BY <1>1, <2>1
  <2> QED
    BY <1>1, <2>2 DEF ToSet
<1> QED
  BY <1>1, <1>2, <1>3, <1>4

\* The same for any number of parts.
LEMMA FlattenElements ==
    ASSUME NEW V, NEW seqs \in Seq(Seq(V))
    PROVE  /\ FlattenSeq(seqs) \in Seq(V)
           /\ ToSet(FlattenSeq(seqs)) = UNION {ToSet(seqs[i]) : i \in DOMAIN seqs}
<1>1. CASE Len(seqs) = 0
  <2>1. FlattenSeq(seqs) = seqs /\ seqs = <<>>
    BY <1>1 DEF FlattenSeq
  <2> QED
    BY <2>1 DEF ToSet
<1>2. CASE Len(seqs) # 0
  <2>0. PICK n \in Nat : n = Len(seqs)
    OBVIOUS
  <2>1. n \in Nat \ {0} /\ DOMAIN seqs = 1 .. n /\ \A i \in 1 .. n : seqs[i] \in Seq(V)
    BY <1>2, <2>0
  <2>2. PICK f : IsFlatten(f, seqs, n) /\ FlattenSeq(seqs) = f[n]
    BY <2>0, <2>1, FlattenIs, Zenon
  <2>f. \A i \in 1 .. n : f[i] = IF i = 1 THEN seqs[i] ELSE f[i - 1] \o seqs[i]
    BY <2>2, Zenon DEF IsFlatten
  <2>3. f[1] = seqs[1] /\ \A i \in 1 .. n - 1 : f[i + 1] = f[i] \o seqs[i + 1]
    <3>1. 1 \in 1 .. n /\ \A i \in 1 .. n - 1 : i + 1 \in 1 .. n /\ i + 1 # 1 /\ (i + 1) - 1 = i
      BY <2>1
    <3> QED
      BY <2>f, <3>1, Zenon
  <2> DEFINE G == {m \in 0 .. n : m > 0 =>
                      /\ f[m] \in Seq(V)
                      /\ ToSet(f[m]) = UNION {ToSet(seqs[i]) : i \in 1 .. m}}
  <2>4. 0 \in G
    BY <2>1
  <2>5. ASSUME NEW m \in 0 .. n - 1, m \in G
        PROVE  m + 1 \in G
    <3>1. CASE m = 0
      <4>1. f[1] \in Seq(V)
        BY <2>1, <2>3
      <4>2. ToSet(f[1]) = UNION {ToSet(seqs[i]) : i \in 1 .. 1}
        BY <2>3
      <4> QED
        BY <2>1, <3>1, <4>1, <4>2
    <3>2. CASE m > 0
      <4>1. f[m] \in Seq(V) /\ ToSet(f[m]) = UNION {ToSet(seqs[i]) : i \in 1 .. m}
        BY <2>5, <3>2
      <4>2. f[m + 1] = f[m] \o seqs[m + 1] /\ seqs[m + 1] \in Seq(V)
        <5>1. m \in 1 .. n - 1 /\ m + 1 \in 1 .. n
          BY <3>2
        <5> HIDE DEF G
        <5> QED
          BY <2>1, <2>3, <5>1, Zenon
      <4>3. f[m + 1] \in Seq(V) /\ ToSet(f[m + 1]) = ToSet(f[m]) \cup ToSet(seqs[m + 1])
        BY <4>1, <4>2, ConcatElements
      <4>4. ToSet(f[m + 1]) = UNION {ToSet(seqs[i]) : i \in 1 .. m + 1}
        <5>1. 1 .. m + 1 = (1 .. m) \cup {m + 1}
          BY <3>2
        <5> HIDE DEF G
        <5> QED
          BY <4>1, <4>3, <5>1, Zenon
      <4> QED
        BY <4>3, <4>4
    <3> QED
      BY <3>1, <3>2
  <2> HIDE DEF G
  <2>6. n \in G
    <3>1. \A i \in 0 .. n : i \in G
      BY <2>4, <2>5, Induction, Zenon
    <3>2. n \in 0 .. n
      OBVIOUS
    <3> QED
      BY <3>1, <3>2, Zenon
  <2> QED
    BY <2>1, <2>2, <2>6 DEF G
<1> QED
  BY <1>1, <1>2

-----------------------------------------------------------------------------
(* The conditions of a rule.                                               *)

\* A function on the first numbers is a sequence.
LEMMA IsSeq ==
    ASSUME NEW V, NEW s, IsSequence(s), NEW F, F \in [DOMAIN s -> V]
    PROVE  F \in Seq(V) /\ DOMAIN F = DOMAIN s
<1>1. Len(s) \in Nat /\ DOMAIN s = 1 .. Len(s)
  BY DEF IsSequence
<1> QED
  BY <1>1

IsAFcn(f) == f = [x \in DOMAIN f |-> f[x]]

\* A function on 1 .. n is a sequence of length n.
LEMMA FcnIsSeq ==
    ASSUME NEW n \in Nat, NEW f, IsAFcn(f), DOMAIN f = 1 .. n
    PROVE  f \in Seq(ToSet(f))
<1>1. f \in [1 .. n -> ToSet(f)]
  BY DEF IsAFcn, ToSet
<1> QED
  BY <1>1

\* The conditions of one entry: of each of its lines, or its own.
Of(component, e) ==
    IF e.lines # <<>> THEN WeblogDeclaration(component, e.lines)
    ELSE <<CastToCondition(component, e)>>

AllOf(component, entries) == UNION {ToSet(Of(component, e)) : e \in ToSet(entries)}

\* What the parser derives from the entries of a rule, as a set.
LEMMA ConditionsAre ==
    ASSUME NEW component, NEW entries, IsSequence(entries), \A e \in ToSet(entries) : IsEntry(e)
    PROVE  /\ Conditions(component, entries) \in Seq(AllOf(component, entries))
           /\ ToSet(Conditions(component, entries)) = AllOf(component, entries)
<1> DEFINE V == AllOf(component, entries)
           parts == [i \in DOMAIN entries |-> Of(component, entries[i])]
<1>1. ASSUME NEW e \in ToSet(entries) PROVE Of(component, e) \in Seq(ToSet(Of(component, e)))
  <2>1. CASE e.lines # <<>>
    <3>1. Len(e.lines) \in Nat /\ DOMAIN e.lines = 1 .. Len(e.lines)
      BY <1>1 DEF IsEntry, IsSequence
    <3>2. DOMAIN Of(component, e) = 1 .. Len(e.lines) /\ IsAFcn(Of(component, e))
      BY <2>1, <3>1 DEF Of, WeblogDeclaration, IsAFcn
    <3> QED
      BY <3>1, <3>2, FcnIsSeq
  <2>2. CASE e.lines = <<>>
    BY <2>2 DEF Of, ToSet
  <2> QED
    BY <2>1, <2>2
<1>2. ASSUME NEW i \in DOMAIN entries PROVE Of(component, entries[i]) \in Seq(V)
  <2>1. entries[i] \in ToSet(entries)
    BY DEF ToSet
  <2>2. ToSet(Of(component, entries[i])) \subseteq V
    BY <2>1 DEF AllOf
  <2> QED
    BY <1>1, <2>1, <2>2
<1>3. parts \in Seq(Seq(V)) /\ DOMAIN parts = DOMAIN entries
  BY <1>2, IsSeq
<1>4. Conditions(component, entries) = FlattenSeq(parts)
  BY Zenon DEF Conditions, Of
<1>5. ToSet(FlattenSeq(parts)) = UNION {ToSet(parts[i]) : i \in DOMAIN parts}
  BY <1>3, FlattenElements
<1>6. UNION {ToSet(parts[i]) : i \in DOMAIN parts} = V
  <2>1. ToSet(entries) = {entries[i] : i \in DOMAIN entries}
    BY DEF ToSet
  <2>2. \A i \in DOMAIN parts : parts[i] = Of(component, entries[i])
    BY <1>3
  <2> HIDE DEF parts
  <2> QED
    BY <1>3, <2>1, <2>2, Zenon DEF AllOf
<1> QED
  BY <1>3, <1>4, <1>5, <1>6, FlattenElements

-----------------------------------------------------------------------------
(* An entry. The reasons its conditions give are those its authors wrote.  *)

\* The range of an absent field contains every version, that of a declaration none.
LEMMA EmptyRanges == \A v : InRange(Always, v) /\ ~InRange(Never, v)
BY DEF InRange, Always, Never

\* A line: its condition matches if the line speaks for the weblog and does not
\* name the version as one that has the feature.
LEMMA LineMatches ==
    ASSUME NEW component, NEW versions, component \in DOMAIN versions,
           NEW weblog, weblog # "*",
           NEW lines, \A line \in ToSet(lines) : IsLine(line), NEW i \in DOMAIN lines
    PROVE  LET c == WeblogDeclaration(component, lines)[i]
               text == lines[i].text
           IN  /\ c.declaration = IF text.value = "" THEN "missing_feature" ELSE text.value
               /\ MatchCondition(c, versions, weblog) <=>
                     /\ i \in Speaking(lines, weblog)
                     /\ text.value # "" \/ ~InRange(text.range, versions[component])
<1> DEFINE c == WeblogDeclaration(component, lines)[i]
           text == lines[i].text
           own == {j \in DOMAIN lines : weblog \in lines[j].weblogs}
<1>1. \A j \in DOMAIN lines : lines[j].weblogs # {} /\ NoWeblog \notin lines[j].weblogs
  BY DEF ToSet, IsLine
<1>2. text.value # "" => text.range = Never
  BY DEF ToSet, IsLine, IsText
<1>3. /\ c.component = component /\ c.component_version = Always
      /\ c.excluded_component_version = text.range
      /\ c.declaration = IF text.value = "" THEN "missing_feature" ELSE text.value
      /\ c.weblog = IF lines[i].weblogs = Star THEN {} ELSE lines[i].weblogs
      /\ c.excluded_weblog = IF lines[i].weblogs = Star THEN Listed(lines) ELSE {}
  BY DEF WeblogDeclaration, ProcessInline
<1>4. weblog \in Listed(lines) <=> own # {}
  BY DEF Listed, Star
<1>5. (c.weblog = {} \/ weblog = NoWeblog \/ weblog \in c.weblog) /\ weblog \notin c.excluded_weblog
        <=> i \in Speaking(lines, weblog)
  <2>1. CASE weblog = NoWeblog
    <3>1. own = {}
      BY <1>1, <2>1
    <3>2. Speaking(lines, weblog) = DOMAIN lines
      BY <2>1, <3>1 DEF Speaking
    <3> QED
      BY <1>3, <1>4, <2>1, <3>1, <3>2
  <2>2. CASE weblog # NoWeblog /\ own # {}
    <3>1. Speaking(lines, weblog) = own
      BY <2>2 DEF Speaking
    <3> QED
      BY <1>1, <1>3, <1>4, <2>2, <3>1 DEF Star
  <2>3. CASE weblog # NoWeblog /\ own = {}
    <3>1. Speaking(lines, weblog) = {j \in DOMAIN lines : lines[j].weblogs = Star}
      BY <2>3 DEF Speaking
    <3> QED
      BY <1>1, <1>3, <1>4, <2>3, <3>1 DEF Star
  <2> QED
    BY <2>1, <2>2, <2>3
<1>6. ~InRange(text.range, versions[component]) <=>
        text.value # "" \/ ~InRange(text.range, versions[component])
  BY <1>2, EmptyRanges
<1> HIDE DEF c, text
<1>7. MatchCondition(c, versions, weblog) <=>
        /\ ~InRange(text.range, versions[component])
        /\ c.weblog = {} \/ weblog = NoWeblog \/ weblog \in c.weblog
        /\ weblog \notin c.excluded_weblog
  BY <1>3, EmptyRanges DEF MatchCondition
<1> QED
  BY <1>3, <1>5, <1>6, <1>7 DEF c, text

\* The declarations of the conditions of an entry that match.
Kept(component, e, versions, weblog) ==
    {c.declaration : c \in {x \in ToSet(Of(component, e)) : MatchCondition(x, versions, weblog)}}

\* The conditions of an entry that match give the reasons a reader sees in it.
LEMMA EntryAsWritten ==
    ASSUME NEW component, NEW versions, component \in DOMAIN versions,
           NEW weblog, weblog # "*", NEW e, IsEntry(e)
    PROVE  Kept(component, e, versions, weblog) = Reasons(e, versions[component], weblog)
<1>1. CASE e.lines = <<>>
  <2> DEFINE c == CastToCondition(component, e)
  <2>1. ToSet(Of(component, e)) = {c}
    BY <1>1 DEF Of, ToSet
  <2>2. MatchCondition(c, versions, weblog) <=>
          /\ InRange(e.component_version, versions[component])
          /\ ~InRange(e.excluded_component_version, versions[component])
          /\ weblog = NoWeblog \/ ((e.weblog = {} \/ weblog \in e.weblog)
                                       /\ weblog \notin e.excluded_weblog)
    BY DEF MatchCondition, CastToCondition, IsEntry
  <2>3. c.declaration = e.declaration
    BY DEF CastToCondition
  <2> HIDE DEF c
  <2> QED
    BY <1>1, <2>1, <2>2, <2>3, Zenon DEF Kept, Reasons
<1>2. CASE e.lines # <<>>
  <2> DEFINE W == WeblogDeclaration(component, e.lines)
             S == {j \in Speaking(e.lines, weblog) :
                     e.lines[j].text.value # ""
                       \/ ~InRange(e.lines[j].text.range, versions[component])}
             D(j) == IF e.lines[j].text.value = "" THEN "missing_feature" ELSE e.lines[j].text.value
  <2>1. Of(component, e) = W
    BY <1>2 DEF Of
  <2>2. DOMAIN W = DOMAIN e.lines
    BY DEF WeblogDeclaration
  <2>3. ASSUME NEW i \in DOMAIN e.lines
        PROVE  W[i].declaration = D(i) /\ (MatchCondition(W[i], versions, weblog) <=> i \in S)
    <3>1. \A line \in ToSet(e.lines) : IsLine(line)
      BY DEF IsEntry
    <3>2. /\ W[i].declaration = D(i)
          /\ MatchCondition(W[i], versions, weblog) <=>
               /\ i \in Speaking(e.lines, weblog)
               /\ e.lines[i].text.value # ""
                    \/ ~InRange(e.lines[i].text.range, versions[component])
      BY <3>1, LineMatches, Zenon
    <3> HIDE DEF W, D
    <3> QED
      BY <3>2, Zenon
  <2>4. S \subseteq DOMAIN e.lines
    BY DEF Speaking
  <2>5. Reasons(e, versions[component], weblog) = {D(i) : i \in S}
    BY <1>2, Zenon DEF Reasons
  <2>6. ToSet(W) = {W[i] : i \in DOMAIN e.lines}
    BY <2>2 DEF ToSet
  <2> HIDE DEF W, S, D
  <2> QED
    BY <2>1, <2>3, <2>4, <2>5, <2>6 DEF Kept
<1> QED
  BY <1>1, <1>2

-----------------------------------------------------------------------------
(* A manifest.                                                             *)

\* A condition carries a declaration, and the component of its manifest.
LEMMA ConditionDeclares ==
    ASSUME NEW component, NEW e, IsEntry(e), NEW c \in ToSet(Of(component, e))
    PROVE  c.declaration \in Values /\ c.component = component
<1>1. CASE e.lines = <<>>
  BY <1>1 DEF Of, ToSet, CastToCondition, IsEntry
<1>2. CASE e.lines # <<>>
  <2>1. PICK i \in DOMAIN e.lines : c = WeblogDeclaration(component, e.lines)[i]
    BY <1>2 DEF Of, ToSet, WeblogDeclaration
  <2>2. e.lines[i].text.value \in Values \cup {""}
    BY DEF IsEntry, ToSet, IsLine, IsText
  <2>3. /\ c.component = component
        /\ c.declaration = IF e.lines[i].text.value # "" THEN e.lines[i].text.value
                           ELSE "missing_feature"
    BY <2>1 DEF WeblogDeclaration, ProcessInline
  <2> QED
    BY <2>2, <2>3 DEF Values
<1> QED
  BY <1>1, <1>2

\* get_rules, for one rule.
LEMMA RuleAsWritten ==
    ASSUME NEW m, IsSequence(m.entries), \A e \in ToSet(m.entries) : IsEntry(e),
           NEW versions, NEW weblog, weblog # "*"
    PROVE  /\ GetRules(m, versions, weblog) \in Seq(Values)
           /\ ToSet(GetRules(m, versions, weblog)) =
                IF m.component \in DOMAIN versions
                THEN UNION {Reasons(e, versions[m.component], weblog) : e \in ToSet(m.entries)}
                ELSE {}
<1> DEFINE conditions == Conditions(m.component, m.entries)
           A == AllOf(m.component, m.entries)
           Part(c) == IF MatchCondition(c, versions, weblog) THEN <<c.declaration>> ELSE <<>>
           parts == [i \in DOMAIN conditions |-> Part(conditions[i])]
<1>1. conditions \in Seq(A) /\ ToSet(conditions) = A
  BY ConditionsAre, Zenon
<1>2. ASSUME NEW c \in A PROVE c.declaration \in Values /\ c.component = m.component
  BY ConditionDeclares, Zenon DEF AllOf
<1>3. ASSUME NEW c \in A PROVE Part(c) \in Seq(Values)
  <2>1. <<c.declaration>> \in Seq(Values) /\ <<>> \in Seq(Values)
    BY <1>2
  <2> QED
    BY <2>1, Zenon
<1>4. \A c : ToSet(Part(c)) = IF MatchCondition(c, versions, weblog) THEN {c.declaration} ELSE {}
  BY DEF ToSet
<1>5. GetRules(m, versions, weblog) = FlattenSeq(parts)
  BY Zenon DEF GetRules
<1> HIDE DEF conditions, A, Part
<1>6. DOMAIN conditions = 1 .. Len(conditions) /\ Len(conditions) \in Nat
  BY <1>1
<1>7. \A i \in DOMAIN conditions : conditions[i] \in A /\ Part(conditions[i]) \in Seq(Values)
  BY <1>1, <1>3
<1>8. parts \in Seq(Seq(Values)) /\ DOMAIN parts = DOMAIN conditions
  <2>1. parts \in [1 .. Len(conditions) -> Seq(Values)]
    BY <1>6, <1>7
  <2> QED
    BY <1>6, <2>1
<1>9. \A i \in DOMAIN parts : parts[i] = Part(conditions[i])
  BY <1>8
<1> HIDE DEF parts
<1>10. FlattenSeq(parts) \in Seq(Values)
       /\ ToSet(FlattenSeq(parts)) = UNION {ToSet(parts[i]) : i \in DOMAIN parts}
  BY <1>8, FlattenElements
<1>11. UNION {ToSet(parts[i]) : i \in DOMAIN parts} = UNION {ToSet(Part(c)) : c \in A}
  <2>1. A = {conditions[i] : i \in DOMAIN conditions}
    BY <1>1 DEF ToSet
  <2> QED
    BY <1>8, <1>9, <2>1, Zenon
<1>12. UNION {ToSet(Part(c)) : c \in A}
         = UNION {Kept(m.component, e, versions, weblog) : e \in ToSet(m.entries)}
  <2>1. UNION {ToSet(Part(c)) : c \in A}
          = {c.declaration : c \in {x \in A : MatchCondition(x, versions, weblog)}}
    BY <1>4
  <2> QED
    BY <2>1 DEF A, AllOf, Kept
<1>13. CASE m.component \in DOMAIN versions
  BY <1>5, <1>10, <1>11, <1>12, <1>13, EntryAsWritten
<1>14. CASE m.component \notin DOMAIN versions
  <2>1. ASSUME NEW c \in A PROVE ToSet(Part(c)) = {}
    BY <1>2, <1>4, <1>14 DEF MatchCondition
  <2>2. UNION {ToSet(Part(c)) : c \in A} = {}
    BY <2>1, Zenon
  <2> QED
    BY <1>5, <1>10, <1>11, <1>14, <2>2
<1> QED
  BY <1>13, <1>14

\* A rule applies to the tests below it: an empty last element says nothing.
LEMMA RuleIsPrefix ==
    ASSUME NEW rule \in Seq(Names), Empty \notin ToSet(Strip(rule)), NEW path \in Seq(Names)
    PROVE  MatchRule(rule, path) <=>
             \A k \in DOMAIN rule : rule[k] = Empty \/ (k \in DOMAIN path /\ rule[k] = path[k])
<1> DEFINE r == Strip(rule)
<1>1. /\ r \in Seq(Names) /\ Len(r) <= Len(rule)
      /\ \A k \in 1 .. Len(r) : r[k] = rule[k] /\ rule[k] # Empty
      /\ \A k \in 1 .. Len(rule) : k \in 1 .. Len(r) \/ rule[k] = Empty
  <2>1. CASE rule # <<>> /\ rule[Len(rule)] = Empty
    <3>1. r = SubSeq(rule, 1, Len(rule) - 1)
      BY <2>1 DEF Strip, Last, Front
    <3>2. Len(r) = Len(rule) - 1 /\ r \in Seq(Names) /\ \A k \in 1 .. Len(r) : r[k] = rule[k]
      <4>1. PICK n \in Nat : Len(rule) = n + 1
        <5>1. Len(rule) \in Nat \ {0}
          BY <2>1
        <5>2. Len(rule) - 1 \in Nat /\ Len(rule) = (Len(rule) - 1) + 1
          BY <5>1
        <5> QED
          BY <5>2
      <4> HIDE DEF r
      <4>2. r = SubSeq(rule, 1, n)
        BY <3>1, <4>1
      <4>3. \A i \in 1 .. n : rule[i] \in Names
        BY <4>1
      <4>4. r \in Seq(Names) /\ Len(r) = n /\ \A i \in 1 .. n : r[i] = rule[i]
        BY <4>2, <4>3, SubSeqProperties
      <4> QED
        BY <4>1, <4>4
    <3>3. \A k \in 1 .. Len(r) : r[k] # Empty
      BY <3>2 DEF ToSet
    <3> QED
      BY <2>1, <3>2, <3>3
  <2>2. CASE ~(rule # <<>> /\ rule[Len(rule)] = Empty)
    <3>1. r = rule
      BY <2>2 DEF Strip, Last
    <3> QED
      BY <3>1 DEF ToSet
  <2> QED
    BY <2>1, <2>2
<1> HIDE DEF r
<1>2. MatchRule(rule, path) <=> Len(r) <= Len(path) /\ SubSeq(r, 1, Len(r)) = SubSeq(path, 1, Len(r))
  BY DEF MatchRule, IsPrefix, r
<1>3. Len(r) <= Len(path) =>
        (SubSeq(r, 1, Len(r)) = SubSeq(path, 1, Len(r)) <=> \A k \in 1 .. Len(r) : r[k] = path[k])
  <2> SUFFICES ASSUME Len(r) <= Len(path)
      PROVE SubSeq(r, 1, Len(r)) = SubSeq(path, 1, Len(r)) <=> \A k \in 1 .. Len(r) : r[k] = path[k]
    OBVIOUS
  <2>1. SubSeq(r, 1, Len(r)) = [k \in 1 .. Len(r) |-> r[k]]
    BY <1>1
  <2>2. SubSeq(path, 1, Len(r)) = [k \in 1 .. Len(r) |-> path[k]]
    BY <1>1
  <2> QED
    BY <2>1, <2>2
<1>4. ASSUME MatchRule(rule, path), NEW k \in DOMAIN rule, rule[k] # Empty
      PROVE  k \in DOMAIN path /\ rule[k] = path[k]
  BY <1>1, <1>2, <1>3, <1>4
<1>5. ASSUME \A k \in DOMAIN rule : rule[k] = Empty \/ (k \in DOMAIN path /\ rule[k] = path[k])
      PROVE  MatchRule(rule, path)
  <2>1. \A k \in 1 .. Len(r) : k \in 1 .. Len(path) /\ r[k] = path[k]
    BY <1>1, <1>5
  <2>2. Len(r) <= Len(path)
    BY <1>1, <2>1
  <2> QED
    BY <1>2, <1>3, <2>1, <2>2
<1> QED
  BY <1>4, <1>5

\* get_declarations collects, for a test, exactly the reasons written in the
\* manifest at its own level and above, for the version and the weblog under
\* test: nothing is lost, nothing is added, and no level overrides another.
THEOREM DeclarationsAsWritten ==
    ASSUME NEW manifest, IsManifest(manifest), NEW versions,
           NEW weblog, weblog # "*", NEW path \in Seq(Names)
    PROVE  /\ GetDeclarations(manifest, versions, weblog, path) \in Seq(Values)
           /\ ToSet(GetDeclarations(manifest, versions, weblog, path))
                = Written(manifest, versions, weblog, path)
<1> DEFINE Part(m) == IF MatchRule(m.rule, path) THEN GetRules(m, versions, weblog) ELSE <<>>
           parts == [i \in DOMAIN manifest |-> Part(manifest[i])]
           Reason(m) == UNION {Reasons(e, versions[m.component], weblog) : e \in ToSet(m.entries)}
           Applies(m) == \A k \in DOMAIN m.rule :
                            m.rule[k] = Empty \/ (k \in DOMAIN path /\ m.rule[k] = path[k])
<1>1. DOMAIN manifest = 1 .. Len(manifest) /\ Len(manifest) \in Nat
  BY DEF IsManifest, IsSequence
<1>2. ToSet(manifest) = {manifest[i] : i \in DOMAIN manifest}
  BY DEF ToSet
<1>3. ASSUME NEW m \in ToSet(manifest)
      PROVE  /\ MatchRule(m.rule, path) <=> Applies(m)
             /\ GetRules(m, versions, weblog) \in Seq(Values)
             /\ ToSet(GetRules(m, versions, weblog))
                  = IF m.component \in DOMAIN versions THEN Reason(m) ELSE {}
  BY RuleIsPrefix, RuleAsWritten, Zenon DEF IsManifest
<1>4. GetDeclarations(manifest, versions, weblog, path) = FlattenSeq(parts)
  BY Zenon DEF GetDeclarations
<1>5. Written(manifest, versions, weblog, path)
        = UNION {Reason(m) : m \in {x \in ToSet(manifest) : x.component \in DOMAIN versions /\ Applies(x)}}
  BY Zenon DEF Written
<1> HIDE DEF Reason, Applies
<1>6. ASSUME NEW m \in ToSet(manifest)
      PROVE  /\ Part(m) \in Seq(Values)
             /\ ToSet(Part(m)) = IF m.component \in DOMAIN versions /\ Applies(m) THEN Reason(m) ELSE {}
  <2>1. <<>> \in Seq(Values) /\ ToSet(<<>>) = {}
    BY DEF ToSet
  <2> QED
    BY <1>3, <2>1, Zenon
<1> HIDE DEF Part
<1>7. parts \in Seq(Seq(Values)) /\ DOMAIN parts = DOMAIN manifest
  <2>1. parts \in [1 .. Len(manifest) -> Seq(Values)]
    BY <1>1, <1>2, <1>6
  <2> QED
    BY <1>1, <2>1
<1>8. \A i \in DOMAIN manifest : parts[i] = Part(manifest[i])
  OBVIOUS
<1> HIDE DEF parts
<1>9. FlattenSeq(parts) \in Seq(Values)
      /\ ToSet(FlattenSeq(parts)) = UNION {ToSet(parts[i]) : i \in DOMAIN parts}
  BY <1>7, FlattenElements
<1>10. UNION {ToSet(parts[i]) : i \in DOMAIN parts} = UNION {ToSet(Part(m)) : m \in ToSet(manifest)}
  BY <1>2, <1>7, <1>8, Zenon
<1>11. UNION {ToSet(Part(m)) : m \in ToSet(manifest)}
         = UNION {Reason(m) : m \in {x \in ToSet(manifest) : x.component \in DOMAIN versions /\ Applies(x)}}
  BY <1>6
<1> QED
  BY <1>4, <1>5, <1>9, <1>10, <1>11

\* ^v is what is compatible with v, from v on: the later versions that agree with
\* it up to its first number that is not 0. The pre-releases of the next one that
\* does not agree are not part of it, those of v come before it.
THEOREM CaretIsCompatible ==
    ASSUME NEW v \in Nat \X Nat \X Nat \X {0, 1}, NEW version \in Nat \X Nat \X Nat \X {0, 1}
    PROVE  InRange(Caret(v), version) <=> (SameLine(v, version) /\ ~Before(version, v))
<1> DEFINE next == NextIncompatible(v)
<1>1. InRange(Caret(v), version) <=> ~Before(version, v) /\ Before(version, next)
  BY DEF InRange, Caret, Holds
<1>2. ASSUME NEW w \in Int \X Int \X Int \X Int
      PROVE  Before(version, w) <=>
               \/ version[1] < w[1]
               \/ version[1] = w[1] /\ version[2] < w[2]
               \/ version[1] = w[1] /\ version[2] = w[2] /\ version[3] < w[3]
               \/ version[1] = w[1] /\ version[2] = w[2] /\ version[3] = w[3] /\ version[4] < w[4]
  BY DEF Before
<1>3. SameLine(v, version) <=>
        /\ version[1] = v[1]
        /\ v[1] = 0 => version[2] = v[2]
        /\ v[1] = 0 /\ v[2] = 0 => version[3] = v[3]
  BY DEF SameLine
<1>4. v \in Int \X Int \X Int \X Int /\ version[4] \in {0, 1}
      /\ v[1] \in Nat /\ v[2] \in Nat /\ v[3] \in Nat
      /\ version[1] \in Nat /\ version[2] \in Nat /\ version[3] \in Nat
  OBVIOUS
<1>5. CASE v[1] # 0
  <2>1. next \in Int \X Int \X Int \X Int
        /\ next[1] = v[1] + 1 /\ next[2] = 0 /\ next[3] = 0 /\ next[4] = -1
    BY <1>5 DEF NextIncompatible
  <2> HIDE DEF next
  <2>2. Before(version, next) <=> version[1] <= v[1]
    BY <1>2, <1>4, <2>1
  <2> QED
    BY <1>1, <1>2, <1>3, <1>4, <1>5, <2>2
<1>6. CASE v[1] = 0 /\ v[2] # 0
  <2>1. next \in Int \X Int \X Int \X Int
        /\ next[1] = 0 /\ next[2] = v[2] + 1 /\ next[3] = 0 /\ next[4] = -1
    BY <1>6 DEF NextIncompatible
  <2> HIDE DEF next
  <2>2. Before(version, next) <=> version[1] = 0 /\ version[2] <= v[2]
    BY <1>2, <1>4, <2>1
  <2> QED
    BY <1>1, <1>2, <1>3, <1>4, <1>6, <2>2
<1>7. CASE v[1] = 0 /\ v[2] = 0
  <2>1. next \in Int \X Int \X Int \X Int
        /\ next[1] = 0 /\ next[2] = 0 /\ next[3] = v[3] + 1 /\ next[4] = -1
    BY <1>7 DEF NextIncompatible
  <2> HIDE DEF next
  <2>2. Before(version, next) <=> version[1] = 0 /\ version[2] = 0 /\ version[3] <= v[3]
    BY <1>2, <1>4, <2>1
  <2> QED
    BY <1>1, <1>2, <1>3, <1>4, <1>7, <2>2
<1> QED
  BY <1>4, <1>5, <1>6, <1>7

-----------------------------------------------------------------------------
(* The inductive invariant of the session.                                 *)

Statuses == {"pass", "fail", "skip"}
Outcomes == {"passed", "failed", "skipped", "error", "xpassed", "xfailed"}
Bad      == {"failed", "error"}
Forms    == {"plain", "object", "tuple", "other"}
Props    == [of : NodeIds \cup {0}, form : Forms \cup {"tagged"}]

ConfigTypes ==
    /\ phase \in {"collect", "setups", "tests", "finished"}
    /\ replay \in BOOLEAN /\ sessions \in Nat /\ world \in Worlds /\ options \in Options

MarkTypes ==
    /\ declared \in [NodeIds -> Seq(Values)] /\ marks \in [NodeIds -> SUBSET {"skip", "xfail"}]
    /\ items \subseteq Selected /\ todo \subseteq items

PropTypes ==
    /\ attrs \in [NodeIds -> Props] /\ store \in [NodeIds -> Props]
    /\ file \in [state : {"none", "partial", "whole"}, content : [NodeIds -> Props]]
    /\ setUp \in [NodeIds -> [of : NodeIds \cup {0}, form : Forms]]

ResultTypes ==
    /\ status \in [NodeIds -> Seq(Statuses)] /\ outcome \in [NodeIds -> Seq(Outcomes)]
    /\ teardown \subseteq NodeIds /\ skipping \subseteq NodeIds /\ touched \subseteq NodeIds

TypeOK ==
    /\ ConfigTypes /\ MarkTypes /\ PropTypes /\ ResultTypes
    /\ exit \in {"none", "ok", "failed", "no_tests", "interrupted", "internal_error"}

\* Past the collection, declarations and markers are those of the configuration.
MarkInv ==
    /\ phase = "collect" => items = {} /\ todo = {}
    /\ phase # "collect" =>
         \A t \in NodeIds :
            /\ declared[t] = Declared(t)
            /\ marks[t] = IF t \in Selected THEN Marks(t) ELSE {}

Skips(t) == "skip" \in marks[t]

\* A status s and a first report o agree, but for the two ways to hide a failure.
Agree(t, s, o) ==
    /\ o \in Bad => s = "fail"
    /\ s = "fail" => o \in Bad \/ (o = "skipped" /\ (t \in skipping \/ Generates(t)))

\* What a test that has been reported has: one status, which agrees with its
\* report; a disabled one has not failed.
Right(t) ==
    /\ t \in items /\ Len(status[t]) = 1
    /\ Agree(t, status[t][1], Head(outcome[t]))
    /\ marks[t] # {} => ToSet(outcome[t]) \cap Bad = {} /\ status[t][1] # "fail"
    /\ Skips(t) => outcome[t] = <<"skipped">>

\* The status of a test before it is reported.
BeforeReport(t) == IF t \in items /\ Skips(t) THEN <<"skip">> ELSE <<>>

\* Each loop has handled the items that are not in todo, and only those.
LoopInv ==
    /\ phase = "collect" => touched = {}
    /\ phase \in {"collect", "setups"} =>
         \A t \in NodeIds : outcome[t] = <<>> /\ status[t] = IF t \in todo THEN <<>> ELSE BeforeReport(t)
    /\ phase = "tests" =>
         \A t \in NodeIds :
            /\ t \in todo <=> t \in items /\ outcome[t] = <<>>
            /\ outcome[t] = <<>> => status[t] = BeforeReport(t)
    /\ \A t \in NodeIds : outcome[t] # <<>> => Right(t)
    /\ \A t \in touched : t \in items /\ ~Skips(t)

\* The exit status and the report are those of the outcomes.
ExitInv ==
    /\ phase # "finished" => exit = "none"
    /\ exit \in {"ok", "failed"} =>
         /\ exit = "failed" <=> \E t \in NodeIds : Failed(t)
         /\ Reported = items
         /\ ~replay => junit = Rewritten

\* The setup loop has given its properties to a test.
Restored(t) == (~Skips(t) /\ Tests[t].setup) => attrs[t] = Decode(file.content[t])

\* The store, then the file, hold what the setups left; a replay hands it out.
PropsInv ==
    /\ file.state = "whole" =>
         \A t \in NodeIds : file.content[t] = Encode(setUp[t]) /\ setUp[t].form # "other"
    /\ ~replay => store = setUp
    /\ ~replay /\ phase \in {"collect", "setups"} => file.state = "none"
    /\ replay /\ phase = "tests" => file.state = "whole"
    /\ replay /\ phase = "setups" => \A t \in items \ todo : Restored(t)
    /\ replay /\ phase = "tests" => \A t \in items : Restored(t)

IInv == TypeOK /\ MarkInv /\ LoopInv /\ ExitInv /\ PropsInv

-----------------------------------------------------------------------------
(* Lemmas on the operators.                                                *)

\* The test a loop is about to handle is one of those left.
LEMMA CurrentIsTodo == TypeOK /\ todo # {} => Current \in todo /\ Current \in items /\ Current \in NodeIds
<1> SUFFICES ASSUME TypeOK, todo # {}
    PROVE Current \in todo /\ Current \in items /\ Current \in NodeIds
  OBVIOUS
<1>1. todo \subseteq items /\ items \subseteq NodeIds /\ todo \in SUBSET Nat
  BY NodeIdsAssumption DEF TypeOK, MarkTypes, Selected
<1>2. \E m \in todo : \A n \in todo : m <= n
  BY <1>1, LeastNumber
<1>3. Current \in todo
  BY <1>2, Zenon DEF Current, Min
<1> QED
  BY <1>1, <1>3

\* Only the empty sequence has no element.
LEMMA OnlyEmpty ==
    ASSUME NEW V, NEW s \in Seq(V)
    PROVE  s = <<>> <=> ToSet(s) = {}
<1>1. Len(s) \in Nat /\ DOMAIN s = 1 .. Len(s) /\ (s = <<>> <=> Len(s) = 0)
  OBVIOUS
<1>2. CASE Len(s) = 0
  BY <1>1, <1>2 DEF ToSet
<1>3. CASE Len(s) # 0
  <2>1. 1 \in DOMAIN s
    BY <1>1, <1>3
  <2> QED
    BY <1>1, <1>3, <2>1 DEF ToSet
<1> QED
  BY <1>2, <1>3

\* The declarations of a test are those written about it.
LEMMA DeclaredIsWritten ==
    ASSUME world \in Worlds, NEW t \in NodeIds
    PROVE  Declared(t) \in Seq(Values) /\ ToSet(Declared(t)) = Why(t)
<1> DEFINE d == GetDeclarations(world.manifest, world.versions, world.weblog, Path(t))
<1>1. IsManifest(world.manifest) /\ world.weblog # "*" /\ Path(t) \in Seq(Names)
  BY ManifestsAssumption, WeblogsAssumption, PathAssumption DEF Worlds, Path
<1>2. /\ d \in Seq(Values)
      /\ ToSet(d) = Written(world.manifest, world.versions, world.weblog, Path(t))
  BY <1>1, DeclarationsAsWritten, Zenon
<1>3. Tests[t].own \in Seq(Values) /\ Tests[t].class \in Seq(Values)
  BY TestsAssumption
<1> DEFINE a == Tests[t].own \o d
<1> HIDE DEF d
<1>4. a \in Seq(Values) /\ ToSet(a) = ToSet(Tests[t].own) \cup ToSet(d)
  BY <1>2, <1>3, ConcatElements
<1>5. Declared(t) = a \o Tests[t].class
  BY Zenon DEF Declared, d
<1> HIDE DEF a
<1>6. Declared(t) \in Seq(Values) /\ ToSet(Declared(t)) = ToSet(a) \cup ToSet(Tests[t].class)
  BY <1>3, <1>4, <1>5, ConcatElements
<1> QED
  BY <1>2, <1>4, <1>6, Zenon DEF Why

\* A test has a marker if and only if it is disabled, and is skipped if it is
\* irrelevant or flaky, or slow and disabled in any way.
LEMMA MarksAreRight ==
    ASSUME world \in Worlds, NEW t \in NodeIds
    PROVE  /\ Marks(t) \in SUBSET {"skip", "xfail"}
           /\ Disabled(t) <=> Marks(t) # {}
           /\ Disabled(t) /\ (Tests[t].slow \/ Why(t) \cap {"irrelevant", "flaky"} # {})
                => "skip" \in Marks(t)
<1>1. ToSet(Declared(t)) = Why(t) /\ (Declared(t) # <<>> <=> Why(t) # {})
  <2>1. Declared(t) # <<>> <=> ToSet(Declared(t)) # {}
    BY DeclaredIsWritten, OnlyEmpty, Zenon
  <2> QED
    BY <2>1, DeclaredIsWritten
<1>2. Marks(t) = IF t \in options.forced THEN {}
                 ELSE {Marker(d) : d \in Why(t)} \cup
                      (IF Tests[t].slow /\ Why(t) # {} THEN {"skip"} ELSE {})
  BY <1>1, Zenon DEF Marks, SkipIfXfail
<1>3. \A d : Marker(d) \in {"skip", "xfail"} /\ (d \in {"irrelevant", "flaky"} => Marker(d) = "skip")
  BY DEF Marker
<1> QED
  BY <1>2, <1>3 DEF Disabled

\* What the other definitions make of the configuration of the session.
LEMMA ConfigFixes ==
    ASSUME UNCHANGED config
    PROVE  \A t \in NodeIds : Marks(t)' = Marks(t) /\ Declared(t)' = Declared(t)
BY DEF config, Marks, Declared, SkipIfXfail

-----------------------------------------------------------------------------
(* Types.                                                                  *)

\* The invariant holds in a process that has just started.
LEMMA InitTypes == Init => IInv
<1> SUFFICES ASSUME Init PROVE IInv
  OBVIOUS
<1>1. ConfigTypes /\ exit = "none" /\ phase = "collect" /\ ~replay
  BY DEF Init, Fresh, ConfigTypes
<1>2. MarkTypes /\ items = {} /\ todo = {}
  BY DEF Init, Fresh, MarkTypes, NoLists, NoMarks
<1>3. PropTypes /\ store = setUp /\ file.state = "none"
  BY DEF Init, Fresh, PropTypes, None, Nothing, Props, Forms
<1>4. /\ ResultTypes /\ touched = {}
      /\ \A t \in NodeIds : outcome[t] = <<>> /\ status[t] = <<>>
  BY DEF Init, Fresh, ResultTypes, NoLists
<1> QED
  BY <1>1, <1>2, <1>3, <1>4 DEF IInv, TypeOK, MarkInv, LoopInv, ExitInv, PropsInv, BeforeReport

\* Only Collect and Replay touch the markers; only Replay the configuration.
LEMMA Frame ==
    [Next]_vars => \/ Collect \/ Replay
                   \/ /\ UNCHANGED <<config, marking>>
                      /\ todo' \in {todo, todo \ {Current}, items}
BY DEF Next, LoadProperties, LoadRaises, NoProperties, SkipSetup, HasNoSetup, SetsUp, CallSetup,
       SetupRaises, RestoreProperties, DumpRaises, SetupsDone, TestIsSkipped, Runs, FixtureFails,
       FixtureExits, RunTest, Finish, vars

\* No step takes the configuration of the session out of its types.
LEMMA ConfigStep == TypeOK /\ [Next]_vars => ConfigTypes'
<1> SUFFICES ASSUME TypeOK, [Next]_vars PROVE ConfigTypes'
  OBVIOUS
<1> USE DEF TypeOK, ConfigTypes
<1>1. CASE Replay
  <2>1. PICK m \in Manifests, f \in Forced :
          world' = [world EXCEPT !.manifest = m] /\ options' = [options EXCEPT !.forced = f]
    BY <1>1 DEF Replay
  <2>2. world' \in Worlds /\ options' \in Options
    BY <2>1 DEF Worlds, Options
  <2> QED
    BY <1>1, <2>2 DEF Replay
<1>2. CASE ~Replay
  <2>1. phase' \in {phase, "setups", "tests", "finished"}
    BY <1>2 DEF Next, Collect, LoadProperties, LoadRaises, NoProperties, SkipSetup, HasNoSetup, SetsUp,
                CallSetup, SetupRaises, RestoreProperties, DumpRaises, SetupsDone, TestIsSkipped, Runs,
                FixtureFails, FixtureExits, RunTest, Finish, vars
  <2>2. UNCHANGED config
    BY <1>2, Frame DEF Collect
  <2> QED
    BY <2>1, <2>2 DEF config
<1> QED
  BY <1>1, <1>2

\* No step takes declarations, markers and items out of their types.
LEMMA MarkStep == TypeOK /\ [Next]_vars => MarkTypes'
<1> SUFFICES ASSUME TypeOK, [Next]_vars PROVE MarkTypes'
  OBVIOUS
<1> USE DEF TypeOK, MarkTypes
<1>0. Selected' = Selected
  BY DEF Selected, DeclaredScenarios
<1>1. CASE Collect
  <2>1. world \in Worlds
    BY DEF ConfigTypes
  <2>2. declared' \in [NodeIds -> Seq(Values)] /\ marks' \in [NodeIds -> SUBSET {"skip", "xfail"}]
    BY <1>1, <2>1, DeclaredIsWritten, MarksAreRight DEF Collect
  <2> QED
    BY <1>0, <1>1, <2>2 DEF Collect
<1>2. CASE Replay
  BY <1>0, <1>2 DEF Replay, NoLists, NoMarks
<1>3. CASE UNCHANGED <<config, marking>> /\ todo' \in {todo, todo \ {Current}, items}
  BY <1>0, <1>3 DEF marking
<1> QED
  BY <1>1, <1>2, <1>3, Frame

\* What is written and read back: a tuple is not.
LEMMA JsonTypes ==
    /\ \A v \in Props : Encode(v) \in Props /\ Decode(v) \in Props
    /\ \A v \in [of : NodeIds \cup {0}, form : Forms] :
         /\ Decode(Encode(v)).of = v.of
         /\ Decode(Encode(v)).form = IF v.form = "tuple" THEN "plain" ELSE v.form
BY DEF Props, Forms, Encode, Decode

\* No step takes the properties of instances, store and file out of their types.
LEMMA PropStep == TypeOK /\ [Next]_vars => PropTypes'
<1> SUFFICES ASSUME TypeOK, [Next]_vars PROVE PropTypes'
  OBVIOUS
<1> USE DEF PropTypes
<1>0. PropTypes /\ (Loop => Current \in NodeIds)
  BY CurrentIsTodo DEF TypeOK, Loop
<1>n. None \in [NodeIds -> Props] /\ None \in [NodeIds -> [of : NodeIds \cup {0}, form : Forms]]
  BY DEF None, Nothing, Props, Forms
<1>1. CASE LoadProperties
  BY <1>0, <1>1, JsonTypes DEF LoadProperties, Decoded
<1>2. CASE CallSetup
  <2>1. PICK form \in Tests[Current].leaves :
          LET v == [of |-> Current, form |-> form]
          IN  /\ attrs' = [attrs EXCEPT ![Current] = v]
              /\ store' = [store EXCEPT ![Current] = v]
              /\ setUp' = [setUp EXCEPT ![Current] = v]
    BY <1>2 DEF CallSetup, Filed
  <2>2. Current \in NodeIds /\ form \in Forms /\ file' = file
    BY <1>0, <1>2, LeavesAssumption DEF CallSetup, SetsUp, Forms
  <2>3. [of |-> Current, form |-> form] \in [of : NodeIds \cup {0}, form : Forms]
        /\ [of |-> Current, form |-> form] \in Props
    BY <2>2 DEF Props
  <2> QED
    BY <1>0, <2>1, <2>2, <2>3
<1>3. CASE RestoreProperties
  BY <1>0, <1>3 DEF RestoreProperties, SetsUp, Filed
<1>4. CASE SetupsDone
  BY <1>0, <1>4, JsonTypes DEF SetupsDone
<1>5. CASE Replay \/ DumpRaises
  BY <1>0, <1>n, <1>5 DEF Replay, DumpRaises
<1>6. CASE UNCHANGED <<props, setUp>>
  BY <1>0, <1>6 DEF props
<1> QED
  BY <1>1, <1>2, <1>3, <1>4, <1>5, <1>6
  DEF Next, Collect, LoadRaises, NoProperties, SkipSetup, HasNoSetup, SetupRaises, TestIsSkipped,
      FixtureFails, FixtureExits, RunTest, Finish, vars

\* What pytest makes of a result, and the final status of an outcome.
LEMMA PytestOutcome ==
    \A t, result : result \in {"passed", "failed", "skipped", "error"} =>
        /\ Pytest(t, result) \in Outcomes
        /\ "xfail" \in marks[t] => Pytest(t, result) \notin Bad
BY DEF Pytest, Outcomes, Bad

\* The final status of an outcome is a failure exactly for the bad outcomes.
LEMMA StatusOf ==
    \A o \in Outcomes : FinalStatus(o) \in Statuses /\ (FinalStatus(o) = "fail" <=> o \in Bad)
BY DEF FinalStatus, Outcomes, Statuses, Bad

\* The failure of a fixture on the way in has the status of its outcome.
LEMMA FixtureOf ==
    \A t : FixtureOutcome(t) \in Outcomes /\ (FixtureOutcome(t) \in Bad <=> "xfail" \notin marks[t])
BY DEF FixtureOutcome, Outcomes, Bad

\* What a report shows is what pytest says, unless cassettes are generated.
LEMMA ShownOutcome ==
    \A t : \A o \in Outcomes :
        /\ Shown(t, o) \in Outcomes /\ (Shown(t, o) \in Bad => o \in Bad)
        /\ o \in Bad => Shown(t, o) \in Bad \/ (Shown(t, o) = "skipped" /\ Generates(t))
BY DEF Shown, Outcomes, Bad

-----------------------------------------------------------------------------
(* The steps of the test loop.                                             *)

TestStep ==
    \/ TestIsSkipped
    \/ \E result \in {"error", "skipped"} : FixtureFails(result)
    \/ \E result \in {"passed", "failed", "skipped"} : RunTest(result)

\* A test step gives the current test a status s, and reports it with the
\* outcomes l: that of its call, or of what prevented it, comes first.
Reports(s, l) ==
    /\ status' = [status EXCEPT ![Current] = <<s>>]
    /\ outcome' = [outcome EXCEPT ![Current] = l]
    /\ l # <<>> /\ (Head(l) \in Bad => s = "fail")
    /\ s = "fail" =>
         Head(l) \in Bad \/ (Head(l) = "skipped" /\ (Current \in skipping' \/ Generates(Current)))
    /\ marks[Current] # {} => ToSet(l) \cap Bad = {} /\ s # "fail"
    /\ Skips(Current) => l = <<"skipped">>

\* A step of the tests leaves the configuration, the marks and the reports alone.
LEMMA TestFrame ==
    ASSUME TypeOK, TestStep
    PROVE  /\ phase = "tests" /\ Current \in todo /\ Current \in items /\ Current \in NodeIds
           /\ todo' = todo \ {Current}
           /\ UNCHANGED <<phase, config, marking, props, reports, setUp>>
           /\ touched' \in {touched, touched \cup {Current}}
           /\ Skips(Current) => touched' = touched
           /\ teardown' \in {teardown, teardown \cup {Current}}
           /\ skipping' \in {skipping, skipping \cup {Current}}
<1>1. todo # {} => Current \in todo /\ Current \in items /\ Current \in NodeIds
  BY CurrentIsTodo
<1> QED
  BY <1>1 DEF TestStep, TestIsSkipped, FixtureFails, RunTest, Runs, Loop, Skips

\* A step of the tests adds one outcome and one status, to the current test.
LEMMA TestReports ==
    ASSUME IInv, TestStep
    PROVE  \E s \in Statuses, l \in Seq(Outcomes) : Reports(s, l)
<1> DEFINE c == Current
<1>1. c \in NodeIds /\ c \in todo /\ c \in items /\ phase = "tests"
  BY TestFrame DEF IInv
<1>2. outcome[c] = <<>> /\ status[c] = IF Skips(c) THEN <<"skip">> ELSE <<>>
  BY <1>1 DEF IInv, LoopInv, BeforeReport
<1>3. marks[c] \subseteq {"skip", "xfail"} /\ status \in [NodeIds -> Seq(Statuses)]
      /\ outcome \in [NodeIds -> Seq(Outcomes)]
  BY <1>1 DEF IInv, TypeOK, MarkTypes, ResultTypes
<1> HIDE DEF c
<1>4. CASE TestIsSkipped
  <2>1. Skips(c) /\ outcome' = [outcome EXCEPT ![c] = Append(@, "skipped")] /\ status' = status
    BY <1>4 DEF TestIsSkipped, Skips, c
  <2>2. outcome' = [outcome EXCEPT ![c] = <<"skipped">>]
    BY <1>1, <1>2, <1>3, <2>1
  <2>3. status' = [status EXCEPT ![c] = <<"skip">>]
    BY <1>1, <1>2, <1>3, <2>1
  <2>4. Reports("skip", <<"skipped">>)
    <3>1. Head(<<"skipped">>) = "skipped" /\ ToSet(<<"skipped">>) = {"skipped"} /\ <<"skipped">> # <<>>
      BY DEF ToSet
    <3> QED
      BY <2>2, <2>3, <3>1 DEF Reports, Bad, c
  <2>5. "skip" \in Statuses /\ <<"skipped">> \in Seq(Outcomes)
    BY DEF Statuses, Outcomes
  <2> QED
    BY <2>4, <2>5, Zenon
<1>5. ASSUME NEW result \in {"error", "skipped"}, FixtureFails(result)
      PROVE  \E s \in Statuses, l \in Seq(Outcomes) : Reports(s, l)
  <2> DEFINE s == FinalStatus(FixtureOutcome(c))
             p == Pytest(c, result)
             o == Shown(c, p)
  <2>1. ~Skips(c) /\ outcome' = [outcome EXCEPT ![c] = Append(@, o)]
        /\ status' = [status EXCEPT ![c] = Append(@, s)]
        /\ (result = "skipped" => c \in skipping')
    BY <1>5 DEF FixtureFails, Runs, Skips, c
  <2>p. p \in Outcomes /\ ("xfail" \in marks[c] => p \notin Bad)
        /\ ("xfail" \notin marks[c] => p = result)
    BY PytestOutcome DEF Pytest
  <2>s. s \in Statuses /\ (s = "fail" <=> "xfail" \notin marks[c])
    BY FixtureOf, StatusOf
  <2>o. o \in Outcomes /\ (o \in Bad => p \in Bad)
        /\ (p \in Bad => o \in Bad \/ (o = "skipped" /\ Generates(c)))
        /\ (p = "skipped" => o = "skipped")
    <3> HIDE DEF p
    <3>1. Shown(c, "skipped") = "skipped"
      BY DEF Shown
    <3> QED
      BY <2>p, <3>1, ShownOutcome
  <2> HIDE DEF s, p, o
  <2>2. /\ s \in Statuses /\ o \in Outcomes /\ (o \in Bad => s = "fail")
        /\ s = "fail" => o \in Bad \/ (o = "skipped" /\ (c \in skipping' \/ Generates(c)))
        /\ "xfail" \in marks[c] => o \notin Bad /\ s # "fail"
    BY <2>1, <2>p, <2>s, <2>o DEF Bad
  <2>3. outcome' = [outcome EXCEPT ![c] = <<o>>] /\ status' = [status EXCEPT ![c] = <<s>>]
    BY <1>1, <1>2, <1>3, <2>1
  <2>4. marks[c] # {} => "xfail" \in marks[c]
    BY <1>3, <2>1 DEF Skips
  <2>5. <<o>> \in Seq(Outcomes) /\ <<o>> # <<>> /\ Head(<<o>>) = o /\ ToSet(<<o>>) = {o}
    BY <2>2 DEF ToSet
  <2>6. Reports(s, <<o>>)
    BY <2>1, <2>2, <2>3, <2>4, <2>5, Zenon DEF Reports, c
  <2> QED
    BY <2>2, <2>5, <2>6, Zenon
<1>6. ASSUME NEW result \in {"passed", "failed", "skipped"}, RunTest(result)
      PROVE  \E s \in Statuses, l \in Seq(Outcomes) : Reports(s, l)
  <2> DEFINE p == Pytest(c, result)
             o == Shown(c, p)
             e == Pytest(c, "error")
             s == FinalStatus(p)
  <2>1. /\ ~Skips(c) /\ status' = [status EXCEPT ![c] = Append(@, s)]
        /\ \/ outcome' = [outcome EXCEPT ![c] = Append(@, o)]
           \/ outcome' = [outcome EXCEPT ![c] = @ \o <<o, e>>]
    BY <1>6 DEF RunTest, Runs, Skips, c
  <2>2. /\ s \in Statuses /\ o \in Outcomes /\ e \in Outcomes /\ (o \in Bad => s = "fail")
        /\ s = "fail" => o \in Bad \/ (o = "skipped" /\ (c \in skipping' \/ Generates(c)))
        /\ "xfail" \in marks[c] => o \notin Bad /\ e \notin Bad /\ s # "fail"
    <3>1. /\ p \in Outcomes /\ e \in Outcomes
          /\ "xfail" \in marks[c] => p \notin Bad /\ e \notin Bad
      BY PytestOutcome
    <3> HIDE DEF p, e
    <3>2. s \in Statuses /\ (s = "fail" <=> p \in Bad)
      BY <3>1, StatusOf
    <3>3. o \in Outcomes /\ (o \in Bad => p \in Bad)
          /\ (p \in Bad => o \in Bad \/ (o = "skipped" /\ Generates(c)))
      BY <3>1, ShownOutcome
    <3> HIDE DEF s, o
    <3> QED
      BY <3>1, <3>2, <3>3
  <2> HIDE DEF s, p, o, e
  <2>3. status' = [status EXCEPT ![c] = <<s>>]
    BY <1>1, <1>2, <1>3, <2>1
  <2>4. outcome' = [outcome EXCEPT ![c] = <<o>>] \/ outcome' = [outcome EXCEPT ![c] = <<o, e>>]
    BY <1>1, <1>2, <1>3, <2>1
  <2>5. marks[c] # {} => "xfail" \in marks[c]
    BY <1>3, <2>1 DEF Skips
  <2>6. <<o>> \in Seq(Outcomes) /\ <<o>> # <<>> /\ Head(<<o>>) = o /\ ToSet(<<o>>) = {o}
    BY <2>2 DEF ToSet
  <2>7. /\ <<o, e>> \in Seq(Outcomes) /\ <<o, e>> # <<>> /\ Head(<<o, e>>) = o
        /\ ToSet(<<o, e>>) = {o, e}
    BY <2>2 DEF ToSet
  <2>8. CASE outcome' = [outcome EXCEPT ![c] = <<o>>]
    <3>1. Reports(s, <<o>>)
      BY <2>1, <2>2, <2>3, <2>5, <2>6, <2>8, Zenon DEF Reports, c
    <3> QED
      BY <2>2, <2>6, <3>1, Zenon
  <2>9. CASE outcome' = [outcome EXCEPT ![c] = <<o, e>>]
    <3>1. Reports(s, <<o, e>>)
      BY <2>1, <2>2, <2>3, <2>5, <2>7, <2>9, Zenon DEF Reports, c
    <3> QED
      BY <2>2, <2>7, <3>1, Zenon
  <2> QED
    BY <2>4, <2>8, <2>9
<1> QED
  BY <1>4, <1>5, <1>6 DEF TestStep

-----------------------------------------------------------------------------
(* The results.                                                            *)

\* The steps that leave the results, the markers and the loops alone.
Quiet ==
    /\ UNCHANGED <<config, marking, todo, results, touched>>
    /\ phase' = phase \/ phase' = "finished"

\* The setup loop passes the current test.
SetupStep ==
    /\ phase = "setups" /\ phase' = "setups" /\ todo' = todo \ {Current}
    /\ UNCHANGED <<config, marking, outcome, teardown, skipping>>
    /\ status' = IF Skips(Current) THEN [status EXCEPT ![Current] = Append(@, "skip")] ELSE status
    /\ touched' \in {touched, touched \cup {Current}}
    /\ Skips(Current) => touched' = touched

\* A setup raises, and the session ends.
Raised ==
    /\ UNCHANGED <<config, marking, todo, results>> /\ touched' = touched \cup {Current}
    /\ phase = "setups" /\ phase' = "finished" /\ ~Skips(Current)

\* A fixture ends the session.
Exited ==
    /\ UNCHANGED <<config, marking, todo, outcome, teardown, skipping, touched>>
    /\ phase = "tests" /\ phase' = "finished"
    /\ \E s \in Statuses : status' = [status EXCEPT ![Current] = Append(@, s)]

\* Every step is one of these; it is what each lemma below splits on.
LEMMA Steps ==
    ASSUME TypeOK, [Next]_vars
    PROVE  \/ Collect \/ Replay \/ SetupsDone \/ TestStep \/ Quiet
           \/ SetupStep /\ Current \in todo /\ Current \in NodeIds /\ Current \in items
           \/ Raised /\ Current \in todo /\ Current \in NodeIds /\ Current \in items
           \/ Exited /\ Current \in todo /\ Current \in NodeIds /\ Current \in items
<1>1. Loop => Current \in todo /\ Current \in NodeIds /\ Current \in items
  BY CurrentIsTodo DEF Loop
<1>2. CASE LoadProperties \/ LoadRaises \/ NoProperties \/ DumpRaises \/ Finish \/ UNCHANGED vars
  BY <1>2 DEF LoadProperties, LoadRaises, NoProperties, DumpRaises, Finish, vars, Quiet
<1>3. CASE SkipSetup
  BY <1>1, <1>3 DEF SkipSetup, SetupStep, Skips
<1>4. CASE HasNoSetup
  BY <1>1, <1>4 DEF HasNoSetup, SetupStep, Skips, results
<1>5. CASE CallSetup
  BY <1>1, <1>5 DEF CallSetup, SetsUp, SetupStep, Skips, results
<1>6. CASE RestoreProperties
  BY <1>1, <1>6 DEF RestoreProperties, SetsUp, SetupStep, Skips, results
<1>7. CASE SetupRaises
  BY <1>1, <1>7 DEF SetupRaises, SetsUp, Raised, Skips, results
<1>8. CASE FixtureExits
  <2>1. FinalStatus(FixtureOutcome(Current)) \in Statuses
    BY FixtureOf, StatusOf
  <2> QED
    BY <1>1, <1>8, <2>1 DEF FixtureExits, Runs, Exited
<1> QED
  BY <1>2, <1>3, <1>4, <1>5, <1>6, <1>7, <1>8 DEF Next, TestStep

\* No step takes statuses, outcomes and reports out of their types.
LEMMA ResultStep == IInv /\ [Next]_vars => ResultTypes'
<1> SUFFICES ASSUME IInv, [Next]_vars PROVE ResultTypes'
  OBVIOUS
<1> USE DEF ResultTypes
<1>0. TypeOK /\ ResultTypes
  BY DEF IInv, TypeOK
<1>1. CASE Collect \/ SetupsDone \/ Quiet
  BY <1>0, <1>1 DEF Collect, SetupsDone, Quiet, results
<1>2. CASE Replay
  BY <1>2 DEF Replay, NoLists
<1>3. CASE TestStep
  <2>1. PICK s \in Statuses, l \in Seq(Outcomes) : Reports(s, l)
    BY <1>3, TestReports
  <2>2. <<s>> \in Seq(Statuses)
    OBVIOUS
  <2>3. status' \in [NodeIds -> Seq(Statuses)] /\ outcome' \in [NodeIds -> Seq(Outcomes)]
    BY <1>0, <2>1, <2>2 DEF Reports
  <2> QED
    BY <1>0, <1>3, <2>3, TestFrame
<1>4. CASE SetupStep /\ Current \in NodeIds
  <2>1. Append(status[Current], "skip") \in Seq(Statuses)
    BY <1>0, <1>4 DEF Statuses
  <2>2. status' \in [NodeIds -> Seq(Statuses)]
    BY <1>0, <1>4, <2>1 DEF SetupStep
  <2> QED
    BY <1>0, <1>4, <2>2 DEF SetupStep
<1>5. CASE Raised /\ Current \in NodeIds
  BY <1>0, <1>5 DEF Raised, results
<1>6. CASE Exited /\ Current \in NodeIds
  <2>1. PICK s \in Statuses : status' = [status EXCEPT ![Current] = Append(@, s)]
    BY <1>6 DEF Exited
  <2>2. Append(status[Current], s) \in Seq(Statuses)
    BY <1>0, <1>6
  <2>3. status' \in [NodeIds -> Seq(Statuses)]
    BY <1>0, <1>6, <2>1, <2>2
  <2> QED
    BY <1>0, <1>6, <2>3 DEF Exited
<1> QED
  BY <1>0, <1>1, <1>2, <1>3, <1>4, <1>5, <1>6, Steps

\* The marks stay those that the manifest and the options give.
LEMMA MarkInvStep == IInv /\ [Next]_vars => MarkInv'
<1> SUFFICES ASSUME IInv, [Next]_vars PROVE MarkInv'
  OBVIOUS
<1>1. CASE Collect
  <2>1. UNCHANGED config /\ phase' = "setups" /\ Selected' = Selected
    BY <1>1 DEF Collect, Selected, DeclaredScenarios
  <2>2. ASSUME NEW t \in NodeIds
        PROVE  declared'[t] = Declared(t) /\ marks'[t] = IF t \in Selected THEN Marks(t) ELSE {}
    BY <1>1 DEF Collect
  <2> QED
    BY <2>1, <2>2, ConfigFixes DEF MarkInv
<1>2. CASE Replay
  BY <1>2 DEF Replay, MarkInv
<1>3. CASE ~Collect /\ ~Replay
  <2>1. UNCHANGED <<config, marking>>
    BY <1>3, Frame
  <2>2. phase = "collect" => phase' = "collect" /\ todo' = todo
    BY <1>3 DEF Next, LoadProperties, LoadRaises, NoProperties, SkipSetup, HasNoSetup, SetsUp, CallSetup,
                SetupRaises, RestoreProperties, DumpRaises, SetupsDone, TestIsSkipped, Runs,
                FixtureFails, FixtureExits, RunTest, Finish, vars
  <2>3. phase # "collect" => phase' # "collect"
    BY <1>3 DEF Next, LoadProperties, LoadRaises, NoProperties, SkipSetup, HasNoSetup, SetsUp, CallSetup,
                SetupRaises, RestoreProperties, DumpRaises, SetupsDone, TestIsSkipped, Runs,
                FixtureFails, FixtureExits, RunTest, Finish, vars
  <2>4. Selected' = Selected
    BY DEF Selected, DeclaredScenarios
  <2> QED
    BY <2>1, <2>2, <2>3, <2>4, ConfigFixes DEF IInv, MarkInv, marking
<1> QED
  BY <1>1, <1>2, <1>3

\* A report stays right as long as its test and its session stay what they are.
LEMMA RightStays ==
    ASSUME UNCHANGED <<config, marking>>, skipping \subseteq skipping',
           NEW t, Right(t), status'[t] = status[t], outcome'[t] = outcome[t]
    PROVE  Right(t)'
BY DEF Right, Agree, Skips, Generates, config, marking

\* Each loop handles each item once: what is behind it has its status, the rest none.
LEMMA LoopStep == IInv /\ [Next]_vars => LoopInv'
<1> SUFFICES ASSUME IInv, [Next]_vars PROVE LoopInv'
  OBVIOUS
<1>0. TypeOK /\ MarkInv /\ LoopInv /\ todo \subseteq items /\ items \subseteq NodeIds
  BY DEF IInv, TypeOK, MarkTypes, Selected
<1>1. CASE Collect
  <2>1. phase = "collect" /\ phase' = "setups" /\ UNCHANGED <<results, touched>> /\ todo' = items'
    BY <1>1 DEF Collect
  <2>2. touched' = {} /\ \A t \in NodeIds : outcome'[t] = <<>> /\ status'[t] = <<>>
    BY <1>0, <2>1 DEF LoopInv, MarkInv, BeforeReport, results
  <2> QED
    BY <2>1, <2>2 DEF LoopInv, BeforeReport
<1>2. CASE Replay
  <2>1. phase' = "collect" /\ items' = {} /\ todo' = {} /\ touched' = {}
        /\ \A t \in NodeIds : outcome'[t] = <<>> /\ status'[t] = <<>>
    BY <1>2 DEF Replay, NoLists
  <2> QED
    BY <2>1 DEF LoopInv, BeforeReport
<1>3. CASE SetupsDone
  <2>1. /\ phase = "setups" /\ phase' = "tests" /\ todo = {} /\ todo' = items
        /\ UNCHANGED <<marking, results, touched>>
    BY <1>3 DEF SetupsDone, Loop
  <2> QED
    BY <1>0, <2>1 DEF LoopInv, BeforeReport, Skips, marking, results
<1>4. CASE Quiet
  BY <1>0, <1>4, RightStays DEF Quiet, LoopInv, BeforeReport, Skips, marking, results
<1>5. CASE Raised /\ Current \in NodeIds /\ Current \in items
  BY <1>0, <1>5, RightStays DEF Raised, LoopInv, BeforeReport, Skips, marking, results
<1>8. CASE Exited /\ Current \in todo /\ Current \in NodeIds /\ Current \in items
  <2>1. outcome[Current] = <<>> /\ phase' = "finished" /\ UNCHANGED <<config, marking, outcome, touched>>
        /\ skipping' = skipping /\ \A t \in NodeIds \ {Current} : status'[t] = status[t]
    BY <1>0, <1>8 DEF Exited, LoopInv, TypeOK, ResultTypes
  <2>2. ASSUME NEW t \in NodeIds, outcome'[t] # <<>> PROVE Right(t)'
    <3>1. t # Current /\ Right(t)
      BY <1>0, <2>1, <2>2 DEF LoopInv
    <3> QED
      BY <2>1, <3>1, RightStays
  <2> QED
    BY <1>0, <2>1, <2>2 DEF LoopInv, Skips, marking
<1>6. CASE SetupStep /\ Current \in todo /\ Current \in NodeIds /\ Current \in items
  <2> DEFINE c == Current
  <2>1. /\ phase = "setups" /\ phase' = "setups" /\ todo' = todo \ {c}
        /\ UNCHANGED <<marking, outcome>> /\ c \in todo /\ c \in NodeIds /\ c \in items
        /\ touched' \in {touched, touched \cup {c}} /\ (Skips(c) => touched' = touched)
    BY <1>6 DEF SetupStep
  <2>2. status[c] = <<>> /\ status \in [NodeIds -> Seq(Statuses)]
    BY <1>0, <2>1 DEF LoopInv, TypeOK, ResultTypes
  <2>3. status'[c] = BeforeReport(c) /\ \A t \in NodeIds \ {c} : status'[t] = status[t]
    BY <1>6, <2>1, <2>2 DEF SetupStep, BeforeReport
  <2> HIDE DEF c
  <2>4. ASSUME NEW t \in NodeIds
        PROVE  outcome'[t] = <<>> /\ status'[t] = IF t \in todo' THEN <<>> ELSE BeforeReport(t)'
    BY <1>0, <2>1, <2>3 DEF LoopInv, BeforeReport, Skips, marking
  <2>5. \A t \in touched' : t \in items' /\ ~Skips(t)'
    BY <1>0, <2>1 DEF LoopInv, Skips, marking
  <2> QED
    BY <2>1, <2>4, <2>5 DEF LoopInv
<1>7. CASE TestStep
  <2>0. PICK c \in NodeIds : c = Current
    BY <1>0, <1>7, TestFrame
  <2>1. /\ phase = "tests" /\ phase' = "tests" /\ todo' = todo \ {c}
        /\ UNCHANGED <<config, marking>> /\ skipping \subseteq skipping' /\ c \in todo /\ c \in NodeIds /\ c \in items
        /\ touched' \in {touched, touched \cup {c}} /\ (Skips(c) => touched' = touched)
    BY <1>0, <1>7, <2>0, TestFrame
  <2>2. PICK s \in Statuses, l \in Seq(Outcomes) : Reports(s, l)
    BY <1>7, TestReports
  <2>3. /\ status'[c] = <<s>> /\ outcome'[c] = l
        /\ \A t \in NodeIds \ {c} : status'[t] = status[t] /\ outcome'[t] = outcome[t]
    BY <1>0, <2>0, <2>1, <2>2 DEF Reports, TypeOK, ResultTypes
  <2>4. /\ l # <<>> /\ Agree(c, s, Head(l))'
        /\ marks[c] # {} => ToSet(l) \cap Bad = {} /\ s # "fail"
        /\ Skips(c) => l = <<"skipped">>
    BY <2>0, <2>1, <2>2 DEF Reports, Agree, Generates, config
  <2>5. Right(c)'
    <3>1. Len(<<s>>) = 1 /\ <<s>>[1] = s
      OBVIOUS
    <3> QED
      BY <2>1, <2>3, <2>4, <3>1 DEF Right, Agree, Skips, marking
  <2>6. ASSUME NEW t \in NodeIds \ {c}, outcome'[t] # <<>> PROVE Right(t)'
    BY <1>0, <2>1, <2>3, <2>6, RightStays DEF LoopInv
  <2>7. ASSUME NEW t \in NodeIds
        PROVE  /\ t \in todo' <=> t \in items' /\ outcome'[t] = <<>>
               /\ outcome'[t] = <<>> => status'[t] = BeforeReport(t)'
    BY <1>0, <2>1, <2>3, <2>4 DEF LoopInv, BeforeReport, Skips, marking
  <2>8. \A t \in touched' : t \in items' /\ ~Skips(t)'
    BY <1>0, <2>1 DEF LoopInv, Skips, marking
  <2> QED
    BY <2>1, <2>5, <2>6, <2>7, <2>8 DEF LoopInv
<1> QED
  BY <1>0, <1>1, <1>2, <1>3, <1>4, <1>5, <1>6, <1>7, <1>8, Steps

-----------------------------------------------------------------------------
(* The reports.                                                            *)

\* A test that failed has been reported.
LEMMA FailedIsReported ==
    ASSUME TypeOK, NEW t \in NodeIds, Failed(t)
    PROVE  t \in Reported
<1>1. outcome[t] \in Seq(Outcomes) /\ ToSet(outcome[t]) # {}
  BY DEF TypeOK, ResultTypes, Failed, Has
<1> QED
  BY <1>1, OnlyEmpty DEF Reported

\* pytest_sessionfinish writes a report that agrees with the outcomes.
LEMMA FinishReports ==
    ASSUME IInv, Finish
    PROVE  /\ Reported = items
           /\ exit' \in {"ok", "failed"} => (exit' = "failed" <=> \E t \in NodeIds : Failed(t))
           /\ exit' \in {"ok", "failed", "no_tests"}
<1>0. TypeOK /\ LoopInv /\ items \subseteq NodeIds
  BY DEF IInv, TypeOK, MarkTypes, Selected
<1>1. Reported = items
  <2>1. phase = "tests" /\ todo = {}
    BY DEF Finish, Loop
  <2> QED
    BY <1>0, <2>1 DEF LoopInv, Reported, Right
<1>2. (\E t \in Reported : Has(t, "failed") \/ Has(t, "error")) <=> \E t \in NodeIds : Failed(t)
  BY <1>0, FailedIsReported DEF Failed, Reported
<1>3. exit' = ExitStatus
  BY DEF Finish
<1>4. CASE items = {}
  <2>1. ~\E t \in NodeIds : Failed(t)
    BY <1>0, <1>1, <1>4, FailedIsReported
  <2>2. ~\E t \in Reported : Has(t, "failed") \/ Has(t, "error")
    BY <1>2, <2>1
  <2>3. ExitStatus = IF options.skipEmpty THEN "ok" ELSE "no_tests"
    BY <1>4, <2>2 DEF ExitStatus
  <2> QED
    BY <1>1, <1>3, <2>1, <2>3
<1>5. CASE items # {} /\ \E t \in Reported : Has(t, "failed") \/ Has(t, "error")
  <2>1. ExitStatus = "failed"
    BY <1>5 DEF ExitStatus
  <2> QED
    BY <1>1, <1>2, <1>3, <1>5, <2>1
<1>6. CASE items # {} /\ ~\E t \in Reported : Has(t, "failed") \/ Has(t, "error")
  <2>1. ExitStatus = "ok"
    BY <1>6 DEF ExitStatus
  <2> QED
    BY <1>1, <1>2, <1>3, <1>6, <2>1
<1> QED
  BY <1>4, <1>5, <1>6

\* The reports are about the outcomes, the declarations and the items only.
LEMMA ReportsFixed ==
    ASSUME UNCHANGED <<outcome, declared>>
    PROVE  /\ Reported' = Reported /\ Rewritten' = Rewritten
           /\ \A t \in NodeIds : Failed(t)' = Failed(t)
BY DEF Reported, Rewritten, Exposed, Failed, Has

\* The exit status and the report stay those of the session that ended.
LEMMA ExitStep ==
    IInv /\ [Next]_vars =>
        ExitInv' /\ exit' \in {"none", "ok", "failed", "no_tests", "interrupted", "internal_error"}
<1> SUFFICES ASSUME IInv, [Next]_vars
    PROVE ExitInv' /\ exit' \in {"none", "ok", "failed", "no_tests", "interrupted", "internal_error"}
  OBVIOUS
<1>0. ExitInv /\ exit \in {"none", "ok", "failed", "no_tests", "interrupted", "internal_error"}
  BY DEF IInv, TypeOK
<1>1. CASE Finish
  <2>1. /\ phase' = "finished" /\ UNCHANGED <<outcome, declared, items, replay>>
        /\ ~replay => junit' = Rewritten
    BY <1>1 DEF Finish, results, marking, config
  <2> QED
    BY <1>1, <2>1, FinishReports, ReportsFixed DEF ExitInv
<1>2. CASE UNCHANGED vars
  <2>1. UNCHANGED <<phase, outcome, declared, items, replay, exit, junit>>
    BY <1>2 DEF vars, results, marking, config, reports
  <2> QED
    BY <1>0, <2>1, ReportsFixed DEF ExitInv
<1>3. CASE Replay \/ LoadRaises \/ NoProperties \/ SetupRaises \/ DumpRaises \/ FixtureExits
  BY <1>3 DEF Replay, LoadRaises, NoProperties, SetupRaises, DumpRaises, FixtureExits, ExitInv
<1>4. CASE ~Finish /\ ~UNCHANGED vars
           /\ ~(Replay \/ LoadRaises \/ NoProperties \/ SetupRaises \/ DumpRaises \/ FixtureExits)
  <2>1. phase # "finished" /\ phase' # "finished" /\ exit' = exit
    BY <1>4 DEF Next, Collect, LoadProperties, SkipSetup, HasNoSetup, SetsUp, CallSetup,
                RestoreProperties, SetupsDone, TestIsSkipped, Runs, FixtureFails, RunTest, reports
  <2> QED
    BY <1>0, <2>1 DEF ExitInv
<1> QED
  BY <1>1, <1>2, <1>3, <1>4

-----------------------------------------------------------------------------
(* The properties left by the setups.                                      *)

\* What a setup stored stays what the replay of its test will find.
LEMMA PropsStep == IInv /\ [Next]_vars => PropsInv'
<1> SUFFICES ASSUME IInv, [Next]_vars PROVE PropsInv'
  OBVIOUS
<1>0. PropsInv /\ PropTypes /\ (Loop => Current \in NodeIds /\ Current \in items) /\ replay \in BOOLEAN
  BY CurrentIsTodo DEF IInv, TypeOK, Loop, ConfigTypes
<1>1. CASE Collect
  <2>1. phase = "collect" /\ phase' = "setups" /\ UNCHANGED <<replay, props, setUp>> /\ todo' = items'
    BY <1>1 DEF Collect, config
  <2> QED
    BY <1>0, <2>1 DEF PropsInv, props
<1>2. CASE LoadProperties
  <2>1. /\ phase = "setups" /\ phase' = phase /\ UNCHANGED <<replay, marks, items, todo, attrs, file, setUp>>
        /\ replay
    BY <1>2 DEF LoadProperties, config, marking
  <2> QED
    BY <1>0, <2>1 DEF PropsInv, Restored, Skips
<1>3. CASE SkipSetup \/ HasNoSetup
  <2>1. /\ phase = "setups" /\ phase' = "setups" /\ todo' = todo \ {Current}
        /\ UNCHANGED <<replay, marks, items, props, setUp>>
        /\ Skips(Current) \/ ~Tests[Current].setup
    BY <1>3 DEF SkipSetup, HasNoSetup, Skips, config, marking
  <2> QED
    BY <1>0, <2>1 DEF PropsInv, Restored, Skips, props
<1>4. CASE CallSetup
  <2>1. /\ phase = "setups" /\ phase' = "setups" /\ ~replay /\ UNCHANGED <<replay, file>>
        /\ \E v : /\ store' = [store EXCEPT ![Current] = v]
                  /\ setUp' = [setUp EXCEPT ![Current] = v]
    BY <1>4 DEF CallSetup, SetsUp, Filed, config
  <2> QED
    BY <1>0, <2>1 DEF PropsInv
<1>5. CASE RestoreProperties
  <2>1. /\ phase = "setups" /\ phase' = "setups" /\ replay /\ todo' = todo \ {Current}
        /\ UNCHANGED <<replay, marks, items, store, file, setUp>>
        /\ attrs' = [attrs EXCEPT ![Current] = store[Current]]
        /\ store = Decoded /\ Current \in NodeIds
    BY <1>0, <1>5 DEF RestoreProperties, SetsUp, Loaded, Filed, config, marking
  <2> QED
    BY <1>0, <2>1 DEF PropsInv, Restored, Skips, PropTypes, Decoded
<1>6. CASE SetupsDone
  <2>1. /\ phase = "setups" /\ phase' = "tests" /\ todo = {}
        /\ UNCHANGED <<replay, marks, items, attrs, store, setUp>>
        /\ file' = IF replay THEN file
                   ELSE [state |-> "whole", content |-> [t \in NodeIds |-> Encode(store[t])]]
        /\ replay => file.state = "whole"
        /\ ~replay => \A t \in NodeIds : store[t].form # "other"
    BY <1>6 DEF SetupsDone, Loop, Loaded, Dumpable, config, marking
  <2>2. CASE replay
    BY <1>0, <2>1, <2>2 DEF PropsInv, Restored, Skips
  <2>3. CASE ~replay
    BY <1>0, <2>1, <2>3 DEF PropsInv
  <2> QED
    BY <2>2, <2>3
<1>7. CASE Replay
  BY <1>0, <1>7 DEF Replay, PropsInv
<1>8. CASE LoadRaises \/ NoProperties \/ SetupRaises \/ FixtureExits \/ Finish
  BY <1>0, <1>8 DEF LoadRaises, NoProperties, SetupRaises, FixtureExits, Finish, PropsInv, props, config
<1>10. CASE DumpRaises
  BY <1>0, <1>10 DEF DumpRaises, PropsInv, config
<1>9. CASE TestStep \/ UNCHANGED vars
  <2>1. UNCHANGED <<phase, replay, items, marks, attrs, store, file, setUp>>
        /\ (phase # "tests" => UNCHANGED todo)
    BY <1>9 DEF TestStep, TestIsSkipped, Runs, FixtureFails, RunTest, vars, props, config, marking
  <2> QED
    BY <1>0, <2>1 DEF PropsInv, Restored, Skips
<1> QED
  BY <1>1, <1>2, <1>3, <1>4, <1>5, <1>6, <1>7, <1>8, <1>9, <1>10 DEF Next, TestStep

-----------------------------------------------------------------------------
(* The theorems.                                                           *)

\* The inductive invariant holds in every session and every replay.
THEOREM Invariance == Spec => []IInv
<1>1. Init => IInv
  BY InitTypes
<1>2. IInv /\ [Next]_vars => IInv'
  BY ConfigStep, MarkStep, PropStep, ResultStep, MarkInvStep, LoopStep, ExitStep, PropsStep
  DEF IInv, TypeOK
<1> QED
  BY <1>1, <1>2, PTL DEF Spec

\* Every variable of the session keeps its type.
THEOREM TypeCorrect == Spec => []TypeOK
<1>1. IInv => TypeOK
  BY DEF IInv
<1> QED
  BY <1>1, Invariance, PTL

\* Past the collection a test carries the declarations its manifest entries and
\* its decorators mean, and ^ means the later versions that are compatible.
THEOREM DeclarationsHold == Spec => []EnabledAsWritten
<1>1. ASSUME IInv PROVE EnabledAsWritten
  <2>1. world \in Worlds /\ world.versions[Library] \in Versions
    BY <1>1 DEF IInv, TypeOK, ConfigTypes, Worlds
  <2>2. ASSUME phase # "collect", NEW t \in NodeIds PROVE ToSet(declared[t]) = Why(t)
    BY <1>1, <2>1, <2>2, DeclaredIsWritten DEF IInv, MarkInv
  <2>3. ASSUME NEW v \in Versions
        PROVE  InRange(Caret(v), world.versions[Library]) <=>
                 (SameLine(v, world.versions[Library]) /\ ~Before(world.versions[Library], v))
    <3>1. /\ v \in Nat \X Nat \X Nat \X {0, 1}
          /\ world.versions[Library] \in Nat \X Nat \X Nat \X {0, 1}
      BY <2>1, VersionsAssumption
    <3> QED
      BY <3>1, CaretIsCompatible, Zenon
  <2> QED
    BY <2>2, <2>3 DEF EnabledAsWritten
<1> QED
  BY <1>1, Invariance, PTL

\* In every session, the tests that must not run do not, no disabled test fails
\* or makes the session fail, and every failure of another one does, unless its
\* fixture called pytest.skip or cassettes are generated where it is.
THEOREM StatusesAreRight == Spec => []StatusIsRight
<1>1. ASSUME IInv PROVE StatusIsRight
  <2>0. TypeOK /\ MarkInv /\ LoopInv /\ ExitInv /\ world \in Worlds /\ items \subseteq Selected
        /\ Selected \subseteq NodeIds
    BY <1>1 DEF IInv, TypeOK, ConfigTypes, MarkTypes, Selected
  <2>1. ASSUME NEW t \in items PROVE marks[t] = Marks(t) /\ t \in NodeIds
    BY <2>0 DEF MarkInv
  <2>2. DeactivatedIsNotRun
    <3> SUFFICES ASSUME NEW t \in touched, Disabled(t)
        PROVE ~Tests[t].slow /\ Why(t) \cap {"irrelevant", "flaky"} = {}
      BY DEF DeactivatedIsNotRun
    <3>1. t \in items /\ "skip" \notin marks[t]
      BY <2>0 DEF LoopInv, Skips
    <3> QED
      BY <2>0, <2>1, <3>1, MarksAreRight
  <2>3. ASSUME NEW t \in NodeIds, Failed(t) PROVE t \in Selected /\ ~Disabled(t)
    <3>1. t \in items /\ (marks[t] # {} => ToSet(outcome[t]) \cap Bad = {})
      BY <2>0, <2>3, FailedIsReported DEF LoopInv, Right, Reported
    <3>2. marks[t] = {}
      BY <2>3, <3>1 DEF Failed, Has, Bad
    <3> QED
      BY <2>0, <2>1, <3>1, <3>2, MarksAreRight
  <2>4. ASSUME NEW t \in Reported
        PROVE  /\ Len(status[t]) = 1
               /\ status[t][1] = "fail" => ~Disabled(t)
               /\ Head(outcome[t]) \in {"failed", "error"} => status[t][1] = "fail"
               /\ status[t][1] = "fail" =>
                     \/ Head(outcome[t]) \in {"failed", "error"}
                     \/ Head(outcome[t]) = "skipped" /\ (t \in skipping \/ Generates(t))
    <3>1. Right(t) /\ outcome[t] \in Seq(Outcomes) /\ outcome[t] # <<>> /\ t \in NodeIds
      BY <2>0 DEF Reported, LoopInv, TypeOK, ResultTypes
    <3>2. status[t][1] = "fail" => ~Disabled(t)
      BY <2>0, <2>1, <3>1, MarksAreRight DEF Right
    <3> QED
      BY <3>1, <3>2 DEF Right, Agree, Bad
  <2>5. exit \in {"ok", "failed"} =>
          (exit = "failed" <=> \E t \in Selected : ~Disabled(t) /\ Failed(t))
    BY <2>0, <2>3 DEF ExitInv
  <2> QED
    BY <2>2, <2>4, <2>5 DEF StatusIsRight
<1> QED
  BY <1>1, Invariance, PTL

\* A subset leaves the difference of the two numbers of elements.
LEMMA CardinalityOfRest ==
    ASSUME NEW S, IsFiniteSet(S), NEW T \in SUBSET S
    PROVE  Cardinality(S) - Cardinality(T) = Cardinality(S \ T)
<1>1. IsFiniteSet(T) /\ S \cap T = T /\ Cardinality(S) \in Nat /\ Cardinality(T) \in Nat
  BY FS_Subset, FS_CardinalityType
<1>2. Cardinality(S \ T) = Cardinality(S) - Cardinality(S \cap T)
  BY FS_Difference
<1> QED
  BY <1>1, <1>2

\* The rewritten junit report of a run lists every test but the irrelevant ones,
\* and counts what it lists.
THEOREM ReportIsComplete == Spec => []JunitIsComplete
<1>1. ASSUME IInv PROVE JunitIsComplete
  <2> SUFFICES ASSUME exit \in {"ok", "failed"}, ~replay
      PROVE  /\ junit.cases = {t \in items : "irrelevant" \notin Why(t)}
             /\ junit.tests = Cardinality(junit.cases)
             /\ (\A t \in options.forced : "irrelevant" \notin Why(t)) =>
                  junit.skipped
                    = Cardinality({t \in junit.cases : Has(t, "skipped") \/ Has(t, "xfailed")})
    BY DEF JunitIsComplete
  <2> DEFINE gone == {t \in items : "irrelevant" \in Why(t)}
             skipped == {t \in items : Has(t, "skipped") \/ Has(t, "xfailed")}
  <2>0. /\ TypeOK /\ MarkInv /\ LoopInv /\ world \in Worlds /\ items \subseteq Selected
        /\ items \subseteq NodeIds /\ Reported = items /\ junit = Rewritten /\ phase = "finished"
    BY <1>1 DEF IInv, TypeOK, ConfigTypes, MarkTypes, Selected, ExitInv
  <2>1. ASSUME NEW t \in items PROVE Exposed(t) = "irrelevant" <=> "irrelevant" \in Why(t)
    <3>1. declared[t] \in Seq(Values) /\ ToSet(declared[t]) = Why(t) /\ t \in NodeIds
      BY <2>0, DeclaredIsWritten DEF MarkInv
    <3>2. CASE declared[t] = <<>>
      <4>1. "irrelevant" \notin ToSet(declared[t])
        BY <3>1, <3>2, OnlyEmpty
      <4> QED
        BY <3>1, <3>2, <4>1 DEF Exposed
    <3>3. CASE "irrelevant" \in ToSet(declared[t])
      <4>1. declared[t] # <<>>
        BY <3>1, <3>3, OnlyEmpty
      <4> QED
        BY <3>1, <3>3, <4>1 DEF Exposed
    <3>4. CASE declared[t] # <<>> /\ "irrelevant" \notin ToSet(declared[t])
      <4>1. Exposed(t) = Head(declared[t])
        BY <3>4 DEF Exposed
      <4>2. Head(declared[t]) \in ToSet(declared[t])
        BY <3>1, <3>4 DEF ToSet
      <4> QED
        BY <3>1, <3>4, <4>1, <4>2
    <3> QED
      BY <3>2, <3>3, <3>4
  <2>2. gone = {t \in Reported : Exposed(t) = "irrelevant"}
        /\ skipped = {t \in Reported : Has(t, "skipped") \/ Has(t, "xfailed")}
    BY <2>0, <2>1
  <2>3. /\ junit.cases = items \ gone
        /\ junit.tests = Cardinality(items) - Cardinality(gone)
        /\ junit.skipped = Cardinality(skipped) - Cardinality(gone)
    BY <2>0, <2>2 DEF Rewritten
  <2>4. IsFiniteSet(items) /\ IsFiniteSet(skipped) /\ gone \in SUBSET items
    BY <2>0, NodeIdsAssumption, FS_Subset
  <2>5. ASSUME \A t \in options.forced : "irrelevant" \notin Why(t)
        PROVE  gone \in SUBSET skipped
    <3> SUFFICES ASSUME NEW t \in gone PROVE t \in skipped
      OBVIOUS
    <3>1. Disabled(t) /\ Why(t) \cap {"irrelevant", "flaky"} # {} /\ t \in NodeIds
      BY <2>0, <2>5 DEF Disabled
    <3>2. "skip" \in marks[t]
      BY <2>0, <3>1, MarksAreRight DEF MarkInv
    <3>3. outcome[t] = <<"skipped">>
      BY <2>0, <3>1, <3>2 DEF LoopInv, Right, Reported, Skips
    <3> QED
      BY <3>3 DEF Has, ToSet
  <2>6. {t \in junit.cases : Has(t, "skipped") \/ Has(t, "xfailed")} = skipped \ gone
    BY <2>3
  <2> HIDE DEF gone, skipped
  <2>7. junit.tests = Cardinality(junit.cases)
    BY <2>3, <2>4, CardinalityOfRest
  <2>8. ASSUME \A t \in options.forced : "irrelevant" \notin Why(t)
        PROVE  junit.skipped = Cardinality(skipped \ gone)
    BY <2>3, <2>4, <2>5, <2>8, CardinalityOfRest
  <2> QED
    BY <2>3, <2>6, <2>7, <2>8 DEF gone
<1> QED
  BY <1>1, Invariance, PTL

\* A replayed test finds what its own setup left in the run, as far as JSON keeps
\* it, whatever was edited in between.
THEOREM ReplayHolds == Spec => []ReplaySeesItsSetup
<1>1. ASSUME IInv PROVE ReplaySeesItsSetup
  <2> SUFFICES ASSUME phase = "tests", replay
      PROVE  /\ \A t \in NodeIds : setUp[t].form # "other"
             /\ \A t \in items :
                  ("skip" \notin marks[t] /\ Tests[t].setup) =>
                      /\ attrs[t].of = setUp[t].of
                      /\ attrs[t].form = IF setUp[t].form = "tuple" THEN "plain" ELSE setUp[t].form
    BY DEF ReplaySeesItsSetup
  <2>1. PropsInv /\ PropTypes /\ items \subseteq NodeIds /\ file.state = "whole"
    BY <1>1 DEF IInv, TypeOK, MarkTypes, Selected, PropsInv
  <2>2. \A t \in NodeIds : file.content[t] = Encode(setUp[t]) /\ setUp[t].form # "other"
    BY <2>1 DEF PropsInv
  <2>3. ASSUME NEW t \in items, "skip" \notin marks[t], Tests[t].setup
        PROVE  attrs[t] = Decode(Encode(setUp[t]))
    BY <2>1, <2>2, <2>3 DEF PropsInv, Restored, Skips
  <2>4. \A t \in items : setUp[t] \in [of : NodeIds \cup {0}, form : Forms]
    BY <2>1 DEF PropTypes
  <2> QED
    BY <2>2, <2>3, <2>4, JsonTypes
<1> QED
  BY <1>1, Invariance, PTL
=============================================================================

---------------------------- MODULE CiJobsProofs ----------------------------
(***************************************************************************)
(* The properties of CiJobs for every tree of tests, change, mapping, set  *)
(* of weblogs and table of times. Time is a fold over a set: that it is a  *)
(* sum, whatever the order, is shown first (TimeOf), by induction on the   *)
(* number of scenarios.  The inductive invariant says, besides the types,  *)
(*   SelectInv  that the selection has what was looked at so far brings;   *)
(*   StageInv   what is filled in which phase;                             *)
(*   PlaceInv   that a scenario which a weblog supports waits for a job or *)
(*              is in exactly one;                                         *)
(*   NumberInv  that the instances of a weblog are numbered without a gap; *)
(*   MergeInv   that the merge has every job left to visit, and that the   *)
(*              weblog whose scenarios it moves has a job left.            *)
(***************************************************************************)
EXTENDS CiJobs, FiniteSetTheorems, SequenceTheorems, WellFoundedInduction, TLAPS

-----------------------------------------------------------------------------
(* Numbers.                                                                *)

\* A set of natural numbers has a least one.
LEMMA LeastNumber ==
    ASSUME NEW S \in SUBSET Nat, S # {}
    PROVE  \E m \in S : \A n \in S : m <= n
<1>1. IsWellFoundedOn(OpToRel(<, Nat), Nat)
  BY NatLessThanWellFounded
<1>2. PICK m \in S : \A n \in S : ~(<<n, m>> \in OpToRel(<, Nat))
  BY <1>1, WFMin
<1>3. ASSUME NEW a \in Nat, NEW b \in Nat, a < b
      PROVE  <<a, b>> \in OpToRel(<, Nat)
  <2> DEFINE R == {ss \in Nat \X Nat : ss[1] < ss[2]}
  <2>1. <<a, b>> \in R
    BY <1>3
  <2>2. R = OpToRel(<, Nat)
    BY Zenon DEF OpToRel
  <2> QED
    BY <2>1, <2>2, Zenon
<1>4. \A n \in S : ~(n < m)
  BY <1>2, <1>3, Zenon
<1> QED
  BY <1>4

\* What holds for 0, and for i + 1 when it holds for i, holds up to n.
LEMMA Induction ==
    ASSUME NEW n \in Nat, NEW G, 0 \in G, \A i \in 0 .. n - 1 : i \in G => i + 1 \in G
    PROVE  \A i \in 0 .. n : i \in G
<1> DEFINE B == {i \in 0 .. n : i \notin G}
<1>1. B \in SUBSET Nat
  OBVIOUS
<1>2. SUFFICES ASSUME B # {} PROVE FALSE
  OBVIOUS
<1>3. PICK m \in B : \A i \in B : m <= i
  BY <1>1, <1>2, LeastNumber, Zenon
<1>4. m \in 1 .. n /\ m - 1 \notin B
  BY <1>3
<1>5. m - 1 \in G
  BY <1>4
<1> QED
  BY <1>3, <1>4, <1>5

\* Min takes the least element of a set of natural numbers.
LEMMA MinIs ==
    ASSUME NEW S \in SUBSET Nat, S # {}
    PROVE  Min(S) \in S /\ \A n \in S : Min(S) <= n
<1>1. \E m \in S : \A n \in S : m <= n
  BY LeastNumber
<1> QED
  BY <1>1, Zenon DEF Min

\* Of finitely many numbers one is the greatest.
LEMMA Greatest ==
    ASSUME NEW S, IsFiniteSet(S), S # {}, NEW f, \A x \in S : f[x] \in Nat
    PROVE  \E m \in S : \A k \in S : f[k] <= f[m]
<1> DEFINE N == Cardinality(S)
           G == {n \in 0 .. N : \A T \in SUBSET S :
                   T # {} /\ Cardinality(T) <= n => \E m \in T : \A k \in T : f[k] <= f[m]}
<1>1. N \in Nat /\ \A T \in SUBSET S : IsFiniteSet(T) /\ Cardinality(T) \in Nat
  BY FS_CardinalityType, FS_Subset
<1>2. 0 \in G
  BY <1>1, FS_EmptySet
<1>3. ASSUME NEW n \in 0 .. N - 1, n \in G PROVE n + 1 \in G
  <2>1. SUFFICES ASSUME NEW T \in SUBSET S, T # {}, Cardinality(T) <= n + 1
                 PROVE  \E m \in T : \A k \in T : f[k] <= f[m]
    BY <1>1
  <2>2. PICK x \in T : TRUE
    BY <2>1
  <2>3. Cardinality(T \ {x}) = Cardinality(T) - 1 /\ T \ {x} \in SUBSET S
    BY <1>1, FS_RemoveElement
  <2>4. f[x] \in Nat
    BY <2>2
  <2>5. CASE T \ {x} = {}
    <3>1. \A k \in T : k = x
      BY <2>5
    <3> QED
      BY <2>2, <2>4, <3>1
  <2>6. CASE T \ {x} # {}
    <3>1. Cardinality(T \ {x}) <= n
      BY <1>1, <2>1, <2>3
    <3>2. PICK m \in T \ {x} : \A k \in T \ {x} : f[k] <= f[m]
      BY <1>3, <2>3, <2>6, <3>1
    <3>3. f[m] \in Nat /\ \A k \in T : f[k] \in Nat
      OBVIOUS
    <3>4. CASE f[x] <= f[m]
      BY <3>2, <3>4
    <3>5. CASE f[m] < f[x]
      BY <2>2, <2>4, <3>2, <3>3, <3>5
    <3> QED
      BY <2>4, <3>3, <3>4, <3>5
  <2> QED
    BY <2>5, <2>6
<1> HIDE DEF G
<1>4. N \in G
  BY <1>1, <1>2, <1>3, Induction
<1> QED
  BY <1>1, <1>4 DEF G

\* Max takes the greatest element of a set of natural numbers that has one.
LEMMA MaxIs ==
    ASSUME NEW S \in SUBSET Nat, \E m \in S : \A n \in S : n <= m
    PROVE  Max(S) \in S /\ \A n \in S : n <= Max(S)
<1>1. \E m \in S : \A n \in S : m >= n
  OBVIOUS
<1>2. Max(S) \in S /\ \A n \in S : Max(S) >= n
  BY <1>1, Zenon DEF Max
<1> QED
  BY <1>2

-----------------------------------------------------------------------------
(* The sum of the times of the scenarios of a job.                         *)

Pick(T) == CHOOSE x \in T : TRUE

\* The recursion of the fold.
IsSum(g, f, S) ==
    g = [T \in SUBSET S |-> IF T = {} THEN 0 ELSE f[Pick(T)] + g[T \ {Pick(T)}]]

\* expected_job_time is such a function, if there is one.
LEMMA TimeIs ==
    ASSUME NEW w, NEW S
    PROVE  Time(w, S) = (CHOOSE g : IsSum(g, RunTime[w], S))[S]
BY Zenon DEF Time, MapThenSumSet, MapThenFoldSet, IsSum, Pick

\* Removing an element makes a set smaller.
LEMMA PickSmaller ==
    ASSUME NEW T, IsFiniteSet(T), T # {}
    PROVE  /\ Pick(T) \in T /\ IsFiniteSet(T \ {Pick(T)})
           /\ Cardinality(T) \in Nat /\ Cardinality(T \ {Pick(T)}) = Cardinality(T) - 1
<1>1. Pick(T) \in T
  BY Zenon DEF Pick
<1> QED
  BY <1>1, FS_RemoveElement, FS_CardinalityType

\* A function that satisfies it for the sets of at most n elements.
SumsUpTo(g, f, S, n) ==
    \A T \in SUBSET S : Cardinality(T) <= n =>
        g[T] = IF T = {} THEN 0 ELSE f[Pick(T)] + g[T \ {Pick(T)}]

\* There is a function that satisfies the recursion.
LEMMA SumExists ==
    ASSUME NEW S, IsFiniteSet(S), NEW f
    PROVE  \E g : IsSum(g, f, S)
<1> DEFINE N == Cardinality(S)
           G == {n \in 0 .. N : \E g : SumsUpTo(g, f, S, n)}
<1>1. N \in Nat /\ \A T \in SUBSET S :
        IsFiniteSet(T) /\ Cardinality(T) \in Nat /\ Cardinality(T) <= N
  BY FS_CardinalityType, FS_Subset
<1>2. 0 \in G
  <2>1. \A T \in SUBSET S : Cardinality(T) <= 0 => T = {}
    BY <1>1, FS_EmptySet
  <2>2. SumsUpTo([T \in SUBSET S |-> 0], f, S, 0)
    BY <2>1 DEF SumsUpTo
  <2> QED
    BY <1>1, <2>2
<1>3. ASSUME NEW n \in 0 .. N - 1, n \in G PROVE n + 1 \in G
  <2>1. PICK g : SumsUpTo(g, f, S, n)
    BY <1>3
  <2> DEFINE sum(T) == f[Pick(T)] + g[T \ {Pick(T)}]
             h == [T \in SUBSET S |-> IF Cardinality(T) <= n THEN g[T] ELSE sum(T)]
  <2>2. ASSUME NEW T \in SUBSET S, Cardinality(T) <= n + 1
        PROVE  h[T] = IF T = {} THEN 0 ELSE f[Pick(T)] + h[T \ {Pick(T)}]
    <3>1. CASE T = {}
      <4>1. Cardinality(T) <= n
        BY <1>1, <3>1, FS_EmptySet
      <4>2. h[T] = g[T] /\ g[T] = 0
        BY <2>1, <3>1, <4>1 DEF SumsUpTo
      <4> QED
        BY <3>1, <4>2
    <3>2. CASE T # {}
      <4>1. T \ {Pick(T)} \in SUBSET S /\ Cardinality(T \ {Pick(T)}) <= n
        BY <1>1, <2>2, <3>2, PickSmaller
      <4>2. h[T \ {Pick(T)}] = g[T \ {Pick(T)}]
        BY <4>1
      <4>3. Cardinality(T) <= n => g[T] = sum(T)
        BY <2>1, <3>2 DEF SumsUpTo
      <4>4. h[T] = sum(T)
        BY <4>3
      <4> QED
        BY <3>2, <4>2, <4>4
    <3> QED
      BY <3>1, <3>2
  <2> HIDE DEF h
  <2>3. SumsUpTo(h, f, S, n + 1)
    BY <2>2 DEF SumsUpTo
  <2> QED
    BY <1>1, <2>3
<1> HIDE DEF G
<1>4. N \in G
  BY <1>1, <1>2, <1>3, Induction
<1>5. PICK g : SumsUpTo(g, f, S, N)
  BY <1>4 DEF G
<1> DEFINE h == [T \in SUBSET S |-> g[T]]
<1>6. \A T \in SUBSET S : h[T] = IF T = {} THEN 0 ELSE f[Pick(T)] + h[T \ {Pick(T)}]
  BY <1>1, <1>5 DEF SumsUpTo
<1>7. IsSum(h, f, S)
  BY <1>6 DEF IsSum
<1> QED
  BY <1>7

\* The sum over a subset does not depend on the set it is taken from.
LEMMA SumUnique ==
    ASSUME NEW S, IsFiniteSet(S), NEW R \in SUBSET S, NEW f, NEW g, NEW h,
           IsSum(g, f, S), IsSum(h, f, R)
    PROVE  g[R] = h[R]
<1> DEFINE N == Cardinality(R)
           G == {n \in 0 .. N : \A T \in SUBSET R : Cardinality(T) <= n => g[T] = h[T]}
<1>1. N \in Nat /\ \A T \in SUBSET R :
        T \in SUBSET S /\ IsFiniteSet(T) /\ Cardinality(T) \in Nat /\ Cardinality(T) <= N
  BY FS_CardinalityType, FS_Subset
<1>2. ASSUME NEW T \in SUBSET R
      PROVE  /\ g[T] = IF T = {} THEN 0 ELSE f[Pick(T)] + g[T \ {Pick(T)}]
             /\ h[T] = IF T = {} THEN 0 ELSE f[Pick(T)] + h[T \ {Pick(T)}]
  BY <1>1, Zenon DEF IsSum
<1>3. 0 \in G
  <2>1. \A T \in SUBSET R : Cardinality(T) <= 0 => T = {}
    BY <1>1, FS_EmptySet
  <2>2. g[{}] = 0 /\ h[{}] = 0
    BY <1>2
  <2>3. \A T \in SUBSET R : Cardinality(T) <= 0 => g[T] = h[T]
    BY <2>1, <2>2
  <2> QED
    BY <1>1, <2>3
<1>4. ASSUME NEW n \in 0 .. N - 1, n \in G PROVE n + 1 \in G
  <2>1. ASSUME NEW T \in SUBSET R, Cardinality(T) <= n + 1 PROVE g[T] = h[T]
    <3>1. CASE T = {}
      BY <1>2, <3>1
    <3>2. CASE T # {}
      <4>1. T \ {Pick(T)} \in SUBSET R /\ Cardinality(T \ {Pick(T)}) <= n
        BY <1>1, <2>1, <3>2, PickSmaller
      <4>2. g[T \ {Pick(T)}] = h[T \ {Pick(T)}]
        BY <1>4, <4>1
      <4> QED
        BY <1>2, <3>2, <4>2
    <3> QED
      BY <3>1, <3>2
  <2> QED
    BY <1>1, <2>1
<1> HIDE DEF G
<1>5. N \in G
  BY <1>1, <1>3, <1>4, Induction
<1> QED
  BY <1>1, <1>5 DEF G

\* The sum is a number, and any element may be taken out of it.
LEMMA SumStep ==
    ASSUME NEW S, IsFiniteSet(S), NEW f, NEW g, IsSum(g, f, S), \A x \in S : f[x] \in Nat
    PROVE  g[S] \in Nat /\ \A x \in S : g[S] = f[x] + g[S \ {x}]
<1> DEFINE N == Cardinality(S)
           G == {n \in 0 .. N : \A T \in SUBSET S : Cardinality(T) <= n =>
                    g[T] \in Nat /\ \A x \in T : g[T] = f[x] + g[T \ {x}]}
<1>1. N \in Nat /\ \A T \in SUBSET S :
        IsFiniteSet(T) /\ Cardinality(T) \in Nat /\ Cardinality(T) <= N
  BY FS_CardinalityType, FS_Subset
<1>2. ASSUME NEW T \in SUBSET S
      PROVE  g[T] = IF T = {} THEN 0 ELSE f[Pick(T)] + g[T \ {Pick(T)}]
  BY Zenon DEF IsSum
<1>3. g[{}] \in Nat
  <2>1. g[{}] = 0
    BY <1>2
  <2> QED
    BY <2>1
<1>4. 0 \in G
  <2>1. \A T \in SUBSET S : Cardinality(T) <= 0 => T = {}
    BY <1>1, FS_EmptySet
  <2>2. \A T \in SUBSET S : Cardinality(T) <= 0 =>
            g[T] \in Nat /\ \A x \in T : g[T] = f[x] + g[T \ {x}]
    BY <1>3, <2>1
  <2> QED
    BY <1>1, <2>2
<1>5. ASSUME NEW n \in 0 .. N - 1, n \in G PROVE n + 1 \in G
  <2>1. ASSUME NEW T \in SUBSET S, Cardinality(T) <= n + 1
        PROVE  g[T] \in Nat /\ \A x \in T : g[T] = f[x] + g[T \ {x}]
    <3>1. CASE T = {}
      BY <1>3, <3>1
    <3>2. CASE T # {}
      <4> DEFINE y == Pick(T)
      <4>1. y \in T /\ f[y] \in Nat
        BY <3>2, PickSmaller, <1>1
      <4> HIDE DEF y
      <4>2. ASSUME NEW x \in T
            PROVE  T \ {x} \in SUBSET S /\ Cardinality(T \ {x}) <= n /\ g[T \ {x}] \in Nat
        <5>1. Cardinality(T \ {x}) = Cardinality(T) - 1 /\ T \ {x} \in SUBSET S
          BY <1>1, FS_RemoveElement
        <5>2. Cardinality(T \ {x}) <= n
          BY <1>1, <2>1, <5>1
        <5> QED
          BY <1>5, <5>1, <5>2
      <4>3. g[T] = f[y] + g[T \ {y}]
        BY <1>2, <3>2 DEF y
      <4>4. ASSUME NEW x \in T PROVE g[T] = f[x] + g[T \ {x}]
        <5>1. CASE x = y
          BY <4>3, <5>1
        <5>2. CASE x # y
          <6>1. (T \ {y}) \ {x} = (T \ {x}) \ {y}
            OBVIOUS
          <6>2. x \in T \ {y} /\ y \in T \ {x}
            BY <4>1, <5>2
          <6>3. g[T \ {y}] = f[x] + g[(T \ {y}) \ {x}]
            BY <1>5, <4>1, <4>2, <6>2
          <6>4. g[T \ {x}] = f[y] + g[(T \ {x}) \ {y}]
            BY <1>5, <4>2, <6>2
          <6> DEFINE r == g[(T \ {x}) \ {y}]
          <6>5. r \in Nat
            <7>1. (T \ {x}) \ {y} \in SUBSET S /\ Cardinality((T \ {x}) \ {y}) <= n
              <8>1. IsFiniteSet(T \ {x}) /\ Cardinality(T \ {x}) \in Nat
                BY <1>1, <4>2
              <8>2. Cardinality((T \ {x}) \ {y}) <= Cardinality(T \ {x})
                BY <8>1, FS_Subset
              <8> QED
                BY <1>1, <4>2, <8>1, <8>2
            <7> QED
              BY <1>5, <7>1
          <6>6. f[x] \in Nat
            OBVIOUS
          <6>7. g[T \ {y}] = f[x] + r /\ g[T \ {x}] = f[y] + r
            BY <6>1, <6>3, <6>4
          <6> HIDE DEF r
          <6> QED
            BY <4>1, <4>3, <6>5, <6>6, <6>7
        <5> QED
          BY <5>1, <5>2
      <4>5. g[T \ {y}] \in Nat
        BY <4>1, <4>2
      <4>6. g[T] \in Nat
        BY <4>1, <4>3, <4>5
      <4> QED
        BY <4>4, <4>6
    <3> QED
      BY <3>1, <3>2
  <2> QED
    BY <1>1, <2>1
<1> HIDE DEF G
<1>6. N \in G
  BY <1>1, <1>4, <1>5, Induction
<1> QED
  BY <1>1, <1>6 DEF G

\* expected_job_time is a number, 0 without scenarios, and a scenario adds its time.
LEMMA TimeOf ==
    ASSUME NEW w \in Weblogs, NEW S \in SUBSET Scenarios
    PROVE  /\ Time(w, S) \in Nat
           /\ Time(w, {}) = 0
           /\ \A x \in Scenarios \ S : Time(w, S \cup {x}) = Time(w, S) + RunTime[w][x]
<1> DEFINE f == RunTime[w]
           sum(T) == CHOOSE g : IsSum(g, f, T)
<1>1. ASSUME NEW T \in SUBSET Scenarios
      PROVE  /\ IsFiniteSet(T) /\ IsSum(sum(T), f, T) /\ Time(w, T) = sum(T)[T]
             /\ \A x \in T : f[x] \in Nat
  <2>1. IsFiniteSet(T)
    BY ScenarioAssumption, FS_Subset
  <2>2. \E g : IsSum(g, f, T)
    BY <2>1, SumExists
  <2>3. IsSum(sum(T), f, T)
    BY <2>2, Zenon
  <2>4. Time(w, T) = sum(T)[T]
    BY TimeIs, Zenon
  <2> QED
    BY <2>1, <2>3, <2>4, TimeAssumption
<1> HIDE DEF sum, f
<1>2. ASSUME NEW T \in SUBSET Scenarios PROVE Time(w, T) \in Nat
  BY <1>1, SumStep
<1>3. Time(w, {}) = 0
  <2>1. IsSum(sum({}), f, {}) /\ Time(w, {}) = sum({})[{}]
    BY <1>1
  <2>2. sum({})[{}] = 0
    BY <2>1 DEF IsSum
  <2> QED
    BY <2>1, <2>2
<1>4. ASSUME NEW x \in Scenarios \ S PROVE Time(w, S \cup {x}) = Time(w, S) + RunTime[w][x]
  <2> DEFINE U == S \cup {x}
  <2>1. U \in SUBSET Scenarios /\ S \in SUBSET U /\ U \ {x} = S /\ x \in U
    OBVIOUS
  <2>2. sum(U)[S] = sum(S)[S]
    BY <1>1, <2>1, SumUnique
  <2>3. sum(U)[U] = f[x] + sum(U)[U \ {x}]
    <3>1. IsFiniteSet(U) /\ IsSum(sum(U), f, U) /\ \A z \in U : f[z] \in Nat
      BY <1>1, <2>1
    <3>2. ASSUME NEW V, NEW g, IsFiniteSet(V), IsSum(g, f, V), \A z \in V : f[z] \in Nat, x \in V
          PROVE  g[V] = f[x] + g[V \ {x}]
      BY <3>2, SumStep
    <3> QED
      BY <2>1, <3>1, <3>2, Zenon
  <2>4. Time(w, U) = f[x] + Time(w, S)
    BY <1>1, <2>1, <2>2, <2>3
  <2>5. f[x] \in Nat /\ f[x] = RunTime[w][x]
    BY TimeAssumption DEF f
  <2> QED
    BY <1>2, <2>4, <2>5
<1> QED
  BY <1>2, <1>3, <1>4

-----------------------------------------------------------------------------
(* The inductive invariant.                                                *)

\* The phases in which there are jobs.
Splitting == {"split", "merge", "done", "error"}

JobIds == Weblogs \X (Nat \ {0})

TypeOK ==
    /\ pc \in {"manifests", "files", "endtoend", "refused"} \cup Splitting
    /\ inputs \in [files : SUBSET Files,
                   manifests : [DOMAIN OldManifests -> Declarations],
                   diff : BOOLEAN,
                   choice : SUBSET Libraries, branch : BOOLEAN,
                   split : BOOLEAN, maximum : Maxima]
    /\ modified \subseteq inputs.files
    /\ scenarios \subseteq Scenarios /\ groups \subseteq DOMAIN Groups
    /\ libraries \subseteq Libraries \cup LibrariesOf(Scenarios)
    /\ impacted \subseteq LibrariesOf(Scenarios)
    /\ desired \in Nat
    /\ queue \in SUBSET (Weblogs \X Scenarios) /\ moving \in SUBSET (Weblogs \X Scenarios)
    /\ DOMAIN jobs \in SUBSET JobIds /\ IsFiniteSet(DOMAIN jobs)
    /\ jobs \in [DOMAIN jobs -> SUBSET Scenarios]
    /\ order \in SUBSET JobIds

\* What a modified file, or the modified declarations, bring into the selection.
BroughtBy(f) == ScenariosOf(NodesOf(f)) \cup IF f \in DOMAIN DefinedIn THEN DefinedIn[f] ELSE {}

ByManifests ==
    ScenariosOf({n \in DOMAIN ScenarioMap : \E r \in ModifiedRules : StartsWith(n, r)})

\* The selection has what was looked at so far.
SelectInv ==
    /\ pc # "manifests" /\ inputs.diff =>
          /\ ByManifests \subseteq scenarios
          /\ \A f \in inputs.files \ modified : BroughtBy(f) \subseteq scenarios
    /\ pc \notin {"manifests", "files"} => modified = {}

\* What is filled in which phase.
StageInv ==
    /\ pc # "error"
    /\ pc \notin Splitting => DOMAIN jobs = {}
    /\ pc # "split" => queue = {}
    /\ pc # "merge" => moving = {}
    /\ pc \in Splitting => Cardinality(Weblogs) <= inputs.maximum

Wanted == {p \in Weblogs \X WorkflowMap : p \in Supports}
Pending == queue \cup moving

\* A scenario that a weblog supports waits for a job or has one, and only one.
PlaceInv ==
    pc \in Splitting =>
        /\ Pending \subseteq Wanted
        /\ \A k \in DOMAIN jobs : \A s \in jobs[k] : <<k[1], s>> \in Wanted \ Pending
        /\ \A p \in Wanted \ Pending : \E k \in DOMAIN jobs : k[1] = p[1] /\ p[2] \in jobs[k]
        /\ \A k, l \in DOMAIN jobs : k[1] = l[1] /\ k # l => jobs[k] \cap jobs[l] = {}

\* The instances of a weblog have no gap, so that a new one is never one it has.
NumberInv == \A w \in Weblogs : \E n \in Nat : Instances(w) = 1 .. n

\* The merge visits every job that is left, and stops at the maximum; the weblog of
\* the scenarios that it moves keeps its first job.
MergeInv ==
    /\ pc \in {"merge", "done"} =>
          \/ order = {} /\ (desired > 0 => JobCount <= inputs.maximum)
          \/ order = DOMAIN jobs /\ JobCount >= inputs.maximum
    /\ pc = "done" => JobCount <= inputs.maximum \/ desired <= 0
    /\ \A p \in moving : <<p[1], 1>> \in DOMAIN jobs

IInv ==
    /\ TypeOK /\ SelectInv /\ StageInv /\ PlaceInv /\ NumberInv /\ MergeInv
    /\ SplitIsTight

-----------------------------------------------------------------------------
(* The selection.                                                          *)

\* The invariant holds at the start.
LEMMA InitIInv == Init => IInv
<1> SUFFICES ASSUME Init PROVE IInv
  OBVIOUS
<1>1. DOMAIN jobs = {} /\ jobs \in [DOMAIN jobs -> SUBSET Scenarios] /\ IsFiniteSet(DOMAIN jobs)
  BY FS_EmptySet DEF Init
<1>2. inputs.files \in SUBSET Files
  <2>1. PICK k \in 0 .. MaxModified : inputs.files \in kSubset(k, Files)
    BY DEF Init
  <2> QED
    BY <2>1, Zenon DEF kSubset
<1>3. TypeOK
  BY <1>1, <1>2, ScenarioAssumption DEF Init, TypeOK
<1>4. SelectInv /\ StageInv
  BY <1>1 DEF Init, SelectInv, StageInv, Splitting
<1>5. PlaceInv /\ MergeInv /\ SplitIsTight
  BY DEF Init, PlaceInv, MergeInv, SplitIsTight, Splitting
<1>6. \A w \in Weblogs : Instances(w) = 1 .. 0
  BY <1>1 DEF Instances
<1>7. NumberInv
  BY <1>6 DEF NumberInv
<1> QED
  BY <1>3, <1>4, <1>5, <1>7 DEF IInv

\* The scenarios that nodes bring are scenarios, and their libraries are known.
LEMMA BroughtAre ==
    /\ \A N \in SUBSET DOMAIN ScenarioMap : ScenariosOf(N) \subseteq Scenarios
    /\ \A f : NodesOf(f) \in SUBSET DOMAIN ScenarioMap
    /\ \A S \in SUBSET Scenarios : LibrariesOf(S) \subseteq LibrariesOf(Scenarios)
<1>1. \A N \in SUBSET DOMAIN ScenarioMap : ScenariosOf(N) \subseteq Scenarios
  BY PathAssumption DEF ScenariosOf
<1>2. \A f : NodesOf(f) \in SUBSET DOMAIN ScenarioMap
  BY Zenon DEF NodesOf
<1>3. \A S \in SUBSET Scenarios : LibrariesOf(S) \subseteq LibrariesOf(Scenarios)
  BY DEF LibrariesOf
<1> QED
  BY <1>1, <1>2, <1>3

\* A step of the selection leaves the jobs out.
LEMMA SelectionFrame ==
    ASSUME IInv, UNCHANGED <<queue, jobs, order, moving>>,
           pc \in {"manifests", "files"}, pc' \in {"files", "endtoend"}
    PROVE  StageInv' /\ PlaceInv' /\ NumberInv' /\ MergeInv' /\ SplitIsTight'
<1>1. StageInv'
  BY DEF IInv, StageInv, Splitting
<1>2. PlaceInv' /\ SplitIsTight'
  BY DEF PlaceInv, SplitIsTight, Splitting
<1>3. NumberInv'
  BY Zenon DEF IInv, NumberInv, Instances
<1>4. MergeInv'
  BY DEF IInv, MergeInv
<1> QED
  BY <1>1, <1>2, <1>3, <1>4

\* The manifests bring the tests of the rules that changed.
LEMMA ManifestsStep == IInv /\ ProcessManifests => IInv'
<1> SUFFICES ASSUME IInv, ProcessManifests PROVE IInv'
  OBVIOUS
<1> DEFINE N == {n \in DOMAIN ScenarioMap : \E r \in ModifiedRules : StartsWith(n, r)}
<1>1. StageInv' /\ PlaceInv' /\ NumberInv' /\ MergeInv' /\ SplitIsTight'
  BY SelectionFrame DEF ProcessManifests, splitting
<1>2. ScenariosOf(N) \subseteq Scenarios /\ LibrariesOf(ScenariosOf(N)) \subseteq LibrariesOf(Scenarios)
  BY BroughtAre, Zenon
<1>3. N' = N
  BY DEF ProcessManifests, ModifiedRules, StartsWith
<1>4. inputs' = inputs /\ pc' = "files"
      /\ UNCHANGED <<desired, queue, jobs, order, moving>>
  BY DEF ProcessManifests, splitting
<1>5. CASE inputs.diff
  <2>1. /\ scenarios' = scenarios \cup ScenariosOf(N)
        /\ impacted' = LibrariesOf(ScenariosOf(N))
        /\ libraries' = inputs.choice /\ modified' = inputs.files /\ groups' = groups
    BY <1>5, Zenon DEF ProcessManifests
  <2> HIDE DEF N
  <2>2. TypeOK'
    BY <1>2, <1>4, <2>1 DEF IInv, TypeOK, LibrariesOf
  <2>3. ByManifests' \subseteq scenarios'
    BY <1>3, <2>1, Zenon DEF ByManifests, N, ScenariosOf
  <2>4. SelectInv'
    BY <1>4, <2>1, <2>3 DEF SelectInv
  <2> QED
    BY <1>1, <2>2, <2>4 DEF IInv
<1>6. CASE ~inputs.diff
  <2>1. /\ groups' = {AllGroup} /\ libraries' = Libraries
        /\ UNCHANGED <<scenarios, impacted, modified>>
    BY <1>6 DEF ProcessManifests
  <2>2. TypeOK'
    BY <1>4, <2>1, ScenarioAssumption DEF IInv, TypeOK, LibrariesOf
  <2>3. SelectInv'
    BY <1>4, <1>6 DEF SelectInv
  <2> QED
    BY <1>1, <2>2, <2>3 DEF IInv
<1> QED
  BY <1>5, <1>6

\* A modified file brings the tests near it and the scenarios it defines.
LEMMA FileStep == ASSUME NEW f \in Files PROVE IInv /\ AddFile(f) => IInv'
<1> SUFFICES ASSUME IInv, AddFile(f) PROVE IInv'
  OBVIOUS
<1> DEFINE known   == f \in DOMAIN Impacts
           brought == BroughtBy(f)
<1>1. StageInv' /\ PlaceInv' /\ NumberInv' /\ MergeInv' /\ SplitIsTight'
  BY SelectionFrame DEF AddFile, splitting
<1>2. /\ scenarios' = scenarios \cup brought \cup IF known THEN Impacts[f].scenarios ELSE {}
      /\ groups' = groups \cup IF known THEN Impacts[f].groups ELSE {AllGroup}
      /\ impacted' = impacted \cup LibrariesOf(brought)
      /\ libraries' = IF inputs.branch THEN libraries
                      ELSE libraries \cup IF known THEN Impacts[f].libraries ELSE Libraries
      /\ modified' = modified \ {f} /\ pc = "files"
      /\ UNCHANGED <<pc, inputs, desired, queue, jobs, order, moving>>
  BY Zenon DEF AddFile, BroughtBy, splitting
<1>3. brought \subseteq Scenarios /\ LibrariesOf(brought) \subseteq LibrariesOf(Scenarios)
  <2>1. brought \subseteq Scenarios
    BY BroughtAre, ImpactAssumption DEF BroughtBy
  <2> QED
    BY <2>1, BroughtAre, Zenon
<1> HIDE DEF brought
<1>4. TypeOK'
  <2>1. scenarios' \subseteq Scenarios /\ groups' \subseteq DOMAIN Groups
    BY <1>2, <1>3, ImpactAssumption, ScenarioAssumption DEF IInv, TypeOK
  <2>2. impacted' \subseteq LibrariesOf(Scenarios)
    BY <1>2, <1>3 DEF IInv, TypeOK
  <2>3. libraries' \subseteq Libraries \cup LibrariesOf(Scenarios)
    BY <1>2, ImpactAssumption DEF IInv, TypeOK
  <2> QED
    BY <1>2, <2>1, <2>2, <2>3 DEF IInv, TypeOK
<1>5. SelectInv'
  <2>1. ByManifests' = ByManifests
    BY <1>2, Zenon DEF ByManifests, ModifiedRules
  <2>2. \A e : BroughtBy(e)' = BroughtBy(e)
    BY Zenon DEF BroughtBy, NodesOf
  <2>3. SUFFICES ASSUME inputs.diff
                 PROVE  /\ ByManifests \subseteq scenarios'
                        /\ \A e \in inputs.files \ modified' : BroughtBy(e) \subseteq scenarios'
    BY <1>2, <2>1, <2>2 DEF SelectInv
  <2>4. scenarios \subseteq scenarios' /\ BroughtBy(f) \subseteq scenarios'
    BY <1>2 DEF brought
  <2>5. \A e \in inputs.files \ modified' : e = f \/ e \in inputs.files \ modified
    BY <1>2
  <2> QED
    BY <1>2, <2>3, <2>4, <2>5 DEF IInv, SelectInv
<1> QED
  BY <1>1, <1>4, <1>5 DEF IInv

\* The outputs of the selection.
LEMMA OutputsStep == IInv /\ Outputs => IInv'
<1> SUFFICES ASSUME IInv, Outputs PROVE IInv'
  OBVIOUS
<1>1. StageInv' /\ PlaceInv' /\ NumberInv' /\ MergeInv' /\ SplitIsTight'
  BY SelectionFrame DEF Outputs
<1>2. \A L : DesiredTime(L) \in Nat
  BY TimeAssumption DEF DesiredTime
<1>3. TypeOK'
  BY <1>2 DEF IInv, Outputs, TypeOK
<1>4. SelectInv'
  <2>1. ByManifests' = ByManifests
    BY Zenon DEF ByManifests, ModifiedRules, Outputs
  <2>2. \A e : BroughtBy(e)' = BroughtBy(e)
    BY Zenon DEF BroughtBy, NodesOf
  <2> QED
    BY <2>1, <2>2 DEF IInv, Outputs, SelectInv
<1> QED
  BY <1>1, <1>3, <1>4 DEF IInv

\* A step of the split leaves the selection as it is.
LEMMA SplitFrame ==
    ASSUME IInv, UNCHANGED <<inputs, selection, desired>>,
           pc \notin {"manifests", "files"}, pc' \notin {"manifests", "files"}
    PROVE  /\ SelectInv' /\ WorkflowMap' = WorkflowMap /\ Wanted' = Wanted
           /\ \A w : Supported(w)' = Supported(w)
<1>1. ByManifests' = ByManifests
  BY Zenon DEF ByManifests, ModifiedRules
<1>2. \A e : BroughtBy(e)' = BroughtBy(e)
  BY Zenon DEF BroughtBy, NodesOf
<1>3. SelectInv'
  BY <1>1, <1>2 DEF IInv, SelectInv, selection
<1>4. WorkflowMap' = WorkflowMap
  BY Zenon DEF WorkflowMap, selection
<1>5. Wanted' = Wanted /\ \A w : Supported(w)' = Supported(w)
  BY <1>4, Zenon DEF Wanted, Supported
<1> QED
  BY <1>3, <1>4, <1>5

\* The instances of a weblog among a set of jobs.
InstancesIn(D, w) == {k[2] : k \in {j \in D : j[1] = w}}

LEMMA InstancesAre ==
    ASSUME NEW D \in SUBSET JobIds, NEW w
    PROVE  /\ \A i : i \in InstancesIn(D, w) <=> <<w, i>> \in D
           /\ InstancesIn(D, w) \subseteq Nat \ {0}
<1>1. \A k \in D : k = <<k[1], k[2]>> /\ k[1] \in Weblogs /\ k[2] \in Nat \ {0}
  BY DEF JobIds
<1>2. \A i : i \in InstancesIn(D, w) => <<w, i>> \in D /\ i \in Nat \ {0}
  BY <1>1 DEF InstancesIn
<1>3. \A i : <<w, i>> \in D => i \in InstancesIn(D, w)
  BY <1>1 DEF InstancesIn
<1> QED
  BY <1>2, <1>3

\* The jobs by weblog and instance, and their times.
LEMMA JobsAre ==
    ASSUME TypeOK, NEW w \in Weblogs
    PROVE  /\ Instances(w) = InstancesIn(DOMAIN jobs, w) /\ Instances(w) \subseteq Nat \ {0}
           /\ \A i : i \in Instances(w) <=> <<w, i>> \in DOMAIN jobs
           /\ \A i \in Instances(w) : JobTime(w, i) \in Nat /\ jobs[<<w, i>>] \in SUBSET Scenarios
<1>1. DOMAIN jobs \in SUBSET JobIds /\ jobs \in [DOMAIN jobs -> SUBSET Scenarios]
  BY DEF TypeOK
<1>2. Instances(w) = InstancesIn(DOMAIN jobs, w)
  BY Zenon DEF Instances, InstancesIn
<1>3. /\ \A i : i \in Instances(w) <=> <<w, i>> \in DOMAIN jobs
      /\ Instances(w) \subseteq Nat \ {0}
  <2>1. /\ \A i : i \in InstancesIn(DOMAIN jobs, w) <=> <<w, i>> \in DOMAIN jobs
        /\ InstancesIn(DOMAIN jobs, w) \subseteq Nat \ {0}
    BY <1>1, InstancesAre
  <2> QED
    BY <1>2, <2>1, Zenon
<1>4. \A i \in Instances(w) : jobs[<<w, i>>] \in SUBSET Scenarios
  BY <1>1, <1>3
<1>5. \A i \in Instances(w) : JobTime(w, i) \in Nat
  BY <1>4, TimeOf DEF JobTime
<1> QED
  BY <1>2, <1>3, <1>4, <1>5

\* What is to be placed are scenarios of weblogs.
LEMMA WantedAre ==
    /\ WorkflowMap \subseteq Scenarios
    /\ Wanted \in SUBSET (Weblogs \X Scenarios)
    /\ \A w \in Weblogs : \A s : s \in Supported(w) <=> <<w, s>> \in Wanted
<1>1. WorkflowMap \subseteq Scenarios
  BY ScenarioAssumption DEF WorkflowMap
<1> QED
  BY <1>1 DEF Wanted, Supported

-----------------------------------------------------------------------------
(* The split.                                                              *)

\* The jobs of the weblogs, or what is to be placed.
LEMMA StartStep == IInv /\ Start => IInv'
<1> SUFFICES ASSUME IInv, Start PROVE IInv'
  OBVIOUS
<1>1. /\ pc = "endtoend" /\ pc' \in {"refused", "split"}
      /\ UNCHANGED <<inputs, selection, desired, order, moving>>
      /\ inputs.maximum \in Nat /\ Cardinality(Weblogs) \in Nat /\ desired \in Nat
  BY WeblogAssumption, FS_CardinalityType DEF IInv, TypeOK, Start
<1>2. /\ SelectInv' /\ WorkflowMap' = WorkflowMap /\ Wanted' = Wanted
      /\ \A w : Supported(w)' = Supported(w)
  BY <1>1, SplitFrame
<1>3. DOMAIN jobs = {} /\ queue = {} /\ moving = {} /\ moving' = {}
  BY <1>1 DEF IInv, StageInv, Splitting
<1>4. Wanted \in SUBSET (Weblogs \X Scenarios)
  BY WantedAre
<1>5. CASE inputs.maximum < Cardinality(Weblogs)
  <2>1. pc' = "refused" /\ UNCHANGED <<queue, jobs>>
    BY <1>1, <1>5 DEF Start
  <2>2. TypeOK'
    BY <1>1, <2>1 DEF IInv, TypeOK, selection
  <2>3. StageInv' /\ PlaceInv' /\ MergeInv' /\ SplitIsTight'
    BY <1>3, <2>1 DEF StageInv, PlaceInv, MergeInv, SplitIsTight, Splitting
  <2>4. NumberInv'
    BY <2>1, Zenon DEF IInv, NumberInv, Instances
  <2> QED
    BY <1>2, <2>2, <2>3, <2>4 DEF IInv
<1>6. CASE inputs.maximum >= Cardinality(Weblogs) /\ desired > 0
  <2>1. pc' = "split" /\ UNCHANGED jobs /\ queue' = Wanted
    BY <1>1, <1>6 DEF Start, Wanted
  <2>2. TypeOK'
    BY <1>1, <1>4, <2>1 DEF IInv, TypeOK, selection, Splitting
  <2>3. StageInv'
    BY <1>1, <1>3, <1>6, <2>1 DEF StageInv, Splitting
  <2>4. PlaceInv'
    BY <1>2, <1>3, <2>1 DEF PlaceInv, Pending
  <2>5. NumberInv'
    BY <2>1, Zenon DEF IInv, NumberInv, Instances
  <2>6. MergeInv'
    BY <1>3, <2>1 DEF MergeInv
  <2>7. SplitIsTight'
    BY <1>3, <2>1 DEF SplitIsTight, Instances
  <2> QED
    BY <1>2, <2>2, <2>3, <2>4, <2>5, <2>6, <2>7 DEF IInv
<1>7. CASE inputs.maximum >= Cardinality(Weblogs) /\ desired <= 0
  <2> DEFINE W == {w \in Weblogs : Supported(w) # {}}
             D == W \X {1}
  <2>1. pc' = "split" /\ UNCHANGED queue /\ jobs' = [k \in D |-> Supported(k[1])]
    BY <1>1, <1>7 DEF Start
  <2>2. D \in SUBSET JobIds /\ IsFiniteSet(D)
    <3>1. IsFiniteSet(W) /\ IsFiniteSet({1})
      BY WeblogAssumption, FS_Subset, FS_Singleton
    <3> QED
      BY <3>1, FS_Product DEF JobIds
  <2>3. \A w : Supported(w) \subseteq Scenarios
    BY WantedAre DEF Supported
  <2>4. /\ DOMAIN jobs' = D
        /\ \A k \in D : jobs'[k] = Supported(k[1]) /\ jobs'[k] \subseteq Scenarios
    BY <2>1, <2>3
  <2>5. jobs' \in [DOMAIN jobs' -> SUBSET Scenarios]
    BY <2>1, <2>3
  <2>6. TypeOK'
    BY <1>1, <2>1, <2>2, <2>4, <2>5 DEF IInv, TypeOK, selection, Splitting
  <2>7. StageInv'
    BY <1>1, <1>3, <1>7, <2>1 DEF StageInv, Splitting
  <2>8. PlaceInv'
    <3>1. Pending' = {}
      BY <1>3, <2>1 DEF Pending
    <3>2. \A k \in D : k[1] \in Weblogs /\ k = <<k[1], 1>>
      OBVIOUS
    <3>3. \A k \in D : \A s \in jobs'[k] : <<k[1], s>> \in Wanted
      BY <2>4, <3>2, WantedAre
    <3>4. ASSUME NEW p \in Wanted PROVE \E k \in D : k[1] = p[1] /\ p[2] \in jobs'[k]
      <4>1. p = <<p[1], p[2]>> /\ p[1] \in Weblogs
        BY <1>4
      <4>2. p[2] \in Supported(p[1])
        BY <4>1, WantedAre
      <4>3. <<p[1], 1>> \in D
        BY <4>1, <4>2
      <4> QED
        BY <2>4, <4>2, <4>3
    <3>5. \A k, l \in D : k[1] = l[1] => k = l
      BY <3>2
    <3> HIDE DEF D
    <3> QED
      BY <1>2, <2>4, <3>1, <3>3, <3>4, <3>5 DEF PlaceInv
  <2>9. NumberInv'
    <3>1. ASSUME NEW w \in Weblogs PROVE \E n \in Nat : InstancesIn(D, w) = 1 .. n
      <4>1. \A i : i \in InstancesIn(D, w) <=> <<w, i>> \in D
        BY <2>2, InstancesAre
      <4>2. CASE w \in W
        <5>1. \A i : <<w, i>> \in D <=> i \in 1 .. 1
          BY <4>2
        <5>2. InstancesIn(D, w) = 1 .. 1
          BY <4>1, <5>1, Zenon
        <5> QED
          BY <5>2
      <4>3. CASE w \notin W
        <5>1. \A i : <<w, i>> \in D <=> i \in 1 .. 0
          BY <4>3
        <5>2. InstancesIn(D, w) = 1 .. 0
          BY <4>1, <5>1, Zenon
        <5> QED
          BY <5>2
      <4> QED
        BY <4>2, <4>3
    <3> HIDE DEF D
    <3> QED
      BY <2>4, <3>1 DEF NumberInv, Instances, InstancesIn
  <2>10. MergeInv'
    BY <1>3, <2>1 DEF MergeInv
  <2>11. SplitIsTight'
    BY <1>1, <1>7 DEF SplitIsTight
  <2> QED
    BY <1>2, <2>6, <2>7, <2>8, <2>9, <2>10, <2>11 DEF IInv
<1> QED
  BY <1>1, <1>5, <1>6, <1>7

\* The scenario that is placed, and the job that takes it: a new one when it fits in
\* none, else one in which it fits.
LEMMA PlaceIs ==
    ASSUME IInv, Place
    PROVE  \E w \in Weblogs, s \in Scenarios :
              /\ <<w, s>> \in queue /\ queue' = queue \ {<<w, s>>}
              /\ \/ /\ \A i \in Instances(w) : JobTime(w, i) + RunTime[w][s] > Limit(w)
                    /\ \E n \in Nat : /\ Instances(w) = 1 .. n
                                      /\ jobs' = [k \in DOMAIN jobs \cup {<<w, n + 1>>} |->
                                                     IF k = <<w, n + 1>> THEN {s} ELSE jobs[k]]
                 \/ \E i \in Instances(w) :
                       /\ JobTime(w, i) + RunTime[w][s] <= Limit(w)
                       /\ jobs' = [jobs EXCEPT ![<<w, i>>] = @ \cup {s}]
<1> DEFINE W    == {p[1] : p \in queue}
           w    == Min(W)
           left == {u \in WorkflowMap : <<w, u>> \in queue}
           best == {u \in left : \A v \in left : RunTime[w][v] <= RunTime[w][u]}
           s    == Longest(w)
           fits == {i \in Instances(w) : JobTime(w, i) + RunTime[w][s] <= Limit(w)}
           new  == <<w, Cardinality(Instances(w)) + 1>>
<1>1. /\ queue # {} /\ queue' = queue \ {<<w, s>>}
      /\ jobs' = IF RunTime[w][s] > Limit(w) \/ fits = {}
                 THEN [k \in DOMAIN jobs \cup {new} |-> IF k = new THEN {s} ELSE jobs[k]]
                 ELSE [jobs EXCEPT ![<<w, Min(fits)>>] = @ \cup {s}]
  BY DEF Place
<1>2. queue \in SUBSET (Weblogs \X Scenarios) /\ queue \subseteq Wanted
  BY DEF IInv, TypeOK, PlaceInv, Pending, Place, Splitting
<1>3. w \in W
  <2>1. W \in SUBSET Nat /\ W # {}
    BY <1>1, <1>2, WeblogAssumption
  <2> HIDE DEF W
  <2> QED
    BY <2>1, MinIs
<1>4. PICK q \in queue : q[1] = w
  BY <1>3
<1> HIDE DEF w
<1>5. w \in Weblogs /\ q = <<w, q[2]>> /\ q[2] \in WorkflowMap
  BY <1>2, <1>4 DEF Wanted
<1>6. left \in SUBSET Scenarios /\ left # {}
  BY <1>4, <1>5, WantedAre
<1>7. s \in left
  <2> DEFINE f == RunTime[w]
  <2>1. \A u \in left : f[u] \in Nat
    BY <1>5, <1>6, TimeAssumption
  <2>2. IsFiniteSet(left) /\ left \subseteq Nat
    BY <1>6, ScenarioAssumption, FS_Subset
  <2> HIDE DEF left, f
  <2>3. \E m \in left : \A k \in left : f[k] <= f[m]
    BY <1>6, <2>1, <2>2, Greatest
  <2>4. best # {} /\ best \in SUBSET Nat
    BY <2>2, <2>3 DEF f
  <2> HIDE DEF best
  <2>5. Min(best) \in best
    BY <2>4, MinIs
  <2>6. s = Min(best)
    BY Zenon DEF Longest, best, left
  <2> QED
    BY <2>5, <2>6 DEF best
<1> HIDE DEF s
<1>8. s \in Scenarios /\ <<w, s>> \in queue
  BY <1>6, <1>7
<1>9. DOMAIN jobs \in SUBSET JobIds /\ jobs \in [DOMAIN jobs -> SUBSET Scenarios]
  BY DEF IInv, TypeOK
<1>10. /\ Instances(w) \subseteq Nat
       /\ \A i \in Instances(w) : <<w, i>> \in DOMAIN jobs /\ JobTime(w, i) \in Nat
  BY <1>5, JobsAre DEF IInv
<1>11. RunTime[w][s] \in Nat /\ BuildTime[w] \in Nat /\ desired \in Nat /\ Limit(w) \in Int
  BY <1>5, <1>8, TimeAssumption DEF IInv, TypeOK, Limit
<1>13. CASE RunTime[w][s] > Limit(w) \/ fits = {}
  <2>1. ASSUME NEW i \in Instances(w) PROVE JobTime(w, i) + RunTime[w][s] > Limit(w)
    <3>1. JobTime(w, i) \in Nat
      BY <1>10
    <3>2. CASE RunTime[w][s] > Limit(w)
      BY <1>11, <3>1, <3>2
    <3>3. CASE fits = {}
      <4>1. ~(JobTime(w, i) + RunTime[w][s] <= Limit(w))
        BY <3>3
      <4> QED
        BY <1>11, <3>1, <4>1
    <3> QED
      BY <1>13, <3>2, <3>3
  <2>2. PICK n \in Nat : Instances(w) = 1 .. n
    BY <1>5 DEF IInv, NumberInv
  <2>3. Cardinality(Instances(w)) = n
    BY <2>2, FS_Interval
  <2>4. jobs' = [k \in DOMAIN jobs \cup {<<w, n + 1>>} |->
                    IF k = <<w, n + 1>> THEN {s} ELSE jobs[k]]
    BY <1>1, <1>13, <2>3
  <2> QED
    BY <1>1, <1>5, <1>8, <2>1, <2>2, <2>4
<1>14. CASE ~(RunTime[w][s] > Limit(w) \/ fits = {})
  <2>1. fits \in SUBSET Nat /\ fits # {}
    BY <1>10, <1>14
  <2>2. jobs' = [jobs EXCEPT ![<<w, Min(fits)>>] = @ \cup {s}]
    BY <1>1, <1>14
  <2> HIDE DEF fits
  <2>3. Min(fits) \in fits
    BY <2>1, MinIs
  <2>4. Min(fits) \in Instances(w) /\ JobTime(w, Min(fits)) + RunTime[w][s] <= Limit(w)
    BY <2>3 DEF fits
  <2> QED
    BY <1>1, <1>5, <1>8, <2>2, <2>4
<1> QED
  BY <1>13, <1>14

\* The instances after a step.
LEMMA InstancesNext ==
    ASSUME DOMAIN jobs' \in SUBSET JobIds, NEW w
    PROVE  /\ Instances(w)' = InstancesIn(DOMAIN jobs', w)
           /\ \A i : i \in Instances(w)' <=> <<w, i>> \in DOMAIN jobs'
<1>1. Instances(w)' = InstancesIn(DOMAIN jobs', w)
  BY Zenon DEF Instances, InstancesIn
<1>2. \A i : i \in InstancesIn(DOMAIN jobs', w) <=> <<w, i>> \in DOMAIN jobs'
  BY InstancesAre
<1> QED
  BY <1>1, <1>2, Zenon

\* A pending scenario that a job of its weblog takes has that job, and only that one.
LEMMA Taken ==
    ASSUME IInv, pc \in Splitting, Wanted' = Wanted,
           NEW w \in Weblogs, NEW s \in Scenarios, NEW i,
           <<w, s>> \in Pending, Pending' = Pending \ {<<w, s>>},
           DOMAIN jobs' = DOMAIN jobs \cup {<<w, i>>},
           jobs'[<<w, i>>] = {s} \cup IF <<w, i>> \in DOMAIN jobs THEN jobs[<<w, i>>] ELSE {},
           \A k \in DOMAIN jobs : k # <<w, i>> => jobs'[k] = jobs[k]
    PROVE  PlaceInv'
<1> DEFINE key == <<w, i>>
           old == IF key \in DOMAIN jobs THEN jobs[key] ELSE {}
<1>1. /\ Pending \subseteq Wanted
      /\ \A k \in DOMAIN jobs : \A x \in jobs[k] : <<k[1], x>> \in Wanted \ Pending
      /\ \A p \in Wanted \ Pending : \E k \in DOMAIN jobs : k[1] = p[1] /\ p[2] \in jobs[k]
      /\ \A k, l \in DOMAIN jobs : k[1] = l[1] /\ k # l => jobs[k] \cap jobs[l] = {}
  BY DEF IInv, PlaceInv
<1>2. jobs'[key] = {s} \cup old /\ key[1] = w
  OBVIOUS
<1>3. \A x \in old : <<w, x>> \in Wanted \ Pending
  BY <1>1
<1> HIDE DEF key, old
<1>4. \A k \in DOMAIN jobs \ {key} : jobs'[k] = jobs[k]
  BY DEF key
<1>5. ASSUME NEW k \in DOMAIN jobs', NEW x \in jobs'[k]
      PROVE  <<k[1], x>> \in Wanted \ Pending'
  <2>1. CASE k = key
    BY <1>1, <1>2, <1>3, <2>1
  <2>2. CASE k # key
    <3>1. k \in DOMAIN jobs /\ x \in jobs[k]
      BY <1>4, <2>2 DEF key
    <3> QED
      BY <1>1, <3>1
  <2> QED
    BY <2>1, <2>2
<1>6. ASSUME NEW p \in Wanted \ Pending'
      PROVE  \E k \in DOMAIN jobs' : k[1] = p[1] /\ p[2] \in jobs'[k]
  <2>1. CASE p = <<w, s>>
    <3>1. key \in DOMAIN jobs' /\ key[1] = p[1] /\ p[2] \in jobs'[key]
      BY <1>2, <2>1 DEF key
    <3> QED
      BY <3>1
  <2>2. CASE p # <<w, s>>
    <3>1. PICK k \in DOMAIN jobs : k[1] = p[1] /\ p[2] \in jobs[k]
      BY <1>1, <2>2
    <3>2. p[2] \in jobs'[k]
      <4>1. CASE k = key
        BY <1>2, <3>1, <4>1 DEF old
      <4>2. CASE k # key
        BY <1>4, <3>1, <4>2
      <4> QED
        BY <4>1, <4>2
    <3> QED
      BY <3>1, <3>2
  <2> QED
    BY <2>1, <2>2
<1>7. ASSUME NEW k \in DOMAIN jobs \ {key}, k[1] = w PROVE jobs[k] \cap ({s} \cup old) = {}
  <2>1. s \notin jobs[k]
    BY <1>1, <1>7
  <2>2. jobs[k] \cap old = {}
    BY <1>1, <1>2, <1>7 DEF old
  <2> QED
    BY <2>1, <2>2
<1>8. ASSUME NEW k \in DOMAIN jobs', NEW l \in DOMAIN jobs', k[1] = l[1], k # l
      PROVE  jobs'[k] \cap jobs'[l] = {}
  <2>1. CASE k = key
    <3>1. l \in DOMAIN jobs \ {key} /\ l[1] = w
      BY <1>2, <1>8, <2>1 DEF key
    <3> QED
      BY <1>2, <1>4, <1>7, <2>1, <3>1
  <2>2. CASE l = key
    <3>1. k \in DOMAIN jobs \ {key} /\ k[1] = w
      BY <1>2, <1>8, <2>2 DEF key
    <3> QED
      BY <1>2, <1>4, <1>7, <2>2, <3>1
  <2>3. CASE k # key /\ l # key
    <3>1. k \in DOMAIN jobs \ {key} /\ l \in DOMAIN jobs \ {key}
      BY <2>3 DEF key
    <3> QED
      BY <1>1, <1>4, <1>8, <3>1
  <2> QED
    BY <2>1, <2>2, <2>3
<1> QED
  BY <1>1, <1>5, <1>6, <1>8 DEF PlaceInv

\* A scenario that fits in no job of its weblog gets a job of its own.
LEMMA PlaceNew ==
    ASSUME IInv, Place, NEW w \in Weblogs, NEW s \in Scenarios, <<w, s>> \in queue,
           queue' = queue \ {<<w, s>>},
           \A i \in Instances(w) : JobTime(w, i) + RunTime[w][s] > Limit(w),
           NEW n \in Nat, Instances(w) = 1 .. n,
           jobs' = [k \in DOMAIN jobs \cup {<<w, n + 1>>} |->
                       IF k = <<w, n + 1>> THEN {s} ELSE jobs[k]]
    PROVE  /\ DOMAIN jobs' \in SUBSET JobIds /\ IsFiniteSet(DOMAIN jobs')
           /\ jobs' \in [DOMAIN jobs' -> SUBSET Scenarios]
           /\ PlaceInv' /\ NumberInv' /\ SplitIsTight'
<1> DEFINE key == <<w, n + 1>>
<1>1. /\ DOMAIN jobs \in SUBSET JobIds /\ IsFiniteSet(DOMAIN jobs) /\ desired \in Nat
      /\ jobs \in [DOMAIN jobs -> SUBSET Scenarios]
  BY DEF IInv, TypeOK
<1>2. DOMAIN jobs' = DOMAIN jobs \cup {key}
  OBVIOUS
<1>3. \A v \in Weblogs : /\ Instances(v) = InstancesIn(DOMAIN jobs, v)
                         /\ \A i : i \in Instances(v) <=> <<v, i>> \in DOMAIN jobs
                         /\ \A i \in Instances(v) : JobTime(v, i) \in Nat
  BY JobsAre DEF IInv
<1>4. key \notin DOMAIN jobs /\ key \in JobIds
  BY <1>3 DEF JobIds
<1>5. jobs'[key] = {s} /\ \A k \in DOMAIN jobs : jobs'[k] = jobs[k]
  BY <1>4
<1>6. jobs' \in [DOMAIN jobs' -> SUBSET Scenarios]
  BY <1>1
<1>7. DOMAIN jobs' \in SUBSET JobIds /\ IsFiniteSet(DOMAIN jobs')
  BY <1>1, <1>2, <1>4, FS_AddElement
<1>8. /\ pc = "split" /\ pc' = "split" /\ UNCHANGED <<inputs, selection, desired, order, moving>>
      /\ moving = {}
  BY DEF Place, IInv, StageInv
<1>9. PlaceInv'
  <2>1. Wanted' = Wanted
    BY <1>8, SplitFrame
  <2>2. <<w, s>> \in Pending /\ Pending' = Pending \ {<<w, s>>}
    BY <1>8 DEF Pending
  <2> QED
    BY <1>2, <1>4, <1>5, <1>8, <2>1, <2>2, Taken DEF Splitting
<1> HIDE DEF key
<1>10. \A v \in Weblogs : \A i : i \in Instances(v)' <=> <<v, i>> \in DOMAIN jobs'
  BY <1>7, InstancesNext
<1>11. \A v \in Weblogs : Instances(v)' = IF v = w THEN 1 .. n + 1 ELSE Instances(v)
  <2>1. ASSUME NEW v \in Weblogs, v # w PROVE Instances(v)' = Instances(v)
    <3>1. \A i : <<v, i>> \in DOMAIN jobs' <=> <<v, i>> \in DOMAIN jobs
      BY <1>2, <2>1 DEF key
    <3> QED
      BY <1>3, <1>10, <3>1, Zenon
  <2>2. Instances(w)' = 1 .. n + 1
    <3>1. \A i : <<w, i>> \in DOMAIN jobs' <=> (i \in 1 .. n \/ i = n + 1)
      BY <1>2, <1>3 DEF key
    <3>2. \A i : (i \in 1 .. n \/ i = n + 1) <=> i \in 1 .. n + 1
      OBVIOUS
    <3>3. \A i : i \in Instances(w)' <=> i \in 1 .. n + 1
      BY <1>10, <3>1, <3>2, Zenon
    <3> QED
      BY <3>3, Zenon
  <2> QED
    BY <2>1, <2>2
<1>12. NumberInv'
  <2>1. ASSUME NEW v \in Weblogs PROVE \E m \in Nat : Instances(v)' = 1 .. m
    <3>1. CASE v = w
      BY <1>11, <3>1
    <3>2. CASE v # w
      BY <1>11, <3>2 DEF IInv, NumberInv
    <3> QED
      BY <3>1, <3>2
  <2> QED
    BY <2>1, Zenon DEF NumberInv
<1>13. ASSUME NEW v \in Weblogs, NEW i \in Instances(v)
       PROVE  JobTime(v, i)' = JobTime(v, i) /\ jobs'[<<v, i>>] = jobs[<<v, i>>]
  BY <1>3, <1>5 DEF JobTime
<1>14. JobTime(w, n + 1)' = RunTime[w][s] /\ RunTime[w][s] \in Nat /\ jobs'[<<w, n + 1>>] = {s}
  <2>1. JobTime(w, n + 1)' = Time(w, {s})
    BY <1>5, Zenon DEF JobTime, key
  <2>2. Time(w, {} \cup {s}) = Time(w, {}) + RunTime[w][s] /\ Time(w, {}) = 0
    BY TimeOf
  <2>3. RunTime[w][s] \in Nat /\ {} \cup {s} = {s}
    BY TimeAssumption
  <2> QED
    BY <1>5, <2>1, <2>2, <2>3 DEF key
<1>15. SplitIsTight'
  <2>1. SUFFICES ASSUME desired > 0, NEW v \in Weblogs, NEW i \in Instances(v)'
                 PROVE  /\ JobTime(v, i)' + BuildTime[v] > desired =>
                              Cardinality(jobs'[<<v, i>>]) = 1
                        /\ \A k \in Instances(v)' \ {i} :
                              JobTime(v, i)' + JobTime(v, k)' + BuildTime[v] > desired
    BY <1>8 DEF SplitIsTight
  <2>2. /\ \A j \in Instances(v) : JobTime(v, j) + BuildTime[v] > desired =>
                                      Cardinality(jobs[<<v, j>>]) = 1
        /\ \A j \in Instances(v) : \A k \in Instances(v) \ {j} :
              JobTime(v, j) + JobTime(v, k) + BuildTime[v] > desired
    BY <1>8, <2>1 DEF IInv, SplitIsTight
  <2>3. BuildTime[v] \in Nat
    BY TimeAssumption
  <2>4. \A j \in Instances(w) : JobTime(w, j) + RunTime[w][s] + BuildTime[w] > desired
    <3>1. Limit(w) = desired - BuildTime[w] /\ BuildTime[w] \in Nat
      BY TimeAssumption DEF Limit
    <3>2. TAKE j \in Instances(w)
    <3>3. JobTime(w, j) + RunTime[w][s] > Limit(w) /\ JobTime(w, j) \in Nat
      BY <1>3
    <3> QED
      BY <1>1, <1>14, <3>1, <3>3
  <2>5. CASE v # w
    <3>1. Instances(v)' = Instances(v)
      BY <1>11, <2>5
    <3>2. \A j \in Instances(v) : JobTime(v, j)' = JobTime(v, j) /\ jobs'[<<v, j>>] = jobs[<<v, j>>]
      BY <1>13
    <3> QED
      BY <2>2, <3>1, <3>2, Zenon
  <2>6. CASE v = w /\ i = n + 1
    <3>1. Cardinality(jobs'[<<v, i>>]) = 1
      BY <1>14, <2>6, FS_Singleton
    <3>2. ASSUME NEW k \in Instances(v)' \ {i}
          PROVE  JobTime(v, i)' + JobTime(v, k)' + BuildTime[v] > desired
      <4>1. k \in Instances(w)
        BY <1>11, <2>6
      <4>2. JobTime(w, k) + RunTime[w][s] + BuildTime[w] > desired /\ JobTime(w, k) \in Nat
        BY <1>3, <2>4, <4>1
      <4>3. JobTime(w, k)' = JobTime(w, k)
        BY <1>13, <4>1
      <4> QED
        BY <1>14, <2>3, <2>6, <4>2, <4>3
    <3> QED
      BY <3>1, <3>2
  <2>7. CASE v = w /\ i # n + 1
    <3>1. i \in Instances(w)
      BY <1>11, <2>7
    <3>2. JobTime(v, i)' = JobTime(v, i) /\ jobs'[<<v, i>>] = jobs[<<v, i>>] /\ JobTime(v, i) \in Nat
      BY <1>3, <1>13, <2>7, <3>1
    <3>3. ASSUME NEW k \in Instances(v)' \ {i}
          PROVE  JobTime(v, i)' + JobTime(v, k)' + BuildTime[v] > desired
      <4>1. CASE k = n + 1
        <5>1. JobTime(v, k)' = RunTime[w][s]
          BY <1>14, <2>7, <4>1
        <5> QED
          BY <2>4, <2>7, <3>1, <3>2, <5>1
      <4>2. CASE k # n + 1
        <5>1. k \in Instances(w) \ {i}
          BY <1>11, <2>7, <4>2
        <5>2. JobTime(v, k)' = JobTime(v, k)
          BY <1>13, <2>7, <5>1
        <5> QED
          BY <2>2, <2>7, <3>1, <3>2, <5>1, <5>2
      <4> QED
        BY <4>1, <4>2
    <3> QED
      BY <2>2, <2>7, <3>1, <3>2, <3>3
  <2> QED
    BY <2>5, <2>6, <2>7
<1> QED
  BY <1>6, <1>7, <1>9, <1>12, <1>15

\* A job that takes one more scenario leaves the other jobs, and their numbers, alone.
LEMMA Given ==
    ASSUME IInv, NEW w \in Weblogs, NEW s \in Scenarios, NEW i \in Instances(w),
           jobs' = [jobs EXCEPT ![<<w, i>>] = @ \cup {s}]
    PROVE  /\ DOMAIN jobs' = DOMAIN jobs /\ <<w, i>> \in DOMAIN jobs
           /\ jobs' \in [DOMAIN jobs' -> SUBSET Scenarios]
           /\ jobs'[<<w, i>>] = jobs[<<w, i>>] \cup {s}
           /\ \A k \in DOMAIN jobs : k # <<w, i>> => jobs'[k] = jobs[k]
           /\ \A v \in Weblogs : Instances(v)' = Instances(v)
           /\ NumberInv'
<1>1. DOMAIN jobs' = DOMAIN jobs
  OBVIOUS
<1>2. <<w, i>> \in DOMAIN jobs
  BY JobsAre DEF IInv
<1>3. jobs \in [DOMAIN jobs -> SUBSET Scenarios]
  BY DEF IInv, TypeOK
<1>4. /\ jobs' \in [DOMAIN jobs' -> SUBSET Scenarios]
      /\ jobs'[<<w, i>>] = jobs[<<w, i>>] \cup {s}
      /\ \A k \in DOMAIN jobs : k # <<w, i>> => jobs'[k] = jobs[k]
  BY <1>2, <1>3
<1>5. \A v \in Weblogs : Instances(v)' = Instances(v)
  BY <1>1, Zenon DEF Instances
<1>6. NumberInv'
  BY <1>5, Zenon DEF IInv, NumberInv
<1> QED
  BY <1>1, <1>2, <1>4, <1>5, <1>6

\* A scenario that fits in a job of its weblog keeps that job to its time.
LEMMA PlaceInto ==
    ASSUME IInv, Place, NEW w \in Weblogs, NEW s \in Scenarios, <<w, s>> \in queue,
           queue' = queue \ {<<w, s>>},
           NEW i \in Instances(w), JobTime(w, i) + RunTime[w][s] <= Limit(w),
           jobs' = [jobs EXCEPT ![<<w, i>>] = @ \cup {s}]
    PROVE  PlaceInv' /\ SplitIsTight'
<1>1. /\ pc = "split" /\ pc' = "split" /\ UNCHANGED <<inputs, selection, desired, order, moving>>
      /\ moving = {} /\ desired \in Nat
  BY DEF Place, IInv, StageInv, TypeOK
<1>2. /\ DOMAIN jobs' = DOMAIN jobs /\ <<w, i>> \in DOMAIN jobs
      /\ jobs'[<<w, i>>] = jobs[<<w, i>>] \cup {s}
      /\ \A k \in DOMAIN jobs : k # <<w, i>> => jobs'[k] = jobs[k]
      /\ \A v \in Weblogs : Instances(v)' = Instances(v)
  BY Given
<1>3. PlaceInv'
  <2>1. Wanted' = Wanted
    BY <1>1, SplitFrame
  <2>2. <<w, s>> \in Pending /\ Pending' = Pending \ {<<w, s>>}
    BY <1>1 DEF Pending
  <2>3. /\ DOMAIN jobs' = DOMAIN jobs \cup {<<w, i>>}
        /\ jobs'[<<w, i>>] = {s} \cup IF <<w, i>> \in DOMAIN jobs THEN jobs[<<w, i>>] ELSE {}
    BY <1>2
  <2> QED
    BY <1>1, <1>2, <2>1, <2>2, <2>3, Taken DEF Splitting
<1>4. \A v \in Weblogs : \A j \in Instances(v) :
        <<v, j>> \in DOMAIN jobs /\ JobTime(v, j) \in Nat /\ jobs[<<v, j>>] \in SUBSET Scenarios
  BY JobsAre DEF IInv
<1>5. s \notin jobs[<<w, i>>]
  <2>1. \A x \in jobs[<<w, i>>] : <<w, x>> \notin Pending
    BY <1>1, <1>2 DEF IInv, PlaceInv, Splitting
  <2> QED
    BY <2>1 DEF Pending
<1>6. RunTime[w][s] \in Nat /\ JobTime(w, i)' = JobTime(w, i) + RunTime[w][s]
  <2>1. JobTime(w, i)' = Time(w, jobs[<<w, i>>] \cup {s})
    BY <1>2, Zenon DEF JobTime
  <2>2. s \in Scenarios \ jobs[<<w, i>>] /\ jobs[<<w, i>>] \in SUBSET Scenarios
    BY <1>4, <1>5
  <2>3. Time(w, jobs[<<w, i>>] \cup {s}) = Time(w, jobs[<<w, i>>]) + RunTime[w][s]
    BY <2>2, TimeOf
  <2> QED
    BY <2>1, <2>3, TimeAssumption DEF JobTime
<1>7. ASSUME NEW v \in Weblogs, NEW j \in Instances(v), <<v, j>> # <<w, i>>
      PROVE  JobTime(v, j)' = JobTime(v, j) /\ jobs'[<<v, j>>] = jobs[<<v, j>>]
  BY <1>2, <1>4, <1>7 DEF JobTime
<1>8. ASSUME NEW v \in Weblogs, NEW j \in Instances(v)
      PROVE  JobTime(v, j)' \in Nat /\ JobTime(v, j)' >= JobTime(v, j) /\ JobTime(v, j) \in Nat
  <2>1. CASE <<v, j>> = <<w, i>>
    <3>1. v = w /\ j = i
      BY <2>1
    <3>2. JobTime(w, i) \in Nat
      BY <1>4
    <3>3. JobTime(w, i)' \in Nat /\ JobTime(w, i)' >= JobTime(w, i)
      BY <1>6, <3>2
    <3> QED
      BY <3>1, <3>2, <3>3, Zenon
  <2>2. CASE <<v, j>> # <<w, i>>
    <3>1. JobTime(v, j)' = JobTime(v, j) /\ JobTime(v, j) \in Nat
      BY <1>4, <1>7, <2>2
    <3> QED
      BY <3>1
  <2> QED
    BY <2>1, <2>2
<1>9. SplitIsTight'
  <2>1. SUFFICES ASSUME desired > 0, NEW v \in Weblogs, NEW j \in Instances(v)
                 PROVE  /\ JobTime(v, j)' + BuildTime[v] > desired =>
                              Cardinality(jobs'[<<v, j>>]) = 1
                        /\ \A k \in Instances(v) \ {j} :
                              JobTime(v, j)' + JobTime(v, k)' + BuildTime[v] > desired
    BY <1>1, <1>2 DEF SplitIsTight
  <2>2. /\ JobTime(v, j) + BuildTime[v] > desired => Cardinality(jobs[<<v, j>>]) = 1
        /\ \A k \in Instances(v) \ {j} : JobTime(v, j) + JobTime(v, k) + BuildTime[v] > desired
    BY <1>1, <2>1 DEF IInv, SplitIsTight
  <2>3. BuildTime[v] \in Nat
    BY TimeAssumption
  <2>4. JobTime(v, j)' + BuildTime[v] > desired => Cardinality(jobs'[<<v, j>>]) = 1
    <3>1. CASE <<v, j>> = <<w, i>>
      <4>1. v = w /\ j = i
        BY <3>1
      <4>2. JobTime(v, j)' <= desired - BuildTime[v]
        BY <1>6, <4>1 DEF Limit
      <4> QED
        BY <1>1, <1>8, <2>3, <4>2
    <3>2. CASE <<v, j>> # <<w, i>>
      BY <1>7, <2>2, <3>2
    <3> QED
      BY <3>1, <3>2
  <2>5. ASSUME NEW k \in Instances(v) \ {j}
        PROVE  JobTime(v, j)' + JobTime(v, k)' + BuildTime[v] > desired
    <3>1. JobTime(v, j) + JobTime(v, k) + BuildTime[v] > desired
      BY <2>2
    <3>2. /\ JobTime(v, j)' \in Nat /\ JobTime(v, j)' >= JobTime(v, j) /\ JobTime(v, j) \in Nat
          /\ JobTime(v, k)' \in Nat /\ JobTime(v, k)' >= JobTime(v, k) /\ JobTime(v, k) \in Nat
      BY <1>8
    <3> QED
      BY <1>1, <2>3, <3>1, <3>2
  <2> QED
    BY <2>4, <2>5
<1> QED
  BY <1>3, <1>9

\* One scenario is placed.
LEMMA PlaceStep == IInv /\ Place => IInv'
<1> SUFFICES ASSUME IInv, Place PROVE IInv'
  OBVIOUS
<1>1. PICK w \in Weblogs, s \in Scenarios :
        /\ <<w, s>> \in queue /\ queue' = queue \ {<<w, s>>}
        /\ \/ /\ \A i \in Instances(w) : JobTime(w, i) + RunTime[w][s] > Limit(w)
              /\ \E n \in Nat : /\ Instances(w) = 1 .. n
                                /\ jobs' = [k \in DOMAIN jobs \cup {<<w, n + 1>>} |->
                                               IF k = <<w, n + 1>> THEN {s} ELSE jobs[k]]
           \/ \E i \in Instances(w) :
                 /\ JobTime(w, i) + RunTime[w][s] <= Limit(w)
                 /\ jobs' = [jobs EXCEPT ![<<w, i>>] = @ \cup {s}]
  BY PlaceIs
<1>2. /\ DOMAIN jobs' \in SUBSET JobIds /\ IsFiniteSet(DOMAIN jobs')
      /\ jobs' \in [DOMAIN jobs' -> SUBSET Scenarios]
      /\ PlaceInv' /\ NumberInv' /\ SplitIsTight'
  <2>1. CASE /\ \A i \in Instances(w) : JobTime(w, i) + RunTime[w][s] > Limit(w)
             /\ \E n \in Nat : /\ Instances(w) = 1 .. n
                               /\ jobs' = [k \in DOMAIN jobs \cup {<<w, n + 1>>} |->
                                              IF k = <<w, n + 1>> THEN {s} ELSE jobs[k]]
    BY <1>1, <2>1, PlaceNew
  <2>2. CASE \E i \in Instances(w) :
                /\ JobTime(w, i) + RunTime[w][s] <= Limit(w)
                /\ jobs' = [jobs EXCEPT ![<<w, i>>] = @ \cup {s}]
    <3>1. PICK i \in Instances(w) : /\ JobTime(w, i) + RunTime[w][s] <= Limit(w)
                                    /\ jobs' = [jobs EXCEPT ![<<w, i>>] = @ \cup {s}]
      BY <2>2
    <3>2. /\ DOMAIN jobs' = DOMAIN jobs /\ jobs' \in [DOMAIN jobs' -> SUBSET Scenarios]
          /\ NumberInv'
      BY <3>1, Given
    <3>3. PlaceInv' /\ SplitIsTight'
      BY <1>1, <3>1, PlaceInto
    <3> QED
      BY <3>2, <3>3 DEF IInv, TypeOK
  <2> QED
    BY <1>1, <2>1, <2>2
<1>3. /\ pc = "split" /\ pc' = "split" /\ UNCHANGED <<inputs, selection, desired, order, moving>>
      /\ moving = {} /\ moving' = {}
  BY DEF Place, IInv, StageInv
<1>4. TypeOK'
  BY <1>1, <1>2, <1>3 DEF IInv, TypeOK, selection
<1>5. SelectInv'
  BY <1>3, SplitFrame
<1>6. StageInv' /\ MergeInv'
  BY <1>3 DEF IInv, StageInv, MergeInv, Splitting
<1> QED
  BY <1>2, <1>4, <1>5, <1>6 DEF IInv

-----------------------------------------------------------------------------
(* The merge.                                                              *)

\* The head of the merge.
LEMMA StartMergeStep == IInv /\ StartMerge => IInv'
<1> SUFFICES ASSUME IInv, StartMerge PROVE IInv'
  OBVIOUS
<1>1. /\ pc = "split" /\ queue = {} /\ pc' = "merge" /\ moving = {}
      /\ UNCHANGED <<inputs, selection, desired, queue, jobs, moving>>
      /\ order' = IF desired > 0 /\ JobCount > inputs.maximum THEN DOMAIN jobs ELSE {}
  BY DEF StartMerge, IInv, StageInv
<1>2. SelectInv' /\ Wanted' = Wanted
  BY <1>1, SplitFrame
<1>3. TypeOK'
  BY <1>1 DEF IInv, TypeOK, selection, Splitting
<1>4. StageInv' /\ SplitIsTight'
  BY <1>1 DEF IInv, StageInv, SplitIsTight, Splitting
<1>5. PlaceInv'
  BY <1>1, <1>2 DEF IInv, PlaceInv, Pending, Splitting
<1>6. NumberInv'
  BY <1>1, Zenon DEF IInv, NumberInv, Instances
<1>7. MergeInv'
  <2>1. JobCount \in Nat /\ inputs.maximum \in Nat /\ JobCount' = JobCount
    BY <1>1, FS_CardinalityType, WeblogAssumption DEF IInv, TypeOK, JobCount
  <2> QED
    BY <1>1, <2>1 DEF MergeInv
<1> QED
  BY <1>2, <1>3, <1>4, <1>5, <1>6, <1>7 DEF IInv

\* The job that is deleted is the last one of its weblog, and not the only one.
LEMMA DeletedIs ==
    ASSUME IInv, DeleteJob
    PROVE  \E w \in Weblogs, n \in Nat : /\ JobToDelete = <<w, n>> /\ n > 1
                                         /\ Instances(w) = 1 .. n
                                         /\ <<w, n>> \in order /\ order = DOMAIN jobs
<1> DEFINE I == {k[2] : k \in order}
           last == Max(I)
           W == {k[1] : k \in {j \in order : j[2] = last}}
           w == Min(W)
<1>1. /\ pc = "merge" /\ order # {} /\ JobCount > inputs.maximum
      /\ DOMAIN jobs \in SUBSET JobIds /\ IsFiniteSet(DOMAIN jobs)
      /\ inputs.maximum \in Nat /\ Cardinality(Weblogs) <= inputs.maximum
      /\ JobCount \in Nat /\ Cardinality(Weblogs) \in Nat
  BY WeblogAssumption, FS_CardinalityType DEF DeleteJob, IInv, TypeOK, StageInv, Splitting, JobCount
<1>2. order = DOMAIN jobs
  BY <1>1 DEF IInv, MergeInv
<1>3. \A k \in order : k = <<k[1], k[2]>> /\ k[1] \in Weblogs /\ k[2] \in Nat \ {0}
  BY <1>1, <1>2 DEF JobIds
<1>4. \A v \in Weblogs : \E n \in Nat : Instances(v) = 1 .. n
  BY DEF IInv, NumberInv
<1>5. \A v \in Weblogs : \A i : i \in Instances(v) <=> <<v, i>> \in order
  BY <1>2, JobsAre DEF IInv
<1>6. last \in I /\ \A i \in I : i <= last
  <2> DEFINE f == [k \in order |-> k[2]]
  <2>1. \A k \in order : f[k] = k[2] /\ f[k] \in Nat
    BY <1>3
  <2> HIDE DEF f
  <2>2. PICK m \in order : \A k \in order : f[k] <= f[m]
    BY <1>1, <1>2, <2>1, Greatest
  <2>3. I \in SUBSET Nat /\ m[2] \in I /\ \A i \in I : i <= m[2]
    BY <1>3, <2>1, <2>2
  <2> HIDE DEF I
  <2> QED
    BY <2>3, MaxIs
<1> HIDE DEF last
<1>7. w \in W
  <2>1. W \in SUBSET Nat /\ W # {}
    BY <1>3, <1>6, WeblogAssumption
  <2> HIDE DEF W
  <2> QED
    BY <2>1, MinIs
<1> HIDE DEF w
<1>8. w \in Weblogs /\ <<w, last>> \in order /\ last \in Nat \ {0}
  BY <1>3, <1>7
<1>9. PICK n \in Nat : Instances(w) = 1 .. n
  BY <1>4, <1>8
<1>10. n = last
  <2>1. last \in 1 .. n
    BY <1>5, <1>8, <1>9
  <2>2. <<w, n>> \in order
    BY <1>5, <1>8, <1>9, <2>1
  <2>3. n \in I
    BY <2>2
  <2> QED
    BY <1>6, <1>8, <2>1, <2>3
<1>11. last # 1
  <2> SUFFICES ASSUME last = 1 PROVE FALSE
    OBVIOUS
  <2>1. order \in SUBSET (Weblogs \X {1})
    BY <1>3, <1>6
  <2>2. IsFiniteSet(Weblogs \X {1}) /\ Cardinality(Weblogs \X {1}) = Cardinality(Weblogs) * 1
    <3>1. IsFiniteSet(Weblogs) /\ IsFiniteSet({1}) /\ Cardinality({1}) = 1
      BY WeblogAssumption, FS_Singleton
    <3> QED
      BY <3>1, FS_Product
  <2>3. Cardinality(order) <= Cardinality(Weblogs)
    BY <1>1, <2>1, <2>2, FS_Subset
  <2> QED
    BY <1>1, <1>2, <2>3 DEF JobCount
<1>12. JobToDelete = <<w, last>>
  BY Zenon DEF JobToDelete, w, W, last, I
<1> QED
  BY <1>2, <1>8, <1>9, <1>10, <1>11, <1>12

\* One job is deleted: its scenarios are pending again.
LEMMA DeleteStep == IInv /\ DeleteJob => IInv'
<1> SUFFICES ASSUME IInv, DeleteJob PROVE IInv'
  OBVIOUS
<1>1. PICK w \in Weblogs, n \in Nat : /\ JobToDelete = <<w, n>> /\ n > 1
                                      /\ Instances(w) = 1 .. n
                                      /\ <<w, n>> \in order /\ order = DOMAIN jobs
  BY DeletedIs
<1> DEFINE key == <<w, n>>
<1>2. /\ pc = "merge" /\ pc' = "merge" /\ moving = {} /\ queue = {} /\ queue' = {}
      /\ JobCount > inputs.maximum
      /\ UNCHANGED <<inputs, selection, desired>>
      /\ jobs' = [k \in DOMAIN jobs \ {key} |-> jobs[k]]
      /\ moving' = {w} \X jobs[key]
      /\ order' = order \ {key}
  BY <1>1 DEF DeleteJob, IInv, StageInv
<1>3. /\ DOMAIN jobs \in SUBSET JobIds /\ IsFiniteSet(DOMAIN jobs)
      /\ jobs \in [DOMAIN jobs -> SUBSET Scenarios]
      /\ inputs.maximum \in Nat
  BY WeblogAssumption DEF IInv, TypeOK
<1>4. /\ DOMAIN jobs' = DOMAIN jobs \ {key} /\ jobs' \in [DOMAIN jobs' -> SUBSET Scenarios]
      /\ \A k \in DOMAIN jobs \ {key} : jobs'[k] = jobs[k]
  BY <1>2, <1>3
<1>5. IsFiniteSet(DOMAIN jobs') /\ DOMAIN jobs' \in SUBSET JobIds
  BY <1>3, <1>4, FS_Subset
<1>6. key \in DOMAIN jobs /\ jobs[key] \in SUBSET Scenarios /\ key[1] = w
  BY <1>1, <1>3
<1>7. TypeOK'
  <2>1. moving' \in SUBSET (Weblogs \X Scenarios)
    BY <1>2, <1>6
  <2>2. order' \in SUBSET JobIds
    BY <1>1, <1>2, <1>3
  <2> QED
    BY <1>2, <1>4, <1>5, <2>1, <2>2 DEF IInv, TypeOK, selection
<1>8. SelectInv' /\ Wanted' = Wanted
  BY <1>2, SplitFrame
<1>9. StageInv' /\ SplitIsTight'
  BY <1>2 DEF IInv, StageInv, SplitIsTight, Splitting
<1> HIDE DEF key
<1>10. PlaceInv'
  <2>1. /\ \A k \in DOMAIN jobs : \A s \in jobs[k] : <<k[1], s>> \in Wanted
        /\ \A p \in Wanted : \E k \in DOMAIN jobs : k[1] = p[1] /\ p[2] \in jobs[k]
        /\ \A k, l \in DOMAIN jobs : k[1] = l[1] /\ k # l => jobs[k] \cap jobs[l] = {}
    BY <1>2 DEF IInv, PlaceInv, Pending, Splitting
  <2>2. Pending' = {w} \X jobs[key]
    BY <1>2 DEF Pending
  <2>3. \A s \in jobs[key] : <<w, s>> \in Wanted
    BY <1>6, <2>1
  <2>4. Pending' \subseteq Wanted
    BY <2>2, <2>3
  <2>5. ASSUME NEW k \in DOMAIN jobs', NEW s \in jobs'[k] PROVE <<k[1], s>> \in Wanted \ Pending'
    <3>1. k \in DOMAIN jobs /\ k # key /\ s \in jobs[k]
      BY <1>4
    <3>2. k[1] = w => s \notin jobs[key]
      BY <1>6, <2>1, <3>1
    <3> QED
      BY <2>1, <2>2, <3>1, <3>2
  <2>6. ASSUME NEW p \in Wanted \ Pending'
        PROVE  \E k \in DOMAIN jobs' : k[1] = p[1] /\ p[2] \in jobs'[k]
    <3>1. PICK k \in DOMAIN jobs : k[1] = p[1] /\ p[2] \in jobs[k]
      BY <2>1
    <3>2. k # key
      <4>1. p = <<p[1], p[2]>>
        BY WantedAre
      <4> QED
        BY <1>6, <2>2, <3>1, <4>1
    <3> QED
      BY <1>4, <3>1, <3>2
  <2>7. \A k, l \in DOMAIN jobs' : k[1] = l[1] /\ k # l => jobs'[k] \cap jobs'[l] = {}
    BY <1>4, <2>1
  <2> QED
    BY <1>8, <2>4, <2>5, <2>6, <2>7 DEF PlaceInv
<1>11. \A v \in Weblogs : \A i : i \in Instances(v) <=> <<v, i>> \in DOMAIN jobs
  BY JobsAre DEF IInv
<1>12. \A v \in Weblogs : \A i : i \in Instances(v)' <=> <<v, i>> \in DOMAIN jobs'
  BY <1>5, InstancesNext
<1>13. NumberInv'
  <2>1. ASSUME NEW v \in Weblogs PROVE \E m \in Nat : Instances(v)' = 1 .. m
    <3>1. CASE v = w
      <4>1. \A i : <<w, i>> \in DOMAIN jobs' <=> i \in 1 .. n /\ i # n
        BY <1>1, <1>4, <1>11 DEF key
      <4>2. \A i : i \in 1 .. n /\ i # n <=> i \in 1 .. n - 1
        BY <1>1
      <4>3. \A i : i \in Instances(w)' <=> i \in 1 .. n - 1
        BY <1>12, <4>1, <4>2, Zenon
      <4>4. Instances(w)' = 1 .. n - 1
        BY <4>3, Zenon
      <4> QED
        BY <1>1, <3>1, <4>4
    <3>2. CASE v # w
      <4>1. \A i : <<v, i>> \in DOMAIN jobs' <=> <<v, i>> \in DOMAIN jobs
        BY <1>4, <3>2 DEF key
      <4>2. Instances(v)' = Instances(v)
        BY <1>11, <1>12, <4>1, Zenon
      <4> QED
        BY <4>2 DEF IInv, NumberInv
    <3> QED
      BY <3>1, <3>2
  <2> QED
    BY <2>1, Zenon DEF NumberInv
<1>14. MergeInv'
  <2>1. <<w, 1>> \in DOMAIN jobs'
    BY <1>1, <1>4, <1>11 DEF key
  <2>2. \A p \in moving' : <<p[1], 1>> \in DOMAIN jobs'
    BY <1>2, <2>1
  <2>3. JobCount' >= inputs.maximum
    <3>1. Cardinality(DOMAIN jobs') = Cardinality(DOMAIN jobs) - 1 /\ Cardinality(DOMAIN jobs) \in Nat
      BY <1>3, <1>4, <1>6, FS_RemoveElement, FS_CardinalityType
    <3> QED
      BY <1>2, <1>3, <3>1 DEF JobCount
  <2>4. order' = DOMAIN jobs'
    BY <1>1, <1>2, <1>4
  <2> QED
    BY <1>2, <2>2, <2>3, <2>4 DEF MergeInv
<1> QED
  BY <1>7, <1>8, <1>9, <1>10, <1>13, <1>14 DEF IInv

\* The fastest job of a weblog that has one.
LEMMA FastestIs ==
    ASSUME TypeOK, NEW w \in Weblogs, Instances(w) # {}
    PROVE  LET best == {i \in Instances(w) :
                          \A k \in Instances(w) : JobTime(w, i) <= JobTime(w, k)}
           IN  Min(best) \in Instances(w)
<1> DEFINE best == {i \in Instances(w) : \A k \in Instances(w) : JobTime(w, i) <= JobTime(w, k)}
           T    == {JobTime(w, i) : i \in Instances(w)}
<1>1. Instances(w) \subseteq Nat /\ \A i \in Instances(w) : JobTime(w, i) \in Nat
  BY JobsAre
<1>2. PICK m \in T : \A t \in T : m <= t
  <2>1. T \in SUBSET Nat /\ T # {}
    BY <1>1
  <2> HIDE DEF T
  <2> QED
    BY <2>1, LeastNumber
<1>3. best # {} /\ best \in SUBSET Nat
  BY <1>1, <1>2
<1> HIDE DEF best
<1>4. Min(best) \in best
  BY <1>3, MinIs
<1>5. Min(best) \in Instances(w)
  BY <1>4 DEF best
<1> QED
  BY <1>5 DEF best

\* A scenario of it goes to another job: there is one, and it has not the scenario.
LEMMA GiveStep == IInv /\ GiveScenario => IInv'
<1> SUFFICES ASSUME IInv, GiveScenario PROVE IInv'
  OBVIOUS
<1>1. PICK p \in moving :
        LET w    == p[1]
            s    == p[2]
            best == {i \in Instances(w) : \A k \in Instances(w) : JobTime(w, i) <= JobTime(w, k)}
            job  == <<w, Min(best)>>
        IN  /\ \/ /\ Instances(w) = {} \/ s \in jobs[job]
                  /\ pc' = "error" /\ UNCHANGED jobs
               \/ /\ Instances(w) # {} /\ s \notin jobs[job]
                  /\ jobs' = [jobs EXCEPT ![job] = @ \cup {s}] /\ UNCHANGED pc
            /\ moving' = moving \ {p}
  BY DEF GiveScenario
<1> DEFINE w    == p[1]
           s    == p[2]
           best == {i \in Instances(w) : \A k \in Instances(w) : JobTime(w, i) <= JobTime(w, k)}
           i    == Min(best)
<1>2. /\ pc = "merge" /\ queue = {} /\ UNCHANGED <<inputs, selection, desired, queue, order>>
  BY DEF GiveScenario, IInv, StageInv
<1>3. p = <<w, s>> /\ w \in Weblogs /\ s \in Scenarios
  BY DEF IInv, TypeOK
<1>4. Instances(w) # {}
  <2>1. <<w, 1>> \in DOMAIN jobs
    BY DEF IInv, MergeInv
  <2> QED
    BY <1>3, <2>1, JobsAre DEF IInv
<1>5. i \in Instances(w)
  BY <1>3, <1>4, FastestIs DEF IInv
<1> HIDE DEF best, i
<1>6. <<w, i>> \in DOMAIN jobs
  BY <1>3, <1>5, JobsAre DEF IInv
<1>7. s \notin jobs[<<w, i>>]
  <2>1. \A x \in jobs[<<w, i>>] : <<w, x>> \notin Pending
    BY <1>2, <1>6 DEF IInv, PlaceInv, Splitting
  <2> QED
    BY <1>3, <2>1 DEF Pending
<1>8. /\ jobs' = [jobs EXCEPT ![<<w, i>>] = @ \cup {s}] /\ pc' = pc
      /\ moving' = moving \ {<<w, s>>}
  BY <1>1, <1>3, <1>4, <1>7 DEF best, i
<1> HIDE DEF w, s
<1>9. /\ DOMAIN jobs' = DOMAIN jobs
      /\ jobs' \in [DOMAIN jobs' -> SUBSET Scenarios]
      /\ jobs'[<<w, i>>] = jobs[<<w, i>>] \cup {s}
      /\ \A k \in DOMAIN jobs : k # <<w, i>> => jobs'[k] = jobs[k]
      /\ NumberInv'
  BY <1>3, <1>5, <1>8, Given
<1>10. SelectInv' /\ Wanted' = Wanted
  BY <1>2, <1>8, SplitFrame
<1>11. PlaceInv'
  <2>1. <<w, s>> \in Pending /\ Pending' = Pending \ {<<w, s>>}
    BY <1>2, <1>3, <1>8 DEF Pending
  <2>2. /\ DOMAIN jobs' = DOMAIN jobs \cup {<<w, i>>}
        /\ jobs'[<<w, i>>] = {s} \cup IF <<w, i>> \in DOMAIN jobs THEN jobs[<<w, i>>] ELSE {}
    BY <1>6, <1>9
  <2> QED
    BY <1>2, <1>3, <1>9, <1>10, <2>1, <2>2, Taken DEF Splitting
<1>12. TypeOK'
  BY <1>2, <1>8, <1>9 DEF IInv, TypeOK, selection
<1>13. StageInv' /\ SplitIsTight'
  BY <1>2, <1>8 DEF IInv, StageInv, SplitIsTight, Splitting
<1>14. MergeInv'
  BY <1>2, <1>8, <1>9 DEF IInv, MergeInv, JobCount
<1> QED
  BY <1>9, <1>10, <1>11, <1>12, <1>13, <1>14 DEF IInv

\* The end.
LEMMA FinishStep == IInv /\ Finish => IInv'
<1> SUFFICES ASSUME IInv, Finish PROVE IInv'
  OBVIOUS
<1>1. /\ pc = "merge" /\ pc' = "done" /\ moving = {}
      /\ UNCHANGED <<inputs, selection, desired, queue, jobs, order, moving>>
      /\ JobCount <= inputs.maximum \/ desired <= 0
  BY DEF Finish, splitting
<1>2. SelectInv' /\ Wanted' = Wanted
  BY <1>1, SplitFrame
<1>3. TypeOK'
  BY <1>1 DEF IInv, TypeOK, selection, Splitting
<1>4. StageInv' /\ SplitIsTight'
  BY <1>1 DEF IInv, StageInv, SplitIsTight, Splitting
<1>5. PlaceInv'
  BY <1>1, <1>2 DEF IInv, PlaceInv, Pending, Splitting
<1>6. NumberInv'
  BY <1>1, Zenon DEF IInv, NumberInv, Instances
<1>7. MergeInv'
  BY <1>1 DEF IInv, MergeInv, JobCount
<1> QED
  BY <1>2, <1>3, <1>4, <1>5, <1>6, <1>7 DEF IInv

\* A stuttering step.
LEMMA StutterStep == IInv /\ UNCHANGED vars => IInv'
<1> SUFFICES ASSUME IInv, UNCHANGED vars PROVE IInv'
  OBVIOUS
<1>1. UNCHANGED <<pc, inputs, selection, desired, queue, jobs, order, moving>>
  BY DEF vars, splitting
<1>2. SelectInv'
  <2>1. ByManifests' = ByManifests
    BY <1>1, Zenon DEF ByManifests, ModifiedRules
  <2>2. \A e : BroughtBy(e)' = BroughtBy(e)
    BY Zenon DEF BroughtBy, NodesOf
  <2> QED
    BY <1>1, <2>1, <2>2 DEF IInv, SelectInv, selection
<1>3. TypeOK'
  BY <1>1 DEF IInv, TypeOK, selection
<1>4. StageInv'
  BY <1>1 DEF IInv, StageInv
<1>5. PlaceInv'
  <2>1. WorkflowMap' = WorkflowMap
    BY <1>1, Zenon DEF WorkflowMap, selection
  <2>2. Wanted' = Wanted /\ Pending' = Pending
    BY <1>1, <2>1, Zenon DEF Wanted, Pending
  <2> QED
    BY <1>1, <2>2 DEF IInv, PlaceInv
<1>6. \A v : Instances(v)' = Instances(v)
  BY <1>1, Zenon DEF Instances
<1>7. NumberInv'
  BY <1>6, Zenon DEF IInv, NumberInv
<1>8. MergeInv'
  BY <1>1 DEF IInv, MergeInv, JobCount
<1>9. SplitIsTight'
  BY <1>1, <1>6 DEF IInv, SplitIsTight, JobTime
<1> QED
  BY <1>2, <1>3, <1>4, <1>5, <1>7, <1>8, <1>9 DEF IInv

\* Whatever a pull request modifies, and whatever the times of its scenarios are, the
\* computation of the jobs keeps the invariant.
THEOREM Invariance == Spec => []IInv
<1>1. IInv /\ [Next]_vars => IInv'
  BY ManifestsStep, FileStep, OutputsStep, StartStep, PlaceStep, StartMergeStep, DeleteStep,
     GiveStep, FinishStep, StutterStep DEF Next, Done
<1> QED
  BY <1>1, InitIInv, PTL DEF Spec

\* Every variable of the computation keeps its type.
THEOREM TypeCorrect == Spec => []TypeOK
BY Invariance, PTL DEF IInv

\* The split makes no job over the desired time but those of one scenario, and leaves no
\* two jobs of a weblog that would have fitted in one (workflow_data.py, first fit).
THEOREM SplitTight == Spec => []SplitIsTight
BY Invariance, PTL DEF IInv

-----------------------------------------------------------------------------
(* What a change concerns is selected.                                     *)

\* A part of a sequence, and when it begins another one.
LEMMA PartIs ==
    ASSUME NEW S, NEW f \in Seq(S), NEW b \in 0 .. Len(f)
    PROVE  /\ SubSeq(f, 1, b) \in Seq(S) /\ Len(SubSeq(f, 1, b)) = b
           /\ \A i \in 1 .. b : SubSeq(f, 1, b)[i] = f[i]
OBVIOUS

\* A prefix, name by name.
LEMMA PrefixIs ==
    ASSUME NEW S, NEW f \in Seq(S), NEW g \in Seq(S)
    PROVE  IsPrefix(f, g) <=> Len(f) <= Len(g) /\ \A i \in 1 .. Len(f) : f[i] = g[i]
<1>1. Len(f) \in Nat /\ Len(g) \in Nat
  OBVIOUS
<1>2. CASE Len(f) <= Len(g)
  <2>1. SubSeq(f, 1, Len(f)) = f
    OBVIOUS
  <2> DEFINE h == SubSeq(g, 1, Len(f))
  <2>2. h \in Seq(S) /\ Len(h) = Len(f) /\ \A i \in 1 .. Len(f) : h[i] = g[i]
    BY <1>1, <1>2, PartIs
  <2> HIDE DEF h
  <2>3. f = h <=> \A i \in 1 .. Len(f) : f[i] = h[i]
    BY <2>2, SeqEqual
  <2> QED
    BY <1>2, <2>1, <2>2, <2>3 DEF IsPrefix, h
<1>3. CASE ~(Len(f) <= Len(g))
  BY <1>3 DEF IsPrefix
<1> QED
  BY <1>2, <1>3

\* match_rule on whole names implies str.startswith.
LEMMA RuleStarts ==
    ASSUME NEW n \in Paths, NEW r \in Paths, IsPrefix(r, n)
    PROVE  StartsWith(n, r)
<1> DEFINE S == STRING
           k == Len(r)
<1>1. n \in Seq(S) /\ r \in Seq(S) /\ k \in Nat \ {0}
  BY DEF Paths
<1> HIDE DEF S
<1>2. k <= Len(n) /\ \A i \in 1 .. k : r[i] = n[i]
  BY <1>1, PrefixIs
<1>3. /\ SubSeq(r, 1, k - 1) \in Seq(S) /\ Len(SubSeq(r, 1, k - 1)) = k - 1
      /\ \A i \in 1 .. k - 1 : SubSeq(r, 1, k - 1)[i] = r[i]
  <2>1. k - 1 \in 0 .. Len(r)
    BY <1>1
  <2> HIDE DEF k
  <2> QED
    BY <1>1, <2>1, PartIs
<1>4. IsPrefix(SubSeq(r, 1, k - 1), n)
  <2>1. \A i \in 1 .. k - 1 : SubSeq(r, 1, k - 1)[i] = n[i]
    BY <1>1, <1>2, <1>3
  <2>2. Len(n) \in Nat /\ k - 1 <= Len(n)
    BY <1>1, <1>2
  <2> HIDE DEF k
  <2> QED
    BY <1>1, <1>3, <2>1, <2>2, PrefixIs
<1>5. r[k] = n[k]
  BY <1>1, <1>2
<1> QED
  BY <1>2, <1>4, <1>5 DEF StartsWith

\* What begins a folder of a file begins its path.
LEMMA FolderStarts ==
    ASSUME NEW S, NEW f \in Seq(S), NEW g \in Seq(S), g # <<>>,
           NEW a \in Nat, NEW b \in 0 .. Len(f), a <= b,
           IsPrefix(SubSeq(f, 1, b), Folder(g))
    PROVE  IsStrictPrefix(SubSeq(f, 1, a), g)
<1>1. Len(f) \in Nat /\ Len(g) \in Nat \ {0}
  OBVIOUS
<1>2. Folder(g) \in Seq(S) /\ Len(Folder(g)) = Len(g) - 1
      /\ \A i \in 1 .. Len(g) - 1 : Folder(g)[i] = g[i]
  <2>1. Len(g) - 1 \in 0 .. Len(g)
    BY <1>1
  <2> DEFINE c == Len(g) - 1
  <2> HIDE DEF c
  <2>2. /\ SubSeq(g, 1, c) \in Seq(S) /\ Len(SubSeq(g, 1, c)) = c
        /\ \A i \in 1 .. c : SubSeq(g, 1, c)[i] = g[i]
    BY <2>1, PartIs DEF c
  <2> QED
    BY <2>2 DEF Folder, c
<1>3. /\ SubSeq(f, 1, b) \in Seq(S) /\ Len(SubSeq(f, 1, b)) = b
      /\ \A i \in 1 .. b : SubSeq(f, 1, b)[i] = f[i]
  BY PartIs
<1>4. b <= Len(g) - 1 /\ \A i \in 1 .. b : f[i] = Folder(g)[i]
  <2> DEFINE p == SubSeq(f, 1, b)
             q == Folder(g)
  <2>1. p \in Seq(S) /\ q \in Seq(S) /\ IsPrefix(p, q)
    BY <1>2, <1>3
  <2> HIDE DEF p, q
  <2>2. Len(p) <= Len(q) /\ \A i \in 1 .. Len(p) : p[i] = q[i]
    BY <2>1, PrefixIs
  <2> QED
    BY <1>2, <1>3, <2>2 DEF p, q
<1>5. \A i \in 1 .. b : f[i] = g[i]
  BY <1>1, <1>2, <1>4
<1>6. /\ SubSeq(f, 1, a) \in Seq(S) /\ Len(SubSeq(f, 1, a)) = a
      /\ \A i \in 1 .. a : SubSeq(f, 1, a)[i] = f[i]
  BY <1>1, PartIs
<1> DEFINE h == SubSeq(f, 1, a)
<1> HIDE DEF h
<1>7. h \in Seq(S) /\ Len(h) = a /\ \A i \in 1 .. a : h[i] = g[i]
  BY <1>1, <1>5, <1>6 DEF h
<1>8. IsPrefix(h, g)
  BY <1>1, <1>4, <1>7, PrefixIs
<1>9. h # g
  BY <1>1, <1>4, <1>7
<1> QED
  BY <1>8, <1>9 DEF IsStrictPrefix, h

\* The tests that a file concerns are among the ones it brings in.
LEMMA NearIsBrought ==
    ASSUME NEW f \in Files, NEW n \in DOMAIN ScenarioMap, Near(n, f)
    PROVE  n \in NodesOf(f)
<1> DEFINE S == STRING
           g == FileOf[n]
           U == {k \in DOMAIN f : f[k] = "utils"}
           m == Min(U)
<1>1. f \in Seq(S) /\ f # <<>> /\ g \in Seq(S) /\ g # <<>>
  BY PathAssumption DEF Paths
<1>2. SUFFICES ASSUME g # f PROVE n \in NodesOf(f)
  BY DEF NodesOf
<1>3. Head(f) = "tests"
  BY DEF Near
<1> HIDE DEF S
<1>4. Len(f) \in Nat \ {0} /\ DOMAIN f = 1 .. Len(f)
  BY <1>1
<1>5. ASSUME NEW k \in 2 .. Len(f) - 1, f[k] = "utils" PROVE m \in 1 .. k /\ InUtils(f)
  <2>1. U \in SUBSET Nat /\ k \in U /\ U \subseteq 1 .. Len(f)
    BY <1>4, <1>5
  <2> HIDE DEF U
  <2>2. m \in U /\ m <= k
    BY <2>1, MinIs
  <2>3. InUtils(f)
    BY <1>5 DEF InUtils
  <2>4. m \in 1 .. Len(f) /\ k \in Nat
    BY <2>1, <2>2
  <2> QED
    BY <1>4, <2>2, <2>3, <2>4
<1> HIDE DEF m
<1>6. ASSUME NEW k \in 2 .. Len(f) - 1, f[k] = "utils", NEW b \in 0 .. Len(f), b >= k - 1,
             IsPrefix(SubSeq(f, 1, b), Folder(g))
      PROVE  IsStrictPrefix(BeforeUtils(f), g)
  <2>1. m - 1 \in Nat /\ m - 1 <= b
    BY <1>4, <1>5, <1>6
  <2>2. IsStrictPrefix(SubSeq(f, 1, m - 1), g)
    BY <1>1, <1>6, <2>1, FolderStarts
  <2> QED
    BY <2>2, Zenon DEF BeforeUtils, m, U
<1>7. CASE f \in SupportFiles /\ IsPrefix(Folder(f), Folder(g))
  <2>1. Folder(f) = SubSeq(f, 1, Len(f) - 1) /\ Len(f) - 1 \in 0 .. Len(f)
    BY <1>4 DEF Folder
  <2>2. CASE InUtils(f)
    <3>1. PICK k \in 2 .. Len(f) - 1 : f[k] = "utils"
      BY <2>2 DEF InUtils
    <3>2. IsStrictPrefix(BeforeUtils(f), g)
      BY <1>4, <1>6, <1>7, <2>1, <3>1
    <3> QED
      BY <1>3, <2>2, <3>2 DEF NodesOf
  <2>3. CASE ~InUtils(f)
    <3>1. IsStrictPrefix(SubSeq(f, 1, Len(f) - 1), g)
      BY <1>1, <1>4, <1>7, <2>1, FolderStarts
    <3> QED
      BY <1>3, <1>7, <2>1, <2>3, <3>1 DEF NodesOf
  <2> QED
    BY <2>2, <2>3
<1>8. CASE \E k \in 2 .. Len(f) - 1 : f[k] = "utils" /\ IsPrefix(SubSeq(f, 1, k - 1), Folder(g))
  <2>1. PICK k \in 2 .. Len(f) - 1 : f[k] = "utils" /\ IsPrefix(SubSeq(f, 1, k - 1), Folder(g))
    BY <1>8
  <2>2. InUtils(f)
    BY <1>5, <2>1
  <2>3. k - 1 \in 0 .. Len(f) /\ k - 1 >= k - 1
    BY <1>4
  <2>4. IsStrictPrefix(BeforeUtils(f), g)
    BY <1>6, <2>1, <2>3
  <2> QED
    BY <1>3, <2>2, <2>4 DEF NodesOf
<1> QED
  BY <1>2, <1>7, <1>8 DEF Near

\* In every state, every pull request, and for every manifest, mapping and scenario map:
\* what the change concerns is in a job of every weblog that supports it.
THEOREM ChangesTested == Spec => []ChangesAreTested
<1>1. ASSUME IInv, pc = "done", inputs.diff, NEW s, NEW w \in Weblogs,
             s \in ScenariosOf({n \in DOMAIN ScenarioMap : Concerned(n)}) \cup Redefined,
             s \in EndToEnd \ Excluded, <<w, s>> \in Supports
      PROVE  \E i \in Instances(w) : s \in jobs[<<w, i>>]
  <2>1. /\ ByManifests \subseteq scenarios /\ inputs.files \subseteq Files
        /\ \A f \in inputs.files : BroughtBy(f) \subseteq scenarios
    BY <1>1 DEF IInv, SelectInv, TypeOK
  <2>2. s \in scenarios
    <3>1. CASE s \in Redefined
      <4>1. PICK f \in inputs.files \cap DOMAIN DefinedIn : s \in DefinedIn[f]
        BY <3>1 DEF Redefined
      <4>2. s \in BroughtBy(f)
        BY <4>1 DEF BroughtBy
      <4> QED
        BY <2>1, <4>1, <4>2
    <3>2. CASE s \in ScenariosOf({n \in DOMAIN ScenarioMap : Concerned(n)})
      <4>1. PICK n \in DOMAIN ScenarioMap : Concerned(n) /\ s \in ScenarioMap[n]
        BY <3>2 DEF ScenariosOf
      <4>2. CASE \E f \in inputs.files : Near(n, f)
        <5>1. PICK f \in inputs.files : Near(n, f)
          BY <4>2
        <5>2. n \in NodesOf(f)
          BY <2>1, <5>1, NearIsBrought
        <5>3. s \in BroughtBy(f)
          BY <4>1, <5>2 DEF BroughtBy, ScenariosOf
        <5> QED
          BY <2>1, <5>1, <5>3
      <4>3. CASE \E r \in DOMAIN OldManifests :
                    inputs.manifests[r] # OldManifests[r] /\ IsPrefix(r, n)
        <5>1. PICK r \in DOMAIN OldManifests :
                    inputs.manifests[r] # OldManifests[r] /\ IsPrefix(r, n)
          BY <4>3
        <5>2. r \in ModifiedRules /\ r \in Paths /\ n \in Paths
          BY <5>1, PathAssumption DEF ModifiedRules
        <5>3. StartsWith(n, r)
          BY <5>1, <5>2, RuleStarts
        <5>4. s \in ByManifests
          BY <4>1, <5>2, <5>3, Zenon DEF ByManifests, ScenariosOf
        <5> QED
          BY <2>1, <5>4
      <4> QED
        BY <4>1, <4>2, <4>3 DEF Concerned
    <3> QED
      BY <1>1, <3>1, <3>2
  <2>3. <<w, s>> \in Wanted \ Pending
    BY <1>1, <2>2 DEF Wanted, WorkflowMap, Pending, IInv, StageInv
  <2>4. PICK k \in DOMAIN jobs : k[1] = w /\ s \in jobs[k]
    <3> DEFINE p == <<w, s>>
    <3>1. p[1] = w /\ p[2] = s
      OBVIOUS
    <3> HIDE DEF p
    <3>2. \E k \in DOMAIN jobs : k[1] = p[1] /\ p[2] \in jobs[k]
      BY <1>1, <2>3 DEF IInv, PlaceInv, Splitting, p
    <3> QED
      BY <3>1, <3>2
  <2>5. k = <<w, k[2]>>
    BY <1>1, <2>4 DEF IInv, TypeOK, JobIds
  <2>6. k[2] \in Instances(w)
    BY <1>1, <2>5, JobsAre DEF IInv
  <2> QED
    BY <2>4, <2>5, <2>6
<1>2. IInv => ChangesAreTested
  BY <1>1 DEF ChangesAreTested
<1> QED
  BY <1>2, Invariance, PTL

\* The computation never ends in the min of an empty list nor in the assert of
\* append_scenario, and where it ends the jobs have each supported scenario once and are
\* as many as maximum_parallel_jobs allows.
THEOREM JobsAreRight == Spec => [](pc # "error" /\ (pc = "done" => Complete))
<1>1. ASSUME IInv, pc = "done" PROVE Complete
  <2>1. /\ \A k \in DOMAIN jobs : \A x \in jobs[k] : <<k[1], x>> \in Wanted
        /\ \A p \in Wanted : \E k \in DOMAIN jobs : k[1] = p[1] /\ p[2] \in jobs[k]
        /\ \A k, l \in DOMAIN jobs : k[1] = l[1] /\ k # l => jobs[k] \cap jobs[l] = {}
    BY <1>1 DEF IInv, PlaceInv, StageInv, Pending, Splitting
  <2>2. ASSUME NEW w \in Weblogs, NEW s \in Scenarios
        PROVE  Cardinality({i \in Instances(w) : s \in jobs[<<w, i>>]}) =
                  IF s \in Supported(w) THEN 1 ELSE 0
    <3> DEFINE I == {i \in Instances(w) : s \in jobs[<<w, i>>]}
               p == <<w, s>>
    <3>1. \A i : i \in Instances(w) <=> <<w, i>> \in DOMAIN jobs
      BY <1>1, JobsAre DEF IInv
    <3>2. s \in Supported(w) <=> p \in Wanted
      BY WantedAre
    <3>3. p[1] = w /\ p[2] = s
      OBVIOUS
    <3>4. CASE p \notin Wanted
      <4>1. \A i \in Instances(w) : s \notin jobs[<<w, i>>]
        BY <2>1, <3>1, <3>4
      <4>2. I = {}
        BY <4>1
      <4> QED
        BY <3>2, <3>4, <4>2, FS_EmptySet
    <3>5. CASE p \in Wanted
      <4> HIDE DEF p
      <4>1. PICK k \in DOMAIN jobs : k[1] = w /\ s \in jobs[k]
        BY <2>1, <3>3, <3>5
      <4>2. k = <<w, k[2]>>
        BY <1>1, <4>1 DEF IInv, TypeOK, JobIds
      <4>3. k[2] \in I
        BY <3>1, <4>1, <4>2
      <4>4. ASSUME NEW i \in I PROVE i = k[2]
        <5>1. <<w, i>> \in DOMAIN jobs /\ s \in jobs[<<w, i>>] /\ <<w, i>>[1] = w
          BY <3>1
        <5>2. <<w, i>> = k
          BY <2>1, <4>1, <5>1
        <5> QED
          BY <4>2, <5>2
      <4>5. I = {k[2]}
        BY <4>3, <4>4
      <4> QED
        BY <3>2, <3>5, <4>5, FS_Singleton
    <3> QED
      BY <3>4, <3>5
  <2>3. desired > 0 => JobCount <= inputs.maximum /\ (order # {} => JobCount = inputs.maximum)
    <3>1. JobCount \in Nat /\ inputs.maximum \in Nat /\ desired \in Nat
      BY <1>1, FS_CardinalityType, WeblogAssumption DEF IInv, TypeOK, JobCount
    <3> QED
      BY <1>1, <3>1 DEF IInv, MergeInv
  <2> QED
    BY <2>2, <2>3 DEF Complete
<1>2. IInv => pc # "error" /\ (pc = "done" => Complete)
  BY <1>1 DEF IInv, StageInv
<1> QED
  BY <1>2, Invariance, PTL
=============================================================================

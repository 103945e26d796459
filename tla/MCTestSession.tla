---------------------------- MODULE MCTestSession ----------------------------
(* Instances of TestSession for TLC. *)
EXTENDS TestSession

Plain == [path |-> <<"f", "C", "a">>, param |-> 0, own |-> <<>>, class |-> <<>>, slow |-> FALSE,
          auxiliary |-> FALSE, scenarios |-> {}, classScenarios |-> {}, setup |-> TRUE,
          leaves |-> {"tuple", "other"}, recorded |-> TRUE]

\* A plain test, a slow and auxiliary one of the same class, and one with
\* parameters, so without a setup, of a class that is decorated.
ThreeTests ==
    LET other == [Plain EXCEPT !.path = <<"f", "D", "d">>, !.setup = FALSE, !.class = <<"bug">>, !.recorded = FALSE,
                               !.classScenarios = {"DEFAULT", "OTHER"}]
    IN  <<Plain,
          [Plain EXCEPT !.path = <<"f", "C", "b">>, !.slow = TRUE, !.auxiliary = TRUE,
                         !.leaves = {"object"}],
          [other EXCEPT !.param = 1]>>

V(major, minor, stage) == <<major, minor, 0, stage>>
SomeVersions == {V(0, 3, 1), V(0, 4, 0), V(1, 3, 0), V(1, 3, 1), V(2, 0, 0), V(2, 3, 1)}
At(rule, entries) ==
    [component |-> "python", rule |-> rule, inline |-> FALSE, entries |-> entries]
Backport == Caret(V(1, 3, 1)) \cup AtLeast(V(2, 3, 1))

SomeManifests ==
    {<<>>,
     <<At(<<"f", "">>, <<Inline(Since(AtLeast(V(1, 3, 1))))>>),
       At(<<"f", "C", "a">>, <<Inline(Skip("flaky"))>>)>>,
     <<At(<<"f", "C">>, <<Lines(<<Line(Star, Skip("bug")), Line({"w1"}, Since(Backport))>>)>>),
       At(<<"f", "C", "a">>, <<Inline(Skip("irrelevant"))>>),
       [At(<<"f">>, <<Inline(Skip("bug"))>>) EXCEPT !.component = "agent"]>>,
     <<At(<<"f">>, <<[NoEntry EXCEPT !.declaration = "missing_feature", !.weblog = {"w2"},
                                     !.component_version = Below(V(2, 0, 0))],
                     [NoEntry EXCEPT !.declaration = "bug", !.excluded_weblog = {"w1"},
                                     !.excluded_component_version = AtLeast(V(2, 0, 0))]>>),
       At(<<"f", "D">>, <<Inline(Skip("irrelevant"))>>)>>}

SomeForced == {{}, {1}, {2, 3}}
=============================================================================

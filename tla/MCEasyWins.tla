---------------------------- MODULE MCEasyWins ----------------------------
(* Instances of EasyWins for TLC. *)
EXTENDS EasyWins

a == <<"t", "C", "a">>
b == <<"t", "C", "b">>
d == <<"t", "D", "d">>
SomeOwners == [n \in {a, b, d} |-> IF n = d THEN "other" ELSE "team"]

Default == [code_owner |-> NoOwner, excluded |-> {}, skipped |-> {}]
SomeOptions ==
    {Default, [Default EXCEPT !.code_owner = "team"], [Default EXCEPT !.excluded = {"other"}, !.skipped = {a}]}
DefaultOptions == {Default}

V(major) == <<major, 0, 0, 1>>
SomeVersions == {V(1), V(2), V(3)}
On(weblog) == [weblog |-> weblog, version |-> V(2)]

List(rule, entries) == [component |-> Library, rule |-> rule, inline |-> FALSE, entries |-> entries]
Text(rule, text) == [List(rule, <<Inline(text)>>) EXCEPT !.inline = TRUE]

\* The results of a run: none, one, or one per parameter.
Of(node, outcomes) == [i \in DOMAIN outcomes |-> [node |-> node, outcome |-> outcomes[i]]]
Ran == {<<>>, <<"xpassed">>, <<"xfailed">>}
Params == Ran \cup {<<"xpassed", "xfailed">>, <<"xfailed", "xpassed">>, <<"xpassed", "skipped">>}
Reports == {Of(a, x) \o Of(b, y) \o Of(d, z) : x \in Params, y \in Ran, z \in Ran}
Few == {Of(a, x) \o Of(b, y) : x \in Ran, y \in Ran}

CasesOf(weblogs, manifests, results) ==
    {[manifest |-> m, reports |-> r] : m \in manifests, r \in [{On(w) : w \in weblogs} -> results]}

\* Inline declarations of a class and of its tests; a list of weblogs; w3 has no report.
Inlines ==
    {<<Text(<<"t", "C">>, Skip("missing_feature")), Text(b, Skip("bug")),
       List(<<"t", "D">>, <<Lines(<<Line({"w3"}, Since(AtLeast(V(1)))), Line(Star, Skip("bug"))>>)>>)>>,
     <<Text(<<"t">>, Skip("bug")),
       List(<<"t", "C">>, <<Lines(<<Line({"w1", "w2"}, Skip("missing_feature")), Line({"w3"}, Since(AtLeast(V(1))))>>)>>),
       Text(b, Since(AtLeast(V(3))))>>,
     <<List(<<"t", "C">>, <<[Plain("bug") EXCEPT !.component_version = Below(V(3)), !.weblog = {"w1"}],
                            Lines(<<Line({"w1", "w2"}, Skip("missing_feature"))>>)>>),
       List(b, <<Plain("missing_feature")>>),
       List(<<"t", "D">>, <<Lines(<<Line(Star, Skip("bug")), [Line({"w3"}, Since(AtLeast(V(1)))) EXCEPT !.anchor = TRUE]>>)>>)>>}

ParametricCase == {<<Text(<<"t", "C">>, Skip("missing_feature")), Text(b, Skip("bug"))>>}

SomeCases == CasesOf({"w1", "w2"}, Inlines, Reports) \cup CasesOf({"parametric-python"}, ParametricCase, Few)

\* The rule of a folder.
FolderCases == CasesOf({"w1"}, {<<Text(<<"t", "">>, Skip("bug"))>>}, Reports)

\* Two instances on which the code fails, WinsAreActivated and EditIsScoped (README,
\* section 6). Two entries, the first a weblog_declaration.
TwoEntries ==
    CasesOf({"w1"}, {<<List(<<"t", "C">>, <<Lines(<<Line({"w1"}, Skip("bug"))>>), Lines(<<Line({"w3"}, Skip("bug"))>>)>>)>>}, Few)

\* A feature that is missing from a version on.
RangeCases ==
    CasesOf({"w1"}, {<<List(<<"t", "C">>, <<[Plain("missing_feature") EXCEPT !.component_version = AtLeast(V(2)),
                                                !.excluded_weblog = {"w3"}]>>)>>}, Few)
=============================================================================

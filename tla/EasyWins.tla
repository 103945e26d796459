------------------------------ MODULE EasyWins ------------------------------
(***************************************************************************)
(* utils/scripts/activate_easy_wins: the nightly reports are read, and the  *)
(* manifest of a library is edited so that the tests that xpassed are       *)
(* enabled, from the tested version on and for the tested weblogs. The rules *)
(* that disable such a test are poked; below a poked rule, the tests that   *)
(* did not xpass get rules of their own. The manifest the edit starts from  *)
(* and the one it writes are those of module Manifest.                      *)
(*                                                                          *)
(* One library; its reports have one version per weblog. "missing_feature"  *)
(* stands for a declaration without details, the other values for one with  *)
(* details. Left out: comments, formatting, git branches, other libraries.  *)
(***************************************************************************)
EXTENDS Manifest, FiniteSets

CONSTANTS
    Owner,       \* node id |-> code owner
    Options,     \* code_owner (one of --split-co, or NoOwner), the excluded owners
                 \* (--exclude), and the nodes of skip.yml
    Parametric,  \* the weblogs of the parametric scenario
    Versions,    \* the versions a library may have
    Cases        \* instances: manifest, and the reports of each context

NoOwner == "no owner"
Library == "python"
Nodes   == DOMAIN Owner

ASSUME CasesAssumption ==
    \A k \in Cases : \A c, d \in DOMAIN k.reports : c.weblog = d.weblog => c = d

VARIABLES
    phase,       \* read, update, write, rules, pokes, done
    reports,     \* context [weblog, version] |-> the results [node, outcome] in order,
                 \* of the reports that are read (see ReadReports)
    options,     \* the options of the script
    manifest,    \* the manifest on disk when the script starts
    test_data,   \* context |-> TestData, for the contexts read so far
    updated,     \* contexts update_manifest has handled
    poked,       \* poked_views: pairs <<view, context>>
    added,       \* added_rules: triples <<rule, view, context>>
    todo,        \* the new rules, then the views, that are still to be written
    raw          \* raw_data: the manifest as edited so far

inputs == <<reports, options, manifest>>
vars   == <<phase, inputs, test_data, updated, poked, added, todo, raw>>

Contexts == DOMAIN reports

Init ==
    /\ \E k \in Cases :
          /\ manifest = k.manifest
          /\ reports = k.reports
    /\ options \in Options
    /\ phase = "read"
    /\ test_data = <<>>
    /\ updated = {} /\ poked = {} /\ added = {} /\ todo = {}
    /\ raw = manifest

-----------------------------------------------------------------------------
(* parse_artifact_data                                                     *)

NoData == [xpass |-> {}, xfail |-> {}, trie |-> <<>>]

Outcome(r) ==
    IF r.outcome = "xpassed" /\ Owner[r.node] \in options.excluded THEN "xfailed" ELSE r.outcome

\* The status of a directory, file or class.
Inner(previous, outcome) ==
    CASE outcome = "xpassed" -> IF previous \in {"xfail", "none"} THEN "none" ELSE "xpass"
      [] outcome \in {"xfailed", "skipped"} ->
            IF previous \in {"xpass", "pass", "none"} THEN "none" ELSE "xfail"
      [] outcome = "passed" -> IF previous \in {"xfail", "none"} THEN "none" ELSE "pass"
      [] OTHER -> previous

\* Fault: the last result of a test counts.
LeafIsLast(previous, outcome) ==
    IF outcome = "xpassed" THEN "xpass" ELSE Inner("absent", outcome)

\* The status of a test: once it xfailed, for any of its parameters, it stays so.
Leaf(previous, outcome) ==
    CASE outcome = "xpassed" -> IF previous # "absent" THEN previous ELSE "xpass"
      [] outcome \in {"xfailed", "skipped"} -> "xfail"
      [] OTHER -> Inner(previous, outcome)

Status(trie, key) == IF key \in DOMAIN trie THEN trie[key] ELSE "absent"

\* One test of a report. An outcome other than these five leaves the trie alone.
ReadTest(d, r) ==
    LET o == Outcome(r)
        new == [p \in {SubSeq(r.node, 1, i) : i \in DOMAIN r.node} |->
                  IF p = r.node THEN Leaf(Status(d.trie, p), o) ELSE Inner(Status(d.trie, p), o)]
        written == IF o \in {"xpassed", "xfailed", "skipped", "passed"} THEN DOMAIN new ELSE {}
    IN  [xpass |-> CASE r.node \in d.xfail -> d.xpass
                     [] o = "xpassed" /\ r.node \notin d.xfail -> d.xpass \cup {r.node}
                     [] OTHER -> d.xpass \ {r.node},
         xfail |-> IF o = "xpassed" THEN d.xfail ELSE d.xfail \cup {r.node},
         trie |-> [p \in DOMAIN d.trie \cup written |-> IF p \in written THEN new[p] ELSE d.trie[p]]]

\* The reports are read in the order of the directory, that is in any order. What
\* follows a report without a known library in its directory is not read at all,
\* and is not part of reports.
ReadReports(c) ==
    /\ phase = "read" /\ c \notin DOMAIN test_data
    /\ test_data' = [d \in DOMAIN test_data \cup {c} |->
                       IF d = c THEN FoldLeft(ReadTest, NoData, reports[c]) ELSE test_data[d]]
    /\ phase' = IF DOMAIN test_data' = Contexts THEN "update" ELSE "read"
    /\ UNCHANGED <<inputs, updated, poked, added, todo, raw>>

-----------------------------------------------------------------------------
(* update_manifest, for one context                                        *)

\* compute_edit_loc: the entry of a rule that the condition of number p, counted
\* from 0, is taken to come from.
EditLoc(entries, p) ==
    LET hidden(i) == FoldLeft(LAMBDA n, e : n + Len(e.lines), 0, SubSeq(entries, 1, i))
        hits == {i \in 0 .. Len(entries) - 1 : i - 1 + hidden(i) = p}
    IN  IF hits = {} THEN Len(entries) ELSE CHOOSE i \in hits : \A j \in hits : i <= j

\* get_matches
GetMatches(c, node) ==
    UNION {LET conditions == Conditions(m.component, m.entries)
           IN  {[rule |-> m.rule, condition |-> conditions[i], inline |-> m.inline,
                 index |-> IF m.inline THEN 1 ELSE EditLoc(m.entries, i - 1)] :
                  i \in {j \in DOMAIN conditions :
                           MatchCondition(conditions[j], [l \in {Library} |-> c.version], c.weblog)}} :
             m \in {x \in ToSet(manifest) : MatchRule(x.rule, node)}}

\* get_deactivation: from the rule down, the first nodes that xfailed as a whole.
\* A rule that is not a key of the trie has none (the KeyError is suppressed).
GetDeactivation(trie, rule) ==
    {p \in DOMAIN trie :
        /\ trie[p] = "xfail" /\ rule \in DOMAIN trie /\ IsPrefix(rule, p)
        /\ \A i \in Len(rule) .. Len(p) - 1 : trie[SubSeq(p, 1, i)] = "none"}

Activated(c) ==
    {n \in test_data[c].xpass \ options.skipped : options.code_owner \in {NoOwner, Owner[n]}}

\* poke and add_rules, for all the tests to activate.
UpdateManifest(c) ==
    /\ phase = "update" /\ c \notin updated
    /\ LET views == UNION {GetMatches(c, n) : n \in Activated(c)}
       IN  /\ poked' = poked \cup {<<v, c>> : v \in views}
           /\ added' = added \cup UNION {
                 {<<r, v, c>> : r \in GetDeactivation(test_data[c].trie, v.rule)} :
                    v \in {w \in views : w.condition.excluded_component_version = Never}}
    /\ updated' = updated \cup {c}
    /\ phase' = IF updated' = Contexts THEN "write" ELSE "update"
    /\ UNCHANGED <<inputs, test_data, todo, raw>>

-----------------------------------------------------------------------------
(* write                                                                   *)

\* Fault: the weblogs of the artifacts only.
ArtifactWeblogs(m) == {c.weblog : c \in Contexts}

\* component_weblogs: those of the artifacts and those the manifest names.
ComponentWeblogs(m) ==
    {c.weblog : c \in Contexts} \cup
    UNION {UNION {c.weblog \cup c.excluded_weblog : c \in ToSet(Conditions(x.component, x.entries))} :
             x \in ToSet(m)}

\* An arbitrary weblog tells whether the scenario is the parametric one.
AllWeblogs(weblogs, first) == weblogs = ComponentWeblogs(manifest) \/ first \in Parametric

At(m, rule) == {i \in DOMAIN m : m[i].rule = rule}

\* detect_skipped_views: entries with anchors are not edited.
Skipped(v) ==
    /\ ~v.inline
    /\ \E i \in At(manifest, v.rule) :
          \E l \in ToSet(manifest[i].entries[v.index].lines) : l.anchor

\* Fault: the new rule is not limited to the weblogs of its context.
SpecializeNot(condition, c) == [condition EXCEPT !.weblog = ComponentWeblogs(manifest)]

\* specialize
Specialize(condition, c) == [condition EXCEPT !.excluded_weblog = {}, !.weblog = {c.weblog}]

\* build_new_rules and compress_rules: the conditions of a rule that only differ
\* by their weblogs are one.
NewRules ==
    LET built == {<<a[1], Specialize(a[2].condition, a[3])>> : a \in {x \in added : ~Skipped(x[2])}}
        NoWeblogs(condition) == [condition EXCEPT !.weblog = {}]
    IN  {[rule |-> b[1],
          condition |-> [b[2] EXCEPT !.weblog = UNION {x[2].weblog : x \in {y \in built :
                            y[1] = b[1] /\ NoWeblogs(y[2]) = NoWeblogs(b[2])}}]] : b \in built}

StartWrite ==
    /\ phase = "write"
    /\ todo' = NewRules
    /\ phase' = "rules"
    /\ UNCHANGED <<inputs, test_data, updated, poked, added, raw>>

WeblogLines(weblogs, text) == [i \in 1 .. Cardinality(weblogs) |-> Line({SetToSeq(weblogs)[i]}, text)]
Plain(declaration) == [NoEntry EXCEPT !.declaration = declaration]

\* serialize_condition
SerializeCondition(c) ==
    CASE /\ c.weblog # {} /\ c.component_version # Always /\ c.declaration = "missing_feature"
            -> Lines(WeblogLines(c.weblog, Since(c.component_version)))
      [] c.weblog # {} /\ c.component_version = Always
            -> Lines(WeblogLines(c.weblog, Skip(c.declaration)))
      [] OTHER -> [Plain(c.declaration) EXCEPT !.component_version = c.component_version,
                                               !.weblog = c.weblog]

\* Two entries are the same, whatever the order of their lines.
Same(e, f) == [e EXCEPT !.lines = <<>>] = [f EXCEPT !.lines = <<>>] /\ ToSet(e.lines) = ToSet(f.lines)

\* sanitize_original
Sanitized(m) ==
    LET text == m.entries[1].lines[1].text
    IN  IF m.inline /\ text.value # "" THEN <<Plain(text.value)>> ELSE m.entries

\* compress_output: a declaration alone is written inline.
CompressOutput(rule, entries) ==
    IF Len(entries) = 1 /\ entries[1] = Plain(entries[1].declaration)
    THEN [component |-> Library, rule |-> rule, inline |-> TRUE,
          entries |-> <<Inline(Skip(entries[1].declaration))>>]
    ELSE [component |-> Library, rule |-> rule, inline |-> FALSE, entries |-> entries]

\* build_manifest_entry, into the manifest m.
BuildManifestEntry(m, rule, condition) ==
    LET here == At(m, rule)
        e == SerializeCondition(condition)
        old == IF here = {} THEN <<>> ELSE Sanitized(m[CHOOSE i \in here : TRUE])
        new == CompressOutput(rule, IF \E f \in ToSet(old) : Same(e, f) THEN old ELSE Append(old, e))
    IN  IF here = {} THEN Append(m, new) ELSE [i \in DOMAIN m |-> IF i \in here THEN new ELSE m[i]]

\* write_new_rules, in the order of a set.
WriteNewRule(r) ==
    /\ phase = "rules" /\ r \in todo
    /\ \E first \in r.condition.weblog :
          raw' = BuildManifestEntry(raw, r.rule,
                    IF AllWeblogs(r.condition.weblog, first) THEN [r.condition EXCEPT !.weblog = {}]
                    ELSE r.condition)
    /\ todo' = todo \ {r}
    /\ UNCHANGED <<phase, inputs, test_data, updated, poked, added>>

RulesWritten ==
    /\ phase = "rules" /\ todo = {}
    /\ todo' = {p[1] : p \in poked}
    /\ phase' = "pokes"
    /\ UNCHANGED <<inputs, test_data, updated, poked, added, raw>>

\* A line that lists several weblogs gives up the one that is activated; what is
\* left of it replaces a line for the same weblogs.
SplitLine(lines, weblog) ==
    LET shared(l) == weblog \in l.weblogs /\ Cardinality(l.weblogs) > 1
        split == SelectSeq(lines, shared)
        rest == [i \in DOMAIN split |-> [split[i] EXCEPT !.weblogs = @ \ {weblog}]]
        kept(l) == ~shared(l) /\ \A i \in DOMAIN rest : rest[i].weblogs # l.weblogs
    IN  SelectSeq(lines, kept) \o rest

\* weblog_declaration[weblog] = "v..."
ActivateLine(lines, weblog, version) ==
    LET split == SplitLine(lines, weblog)
    IN  Append(SelectSeq(split, LAMBDA l : l.weblogs # {weblog}), Line({weblog}, Since(AtLeast(version))))

\* What replaces an inline declaration.
EditInline(m, d, weblogs, version, all) ==
    CASE d = "missing_feature" /\ all ->
            [m EXCEPT !.entries = <<Inline(Since(AtLeast(version)))>>]
      [] d = "missing_feature" /\ ~all ->
            [m EXCEPT !.inline = FALSE,
                      !.entries = <<Lines(<<Line(Star, Skip(d))>> \o WeblogLines(weblogs, Since(AtLeast(version))))>>]
      [] d # "missing_feature" /\ all ->
            [m EXCEPT !.inline = FALSE,
                      !.entries = <<[Plain(d) EXCEPT !.component_version = Below(version)]>>]
      [] OTHER ->
            [m EXCEPT !.inline = FALSE,
                      !.entries = <<[Plain(d) EXCEPT !.component_version = Below(version), !.weblog = weblogs],
                                    [Plain(d) EXCEPT !.excluded_weblog = weblogs]>>]

\* A declared version or an anchor only gets a comment.
OnlyCommented(v) == Skipped(v) \/ v.condition.excluded_component_version # Never

\* The edit of the rule m a view belongs to; so does an entry with conditions, and
\* an entry that the new rules made inline.
Edit(m, v, weblogs, version, all) ==
    CASE OnlyCommented(v) -> m
      [] ~OnlyCommented(v) /\ v.inline -> EditInline(m, v.condition.declaration, weblogs, version, all)
      [] OTHER ->
            IF m.inline \/ m.entries[v.index].lines = <<>> THEN m
            ELSE [m EXCEPT !.entries[v.index].lines =
                    FoldSet(LAMBDA w, lines : ActivateLine(lines, w, version), @, weblogs)]

\* write_poke, in the order of a dict; compress_pokes takes the version of one of
\* the contexts.
WritePoke(v) ==
    /\ phase = "pokes" /\ v \in todo
    /\ LET contexts == {p[2] : p \in {x \in poked : x[1] = v}}
           weblogs == {c.weblog : c \in contexts}
       IN  \E first \in contexts :
             raw' = [i \in DOMAIN raw |->
                       IF raw[i].rule = v.rule
                       THEN Edit(raw[i], v, weblogs, first.version, AllWeblogs(weblogs, first.weblog))
                       ELSE raw[i]]
    /\ todo' = todo \ {v}
    /\ UNCHANGED <<phase, inputs, test_data, updated, poked, added>>

PokesWritten ==
    /\ phase = "pokes" /\ todo = {}
    /\ phase' = "done"
    /\ UNCHANGED <<inputs, test_data, updated, poked, added, todo, raw>>

Next ==
    \/ \E c \in Contexts : ReadReports(c) \/ UpdateManifest(c)
    \/ StartWrite
    \/ \E r \in todo : WriteNewRule(r)
    \/ RulesWritten
    \/ \E v \in todo : WritePoke(v)
    \/ PokesWritten

Spec == Init /\ [][Next]_vars

-----------------------------------------------------------------------------
(* Properties, of the manifest that is written.                            *)

Off(m, version, weblog, node) ==
    GetDeclarations(m, [l \in {Library} |-> version], weblog, node) # <<>>

Results(c, node) == {Outcome(r) : r \in {x \in ToSet(reports[c]) : x.node = node}}

\* The weblogs that the reports or the manifest name.
Known ==
    {c.weblog : c \in Contexts} \cup
    UNION {UNION {e.weblog \cup e.excluded_weblog \cup Listed(e.lines) : e \in ToSet(m.entries)} :
             m \in ToSet(manifest)}

\* A test that was disabled and that failed or was skipped, for any of its
\* parameters, or whose owner is excluded, is still disabled where that happened,
\* whatever became of its siblings and of the other weblogs.
StaysDeactivated ==
    phase = "done" =>
        \A c \in Contexts : \A n \in Nodes :
            (Results(c, n) \cap {"xfailed", "skipped"} # {} /\ Off(manifest, c.version, c.weblog, n))
              => Off(raw, c.version, c.weblog, n)

\* Nothing that was enabled is disabled by the edit, at any version and for any
\* weblog that the manifest or the reports know. And a test is enabled only where a
\* test under one of its rules xpassed: for that weblog, and from the tested version
\* on. (A parametric report speaks for all.)
EditIsScoped ==
    phase = "done" =>
        \A n \in Nodes, v \in Versions, w \in Known :
            /\ Off(raw, v, w, n) => Off(manifest, v, w, n)
            /\ (Off(manifest, v, w, n) /\ ~Off(raw, v, w, n)) =>
                \E c \in Contexts : \E x \in Activated(c) :
                    /\ c.weblog \in Parametric \cup {w} /\ ~Before(v, c.version)
                    /\ \E m \in ToSet(manifest) : MatchRule(m.rule, n) /\ MatchRule(m.rule, x)

\* What disables a test in a context can be edited: an inline declaration, or the
\* line of a weblog_declaration without anchors.
Editable(e, c) ==
    /\ e.lines # <<>>
    /\ \A l \in ToSet(e.lines) : ~l.anchor
    /\ \A i \in Speaking(e.lines, c.weblog) :
          e.lines[i].text.value = "" => InRange(e.lines[i].text.range, c.version)

\* A test that only xpassed in a context, that is not listed in skip.yml and whose
\* owner is asked for, is enabled there, if all that disables it can be edited.
WinsAreActivated ==
    phase = "done" =>
        \A c \in Contexts : \A n \in Nodes \ options.skipped :
            (/\ Results(c, n) = {"xpassed"}
             /\ options.code_owner \in {NoOwner, Owner[n]}
             /\ \A m \in ToSet(manifest) : MatchRule(m.rule, n) =>
                   \A e \in ToSet(m.entries) :
                       Reasons(e, c.version, c.weblog) # {} => Editable(e, c))
              => ~Off(raw, c.version, c.weblog, n)
=============================================================================

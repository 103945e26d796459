------------------------------ MODULE Manifest ------------------------------
(***************************************************************************)
(* The manifests of utils/manifest: which declarations (bug, flaky, ...)   *)
(* apply to a test, for the versions of the components and the weblog under *)
(* test. The rules of a manifest are parsed into conditions, the conditions *)
(* that match the context are kept, and a test collects the declarations    *)
(* of every rule that is a prefix of its node id.                           *)
(*                                                                          *)
(* A node id, or a rule, is the sequence of its elements (directories, file, *)
(* class, method); the rule of a folder may end with a "/", that is with an  *)
(* empty element. A version is <<major, minor, patch, stage>>, the stage      *)
(* being 1 for a release and 0 for its pre-releases.                        *)
(***************************************************************************)
EXTENDS Integers, Sequences, SequencesExt

Values   == {"bug", "flaky", "incomplete_test_app", "irrelevant", "missing_feature"}
NoWeblog == "no_weblog"
Names    == STRING    \* of directories, files, classes and methods
Empty    == ""

-----------------------------------------------------------------------------
(* SemverRange: a set of alternatives, each a set of comparisons.          *)

Before(v, w) ==
    \E i \in 1 .. 4 : v[i] < w[i] /\ \A j \in 1 .. i - 1 : v[j] = w[j]

Holds(op, v, w) ==
    CASE op = ">=" -> ~Before(v, w)
      [] op = "<"  -> Before(v, w)

InRange(range, v) == \E group \in range : \A c \in group : Holds(c.op, v, c.target)

Never     == {}
Always    == {{}}
AtLeast(v) == {{[op |-> ">=", target |-> v]}}
Below(v)   == {{[op |-> "<", target |-> v]}}

\* What comes after the versions that npm takes for compatible with v: the next
\* major, or minor or patch as long as what is before it is 0. The bound becomes
\* the first pre-release (-0) of that version.
NextIncompatible(v) ==
    CASE v[1] # 0 -> <<v[1] + 1, 0, 0, -1>>
      [] v[1] = 0 /\ v[2] # 0 -> <<0, v[2] + 1, 0, -1>>
      [] v[1] = 0 /\ v[2] = 0 -> <<0, 0, v[3] + 1, -1>>

\* ^v, with its three numbers written.
Caret(v) == {{[op |-> ">=", target |-> v], [op |-> "<", target |-> NextIncompatible(v)]}}

-----------------------------------------------------------------------------
(* The raw manifest. What is written after a node id is an inline text (a    *)
(* declaration or a range of versions) or a list of entries; an entry is a   *)
(* declaration with conditions, or a weblog_declaration: a list of weblogs,  *)
(* or "*", with an inline text each. An inline text alone is written here as *)
(* the weblog_declaration of "*". A line may name its weblogs by an anchor.  *)

Star     == {"*"}
Skip(d)  == [value |-> d, range |-> Never]     \* bug (ABC-123), irrelevant...
Since(r) == [value |-> "", range |-> r]        \* v1.2.3, ^1.2 || >=2.3

NoEntry  == [lines |-> <<>>, declaration |-> "", component_version |-> Always,
             excluded_component_version |-> Never, weblog |-> {}, excluded_weblog |-> {}]
Line(ws, t) == [weblogs |-> ws, text |-> t, anchor |-> FALSE]
Lines(s)    == [NoEntry EXCEPT !.lines = s]
Inline(t)   == Lines(<<Line(Star, t)>>)

\* process_inline: an absent field is the one that excludes nothing.
ProcessInline(component, text) ==
    [component |-> component,
     declaration |-> IF text.value # "" THEN text.value ELSE "missing_feature",
     component_version |-> Always,
     excluded_component_version |-> text.range,
     weblog |-> {}, excluded_weblog |-> {}]

\* Fault: "*" stands for every weblog, the listed ones too.
ListedNone(lines) == {}

\* The weblogs that have a line of their own.
Listed(lines) == (UNION {lines[i].weblogs : i \in DOMAIN lines}) \ Star

\* FieldProcessor.weblog_declaration
WeblogDeclaration(component, lines) ==
    [i \in DOMAIN lines |->
        LET c == ProcessInline(component, lines[i].text)
        IN  IF lines[i].weblogs = Star THEN [c EXCEPT !.excluded_weblog = Listed(lines)]
            ELSE [c EXCEPT !.weblog = lines[i].weblogs]]

\* cast_to_condition
CastToCondition(component, e) ==
    [component |-> component, declaration |-> e.declaration,
     component_version |-> e.component_version,
     excluded_component_version |-> e.excluded_component_version,
     weblog |-> e.weblog, excluded_weblog |-> e.excluded_weblog]

\* The conditions of one rule of one file (_load_file).
Conditions(component, entries) ==
    FlattenSeq([i \in DOMAIN entries |->
        IF entries[i].lines # <<>> THEN WeblogDeclaration(component, entries[i].lines)
        ELSE <<CastToCondition(component, entries[i])>>])

-----------------------------------------------------------------------------
(* Matching.                                                               *)

\* match_condition. Without a weblog, the conditions on weblogs do not count.
MatchCondition(c, versions, weblog) ==
    /\ c.component \in DOMAIN versions
    /\ InRange(c.component_version, versions[c.component])
    /\ ~InRange(c.excluded_component_version, versions[c.component])
    /\ c.weblog = {} \/ weblog = NoWeblog \/ weblog \in c.weblog
    /\ weblog \notin c.excluded_weblog

\* rule.strip("/")
Strip(rule) == IF rule # <<>> /\ Last(rule) = Empty THEN Front(rule) ELSE rule

\* match_rule; the parameters of the test are not part of its path.
MatchRule(rule, path) == IsPrefix(Strip(rule), path)

\* get_rules: the declarations of the conditions that match, of one rule.
GetRules(rule, versions, weblog) ==
    LET conditions == Conditions(rule.component, rule.entries)
    IN  FlattenSeq([i \in DOMAIN conditions |->
            IF MatchCondition(conditions[i], versions, weblog)
            THEN <<conditions[i].declaration>> ELSE <<>>])

\* get_declarations, for a manifest given as the sequence of its raw rules
\* [component, rule, inline, entries] in the order they are loaded.
GetDeclarations(manifest, versions, weblog, path) ==
    FlattenSeq([i \in DOMAIN manifest |->
        IF MatchRule(manifest[i].rule, path)
        THEN GetRules(manifest[i], versions, weblog) ELSE <<>>])

-----------------------------------------------------------------------------
(* What the format of the manifests guarantees: a text is a declaration or a *)
(* range, a line names a weblog, and an entry without lines a declaration.   *)

IsSequence(s) == s \in Seq(ToSet(s))
IsText(text)  == text.value \in Values \cup {""} /\ (text.value # "" => text.range = Never)
IsLine(line)  == line.weblogs # {} /\ NoWeblog \notin line.weblogs /\ IsText(line.text)

IsEntry(e) ==
    /\ IsSequence(e.lines) /\ \A line \in ToSet(e.lines) : IsLine(line)
    /\ e.lines = <<>> => e.declaration \in Values
    /\ NoWeblog \notin e.excluded_weblog

IsManifest(manifest) ==
    /\ IsSequence(manifest)
    /\ \A m \in ToSet(manifest) :
          /\ IsSequence(m.entries) /\ \A e \in ToSet(m.entries) : IsEntry(e)
          /\ m.rule \in Seq(Names) /\ Empty \notin ToSet(Strip(m.rule))

-----------------------------------------------------------------------------
(* What the authors of a manifest mean, read off the raw entries.          *)

\* Two versions agree up to the first number of v that is not 0.
SameLine(v, w) == \A i \in 1 .. 3 : (\A j \in 1 .. i - 1 : v[j] = 0) => w[i] = v[i]

\* The lines of a weblog_declaration that speak for a weblog: its own, or "*".
Speaking(lines, weblog) ==
    LET own == {i \in DOMAIN lines : weblog \in lines[i].weblogs}
    IN  CASE weblog = NoWeblog -> DOMAIN lines
          [] own # {} -> own
          [] OTHER -> {i \in DOMAIN lines : lines[i].weblogs = Star}

\* The reasons for which an entry disables a test.
Reasons(e, version, weblog) ==
    IF e.lines = <<>>
    THEN {d \in {e.declaration} :
            /\ InRange(e.component_version, version)
            /\ ~InRange(e.excluded_component_version, version)
            /\ weblog = NoWeblog \/ ((e.weblog = {} \/ weblog \in e.weblog)
                                       /\ weblog \notin e.excluded_weblog)}
    ELSE {IF e.lines[i].text.value = "" THEN "missing_feature" ELSE e.lines[i].text.value :
            i \in {j \in Speaking(e.lines, weblog) :
                     e.lines[j].text.value # "" \/ ~InRange(e.lines[j].text.range, version)}}

\* The reasons of all levels: none of them overrides another.
Written(manifest, versions, weblog, path) ==
    UNION {UNION {Reasons(e, versions[m.component], weblog) : e \in ToSet(m.entries)} :
             m \in {x \in ToSet(manifest) :
                      /\ x.component \in DOMAIN versions
                      /\ \A k \in DOMAIN x.rule :
                            x.rule[k] = Empty \/ (k \in DOMAIN path /\ x.rule[k] = path[k])}}
=============================================================================

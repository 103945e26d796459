----------------------------- MODULE TestSession -----------------------------
(***************************************************************************)
(* What pytest does with the tests of a session, in conftest.py: markers   *)
(* from the manifests and the decorators, selection for the scenario, the  *)
(* setup methods of all tests before the first test runs, the tests, the   *)
(* status of each in the reports, and the exit status. A session may be    *)
(* replayed: the setups are not called, what they left on their test is    *)
(* read from setup_properties.json; the manifests and the options may have *)
(* been edited in between. The containers of the session are the subject   *)
(* of DockerScenario. Left out: xdist workers, -o xfail_strict, and the    *)
(* modes that run no test.                                                 *)
(***************************************************************************)
EXTENDS Manifest, FiniteSets

CONSTANTS
    Tests,       \* test number |-> path, param (0: none), decorators (own and of
                 \* the class: declarations), slow, auxiliary, scenarios, setup,
                 \* leaves (forms of what the setup leaves), recorded (below a
                 \* directory whose conftest.py knows --generate-cassettes)
    Manifests,   \* the manifests a session may find
    Versions,    \* versions of the library under test
    Weblogs,     \* weblogs under test
    Forced,      \* the sets of tests that -F may force
    Scenario,    \* the scenario of the session
    MaxSessions  \* bound: number of sessions

Library == "python"
NodeIds == DOMAIN Tests

ASSUME NodeIdsAssumption == NodeIds \subseteq Nat /\ IsFiniteSet(NodeIds)
ASSUME TestsAssumption ==
    \A t \in NodeIds : Tests[t].own \in Seq(Values) /\ Tests[t].class \in Seq(Values)
\* The name of a test with parameters has no setup_ counterpart.
ASSUME SetupAssumption == \A t \in NodeIds : Tests[t].param # 0 => ~Tests[t].setup
ASSUME ManifestsAssumption == \A m \in Manifests : IsManifest(m)
ASSUME PathAssumption == \A t \in NodeIds : Tests[t].path \in Seq(Names)
ASSUME WeblogsAssumption == "*" \notin Weblogs
\* major, minor, patch and stage: 1 for a release, 0 for what comes before it
ASSUME VersionsAssumption == Versions \subseteq Nat \X Nat \X Nat \X {0, 1}
ASSUME LeavesAssumption == \A t \in NodeIds : Tests[t].leaves \subseteq {"plain", "object", "tuple", "other"}
ASSUME ForcedAssumption == Forced \subseteq SUBSET NodeIds

VARIABLES
    phase,     \* configure, collect, setups, tests, finished
    replay,    \* the session is a replay
    sessions,  \* number of sessions so far
    world,     \* manifest, versions and weblog of the session
    options,   \* -F, --skip-empty-scenario and --generate-cassettes
    declared,  \* the declaration markers of each test, the closest first
    marks,     \* the markers skip and xfail of each test, as pytest sees them
    items,     \* the selected tests
    todo,      \* those that the current loop has yet to handle, in order
    attrs,     \* the properties on the instance of each test (Nothing: none)
    store,     \* setup_properties._store
    file,      \* setup_properties.json: none, partial or whole, and its content
    status,    \* the final statuses pushed for each test
    outcome,   \* the outcomes pytest reports for each test
    exit,      \* exit status
    junit,     \* the rewritten junit report: cases, tests, skipped
    touched,   \* history: tests of this session whose setup or body was called
    teardown,  \* history: tests whose fixtures failed on the way out
    skipping,  \* history: tests one of whose fixtures called pytest.skip
    setUp      \* history: properties left by the setups of the last run

config  == <<replay, sessions, world, options>>
marking == <<declared, marks, items>>
results == <<status, outcome, teardown, skipping>>
reports == <<exit, junit>>
props   == <<attrs, store, file>>
vars    == <<phase, config, marking, todo, props, results, reports, touched, setUp>>

\* Properties: the test whose setup left them, and their form. A plain value and
\* an object of a known class (a response, a set) are read back as they were, a
\* tuple (or a key that is no string) as something else, any other can't be written.
Nothing == [of |-> 0, form |-> "plain"]
None    == [t \in NodeIds |-> Nothing]
NoMarks == [t \in NodeIds |-> {}]
NoLists == [t \in NodeIds |-> <<>>]
NoJunit == [cases |-> {}, tests |-> 0, skipped |-> 0]
Path(t) == Tests[t].path
Loop    == todo # {}
Current == Min(todo)

\* A new process: nothing is marked, no instance has properties.
Fresh ==
    /\ declared = NoLists /\ marks = NoMarks /\ items = {} /\ todo = {}
    /\ attrs = None /\ store = None
    /\ status = NoLists /\ outcome = NoLists /\ teardown = {} /\ skipping = {}
    /\ exit = "none" /\ junit = NoJunit /\ touched = {}

Worlds  == [manifest : Manifests, versions : [{Library} -> Versions], weblog : Weblogs]
Options == [forced : Forced, skipEmpty : BOOLEAN, cassettes : BOOLEAN]

\* A run empties the log folder before anything else.
Init ==
    /\ phase = "collect"
    /\ Fresh
    /\ replay = FALSE
    /\ sessions = 1
    /\ world \in Worlds
    /\ options \in Options
    /\ file = [state |-> "none", content |-> None]
    /\ setUp = None

-----------------------------------------------------------------------------
(* pytest_collection_modifyitems                                           *)

Declared(t) ==
    Tests[t].own \o GetDeclarations(world.manifest, world.versions, world.weblog, Path(t))
                 \o Tests[t].class

\* add_pytest_marker
Marker(d) == IF d \in {"irrelevant", "flaky"} THEN "skip" ELSE "xfail"

\* @slow and @scenario_crash: a declaration of any kind becomes a skip.
SkipIfXfail(t, ds) == IF Tests[t].slow /\ ds # <<>> THEN {"skip"} ELSE {}

\* The markers of a test, its own and those of its class; -F hides them.
Marks(t) ==
    LET ds == Declared(t)
    IN  IF t \in options.forced THEN {}
        ELSE {Marker(d) : d \in ToSet(ds)} \cup SkipIfXfail(t, ds)

\* Explicit scenarios of the test come before those of its class.
DeclaredScenarios(t) ==
    CASE Tests[t].scenarios # {} -> Tests[t].scenarios
      [] Tests[t].scenarios = {} /\ Tests[t].classScenarios # {} -> Tests[t].classScenarios
      [] OTHER -> {"DEFAULT"}

\* _item_must_pass
MustPass(t) == Marks(t) = {} /\ ~Tests[t].auxiliary

Selected == {t \in NodeIds : Scenario \in DeclaredScenarios(t)}

Collect ==
    /\ phase = "collect"
    /\ declared' = [t \in NodeIds |-> Declared(t)]
    /\ marks' = [t \in NodeIds |-> IF t \in Selected THEN Marks(t) ELSE {}]
    /\ items' = IF options.skipEmpty /\ ~\E t \in Selected : MustPass(t) THEN {} ELSE Selected
    /\ todo' = items'
    /\ phase' = "setups"
    /\ UNCHANGED <<config, props, results, reports, touched, setUp>>

-----------------------------------------------------------------------------
(* pytest_collection_finish: the setups, or what they left, test by test.  *)

\* _PropertiesEncoder: an object becomes a dictionary that names its class.
Encode(v) ==
    CASE v.form = "object" -> [v EXCEPT !.form = "tagged"]
      [] v.form = "tuple"  -> [v EXCEPT !.form = "plain"]
      [] OTHER -> v

\* _PropertiesDecoder
Decode(v) == IF v.form = "tagged" THEN [v EXCEPT !.form = "object"] ELSE v
Decoded   == [t \in NodeIds |-> Decode(file.content[t])]

\* The properties are read before the first test.
LoadProperties ==
    /\ phase = "setups" /\ replay /\ file.state = "whole" /\ store # Decoded
    /\ store' = Decoded
    /\ UNCHANGED <<phase, config, marking, todo, attrs, file, results, reports, touched, setUp>>

Loaded == ~replay \/ (file.state = "whole" /\ store = Decoded)

\* The run could not write them all: what there is can not be parsed.
LoadRaises ==
    /\ phase = "setups" /\ replay /\ file.state = "partial"
    /\ phase' = "finished"
    /\ exit' = "internal_error"
    /\ UNCHANGED <<config, marking, todo, props, results, junit, touched, setUp>>

\* pytest.exit when the run wrote none
NoProperties ==
    /\ phase = "setups" /\ replay /\ file.state = "none"
    /\ phase' = "finished"
    /\ exit' = "interrupted"
    /\ UNCHANGED <<config, marking, todo, props, results, junit, touched, setUp>>

\* _item_is_skipped: the status is known.
SkipSetup ==
    /\ phase = "setups" /\ Loaded /\ Loop /\ "skip" \in marks[Current]
    /\ status' = [status EXCEPT ![Current] = Append(@, "skip")]
    /\ todo' = todo \ {Current}
    /\ UNCHANGED <<phase, config, marking, props, outcome, teardown, skipping, reports, touched, setUp>>

HasNoSetup ==
    /\ phase = "setups" /\ Loaded /\ Loop /\ "skip" \notin marks[Current]
    /\ ~Tests[Current].setup
    /\ todo' = todo \ {Current}
    /\ UNCHANGED <<phase, config, marking, props, results, reports, touched, setUp>>

SetsUp == phase = "setups" /\ Loaded /\ Loop /\ "skip" \notin marks[Current] /\ Tests[Current].setup

\* Fault: properties are filed under the class of the test.
FiledByClass(t) == CHOOSE u \in NodeIds : Front(Path(u)) = Front(Path(t))

\* The key of a test in the store: its node id.
Filed(t) == t

\* The setup leaves properties of its own on its instance; they are stored.
CallSetup ==
    /\ SetsUp /\ ~replay
    /\ \E form \in Tests[Current].leaves :
         LET v == [of |-> Current, form |-> form]
         IN  /\ attrs' = [attrs EXCEPT ![Current] = v]
             /\ store' = [store EXCEPT ![Filed(Current)] = v]
             /\ setUp' = [setUp EXCEPT ![Current] = v]
    /\ touched' = touched \cup {Current}
    /\ todo' = todo \ {Current}
    /\ UNCHANGED <<phase, config, marking, file, results, reports>>

\* close_targets, and the exception ends the session.
SetupRaises ==
    /\ SetsUp /\ ~replay
    /\ touched' = touched \cup {Current}
    /\ phase' = "finished"
    /\ exit' = "internal_error"
    /\ UNCHANGED <<config, marking, todo, props, results, junit, setUp>>

RestoreProperties ==
    /\ SetsUp /\ replay
    /\ attrs' = [attrs EXCEPT ![Current] = store[Filed(Current)]]
    /\ todo' = todo \ {Current}
    /\ UNCHANGED <<phase, config, marking, store, file, results, reports, touched, setUp>>

Dumpable == \A t \in NodeIds : store[t].form # "other"

\* json.dump raises in the middle of the file, and the exception ends the session.
DumpRaises ==
    /\ phase = "setups" /\ ~replay /\ ~Loop /\ ~Dumpable
    /\ file' = [state |-> "partial", content |-> None]
    /\ phase' = "finished"
    /\ exit' = "internal_error"
    /\ UNCHANGED <<config, marking, todo, attrs, store, results, junit, touched, setUp>>

\* dump, then post_setup
SetupsDone ==
    /\ phase = "setups" /\ Loaded /\ ~Loop /\ (replay \/ Dumpable)
    /\ file' = IF replay THEN file
               ELSE [state |-> "whole", content |-> [t \in NodeIds |-> Encode(store[t])]]
    /\ phase' = "tests"
    /\ todo' = items
    /\ UNCHANGED <<config, marking, attrs, store, results, reports, touched, setUp>>

-----------------------------------------------------------------------------
(* The tests. What pytest makes of a marker is external: a skipped test is *)
(* not called; an exception of a test that is expected to fail is xfailed, *)
(* whichever step raised it, and its success is xpassed.                   *)

Pytest(t, result) ==
    IF "xfail" \in marks[t]
    THEN CASE result = "passed" -> "xpassed" [] result = "skipped" -> "skipped"
           [] OTHER -> "xfailed"
    ELSE result

\* _set_outcome_properties
FinalStatus(o) ==
    CASE o \in {"passed", "xpassed"} -> "pass"
      [] o \in {"failed", "error"} -> "fail"
      [] o \in {"skipped", "xfailed"} -> "skip"

TestIsSkipped ==
    /\ phase = "tests" /\ Loop /\ "skip" \in marks[Current]
    /\ outcome' = [outcome EXCEPT ![Current] = Append(@, "skipped")]
    /\ todo' = todo \ {Current}
    /\ UNCHANGED <<phase, config, marking, props, status, teardown, skipping, reports, touched, setUp>>

Runs == phase = "tests" /\ Loop /\ "skip" \notin marks[Current]

\* Fault: a failing fixture is an error, even of a test that is expected to fail.
FixtureAlwaysError(t) == "error"

\* pytest_fixture_setup, which does not look at what was raised
FixtureOutcome(t) == IF "xfail" \in marks[t] THEN "xfailed" ELSE "error"

\* Where cassettes are generated, the report of a failure on the way in or of the
\* call becomes a skip, once the status of the test has been pushed.
Generates(t) == options.cassettes /\ Tests[t].recorded
Shown(t, o)  == IF Generates(t) /\ o \in {"failed", "error"} THEN "skipped" ELSE o

\* A fixture raises: an error, or pytest.skip.
FixtureFails(result) ==
    /\ Runs
    /\ status' = [status EXCEPT ![Current] = Append(@, FinalStatus(FixtureOutcome(Current)))]
    /\ outcome' = [outcome EXCEPT ![Current] = Append(@, Shown(Current, Pytest(Current, result)))]
    /\ skipping' = IF result = "skipped" THEN skipping \cup {Current} ELSE skipping
    /\ todo' = todo \ {Current}
    /\ UNCHANGED <<phase, config, marking, props, teardown, reports, touched, setUp>>

\* A fixture calls pytest.exit, or is interrupted: its test has a status, and no report.
FixtureExits ==
    /\ Runs
    /\ status' = [status EXCEPT ![Current] = Append(@, FinalStatus(FixtureOutcome(Current)))]
    /\ phase' = "finished"
    /\ exit' = "interrupted"
    /\ UNCHANGED <<config, marking, todo, props, outcome, teardown, skipping, junit, touched, setUp>>

\* pytest_runtest_makereport: the call only; a failure of the fixtures on the
\* way out is a report of its own.
RunTest(result) ==
    /\ Runs
    /\ LET o == Pytest(Current, result)
       IN  /\ status' = [status EXCEPT ![Current] = Append(@, FinalStatus(o))]
           /\ \/ /\ outcome' = [outcome EXCEPT ![Current] = Append(@, Shown(Current, o))]
                 /\ UNCHANGED teardown
              \/ /\ outcome' = [outcome EXCEPT ![Current] =
                                   @ \o <<Shown(Current, o), Pytest(Current, "error")>>]
                 /\ teardown' = teardown \cup {Current}
    /\ touched' = touched \cup {Current}
    /\ todo' = todo \ {Current}
    /\ UNCHANGED <<phase, config, marking, props, skipping, reports, setUp>>

-----------------------------------------------------------------------------
(* pytest_sessionfinish                                                    *)

Has(t, o) == o \in ToSet(outcome[t])
Reported  == {t \in NodeIds : outcome[t] # <<>>}

\* The exit status of pytest; an empty scenario that was meant to be skipped is
\* a success.
ExitStatus ==
    CASE items = {} -> IF options.skipEmpty THEN "ok" ELSE "no_tests"
      [] \E t \in Reported : Has(t, "failed") \/ Has(t, "error") -> "failed"
      [] OTHER -> "ok"

\* Fault: the first declaration found is exposed.
ExposedFirst(t) == IF declared[t] = <<>> THEN "" ELSE Head(declared[t])

\* _collect_item_metadata: an irrelevant one if there is any, else the closest.
Exposed(t) ==
    CASE declared[t] = <<>> -> ""
      [] "irrelevant" \in ToSet(declared[t]) -> "irrelevant"
      [] OTHER -> Head(declared[t])

\* The irrelevant tests leave the junit report, and its counts. (pytest counts a
\* test once, apart from those whose fixtures fail on the way out.)
Rewritten ==
    LET gone == {t \in Reported : Exposed(t) = "irrelevant"}
        skipped == {t \in Reported : Has(t, "skipped") \/ Has(t, "xfailed")}
    IN  [cases |-> Reported \ gone,
         tests |-> Cardinality(Reported) - Cardinality(gone),
         skipped |-> Cardinality(skipped) - Cardinality(gone)]

Finish ==
    /\ phase = "tests" /\ ~Loop
    /\ exit' = ExitStatus
    /\ junit' = IF replay THEN NoJunit ELSE Rewritten
    /\ phase' = "finished"
    /\ UNCHANGED <<config, marking, todo, props, results, touched, setUp>>

\* Another process replays the session, with other manifests or options perhaps.
Replay ==
    /\ phase = "finished" /\ sessions < MaxSessions
    /\ sessions' = sessions + 1
    /\ replay' = TRUE
    /\ \E m \in Manifests : world' = [world EXCEPT !.manifest = m]
    /\ \E f \in Forced : options' = [options EXCEPT !.forced = f]
    /\ phase' = "collect"
    /\ declared' = NoLists /\ marks' = NoMarks /\ items' = {} /\ todo' = {}
    /\ attrs' = None /\ store' = None /\ UNCHANGED file
    /\ status' = NoLists /\ outcome' = NoLists /\ teardown' = {} /\ skipping' = {}
    /\ exit' = "none" /\ junit' = NoJunit /\ touched' = {}
    /\ UNCHANGED setUp

Next ==
    \/ Collect \/ LoadProperties \/ LoadRaises \/ NoProperties
    \/ SkipSetup \/ HasNoSetup \/ CallSetup \/ SetupRaises \/ RestoreProperties
    \/ DumpRaises \/ SetupsDone
    \/ TestIsSkipped \/ FixtureExits
    \/ \E result \in {"error", "skipped"} : FixtureFails(result)
    \/ \E result \in {"passed", "failed", "skipped"} : RunTest(result)
    \/ Finish \/ Replay

Spec == Init /\ [][Next]_vars

-----------------------------------------------------------------------------
(* Properties. Whether a test is disabled is read off the raw manifests and *)
(* the decorators, not off the markers.                                    *)

Why(t) ==
    Written(world.manifest, world.versions, world.weblog, Path(t))
      \cup ToSet(Tests[t].own) \cup ToSet(Tests[t].class)

Disabled(t) == Why(t) # {} /\ t \notin options.forced

\* A test gets the declarations its entries mean, at every version and for every
\* weblog: a line for a weblog replaces the line for "*", levels add up, and what
\* is written for one weblog or version leaves the others alone. In particular
\* ^1.3.0, which the manifests use for features that were backported, is the rest of
\* major 1: the pre-releases of 2.0.0 are part of 2, those of 1.3.0 come before it;
\* and ^0.3.0 is the rest of minor 0.3.
EnabledAsWritten ==
    LET version == world.versions[Library]
    IN  /\ phase # "collect" => \A t \in NodeIds : ToSet(declared[t]) = Why(t)
        /\ \A v \in Versions :
              InRange(Caret(v), version) <=> (SameLine(v, version) /\ ~Before(version, v))

Failed(t) == Has(t, "failed") \/ Has(t, "error")

\* A test that is irrelevant or flaky, or slow (or able to crash its scenario) and
\* declared in any way, at any level, is neither set up nor run, unless forced.
DeactivatedIsNotRun ==
    \A t \in touched :
        Disabled(t) => ~Tests[t].slow /\ Why(t) \cap {"irrelevant", "flaky"} = {}

\* Disabled tests do no harm: those that must not run do not, none counts as a
\* failure of its own or of the session. All others count: each gets one final
\* status, which is that of its report, and a failure that is reported makes the
\* session fail. A test whose status is a failure is reported as skipped, and the
\* session passes, in two cases only: its fixture called pytest.skip, or cassettes
\* are generated where it is.
StatusIsRight ==
    /\ DeactivatedIsNotRun
    /\ \A t \in Reported :
          /\ Len(status[t]) = 1
          /\ status[t][1] = "fail" => ~Disabled(t)
          /\ Head(outcome[t]) \in {"failed", "error"} => status[t][1] = "fail"
          /\ status[t][1] = "fail" =>
                \/ Head(outcome[t]) \in {"failed", "error"}
                \/ Head(outcome[t]) = "skipped" /\ (t \in skipping \/ Generates(t))
    /\ exit \in {"ok", "failed"} =>
          (exit = "failed" <=> \E t \in Selected : ~Disabled(t) /\ Failed(t))

\* The junit report keeps every test but the irrelevant ones, and its counts are
\* those of the tests it keeps, unless an irrelevant test was forced.
JunitIsComplete ==
    (exit \in {"ok", "failed"} /\ ~replay /\ teardown = {}) =>
        /\ junit.cases = {t \in items : "irrelevant" \notin Why(t)}
        /\ junit.tests = Cardinality(junit.cases)
        /\ (\A t \in options.forced : "irrelevant" \notin Why(t)) =>
             junit.skipped = Cardinality({t \in junit.cases : Has(t, "skipped") \/ Has(t, "xfailed")})

\* A replayed test finds what its own setup left in the run, with the tuples turned
\* into lists, and nothing if it was not set up, whatever was edited since. After a
\* run whose properties could not all be written no test is replayed.
ReplaySeesItsSetup ==
    (phase = "tests" /\ replay) =>
        /\ \A t \in NodeIds : setUp[t].form # "other"
        /\ \A t \in items :
              ("skip" \notin marks[t] /\ Tests[t].setup) =>
                  /\ attrs[t].of = setUp[t].of
                  /\ attrs[t].form = IF setUp[t].form = "tuple" THEN "plain" ELSE setUp[t].form
=============================================================================

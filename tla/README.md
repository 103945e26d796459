# Verification of system-tests

TLA+ models of the parts of system-tests on which its tests depend: how what the
components under test send gets into the test process, how the containers of a
scenario are started, stopped and removed, how a test configures a running library
remotely, the mocked backend, the pool of test agents of the parametric tests, the
cache of machine images of the AWS jobs, the selection and split of the CI jobs, what
a pytest session does with the tests of the manifests, and the script that edits these
manifests from the nightly reports.
These parts are concurrent (threads, other processes, containers, CI jobs) or long
sequences of decisions that a unit test hardly reaches; an error there shows up as a
flaky test of something else, or as a test that silently does not run.

All paths below are relative to the repository.

- [1. Inventory](#1-inventory)
- [2. The modules and the code](#2-the-modules-and-the-code)
- [3. Runs](#3-runs)
- [4. Bounds, fairness](#4-bounds-fairness)
- [5. Proofs](#5-proofs)
- [6. Where the code disagrees with its documentation](#6-where-the-code-disagrees-with-its-documentation)
- [7. What is not modelled](#7-what-is-not-modelled)
- [8. Plan](#8-plan)

## 1. Inventory

| Component | State | Operations | Interacts with |
|---|---|---|---|
| Recorder: proxy (`utils/proxy/core.py`), mocked backend (`utils/mocked_backend/`) | message counter, files on disk, mocked responses | number a request, write its JSON file, answer it (with a mocked response), stop | library and agent (HTTP), validators (files, or a direct call in the same process) |
| Interface validator (`utils/interfaces/_core.py`, `_mocked_backend.py`) | `_data_list`, `_ingested_files`, `_wait_for_function`, `_wait_for_event`, `_lock` | `ingest_file`, `_on_message`, `wait_for`, `ingest_all_files`, `check_deserialization_errors`, `get_data` | watchdog thread, request threads, pytest main thread |
| Container (`utils/_context/containers.py`) | `_container`, `healthy`, `depends_on`, `_starting_thread` | `configure`, `async_start`, `start`, `wait_for_health`, `stop`, `remove` | docker daemon, the threads of its dependencies |
| Scenario and session (`_scenarios/_core/`, `conftest.py`) | list of containers, warmups, options | session start, setups, `post_setup`, `close_targets`, session finish | containers, interfaces, pytest |
| Remote configuration (`utils/_remote_config.py`) | `targets`, `version`, `_reset_pending`, results of a wait | `set_config`, `del_config`, `reset`, `apply`, `send_state` | proxy (stores the payload), library (polls), interface validator (`wait_for`) |
| Mocked backend, feature flags (`mocked_backend/_backend.py`, `_backend_ffe.py`) | mocked responses, response timelines, counters, status codes | lookup, `record_request`, `record_response`, `finish_request`, file, answer; `reset`, `set_responses`, mocked responses | request threads, test (control endpoints) |
| Agent pool and docker fixtures (`docker_fixtures/`, `tests/parametric/conftest.py`) | the cached agent, the containers, what each agent has recorded and serves | `acquire`, reset, eviction, exit, `docker_run`, `start_agent`, the `wait_for_...` helpers | docker, test agents, library containers |
| AMI cache (`utils/virtual_machine/`, `scripts/pulumi_clean_up.py`) | images with their tags and launches in an AWS account; flags and image of each job | look, launch, build, boot, verdict, retry; scheduled and manual clean-up | AWS, other jobs, other pipelines |
| CI selection and jobs (`scripts/compute_libraries_and_scenarios.py`, `compute-workflow-parameters.py`, `ci_orchestrators/workflow_data.py`) | selected scenarios, groups, libraries; the jobs | manifests, files, outputs; jobs of a weblog, split, merge | the repository's diff, the CI |
| Manifest (`utils/manifest/_internal/`) | none (parsed rules) | which declarations a test has for a version and a weblog | pytest collection, easy wins |
| Test session (`conftest.py`, `_decorators.py`, `properties_serialization.py`) | markers and selected tests, properties left by the setups, their file, statuses, junit report | collect, setups, dump and load, tests, reports, replay | manifest, scenario, pytest |
| Easy wins (`scripts/activate_easy_wins/_internal/`) | status of each node of the test tree per context, views to poke, new rules, the edited manifest | read reports, `update_manifest`, `write_new_rules`, `write_poke` | manifest, nightly reports |
| Deserialisers, trace decoders, scrubber (`utils/proxy/`) | none | conversions | recorder |
| Interface specific validators, weblogs, k8s/SSI scenarios, other scripts | none of the framework's own | | |

What is hard, and what makes each part correct:

- **Ingestion and waiting.** A message reaches `_data_list` by up to three ways at
  once: a *created* and a *modified* event of the watchdog and the final drain. A
  file may be read half written. `wait_for` sleeps on an event that other threads
  set after they have released the lock. Correct means: every complete file is in
  the list exactly once and in order; a waiter is never left asleep although its
  message is there; an answer True has a reason; after the drain nothing is missing.
- **Containers.** One thread per container joins the threads of its dependencies;
  any container may fail, hang up to its last retry, exit on its own, or be a
  leftover of a killed session; the main thread may be interrupted at any point.
  Correct means: nothing starts before what it depends on is healthy, every session
  ends for every dependency graph, receivers are stopped after senders, and nothing
  is left behind.
- **Remote configuration.** Polls recorded for earlier payloads stay in the list
  that `wait_for` scans, a poll may be in flight when the payload is replaced, and
  several processes of the library report. Correct means: an acknowledgement is
  about the payload that was sent, versions only go up, a library that needs it is
  emptied before new files, and the wait ends.
- **Mocked backend.** Each request takes several critical sections, and the test
  resets or reprograms the timelines between any two of them. Correct means: the
  counters the tests of the pollers read are those of real requests, a timeline is
  served in order, and a request that was answered is on disk.
- **Agent pool.** One agent serves the tests of a worker; it, docker or a call may
  fail at any step, and the library of an earlier test may outlive it. Correct means:
  no test sees the data of another, one dead agent does not fail later tests, no agent
  is left, the worker ends.
- **AMI cache.** Jobs and clean-ups of different pipelines read and tag the same
  images without a lock, jobs are killed, AWS reports launches late. Correct means: a
  verdict was earned on that image, only trusted images are booted, images in use are
  kept, no image stays for ever.
- **CI jobs.** A change goes through prefix matching, groups, first fit decreasing and
  a merge that edits the list it walks over. Correct means: what a change concerns is
  run, each scenario once, in no more jobs than allowed.
- **Test session.** A test has declarations of several levels, components and files,
  ranges of versions, markers added in several passes and an option that hides them;
  setups run long before the tests, or in an earlier process. Correct means: a test is
  disabled exactly where an entry says so, disabled tests are not run or do not count,
  the reports are complete, and a replayed test finds what its own setup left.
- **Easy wins.** The same manifest is edited for several weblogs and parameters, in the
  order of sets and directories. Correct means: what xpassed is enabled, what did not is
  still disabled, and nothing else changes.

`PROJECT.json` lists the hazards line by line, with the properties aimed at each.

## 2. The modules and the code

`PROJECT.json` maps each definition to the lines it stands for. Each module keeps
beside some of its definitions a *fault*: a wrong variant (a dropped guard, a
missing reset) that no specification uses. Putting a fault in place of its
definition must violate the property it was written for, which shows that the
property depends on the code.

### InterfaceValidator

State: `mode`, how the validator is fed: by the watchdog, by the watchdog and a final
drain, or directly by the mocked backend in the pytest process; for each message, its file (`absent`, `partial`, `complete`) and what the
emitter last saw of it; the events pending in the observer; the lock; `list`
(`_data_list`); `ingested`; `fn` and `event` of `wait_for`; a program counter and a
current message per thread. A message is its number. A `wait_for_function` is the
outcome (`true`, `false`, `raise`) it gives on each message.

| Code | Actions |
|---|---|
| recorder: count, open the file, write it | `Number`, `Create`, `Write`, `StopRecorder` |
| watchdog: snapshot comparison, dispatch | `Poll`, `Dispatch` |
| `ingest_file` | `IngestSkip` (already there, or not valid JSON yet), `IngestAppend`, `SortEnd` under the lock; then, without it, `TestFunction`, `CallFunction`, `CallRaises`, `SetEvent` |
| `_on_message` (backend in the pytest process) | `OnMessage`, then as above |
| `wait_for` | `WaitForExisting`, `WaitForInstall`, `WaitReturns`, `WaitTimeout`, `WaitReset` |
| `ingest_all_files` | `DrainStart`, `DrainNext`, `DrainEnd` |
| `check_deserialization_errors` | `WalkStart`, `WalkStep`, `WalkError`, `WalkEnd` |

The unlocked end of `ingest_file` is cut where another thread can act: the attribute
is read twice (`:96`), then the event is set (`:97`). The unlocked walk reads
`Visible`: the list, the list with an unsorted new last entry, or the empty list that
CPython shows while it sorts. Reads under the lock are one step.

### DockerScenario, EndToEndTopology

`DockerScenario` is one pytest session with the containers `Order` and any
dependency graph of `Graphs`. State: what the daemon has under each name (`absent`,
`old`, `running`, `exited`), and per container the handle, `healthy`, the thread and
the retries; the phase and the position of the main thread; the mode of the session.

| Code | Actions |
|---|---|
| `configure` | `Configure` (removes leftovers that may not be taken over) |
| `check_circular_dependencies`, `async_start`, the joins | `AsyncStart`, `AsyncCircular`, `AsyncEnd`, `Started`, `StartedUnhealthy` |
| `_start_with_dependencies`, `start`, `execute_command` | `AskDependency`, `JoinDependencies`, `StartReuse`, `StartRun`, `StartRaises`, `HealthRetry`, `HealthOk`, `HealthFails` |
| other warmups, Ctrl-C, `SYSTEM_TESTS_DEV_MODE` | `Warmups`, `WarmupsFail`, `Interrupt`, `DevModeExit` |
| `pytest_collection_finish` | `Collected`, `SleepEnds`, `SetupsDone`, `SetupFails`, `SetupInterrupted` |
| `_wait_and_stop_containers`, `stop` | `Stop`, `StopExits`, `StopsDone` |
| `close_targets`, `remove` | `Remove`, `RemoveFails`, `RemoveRaises`, `Closed` |
| `pytest_sessionfinish` | `Finish` |
| docker daemon | `Crash` |

`EndToEndTopology` computes the containers, the dependencies and the stop order of an
`EndToEndScenario` from its options; `MCEndToEnd` composes it with `DockerScenario`.

### RemoteConfig

State: `targets`, `version`, `_reset_pending` of `_RemoteConfigState`; the running (or
last) `send_state` with the states it has recorded; the payload the proxy serves; the
recorded polls; per process of the library its version, files, states and the poll in
flight. The content of a file is its `config_file_version`, 0 for no file.

| Code | Actions |
|---|---|
| `set_config`, `del_config`, `reset` | `SetConfig`, `DelConfig`, `Reset` |
| `apply` and the first part of `send_state` | `ApplyEmpties`, `ApplyAfterEmptying`, `Apply`; `ApplyEmptiesRaises`, `ApplyRaises` when the request to the proxy raises |
| `remote_config_applied`, called by `wait_for` | `LookAccepts`, `LookContinues`; `Timeout` |
| proxy: overwrite the response, gate it by product, record | `Respond` |
| library (external) | `Request`, `Taken`, `Settle` |

Two abstractions. The recorded polls are a *set*: the order in which `wait_for` looks
at them and how often is left open, a superset of what it does (it looks at them in
order, once each; a library repeats an unchanged poll for as long as it lasts). And
`wait_for` itself is used by what `InterfaceValidator` shows of it, not modelled
again; its late notification (section 6) would add a wait that ends without an
accepted poll.

### MessageLog

What `InterfaceValidator` promises, without files, threads, event or lock: `log` only
grows and is in order (`Deliver`); a call of `wait_for` answers at once from the log
(`CallAnswers`) or opens (`CallOpens`), and is closed by `AnswerTrue`, for a message of
the log or for a notification it inherited, or by `AnswerTimeout`. The refinement
(`Log == INSTANCE MessageLog WITH ...` in `InterfaceValidator`) maps `log` to the list
with the entry that is being sorted in hidden, and `call`, `open` to the current wait.

### MockedBackend

One process per request thread, one action per critical section: `Lookup` (mocked
responses, their lock), `Number` (`_count_lock`), `RecordRequest`, `RecordResponse`,
`FinishRequest` (the lock of the feature flag state) or `HandlerRaises`, `Write` (file),
`Send` (answer; the client may be gone). The test acts through `SetMocked`,
`SetResponses`, `Reset`; `Close` stops the server, which kills the request threads of a
container and not those of the pytest process. A response is its identifier, a path its
kind. History variables remember the timeline last set and the requests that were in
flight at the last reset.

### AgentPool

One worker: `Begin` takes the cached agent or opens one (`Open`, `OpenRaises`,
`OpenConflicts`, `Info`, `InfoRaises`), `Clear`, `ClearOtlp` and `ResetRemoteConfig` are
`_reset`: the OTLP part may refuse its clear, which nobody notices.
`Evict` and `NewAgentBreaks` its failure on a cached and on a new agent, `Close` and
`CloseRaises` the end of `docker_run`; `StartLibrary`, `Poll`, `SetRemoteConfig`,
`EndBody` the rest of a test, `Exit` the end of the pool. The libraries of a worker have
one host port: beside one that docker failed to stop, `LibraryConflicts` takes the place
of `StartLibrary`, and it keeps the network of its agent (`net`). Libraries `Send` and
end (`LibraryExits`), and agents `Die`, on their own. A recorded request is its kind
(session or OTLP) and the test it comes from.

### AmiCache

Images of one cache key (state for AWS, `ami-state`, date, launches, `ami-retire-at`),
the jobs and one scheduled clean-up. A job: `Look`, `Launch`, `Create`, `Created`,
`Boot`, `SessionFinish`, `Tag`, with `Retry` for IdempotentParameterMismatch and `Stop`
for every other end. The clean-up: `CleanStart`, then `CleanDecide` and `CleanAct` per
image, between which anything may happen; `DeleteByName` is the manual one. AWS:
`AmiReady`, and in `Reported` the launches it may not show yet.

### CiJobs

A sequential program over many inputs: `ProcessManifests`, `AddFile` per modified file,
`Outputs`; then `Start` (the assert, the jobs of the weblogs), `Place` (one scenario of
first fit decreasing), `StartMerge`, `DeleteJob`, `GiveScenario` (one turn of the merge and
of its inner loop), `Finish`. The lists that the code sorts are sets of which an action takes the element
that comes first in the code (`Longest`, `JobToDelete`); jobs are a function of weblog and
instance, in which order the code lists them. The scenarios of a deleted job are given away in any order. A
time is a whole number, in the code a float. A path is the sequence of its names, and `StartsWith` is the comparison of strings the code does, which also accepts
a class whose name begins with the rule's. What a test *should* be selected by
(`Concerned`) is stated on whole names.

### Manifest, TestSession

`Manifest` has no state: the operators from a parsed YAML file to the declarations of a
test. A version is `<<major, minor, patch, stage>>`, stage 0 for a pre-release; a range is the
set of its intervals, as the npm rules of `types.py` read it. A rule is the sequence of
its names, with a last `""` for a rule of a folder. `Conditions` is `_load_file`,
`Caret` is `^v` with its three numbers written,
`WeblogDeclaration` what a `weblog_declaration` becomes (the line for `"*"` excludes the
weblogs that have a line), `MatchRule`, `MatchCondition` and `GetRules` are `rule.py`, and
`GetDeclarations` is the function pytest calls. `IsManifest` says what the format of the
files guarantees (`manifests/` is validated against a schema). `Written` states what an entry means,
from the raw entries, for the properties.

`TestSession` is a process that runs the selected tests, and the processes that replay
it. State: the manifest, version, weblog and options of the session; the declarations
and markers of each test; the selected tests and those the current loop has yet to
handle, which it takes in the order of their numbers; the
properties on each instance, in `setup_properties` and in its file (absent, cut or
whole); the statuses, outcomes, exit status and junit report. Properties are the test
whose setup left them and their form: `plain`, `object` (of a class the encoder knows),
`tuple` (which JSON reads back as something else; so are keys that are no strings) or
`other` (which it can not write). `Encode` and `Decode` say what becomes of each.

| Code | Actions |
|---|---|
| `pytest_collection_modifyitems` | `Collect` (declarations, `skip_if_xfail`, `-F`, scenarios, `skip_empty_scenario`) |
| `pytest_collection_finish` | `LoadProperties`, `LoadRaises`, `NoProperties`; per test `SkipSetup`, `HasNoSetup`, `CallSetup`, `SetupRaises`, `RestoreProperties`; `SetupsDone`, `DumpRaises` |
| `pytest_fixture_setup`, `pytest_runtest_makereport` | `TestIsSkipped`, `FixtureFails` (an error, or `pytest.skip`), `FixtureExits`, `RunTest`; `Shown` is what the hooks for `--generate-cassettes` make of a report |
| `pytest_sessionfinish` | `Finish` |
| a developer: edit, `--replay` | `Replay` |

### EasyWins

State: the reports per context (weblog and version), the `TestData` read from them, the
views to poke, the rules to add, and the manifest as edited so far. `ReadReports` folds
the results of a context into the trie and the two sets of `parse_artifact_data`;
`UpdateManifest` finds for each test to activate the conditions that match it and, below
their rules, the nodes that xfailed; `StartWrite` and `WriteNewRule` are
`build_new_rules`, `compress_rules` and `write_new_rules`; `RulesWritten`, `WritePoke`
and `PokesWritten` the edit of the declarations. Contexts, rules and views are taken in
any order, which covers the order of directories, sets and dicts. The properties compare
the manifest before and after with `GetDeclarations`, for every test, version and weblog.

## 3. Runs

| Run | Shows |
|---|---|
| `interface_container` | Fed through the watchdog and the drain, or directly; two request threads, two messages, two waits, three functions (satisfied by one message or the other, or raising), fair threads: `OnceAndInOrder`, `NoLostWakeup`, `TrueIsJustified`, `DrainIsComplete`, `CheckIsFinal`; `ImplementsLog` (it implements `MessageLog`), `AnswersWait` (a wait whose message has come ends without its timeout), `EventuallyIngested` (unless an exception killed the dispatching thread) |
| `interface_stale_wake` | violation of `TrueMeansItHappened` |
| `docker_graphs` | Three containers, all 512 graphs, leftovers, a refused removal, an interruption: `NoneIsExplained`, `LeavesNothing`, `StartsAfterDependencies`, `HealthIsFinal`, `SessionEnds` (and every start thread ends) |
| `end_to_end_session` | MsSql, mocked backend, agent and weblog with the dependencies of the code, every mode, a container that exits on its own: `ReceiversStopLast` |
| `remote_config_apply` | A library that needs emptying, any edits and applies over three versions, any subscription: `AcknowledgedIsCurrent`, `UnsubscribedIsUnknown`, `EmptiedBeforeReload`, `NeverRollsBack`, `EventuallyApplied` |
| `mocked_backend` | Two threads, both flag formats and other paths, controls at any moment, a stop at any moment: `InFlightIsReal` (and the peak), `CodesFollowTimeline` (and the order of the timelines), `EveryRequestIsRecorded` |
| `agent_pool` | Three tests, pooled or not, three faults anywhere, refused OTLP clears, libraries that outlive their test: `TestsAreIsolated`, `SetupErrorIsExplained`, `NoAgentIsLeft`, `WorkerEnds` |
| `ami_cache` | Two jobs, two images, the clean-ups, killed jobs, late reports of AWS: `VerdictIsEarned`, `TrustedBoot`, `HiddenLaunchIsSafe`, `EventuallyRemoved` |
| `ci_jobs` | Every change of up to two files and of two rules, two weblogs, five scenarios, four limits, one of them too small to be accepted: `ChangesAreTested`, `SplitIsTight`, `JobsAreComputed` |
| `test_session` | Three tests (plain; slow and auxiliary; parametrised in a decorated class), a run and its replay with edited manifests and options, any result, fixtures that fail, skip or exit, cassettes, setups that fail or leave what JSON can not keep: `EnabledAsWritten`, `StatusIsRight` (disabled tests do no harm, all others count), `JunitIsComplete`, `ReplaySeesItsSetup` |
| `easy_wins` | Every combination of results of three tests, one of them with parameters, on two weblogs or in the parametric scenario, three option sets: `StaysDeactivated`, `EditIsScoped`, `WinsAreActivated` |
| `easy_wins_folder` | violation of `StaysDeactivated` below the rule of a folder |

Five properties state exactly how far the code goes, rather than what one would wish:
`InFlightIsReal` allows an error of at most the number of requests
in flight at the last reset, and the second part of `CodesFollowTimeline` speaks of a test that programs a
timeline while nothing is in flight; `TestsAreIsolated` and `SetupErrorIsExplained` name
the ways in which an earlier test reaches a later one, and `StatusIsRight` the two in
which a status disagrees with its report (section 6). Without these conditions they do
not hold.

Deadlock is checked in `ci_jobs`, where a state without a successor would be a merge
that needs a second pass. Elsewhere it is not: sessions, waits and bounded counters
end.

To run one: `tlc -workers 2 -config InterfaceContainer.cfg MCInterface`.

## 4. Bounds, fairness

- **InterfaceValidator.** `N` messages and `MaxWaits` waits. Two messages give
  every case of "before, at, after"; two waits are what a notification of one wait
  needs to disturb the next; two request threads write out of order and, when the
  mocked backend is in the pytest process, insert at once.
- **DockerScenario.** Three containers give every kind of graph on which start
  threads interact: chains, diamonds with a shared dependency, cycles reached from
  outside and cycles of any length up to three. `Retries` is the real parameter
  (small); `MaxRefusals` and `MaxCrashes` bound the faults of docker. The
  end-to-end run has one container of each kind that appears in the dependency
  rules, without the proxy, the buddies and a second database, whose rules are
  those of the agent and of MsSql.
- **RemoteConfig.** Three versions are what *set, apply, reset, set, empty, reload*
  takes. One file and one process suffice for the properties that are checked:
  each file is judged on its own, and a second process only adds reports (the
  check of the inductive invariant has two). The passing run has no outcome ERROR:
  the code treats it as ACKNOWLEDGED.
- **MockedBackend.** Two threads overlap, three requests exhaust a timeline of two
  and repeat its last response, and `MaxControls` controls put a reset and a
  `set_responses` around a request in flight.
- **AgentPool.** A cached agent, its eviction and its replacement take three tests;
  three faults are a dead agent, a refused removal and a failed creation in one
  execution; a library that docker did not stop, in the first test, meets two later ones.
  `WaitLoops` is the parameter of the code, small.
- **AmiCache.** Two jobs and two images are what a race, or a retry that makes a
  second image, needs. A tick is a day (the build window is one tick, in the code six
  hours); the jobs have ended after `JobsUntil`, and the last value of the clock stands
  for all later ones, so that retention and retirement happen within it.
  `LastLaunchedDays` is the smallest with which a launch that AWS hides matters. Two
  attempts stand for the three of the code.
- **CiJobs.** The tree has a test whose name begins that of another, a nested folder, a
  support file and a `utils` folder above it, a definition file, a known and an unknown
  file; run and build times make the split produce one to five jobs, on both sides of
  each value of `Maxima`.
- **TestSession.** Four manifests combine the forms an entry may have: a version, a
  backport (`^1.3 || >=2.3`), a line for `"*"` and one for a weblog, two entries with
  conditions, a rule of a folder, of a class and of a test, another component. Six
  versions lie on both sides of 0.4, of 1.3 and of 2.0, pre-releases included. The setup of
  the first test leaves a tuple or what can not be written, that of the second an object;
  both are where cassettes may be generated, the third is not. The three sets for `-F` force nothing, the plain test, and the two others. Two sessions are a run and
  its replay.
- **EasyWins.** Two weblogs have reports and a third is only named in the manifest, which
  is what decides whether a rule covers all weblogs. The three manifests of the passing
  run have rules above, at and below the tests, inline or as lines shared by two
  weblogs, a declared version, conditions and an anchor. One version per weblog is an
  assumption (`CasesAssumption`): the reports of a nightly have it.

Symmetry is used for request threads and processes, in runs that have neither fairness
nor liveness.

Fairness:

- `InterfaceValidator`: weak fairness of the emitter, the dispatching thread and of
  each thread inside `ingest_file`, and of a `wait_for` whose event is set. The
  observer polls for as long as the session lasts, and a thread that can run is run.
  No request, call of a test or timeout is owed: `AnswersWait` shows that a wait ends
  by its message, not by its timeout.
- `DockerScenario`: weak fairness of the main thread and of each start thread:
  nothing in them waits for anything but another of these threads or a bounded
  healthcheck. Ctrl-C, a container that exits and the end of the sleep mode are not
  owed.
- `RemoteConfig`: weak fairness of the polls of each process, of the proxy's answer,
  of looking at a poll that ends the wait, and of a process leaving the state
  UNKNOWN of a file. The last is an assumption on the library, the one every test
  that calls `apply` makes. `Timeout` is not owed: `EventuallyApplied` shows that the
  wait ends without it.
- `AgentPool`: weak fairness of the worker as a whole: each call it makes returns,
  with an answer or an exception (`docker` and `requests` calls, bounded loops).
  Requests of libraries, deaths and faults are not owed.
- `AmiCache`: time passes, the clean-up is a scheduled pipeline, and the CI ends a job
  that exceeds its timeout (`Stop`). No other step of a job is owed.
- `CiJobs`: the program runs to its end.

## 5. Proofs

Each is a theorem for every value of the constants, under the named assumptions of
the modules. They are types and finiteness, and a few facts of the code:

- a session records at most 999 messages (`NameAssumption` of `InterfaceValidator`): the
  names of the files, by which the list is sorted, have three digits in the mocked
  backend, and from message 1000 on their order is another one;
- threads are distinct (`ThreadAssumption` of `InterfaceValidator`), the containers of a
  scenario are listed once (`OrderAssumption`), containers of different kinds are different
  (`KindAssumption` of `EndToEndTopology`), and there are buddies only with an agent
  (`TopologyAssumption`);
- a timeline of responses is not empty (`TimelineAssumption`: `set_responses` refuses one);
- AWS needs time to report a launch and a job has an attempt (`AmiAssumption`,
  `ReportDelay` and `Attempts` above 0);
- the group of all scenarios has them all, the file of a test is a prefix of its node id,
  and no path is empty (`ScenarioAssumption`, `PathAssumption` of `CiJobs`);
- manifests have the format of the files (`ManifestsAssumption`), no weblog is called
  `"*"` (`WeblogsAssumption`), a test with parameters has no setup of its own
  (`SetupAssumption`: `setup_x[1]` is no name of a method), and what a setup leaves has one
  of the four forms (`LeavesAssumption`).

TLC evaluates all of them on the instances of the runs, and it checked the invariants
`IInv` there before they were proved. Each module proves `Invariance`, that is
`Spec => []IInv`, from `Init => IInv` and one lemma per action or conjunct, and reads the
properties off `IInv`.

**InterfaceProofs.** `Invariance` proves `IInv`; `TypeCorrect`, `ListIsOrdered`
(`OnceAndInOrder`), `NoWakeupIsLost` (`NoLostWakeup`), `TrueHasReason`
(`TrueIsJustified`), `DrainCompleteness` (`DrainIsComplete`) and `Refinement`
(`ImplementsLog`) follow. The properties are not inductive. An insertion keeps the list
free of duplicates only if nobody else is inserting the same message, hence: the
thread that inserts owns the lock (`LockInv`), the message it inserts is in
`_ingested_files` and not in the list (`IngestInv`), and request threads never share
a number (`RecorderInv`). The wake-up needs the waiter's function to be the installed
one and each unlocked notifier to have its message in the list (`WaitInv`). The drain
needs that everything behind its position is in (`DrainInv`) and that no recorder
writes any more (`ModeInv`). The central lemmas are about `Insert`: it yields a sorted
sequence with exactly one more element. `Refinement` shows that every step of the
validator is a step of `MessageLog` or leaves its variables alone: the end of the sort
delivers (`SortEndDelivers`), a call answers or opens (`WaitForIsCall`), the end of a
wait is an answer (`WaitEndIsAnswer`), and all other steps are hidden
(`OthersAreHidden`); it needs `WaitInv`, which gives each True its reason.
`FinalCheck` (`CheckIsFinal`): a check that is under way or succeeded has looked at the
whole list, and no step adds to it afterwards.

**DockerProofs.** `Invariance` proves `IInv` = `TypeOK`, `ThreadInv`, `PhaseInv`,
`CloseInv`; then `TypeCorrect`, `StartOrder` (`StartsAfterDependencies`),
`VerdictStands` (`HealthIsFinal`), `NothingIsLeft` (`LeavesNothing`). `ThreadInv` says
that past its dependencies a container has them all healthy, and that healthiness is
closed under `depends_on` as long as threads run: this is what turns the check of the
*direct* dependencies in the code into a statement on everything reachable (lemma
`ReachIsHealthy`: the containers that are healthy are a closed set, and `Reach` is the
least one). `CloseInv` follows `close_targets` through the list. `NoneHasReason`
(`NoneIsExplained`): a container without a verdict was taken over, or the thread that
refused to start it saw a dependency without one.
`StopOrderSuffices` (`ReceiversStopLast`) is about the stops, for any containers: what the
main thread has gone through in its list does not run any more (`StopInv`, which needs that
a container that runs is known to its object, and that no thread is left to start one), so
that a list in which dependents come first (`DependentsFirst`) is enough. `ReceiversLast`
shows that the list of `EndToEndTopology` is such a list with every choice of the options:
for each container that is stopped, a closed set holds all it can depend on (`Upstream`),
and leaves out what is stopped before it. The run has one choice of the options; the
theorem has them all.

**RemoteConfigProofs.** `Invariance` proves `IInv` = `TypeOK`, `VersionInv`,
`ClientInv`, `PollInv`, `WaitInv`; then `TypeCorrect`, `NoStaleAcknowledgement`
(`AcknowledgedIsCurrent`), `GateHolds` (`UnsubscribedIsUnknown`), `NoRollBack`
(`NeverRollsBack`). The argument is that *a version identifies a payload*: versions
only grow (`VersionInv`), a process at the version that is served holds exactly the
gated files of that payload (`ClientInv`), so does a poll, recorded or in flight, that
shows this version (`PollInv`), and what the wait has recorded comes from such polls
(`WaitInv`). `EmptiesFirstHolds` (`EmptiedBeforeReload`) needs `EmptyInv` in addition: while
`apply` empties the library, the payload served is the empty one of the current version,
so that the poll that ends the wait comes from a process without files.

**MockedBackendProofs.** `IInv` = `TypeOK`, `ThreadInv`, `NumberInv`, `CountInv`,
`LineInv`, `PollInv`. `NothingUnrecorded` (`EveryRequestIsRecorded`): a number belongs to
one thread from the moment it is drawn, and its file comes before its answer.
`CountersAreReal` (`InFlightIsReal`) is an argument on cardinalities: a reset forgets the
requests that are inside, each of which is subtracted at most once.
`TimelineIsServed` (`CodesFollowTimeline`): what is left of a timeline is its suffix from
the next request on, down to its last response, which stays (`PopLine`); and as long as
requests do not overlap, only one thread is between its response and its code.

**AgentPoolProofs.** `IInv` = `TypeOK`, `ControlInv`, `OwnedInv`, `ResultInv`,
`LibraryInv`, `IsolationInv`. An agent that exists is in the pool, in the hands of the current test or
one docker refused to remove: this gives `NothingIsLeft` (`NoAgentIsLeft`), and
`ErrorsAreExplained` (`SetupErrorIsExplained`), since only a refused one can keep a name
or a port busy when an agent is opened, and only a library of an earlier test the network
or the port of the library: outside the body of its test, a library that runs was left by
docker (`LibraryInv`). `Isolation` (`TestsAreIsolated`): between the reset of an agent and
the end of the test only libraries started against it, by the test or left over from one
whose removal failed, write to it, and what the reset did not drop is OTLP data whose clear
was refused (`dirty`).

**AmiCacheProofs.** `IInv` = `TypeOK`, `JobInv`, `TrustInv`, `CleanInv`.
`VerdictsAreEarned` (`VerdictIsEarned`): a job that made an image keeps building until it
boots that image, also through retries, so that what it tests is what it tags.
`BootsAreTrusted` (`TrustedBoot`): tags only leave "candidate", so an image that was
worth booting when it was listed still is when it is launched. `HiddenLaunches`
(`HiddenLaunchIsSafe`): between the decision to remove an image and its removal only
launches are added, too recent for AWS to have reported. The proof found that two arms of
the `CASE` for `candidate_result_state` overlapped (tests that failed on a machine whose
provision had failed), where TLC always took the first; the model now has the order of
the early returns of the code.

**TestSessionProofs**, the manifest. `DeclarationsAsWritten`: for every manifest of the format, every
assignment of versions, every weblog and every path, `GetDeclarations` yields exactly the
declarations of `Written`. The code goes through a flattened list of conditions in which a
line for `"*"` excludes the weblogs that have a line of their own; `Written` reads the raw
entries. The steps: the conditions of a rule are those of its entries (`ConditionsAre`), a
line's condition matches when the line speaks for the weblog (`LineMatches`), an entry
gives its reasons (`EntryAsWritten`), a rule all of those of its entries
(`RuleAsWritten`), and a rule matches when it is a prefix up to a trailing slash
(`RuleIsPrefix`). `FlattenSeq` is a recursive function: that it concatenates
(`FlattenElements`) is an induction on a length, done with *sets* of numbers in place of
predicates (`LeastNumber`, from the library's `WFMin`; `Induction`), because the induction
rules of the library have an operator as parameter. `CaretIsCompatible`: the range that
`^v` is rewritten to contains exactly the later versions that agree with `v` up to its
first number that is not 0 (the rest of the major from 1 on, of the minor for `^0.x.y`, the
patch alone for `^0.0.x`), no pre-release of what comes next.

**TestSessionProofs**, the session. `IInv` = `TypeOK`, `MarkInv`, `LoopInv`, `ExitInv`, `PropsInv`.
`DeclarationsHold` (`EnabledAsWritten`) rests on `DeclarationsAsWritten` and on `MarkInv`:
markers stay those of the collection. `StatusesAreRight` (`StatusIsRight`): each loop
handles each item once, so a test has no status before its turn but the "skip" of the
setup loop, and one after it, which agrees with its report unless the report was made a
skip (`LoopInv`), and the exit status is that of the outcomes (`ExitInv`). `ReportIsComplete` (`JunitIsComplete`) counts: a test that was not forced has
a skipped or xfailed outcome exactly if it is disabled. `ReplayHolds`
(`ReplaySeesItsSetup`): store and what the setups left are one function in the run, a whole
file is its encoding, which exists only if every value could be written, and a replay hands
out what it decodes to (`PropsInv`; `JsonTypes` for the round trip).

**CiJobsProofs.** `IInv` = `TypeOK`, `SelectInv`, `StageInv`, `PlaceInv`, `NumberInv`,
`MergeInv` and `SplitIsTight`. The time of a job is a fold over a set, with a CHOOSE of the
next element: the function that the fold chooses exists (`SumExists`), does not depend on the
set it starts from (`SumUnique`), and lets any element be taken out first (`SumStep`), so that
a scenario adds its time to the job it joins (`TimeOf`); the induction is on the number of
scenarios, with sets of numbers as for `FlattenSeq`. `SplitTight` (`SplitIsTight`): a new job
is made only when the scenario fits in none, and the times only grow. `PlaceInv` says that a
wanted pair of weblog and scenario is pending or in exactly one job; every move takes it from
one to the other (`Taken`). For the merge, the instances of a weblog have no gap
(`NumberInv`), so the job with the greatest instance is the last of its weblog; it is not the
first one as well, because then no weblog would have two jobs and there would be no more jobs
than weblogs, hence than `maximum_parallel_jobs` (`DeletedIs`, from the assert at the start):
this is why `min` always finds a job. `JobsAreRight` concludes: no exception, each supported
scenario in exactly one job, no more jobs than allowed, and as many as allowed when some were
merged; that is the safety part of `JobsAreComputed`. `ChangesTested` (`ChangesAreTested`)
joins this to the selection: `NearIsBrought` shows that the one prefix the code computes, up to
the first `utils` folder or the folder of a support file, covers every folder above the test
that counts, and `RuleStarts` that the comparison of strings includes that of whole names.

Only model-checked:

- the liveness properties, which the prover does not handle: `AnswersWait`,
  `EventuallyIngested`, `SessionEnds`, `EventuallyApplied`, `WorkerEnds`,
  `EventuallyRemoved`, and of `JobsAreComputed` that the computation ends (what holds when it
  has ended is `JobsAreRight`);
- `StaysDeactivated`, `EditIsScoped`, `WinsAreActivated`: they hold for the forms of
  manifest of the run and not for all (section 6: below the rule of a folder,
  `StaysDeactivated` fails), so there is no theorem for every manifest to prove.

## 6. Where the code disagrees with its documentation

Two runs end in a counterexample of something a document or a test says.

1. **A late notification answers the next wait** (`interface_stale_wake`,
   `utils/interfaces/_core.py:97`). The event is set after the lock is released. If
   the wait it was meant for times out in between and another one starts, that one
   returns True at once. `TrueIsJustified`, which holds, is what remains true.
2. **Below the rule of a folder, siblings that xfailed are enabled**
   (`easy_wins_folder`, `core.py:69` of `activate_easy_wins`). Keys of the trie have no
   trailing slash, the rule has one, and the KeyError is suppressed.

Found with the models, too, and left out of the instances or of the properties of the
passing runs:

- A container taken over from a previous session is not checked (`containers.py:236`):
  its `healthy` stays None, its dependents do not start, and the session goes on, although
  `docs/internals/end-to-end-life-cycle.md:26` wants every container to satisfy its
  healthcheck. `NoneIsExplained` shows that this is the only way to get there.
- Containers are left running by a KeyboardInterrupt or a `pytest.exit` in a setup
  (`conftest.py:489`, which only catches Exception), and by an exception of
  `setup_properties.dump` (`conftest.py:498`, outside the `try`); `LeavesNothing` names the
  ends of a session it speaks of.
- A test that an edit enables is replayed without its setup (`conftest.py:457`): it was
  skipped in the run, hence not set up, and `restore_properties` restores nothing without
  a word, while `docs/execute/replay.md:29` recommends the replay for such an edit.
  `ReplaySeesItsSetup` says that such a test finds nothing.
- A value that JSON can not write makes the dump of the properties raise in the middle of
  the file (`properties_serialization.py:92`); the run ends there, and a replay ends with a
  JSONDecodeError, where only a missing file is handled (`:99`). What can be written is not
  always read back as it was: tuples become lists, and keys that are numbers strings.
  `ReplaySeesItsSetup` states both.
- A test whose status is "fail" is reported as skipped, and does not make the session
  fail, when one of its fixtures calls `pytest.skip` (`conftest.py:517` catches every
  exception; no fixture of the repository does it today), and with `--generate-cassettes`
  in `tests/integration_frameworks`, `tests/ai_guard` and
  `tests/parametric/test_llm_observability`, whose hooks change the report after the status
  was pushed. `StatusIsRight` shows that these are the only ways.
- The OTLP part of a pooled agent may refuse to be cleared (`_test_agent.py:490`, a comment
  says so): the next test is then shown the OTLP data of earlier ones. A library that
  docker fails to stop keeps the port of the worker (`_test_client_parametric.py:45`): all
  later setups fail until it ends, and it keeps the network that a new pooled agent needs.
  `TestsAreIsolated` and `SetupErrorIsExplained` name these cases, and exclude all others.
- The wrong entry of a rule is edited by the easy wins (`manifest_editor.py:171`) when a
  `weblog_declaration` is followed by another entry: `TwoEntries` of `MCEasyWins`, as the
  value of `Cases`, violates `WinsAreActivated`.
- A range is written the wrong way round (`manifest_editor.py:240`): the versions where a
  feature is missing become those where the test is enabled. `RangeCases` violates
  `EditIsScoped`.

Seen while modelling, and not pursued as runs:

- `check_deserialization_errors` walks the live list without the lock
  (`interfaces/_core.py:105`), while its docstring promises all of it: for the mocked
  backend this is harmless (`CheckIsFinal`: the drain has run and nothing is inserted
  any more), for an interface that the watchdog still feeds an entry can be missed.
- A file that is UNACKNOWLEDGED ends the wait for an acknowledgement
  (`_remote_config.py:346` against `:272`).
- `docs/internals/end-to-end-life-cycle.md:9` draws an arrow from the proxy to the agent
  that the dependencies do not contain; a replay still checks that the containers are
  gone (`conftest.py:583`); `SYSTEM_TESTS_DEV_MODE` and a declaration report leave the
  containers up; an exception of `remove` that is not an APIError ends `close_targets`;
  two sessions on one machine share container names. docker may create a container and
  then fail to start it, and the session has no handle to remove it.
- The comment on the ports of pooled agents (`_core/docker_fixtures.py:103`) names
  5000/5100/5200; the code uses 5600/5700/5800.
- `onboarding.md:353`: "A launch before that run removes the tag". Not for an image past
  `AMI_RETENTION_DAYS`, which matches whatever its launches. `clean_up_amis` prints "and"
  where the rule is "or". A recent candidate blocks a second build (`onboarding.md:344`)
  unless two jobs look before either creates. After a retry a job keeps the image it had
  chosen, and may build a new cache from it.
- Of a session: an irrelevant test that is forced leaves the junit report and makes its
  count of skipped tests too small (`conftest.py:619`); a test with parameters never has
  its `setup_` called, the name it looks for has the parameters in it; a fixture of
  session scope that fails has no `user_properties` (`:518`); the comment of
  `properties_serialization.py` on properties of the class says more than the code does;
  `pytest_deselected` is given the list of tests of an empty scenario after it was
  emptied; the weblogs of `excluded_weblog` are not split on commas, those of `weblog` are.
- Of the easy wins: a test of another owner, or of `skip.yml`, or without a report, is
  enabled with its siblings when the rule of their class is poked; the version written for
  several contexts is the one of an arbitrary context; a report without a known library
  makes `parse_artifact_data` leave out the rest of its folder (`test_artifact.py:118`, a
  `break`), so that `reports` of the model are those that come before it.
- A request for a remote configuration without a list `client.products` gets the payload
  ungated (`mocked_response.py:188`); the model has the clients that declare one.
- A title `[library@branch]` is announced as enforced without checks
  (`compute_libraries_and_scenarios.py:162`), but the libraries of modified test files are
  still added (`:518`).

## 7. What is not modelled

- Data: payload formats, deserialisation, TUF signatures, protobuf, names of files.
  Messages are ordered by their number, which is the order of the file names up to 999
  (`NameAssumption`; three digits in `_backend.py:160`).
- Time: timeouts and polls happen at any moment; the two seconds that `send_state`
  grants the other processes are not visible.
- `Ipv6Scenario`, which starts two containers by itself; the container classes'
  own `post_start` beyond its failure; networks and images.
- `send_sequential_commands` and the debugger commands with their own version
  counter; the delivery of a remote configuration through the real agent.
- Mocked backend: bodies, headers and delays of responses (a delay is that other threads
  act meanwhile), TLS, the remote configuration it serves. Agent pool: snapshots and
  cassettes. AMI cache: the provision of a machine, snapshots of deleted images, the
  clean-up of running instances. CI: the outputs for GitLab, the matrices of the AWS,
  Kubernetes and docker-SSI workflows, how files, titles and statistics are read.
- Manifests: the text of versions, declarations and rules, the validation of the files;
  a caret with fewer than three numbers, which differs from `^v` for `^0` and `^0.0` alone.
  Test session: xdist workers, strict xfail, the feature parity and xray exporters. Easy
  wins: the download of artifacts, comments, formatting, branches per code owner, several
  libraries.
- The generated or declarative files, which are the largest of the repository: the list
  of features (`utils/_features.py`), the HTTP wrappers of the parametric clients, the
  cassettes and the wizards. Together with the predicates over payloads they are most of
  the implementation, which is why the mapped lines are about eight percent of it: what is
  mapped is the part that keeps state across threads, processes, sessions or CI jobs.
- The components of the last rows of section 1: stateless predicates, conversions,
  external tools.

## 8. Plan

In order; the first twelve steps are done.

1. `InterfaceValidator`, its runs and proofs (the base of every test).
2. `DockerScenario` with `EndToEndTopology`, runs and proofs.
3. `RemoteConfig`, runs and proofs.
4. `MessageLog`, and the proof that `InterfaceValidator` implements it.
5. `MockedBackend`: recording, mocked responses and feature flags.
6. `AgentPool`, with docker_run and the fixtures around it.
7. `AmiCache` and `CiJobs`: what the CI shares and what it selects.
8. `Manifest`, `TestSession` and `EasyWins`: which tests run, and who edits that.
9. Proofs for `MockedBackend`, `AgentPool` and `AmiCache`: all their safety properties.
10. Proofs of `CheckIsFinal`, `NoneIsExplained`, `EmptiedBeforeReload`.
11. Proofs for `Manifest` and `TestSession`: all their properties.
12. Proofs for `CiJobs`: `ChangesAreTested`, `SplitIsTight`, and that the merge never
    reaches the `min` of an empty list.
13. `RemoteConfig` with a second version counter (debugger commands).

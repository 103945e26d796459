------------------------------- MODULE CiJobs -------------------------------
(***************************************************************************)
(* From a pull request to the end-to-end jobs of the CI.  Which scenarios  *)
(* and libraries a change selects is computed by                           *)
(* utils/scripts/compute_libraries_and_scenarios.py; for one library,      *)
(* utils/scripts/compute-workflow-parameters.py and                        *)
(* ci_orchestrators/workflow_data.py then give the scenarios to jobs, cut  *)
(* the jobs to the desired time (first fit decreasing) and merge them      *)
(* again when there are more jobs than the CI allows.                      *)
(* A path is the sequence of its names, from tests/ to the method.         *)
(***************************************************************************)
EXTENDS Integers, Sequences, FiniteSetsExt, SequencesExt

CONSTANTS Scenarios,      \* numbers, in the alphabetical order of the names
          Default,        \* scenarios.default
          EndToEnd,       \* the ones of the workflow "endtoend"
          Excluded,       \* --excluded-scenarios
          Groups,         \* [group -> its scenarios]
          AllGroup,       \* scenario_groups.all
          ScenarioLibs,   \* [scenario -> get_libraries(), {} for None]
          Libraries,      \* LIBRARIES
          NodeJs,         \* the library that has a time of its own
          ScenarioMap,    \* [node id -> its scenarios]
          FileOf,         \* [node id -> the path of its file]
          Begins,         \* pairs of names: the first begins the second
          Files,          \* files that a change may modify
          MaxModified,    \* bound: files that one change modifies
          SupportFiles,   \* utils.py, conftest.py, *.json and *.yml
          Impacts,        \* [known file -> Param] of the mapping file
          DefinedIn,      \* [definition file -> its scenarios]
          OldManifests,   \* [rule -> declaration, 0 when there is none]
          Declarations,   \* the declarations of the new manifests, 0 included
          Weblogs,        \* numbers, in the alphabetical order of the names
          Supports,       \* pairs <<weblog, scenario>>: support_scenario
          RunTime,        \* [weblog -> [scenario -> time]]
          BuildTime,      \* [weblog -> time]
          NodeJsTime, OneLibraryTime, ManyLibrariesTime, \* 300, 600 and 3600
          Maxima          \* values of maximum_parallel_jobs

Paths == Seq(STRING) \ {<<>>}

ASSUME ScenarioAssumption ==
    /\ Scenarios \subseteq Nat /\ IsFiniteSet(Scenarios)
    /\ Default \in Scenarios /\ EndToEnd \subseteq Scenarios
    /\ AllGroup \in DOMAIN Groups /\ Groups[AllGroup] = Scenarios
ASSUME WeblogAssumption ==
    /\ Weblogs \subseteq Nat /\ IsFiniteSet(Weblogs) /\ Maxima \subseteq Nat
ASSUME PathAssumption ==
    /\ DOMAIN ScenarioMap \cup DOMAIN OldManifests \cup Files \subseteq Paths
    /\ \A n \in DOMAIN ScenarioMap :
          FileOf[n] \in Paths /\ IsPrefix(FileOf[n], n) /\ ScenarioMap[n] \subseteq Scenarios
ASSUME ImpactAssumption ==
    /\ \A f \in DOMAIN Impacts : /\ Impacts[f].scenarios \subseteq Scenarios
                                 /\ Impacts[f].groups \subseteq DOMAIN Groups
                                 /\ Impacts[f].libraries \subseteq Libraries
    /\ \A f \in DOMAIN DefinedIn : DefinedIn[f] \subseteq Scenarios
ASSUME TimeAssumption ==
    /\ \A w \in Weblogs : BuildTime[w] \in Nat /\ \A s \in Scenarios : RunTime[w][s] \in Nat
    /\ {NodeJsTime, OneLibraryTime, ManyLibrariesTime} \subseteq Nat

VARIABLES
    pc,         \* where the computation is
    inputs,     \* what a pull request and the workflow give
    modified,   \* the modified files that are still to be looked at
    scenarios, groups, impacted, libraries,   \* the selection
    desired,    \* desired_execution_time
    queue,      \* pairs <<weblog, scenario>> that the split has yet to place
    jobs,       \* <<weblog, instance>> |-> the scenarios of the job
    order,      \* the jobs that the for loop of the merge has yet to visit
    moving      \* pairs <<weblog, scenario>> of a deleted job, to be given away

selection == <<modified, scenarios, groups, impacted, libraries>>
splitting == <<desired, queue, jobs, order, moving>>
vars == <<pc, inputs, selection, splitting>>

Init ==
    /\ inputs \in [files : UNION {kSubset(k, Files) : k \in 0 .. MaxModified},
                   manifests : [DOMAIN OldManifests -> Declarations],
                   diff : BOOLEAN,
                   choice : SUBSET Libraries, branch : BOOLEAN,
                   split : BOOLEAN, maximum : Maxima]
    /\ Cardinality(inputs.choice) <= 1
    /\ inputs.branch => inputs.choice # {}
    /\ inputs.diff \/ (inputs.files = {} /\ inputs.choice = {})
    /\ pc = "manifests"
    /\ modified = {} /\ groups = {} /\ impacted = {} /\ libraries = {}
    /\ scenarios = {Default}
    /\ desired = 0 /\ queue = {} /\ jobs = <<>> /\ order = {} /\ moving = {}

-----------------------------------------------------------------------------
(* Selection: ScenarioProcessor and LibraryProcessor. *)

(* str.startswith on node ids, "/" and "::" alike. *)
StartsWith(node, rule) ==
    LET k == Len(rule)
    IN  /\ k <= Len(node)
        /\ IsPrefix(SubSeq(rule, 1, k - 1), node)
        /\ rule[k] = node[k] \/ <<rule[k], node[k]>> \in Begins

\* Fault: the rules that were removed are not compared.
ModifiedRulesNew ==
    {r \in DOMAIN OldManifests : inputs.manifests[r] # 0 /\ inputs.manifests[r] # OldManifests[r]}

ModifiedRules == {r \in DOMAIN OldManifests : inputs.manifests[r] # OldManifests[r]}

Folder(path) == SubSeq(path, 1, Len(path) - 1)

(* get_prefix(path, "utils"): what comes before the first utils folder. *)
BeforeUtils(path) ==
    SubSeq(path, 1, Min({k \in DOMAIN path : path[k] = "utils"}) - 1)

InUtils(path) == \E k \in 2 .. Len(path) - 1 : path[k] = "utils"

(* The node ids whose scenarios a test file brings in: process_test_files, then
   process_regular_file for the file itself. *)
NodesOf(f) ==
    LET folder == IF InUtils(f) THEN BeforeUtils(f) ELSE Folder(f)
        near   == Head(f) = "tests" /\ (InUtils(f) \/ f \in SupportFiles)
    IN  {n \in DOMAIN ScenarioMap : FileOf[n] = f \/ (near /\ IsStrictPrefix(folder, FileOf[n]))}

ScenariosOf(nodes) == UNION {ScenarioMap[n] : n \in nodes}

LibrariesOf(S) == UNION {ScenarioLibs[s] : s \in S}

(* process_manifests and process_pr_title; the full matrix when the pipeline does
   not select from the diff. *)
ProcessManifests ==
    /\ pc = "manifests"
    /\ pc' = "files"
    /\ \/ /\ inputs.diff
          /\ LET brought == ScenariosOf({n \in DOMAIN ScenarioMap :
                                            \E r \in ModifiedRules : StartsWith(n, r)})
             IN  /\ scenarios' = scenarios \cup brought
                 /\ impacted' = LibrariesOf(brought)
          /\ libraries' = inputs.choice
          /\ modified' = inputs.files
          /\ UNCHANGED groups
       \/ /\ ~inputs.diff
          /\ groups' = {AllGroup}
          /\ libraries' = Libraries
          /\ UNCHANGED <<scenarios, impacted, modified>>
    /\ UNCHANGED <<inputs, splitting>>

(* One turn of the loop on the modified files: the two add. *)
AddFile(f) ==
    /\ pc = "files" /\ f \in modified
    /\ LET known   == f \in DOMAIN Impacts
           defined == IF f \in DOMAIN DefinedIn THEN DefinedIn[f] ELSE {}
           brought == ScenariosOf(NodesOf(f)) \cup defined
       IN  /\ scenarios' = scenarios \cup brought \cup IF known THEN Impacts[f].scenarios ELSE {}
           /\ groups' = groups \cup IF known THEN Impacts[f].groups ELSE {AllGroup}
           /\ impacted' = impacted \cup LibrariesOf(brought)
           /\ libraries' = IF inputs.branch THEN libraries
                           ELSE libraries \cup IF known THEN Impacts[f].libraries ELSE Libraries
    /\ modified' = modified \ {f}
    /\ UNCHANGED <<pc, inputs, splitting>>

(* The outputs of the selection, read by the workflow of one library; it passes
   the desired time on, or none when another repository calls it. *)
DesiredTime(libs) ==
    CASE libs = {NodeJs}                               -> NodeJsTime
      [] libs # {NodeJs} /\ Cardinality(libs) = 1      -> OneLibraryTime
      [] OTHER                                         -> ManyLibrariesTime

Outputs ==
    /\ pc = "files" /\ modified = {}
    /\ libraries' = libraries \cup impacted
    /\ desired' = IF inputs.split THEN DesiredTime(libraries') ELSE 0
    /\ pc' = "endtoend"
    /\ UNCHANGED <<inputs, modified, scenarios, groups, impacted, queue, jobs, order, moving>>

-----------------------------------------------------------------------------
(* Jobs: get_endtoend_definitions. *)

(* _get_workflow_map, for the workflow "endtoend". *)
WorkflowMap ==
    {s \in EndToEnd \ Excluded : s \in scenarios \/ \E g \in groups : s \in Groups[g]}

(* _filter_scenarios *)
Supported(w) == {s \in WorkflowMap : <<w, s>> \in Supports}

(* expected_job_time *)
Time(w, scens) == MapThenSumSet(LAMBDA s : RunTime[w][s], scens)

(* The instances of a weblog. The jobs of a weblog are listed by instance, so that
   the first of them is the least. *)
Instances(w) == {k[2] : k \in {j \in DOMAIN jobs : j[1] = w}}

JobTime(w, i) == Time(w, jobs[<<w, i>>])

JobCount == Cardinality(DOMAIN jobs)

(* The assert on maximum_parallel_jobs; then one job for each weblog that supports a
   scenario, which the split replaces by its own. *)
Start ==
    /\ pc = "endtoend"
    /\ \/ /\ inputs.maximum < Cardinality(Weblogs)
          /\ pc' = "refused" /\ UNCHANGED <<queue, jobs>>
       \/ /\ inputs.maximum >= Cardinality(Weblogs) /\ desired <= 0
          /\ pc' = "split" /\ UNCHANGED queue
          /\ jobs' = [k \in {w \in Weblogs : Supported(w) # {}} \X {1} |-> Supported(k[1])]
       \/ /\ inputs.maximum >= Cardinality(Weblogs) /\ desired > 0
          /\ pc' = "split" /\ UNCHANGED jobs
          /\ queue' = {p \in Weblogs \X WorkflowMap : p \in Supports}
    /\ UNCHANGED <<inputs, selection, desired, order, moving>>

\* Fault: the time of the build is forgotten.
LimitNoBuild(w) == desired

(* desired_execution_time - self.build_time *)
Limit(w) == desired - BuildTime[w]

(* Of the scenarios of w still to be placed the longest; sorted is stable. *)
Longest(w) ==
    LET left == {s \in WorkflowMap : <<w, s>> \in queue}
    IN  Min({s \in left : \A u \in left : RunTime[w][u] <= RunTime[w][s]})

(* One turn of _split_scenarios_for_parallel_execution, weblog after weblog: the
   first backpack in which the scenario fits, or a new one. *)
Place ==
    /\ pc = "split" /\ queue # {}
    /\ LET w    == Min({p[1] : p \in queue})
           s    == Longest(w)
           fits == {i \in Instances(w) : JobTime(w, i) + RunTime[w][s] <= Limit(w)}
           new  == <<w, Cardinality(Instances(w)) + 1>>
       IN  /\ jobs' = IF RunTime[w][s] > Limit(w) \/ fits = {}
                      THEN [k \in DOMAIN jobs \cup {new} |-> IF k = new THEN {s} ELSE jobs[k]]
                      ELSE [jobs EXCEPT ![<<w, Min(fits)>>] = @ \cup {s}]
           /\ queue' = queue \ {<<w, s>>}
    /\ UNCHANGED <<pc, inputs, selection, desired, order, moving>>

(* The head of the while loop: the for loop goes through the jobs there are now. *)
StartMerge ==
    /\ pc = "split" /\ queue = {}
    /\ pc' = "merge"
    /\ order' = IF desired > 0 /\ JobCount > inputs.maximum THEN DOMAIN jobs ELSE {}
    /\ UNCHANGED <<inputs, selection, desired, queue, jobs, moving>>

(* By decreasing instance; sorted is stable, and the jobs are listed by weblog. *)
JobToDelete ==
    LET last == Max({k[2] : k \in order})
    IN  <<Min({k[1] : k \in {j \in order : j[2] = last}}), last>>

(* One turn of the for loop: the job leaves the result, with the scenarios that it
   may have been given since. *)
DeleteJob ==
    /\ pc = "merge" /\ moving = {} /\ order # {} /\ JobCount > inputs.maximum
    /\ jobs' = [k \in DOMAIN jobs \ {JobToDelete} |-> jobs[k]]
    /\ moving' = {JobToDelete[1]} \X jobs[JobToDelete]
    /\ order' = order \ {JobToDelete}
    /\ UNCHANGED <<pc, inputs, selection, desired, queue>>

\* Fault: the fastest job is chosen once, and gets the first scenario only.
GiveScenarioOnce ==
    /\ pc = "merge" /\ moving # {}
    /\ \E p \in moving :
          LET w == p[1]
          IN  IF Instances(w) = {} THEN pc' = "error" /\ UNCHANGED jobs
              ELSE jobs' = [jobs EXCEPT ![<<w, Min(Instances(w))>>] = @ \cup {p[2]}] /\ UNCHANGED pc
    /\ moving' = {}
    /\ UNCHANGED <<inputs, selection, desired, queue, order>>

(* A scenario of it, in whatever order, goes to the fastest job of the weblog: min
   raises when there is none, append_scenario when that job has the scenario. *)
GiveScenario ==
    /\ pc = "merge"
    /\ \E p \in moving :
          LET w    == p[1]
              s    == p[2]
              best == {i \in Instances(w) : \A k \in Instances(w) : JobTime(w, i) <= JobTime(w, k)}
              job  == <<w, Min(best)>>
          IN  /\ \/ /\ Instances(w) = {} \/ s \in jobs[job]
                    /\ pc' = "error" /\ UNCHANGED jobs
                 \/ /\ Instances(w) # {} /\ s \notin jobs[job]
                    /\ jobs' = [jobs EXCEPT ![job] = @ \cup {s}] /\ UNCHANGED pc
              /\ moving' = moving \ {p}
    /\ UNCHANGED <<inputs, selection, desired, queue, order>>

(* len(result) <= maximum_parallel_jobs, or no split was asked; the output is sorted
   by weblog and instance, by which jobs are known here.  A second pass of the while
   loop is never needed: a state that needs one would be a deadlock here. *)
Finish ==
    /\ pc = "merge" /\ moving = {}
    /\ JobCount <= inputs.maximum \/ desired <= 0
    /\ pc' = "done"
    /\ UNCHANGED <<inputs, selection, splitting>>

Done ==
    /\ pc \in {"done", "refused", "error"}
    /\ UNCHANGED vars

-----------------------------------------------------------------------------
Next ==
    \/ ProcessManifests \/ (\E f \in Files : AddFile(f)) \/ Outputs
    \/ Start \/ Place \/ StartMerge \/ DeleteJob \/ GiveScenario \/ Finish
    \/ Done

Spec == Init /\ [][Next]_vars

(* A program that runs to its end. *)
FairSpec == Spec /\ WF_vars(Next)

-----------------------------------------------------------------------------
(* The tests that a change concerns: the ones whose file changed, whose folder, or
   a folder above, has a changed support file or a utils folder with a change, or to
   which a changed declaration applies (match_rule). *)
Near(n, f) ==
    /\ Head(f) = "tests"
    /\ \/ FileOf[n] = f
       \/ f \in SupportFiles /\ IsPrefix(Folder(f), Folder(FileOf[n]))
       \/ \E k \in 2 .. Len(f) - 1 :
             f[k] = "utils" /\ IsPrefix(SubSeq(f, 1, k - 1), Folder(FileOf[n]))

Concerned(n) ==
    \/ \E f \in inputs.files : Near(n, f)
    \/ \E r \in DOMAIN OldManifests : inputs.manifests[r] # OldManifests[r] /\ IsPrefix(r, n)

(* The scenarios whose definition changed. *)
Redefined == UNION {DefinedIn[f] : f \in inputs.files \cap DOMAIN DefinedIn}

(* What a change concerns is run: when the jobs are there, every scenario of every
   test that the change concerns, and every scenario whose definition changed, is in a
   job of every weblog that supports it, through selection, split and merge. *)
ChangesAreTested ==
    pc = "done" /\ inputs.diff =>
        LET concerned == ScenariosOf({n \in DOMAIN ScenarioMap : Concerned(n)}) \cup Redefined
        IN  \A s \in concerned \cap (EndToEnd \ Excluded), w \in Weblogs :
                <<w, s>> \in Supports => \E i \in Instances(w) : s \in jobs[<<w, i>>]

(* Every job that the split made keeps to the desired time unless it has a single
   scenario, and no two jobs of a weblog could have been one: first fit decreasing
   with the build time counted for each job (_split_scenarios_for_parallel_execution). *)
SplitIsTight ==
    pc = "split" /\ desired > 0 =>
        \A w \in Weblogs : \A i \in Instances(w) :
            /\ JobTime(w, i) + BuildTime[w] > desired => Cardinality(jobs[<<w, i>>]) = 1
            /\ \A k \in Instances(w) \ {i} : JobTime(w, i) + JobTime(w, k) + BuildTime[w] > desired

(* The jobs have each supported scenario once, and are as many as allowed: no more
   than maximum_parallel_jobs, and no fewer than that when some were merged
   (_split_jobs_for_parallel_execution). *)
Complete ==
    /\ \A w \in Weblogs, s \in Scenarios :
          Cardinality({i \in Instances(w) : s \in jobs[<<w, i>>]}) = IF s \in Supported(w) THEN 1 ELSE 0
    /\ desired > 0 => JobCount <= inputs.maximum /\ (order # {} => JobCount = inputs.maximum)

(* The computation ends, never in the min of an empty list nor in the assert of
   append_scenario, and with the jobs it should have. *)
JobsAreComputed == <>(pc = "refused" \/ (pc = "done" /\ Complete))
=============================================================================

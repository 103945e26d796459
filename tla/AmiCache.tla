------------------------------ MODULE AmiCache ------------------------------
(***************************************************************************)
(* The cache of machine images (AMIs) that the AWS SSI jobs share: one     *)
(* cache key, several CI jobs that look for an image, build one, test it   *)
(* and give it a verdict (utils/virtual_machine/aws_provider.py,           *)
(* aws_candidate_boot.py, ami_candidate.py), and the scheduled and manual  *)
(* clean-ups (utils/scripts/pulumi_clean_up.py).  Nothing locks the        *)
(* account: whatever a job or a clean-up reads may be stale when it acts.  *)
(***************************************************************************)
EXTENDS Integers, FiniteSets

CONSTANTS Jobs,              \* the CI jobs of this cache key
          MaxAmis,           \* bound: images that are ever created
          MaxClock,          \* bound: the clock stops there
          JobsUntil,         \* bound: the jobs have ended when that time is over
          MaxFaults,         \* bound: failed calls of the clean-up, removals by hand
          Attempts,          \* attempts of _stack_up_with_idempotency_retry
          BuildWindow,       \* _CANDIDATE_BUILD_WINDOW
          RetentionDays,     \* --ami-retention-days
          LastLaunchedDays,  \* --ami-last-launched-days
          ReportDelay        \* _LAUNCH_REPORT_DELAY_DAYS, and the delay of AWS

ASSUME AmiAssumption ==
    /\ {MaxAmis, MaxClock, MaxFaults} \subseteq Nat
    /\ {BuildWindow, RetentionDays, LastLaunchedDays} \subseteq Nat
    /\ {Attempts, ReportDelay} \subseteq Nat \ {0}

Never == -1
Base  == 0                   \* the public image a machine is built from
Ids   == 1 .. MaxAmis

VARIABLES clock,
          amis,              \* the images of the AWS account
          job,               \* what each job knows
          cleaner,           \* the scheduled clean-up
          faults,
          passed, failed     \* history: images that were tested, and how

vars == <<clock, amis, job, cleaner, faults, passed, failed>>

(* An image.  aws is its state for AWS: "none" (not created yet), pending,
   available, failed or gone; tag is ami-state; retire is ami-retire-at. *)
NoAmi == [aws |-> "none", tag |-> "none", created |-> 0, launches |-> {}, retire |-> Never]

NewAmi == [NoAmi EXCEPT !.aws = "pending", !.tag = "candidate", !.created = clock]

Exists(a) == amis[a].aws \notin {"none", "gone"}

(* A job: the two flags of DataDogConfig, aws_config.ami_id,
   the image its machine runs on, the image it created in this attempt,
   booted_candidate_ami_id, and the state to give to it. *)
NewJob(update, skip) ==
    [pc |-> "look", update |-> update, skip |-> skip, image |-> Base,
     server |-> Base, new |-> Never, booted |-> Never, attempt |-> 1, verdict |-> "none"]

(* A job that has ended: its machines are destroyed. *)
Over == [NewJob(FALSE, FALSE) EXCEPT !.pc = "done"]

Idle == [pc |-> "idle", todo |-> {}, ami |-> Never, act |-> "keep", at |-> 0]

(* An untagged image of an older version of the code may be there. *)
Init ==
    /\ clock = 0
    /\ amis \in {[a \in Ids |-> NoAmi],
                 [a \in Ids |-> IF a = 1 THEN [NoAmi EXCEPT !.aws = "available"] ELSE NoAmi]}
    /\ job \in [Jobs -> {NewJob(FALSE, FALSE), NewJob(TRUE, FALSE), NewJob(FALSE, TRUE)}]
    /\ cleaner = Idle
    /\ faults = 0
    /\ passed = {} /\ failed = {}

-----------------------------------------------------------------------------
(* ami_candidate.py *)

StillBuilding(a) ==
    /\ amis[a].aws # "available" \/ amis[a].tag = "candidate"
    /\ clock - amis[a].created < BuildWindow

Newest(S) == {a \in S : \A b \in S : amis[b].created <= amis[a].created}

(* The images select_usable_ami may return; empty for None.  Images of the same
   date, and untagged ones, come in the order of AWS. *)
SelectUsable(S) ==
    LET usable    == {a \in S : amis[a].tag # "rejected"}
        available == {a \in usable : amis[a].aws = "available" /\ amis[a].tag # "candidate"}
        active    == {a \in available : amis[a].tag = "active"}
        untagged  == {a \in available : amis[a].tag = "none"}
    IN  CASE active # {}   -> Newest(active)
          [] active = {} /\ untagged # {} -> untagged
          [] OTHER         -> Newest({a \in usable : StillBuilding(a)})

\* Fault: what can be booted is what is available.
CachePlanAvailable(a) == IF amis[a].aws = "available" THEN "use" ELSE "wait"

CachePlan(a) ==
    CASE amis[a].aws = "available" /\ amis[a].tag # "candidate" -> "use"
      [] StillBuilding(a) -> "wait"
      [] OTHER -> "create"

(* candidate_result_state: the verdict on the image, or "none". *)
ResultState(exitstatus, provisionFailed, outcomes) ==
    IF provisionFailed \/ outcomes = {} THEN "none"
    ELSE IF outcomes \cap {"failed", "error"} # {} THEN "rejected"
    ELSE IF exitstatus = 0 THEN "active" ELSE "none"

-----------------------------------------------------------------------------
(* A job, from pytest_sessionstart (stack_up) to pytest_sessionfinish. *)

Builds(j) == job[j].update /\ ~job[j].skip

Move(j, rec) == job' = [job EXCEPT ![j] = rec]

Others == UNCHANGED <<clock, cleaner, faults, passed, failed>>

(* _configure_cached_amis.  An image that vanishes between the list of the ids
   and the look at it makes the call raise: that is Stop. *)
Look(j) ==
    /\ job[j].pc = "look"
    /\ LET found == SelectUsable({a \in Ids : Exists(a)})
           next  == [job[j] EXCEPT !.pc = "launch"]
       IN  \/ (job[j].skip \/ job[j].update) /\ Move(j, next)
           \/ ~job[j].skip /\ ~job[j].update /\ found = {} /\ Move(j, [next EXCEPT !.update = TRUE])
           \/ /\ ~job[j].skip /\ ~job[j].update
              /\ \E a \in found :
                    Move(j, CASE CachePlan(a) = "create" -> [next EXCEPT !.update = TRUE]
                              [] CachePlan(a) = "wait"   -> [next EXCEPT !.skip = TRUE]
                              [] OTHER                   -> [next EXCEPT !.image = a])
    /\ UNCHANGED amis /\ Others

(* _launch_instance on an image: AWS notes the launch. *)
Bootable(a) == a # Base => amis[a].aws = "available"

Launched(a) == IF a = Base THEN amis ELSE [amis EXCEPT ![a].launches = @ \cup {clock}]

(* The session: the configuration of the stack is not read any more. *)
Testing(j, a) ==
    [Over EXCEPT !.pc = "test", !.server = a, !.new = job[j].new, !.booted = job[j].booted]

(* _start_vm, and the provision when there is no image to create. *)
Launch(j) ==
    /\ job[j].pc = "launch" /\ Bootable(job[j].image)
    /\ amis' = Launched(job[j].image)
    /\ Move(j, IF Builds(j) THEN [job[j] EXCEPT !.pc = "create", !.server = job[j].image]
               ELSE Testing(j, job[j].image))
    /\ Others

(* create_cache, once the cacheable steps are installed. *)
Create(j) ==
    /\ job[j].pc = "create"
    /\ \E a \in Ids :
          /\ amis[a].aws = "none" /\ \A b \in Ids : b < a => amis[b].aws # "none"
          /\ amis' = [amis EXCEPT ![a] = NewAmi]
          /\ Move(j, [job[j] EXCEPT !.pc = "created", !.new = a])
    /\ Others

(* AWS makes the image, whether its job is still there or not. *)
AmiReady(a) ==
    /\ amis[a].aws = "pending"
    /\ \E s \in {"available", "failed"} : amis' = [amis EXCEPT ![a].aws = s]
    /\ UNCHANGED job /\ Others

\* Fault: only the first image of the job is remembered.
CreatedFirst(j) ==
    /\ job[j].pc = "created" /\ amis[job[j].new].aws = "available"
    /\ Move(j, [job[j] EXCEPT !.pc = "boot",
                              !.booted = IF @ = Never THEN job[j].new ELSE @])
    /\ UNCHANGED amis /\ Others

(* The id of the image is known: use_created_cache keeps it. *)
Created(j) ==
    /\ job[j].pc = "created" /\ amis[job[j].new].aws = "available"
    /\ Move(j, [job[j] EXCEPT !.pc = "boot", !.booted = job[j].new])
    /\ UNCHANGED amis /\ Others

(* The machine of the candidate, on which the provision goes on. *)
Boot(j) ==
    /\ job[j].pc = "boot" /\ Bootable(job[j].new)
    /\ amis' = Launched(job[j].new)
    /\ Move(j, Testing(j, job[j].new))
    /\ Others

(* IdempotentParameterMismatch when an instance is created: the stack is
   destroyed, not the image (retain_on_delete), and the program runs again. *)
Retry(j) ==
    /\ job[j].pc \in {"launch", "boot"} /\ job[j].attempt < Attempts
    /\ Move(j, [job[j] EXCEPT !.pc = "look", !.attempt = @ + 1, !.server = Base, !.new = Never])
    /\ UNCHANGED amis /\ Others

(* What a session may end with: a failed test is never exit code 0; an error of a
   fixture may be (pytest.skip in a fixture); code 1 has a failed or broken test. *)
Endings ==
    {r \in [exit : 0 .. 3, outcomes : SUBSET {"passed", "skipped", "failed", "error"}] :
        /\ "failed" \in r.outcomes => r.exit # 0
        /\ r.exit = 1 => r.outcomes \cap {"failed", "error"} # {}}

(* pytest_sessionfinish of the scenario, up to promote_booted_candidate. *)
SessionFinish(j) ==
    /\ job[j].pc = "test"
    /\ \E r \in Endings :
          LET verdict == ResultState(r.exit, FALSE, r.outcomes)
              bad     == r.outcomes \cap {"failed", "error"} # {}
              told    == verdict # "none" /\ job[j].booted # Never
              tested  == {job[j].server} \ {Base}
          IN  /\ Move(j, IF told THEN [Over EXCEPT !.pc = "tag", !.booted = job[j].booted, !.verdict = verdict]
                         ELSE Over)
              /\ passed' = IF r.exit = 0 /\ r.outcomes # {} /\ ~bad
                           THEN passed \cup tested ELSE passed
              /\ failed' = IF bad THEN failed \cup tested ELSE failed
    /\ UNCHANGED <<clock, amis, cleaner, faults>>

(* set_created_candidate_state: describe_images, then create_tags; only a removal
   can come between the two.  The machines are destroyed, the image stays. *)
Tag(j) ==
    /\ job[j].pc = "tag"
    /\ amis' = IF Exists(job[j].booted) /\ amis[job[j].booted].tag = "candidate"
               THEN [amis EXCEPT ![job[j].booted].tag = job[j].verdict] ELSE amis
    /\ Move(j, Over)
    /\ Others

(* Any other failure of stack_up is a pytest.exit before the first test, on which
   candidate_result_state gives no verdict.  The CI may also kill the job, and a
   call to AWS may raise in the promotion. *)
Stop(j) ==
    /\ job[j].pc # "done"
    /\ Move(j, Over)
    /\ UNCHANGED amis /\ Others

-----------------------------------------------------------------------------
(* pulumi_clean_up.py *)

(* What get_last_launched_time may return: AWS may not show a launch that is
   less than ReportDelay old. *)
Reported(a) ==
    {t \in amis[a].launches \cup {Never} :
        \A l \in amis[a].launches : l + ReportDelay <= clock => l <= t}

\* Fault: an image that matches is removed at once.
CleanupActionNoMark(a, launched, ok) ==
    LET old   == amis[a].created < clock - RetentionDays
        stale == launched # Never /\ launched < clock - LastLaunchedDays
    IN  IF amis[a].tag = "rejected" \/ old \/ stale THEN "delete" ELSE "keep"

\* Fault: a candidate is for ever left to its job.
CleanupActionKeepCandidate(a, launched, ok) ==
    LET old   == amis[a].created < clock - RetentionDays
    IN  IF amis[a].tag # "candidate" /\ (amis[a].tag = "rejected" \/ old) THEN "delete" ELSE "keep"

(* ami_cleanup_action; launched is Never when the lookup failed. *)
CleanupAction(a, launched, ok) ==
    LET old    == amis[a].created < clock - RetentionDays
        stale  == launched # Never /\ launched < clock - LastLaunchedDays
        retire == amis[a].retire
        kept   == amis[a].tag \in {"active", "candidate"}
    IN  CASE amis[a].tag = "rejected"            -> "delete"
          [] kept /\ ~ok                         -> "keep"
          [] kept /\ ok /\ ~(old \/ stale)       -> IF retire # Never THEN "clear" ELSE "keep"
          [] kept /\ ok /\ (old \/ stale)        -> CASE retire = Never -> "mark"
                                                      [] retire # Never /\ retire <= clock -> "delete"
                                                      [] OTHER -> "keep"
          [] OTHER                               -> IF old \/ stale THEN "delete" ELSE "keep"

(* deregister_ami: the image leaves the account. *)
Deregistered(a) == [amis EXCEPT ![a] = [NoAmi EXCEPT !.aws = "gone", !.tag = amis[a].tag]]

CleanStart ==
    /\ cleaner.pc = "idle" /\ \E a \in Ids : Exists(a)
    /\ cleaner' = [Idle EXCEPT !.pc = "next", !.todo = {a \in Ids : Exists(a)}]
    /\ UNCHANGED <<clock, amis, job, faults, passed, failed>>

(* One turn of the loop of clean_up_amis, up to the decision; get_ami raises when
   the image is gone, and ends the run. *)
CleanDecide ==
    /\ cleaner.pc = "next"
    /\ \E a \in cleaner.todo :
          \/ /\ ~Exists(a)
             /\ cleaner' = Idle /\ UNCHANGED faults
          \/ /\ Exists(a)
             /\ \E t \in Reported(a) :
                   cleaner' = [cleaner EXCEPT !.pc = "act", !.todo = @ \ {a}, !.ami = a,
                                              !.act = CleanupAction(a, t, TRUE), !.at = clock]
             /\ UNCHANGED faults
          \/ /\ Exists(a) /\ faults < MaxFaults
             /\ cleaner' = [cleaner EXCEPT !.pc = "act", !.todo = @ \ {a}, !.ami = a,
                                           !.act = CleanupAction(a, Never, FALSE), !.at = clock]
             /\ faults' = faults + 1
    /\ UNCHANGED <<clock, amis, job, passed, failed>>

(* The time of the tag; the last value of the clock stands for all later ones. *)
RetireAt(t) == IF t + ReportDelay < MaxClock THEN t + ReportDelay ELSE MaxClock

(* delete_ami, _set_retire_tag or _clear_retire_tag: none of them reports that
   its call failed. *)
CleanAct ==
    /\ cleaner.pc = "act"
    /\ cleaner' = IF cleaner.todo = {} THEN Idle
                  ELSE [Idle EXCEPT !.pc = "next", !.todo = cleaner.todo]
    /\ LET a == cleaner.ami
       IN  \/ /\ amis' = CASE ~Exists(a) -> amis
                           [] Exists(a) /\ cleaner.act = "delete" -> Deregistered(a)
                           [] Exists(a) /\ cleaner.act = "mark" ->
                                 [amis EXCEPT ![a].retire = RetireAt(cleaner.at)]
                           [] Exists(a) /\ cleaner.act = "clear" -> [amis EXCEPT ![a].retire = Never]
                           [] OTHER -> amis
              /\ UNCHANGED faults
           \/ /\ cleaner.act # "keep" /\ faults < MaxFaults
              /\ faults' = faults + 1 /\ UNCHANGED amis
    /\ UNCHANGED <<clock, job, passed, failed>>

(* clean_up_amis_by_name: someone removes an image of this key by hand. *)
DeleteByName(a) ==
    /\ Exists(a) /\ faults < MaxFaults
    /\ amis' = Deregistered(a)
    /\ faults' = faults + 1
    /\ UNCHANGED <<clock, job, cleaner, passed, failed>>

Tick ==
    /\ clock < MaxClock
    /\ clock = JobsUntil => \A j \in Jobs : job[j].pc = "done"
    /\ clock' = clock + 1
    /\ UNCHANGED <<amis, job, cleaner, faults, passed, failed>>

-----------------------------------------------------------------------------
JobStep(j) ==
    \/ Look(j) \/ Launch(j) \/ Create(j) \/ Created(j) \/ Boot(j)
    \/ Retry(j) \/ SessionFinish(j) \/ Tag(j) \/ Stop(j)

Cleanup == CleanStart \/ CleanDecide \/ CleanAct

Next ==
    \/ \E j \in Jobs : JobStep(j)
    \/ \E a \in Ids : AmiReady(a) \/ DeleteByName(a)
    \/ Cleanup
    \/ Tick

Spec == Init /\ [][Next]_vars

(* Time passes, the clean-up is a scheduled pipeline, and the CI ends a job that runs
   for too long.  Nothing more is assumed of the jobs: each may be killed or stuck at
   any step. *)
FairSpec == Spec /\ WF_vars(Tick) /\ (\A j \in Jobs : WF_vars(Stop(j))) /\ WF_vars(Cleanup)

-----------------------------------------------------------------------------
(* Images, jobs and the clean-up have the fields that AWS, DataDogConfig and the
   loop over the images give them. *)
ImageTypes ==
    amis \in [Ids -> [aws : {"none", "pending", "available", "failed", "gone"},
                      tag : {"none", "candidate", "active", "rejected"},
                      created : Nat, launches : SUBSET Nat, retire : Int]]
JobTypes ==
    job \in [Jobs ->
        [pc : {"look", "launch", "create", "created", "boot", "test", "tag", "done"},
         update : BOOLEAN, skip : BOOLEAN, image : Ids \cup {Base}, server : Ids \cup {Base},
         new : Ids \cup {Never}, booted : Ids \cup {Never}, attempt : Nat,
         verdict : {"none", "active", "rejected"}]]
CleanerTypes ==
    cleaner \in [pc : {"idle", "next", "act"}, todo : SUBSET Ids, ami : Ids \cup {Never},
                 act : {"keep", "mark", "clear", "delete"}, at : Nat]
TypeOK ==
    /\ ImageTypes /\ JobTypes /\ CleanerTypes
    /\ clock \in Nat /\ faults \in Nat /\ passed \subseteq Ids /\ failed \subseteq Ids

(* The verdict on an image comes from tests that ran on a machine booted from that
   very image: active after a session that ended with code 0 and no failed test,
   rejected after a failed one; also when the stack was brought up again and the
   job made a second image (promote_booted_candidate, candidate_result_state). *)
VerdictIsEarned ==
    \A a \in Ids : /\ amis[a].tag = "active"   => a \in passed
                   /\ amis[a].tag = "rejected" => a \in failed

(* A job that tests on an image it did not make itself runs on one that had passed
   its tests, or on an untagged one: never on the candidate of another job, whatever
   happened between its look at the account and the boot (select_usable_ami:
   "Never boot a candidate or rejected AMI"). *)
TrustedBoot ==
    \A j \in Jobs :
        LET a == job[j].server
        IN  a # Base /\ a # job[j].new => a \in passed \/ amis[a].tag = "none"

(* The extra day of ami-retire-at covers the delay with which AWS reports launches:
   a tagged image that is not past its retention is removed only if, up to the time
   it was marked, it truly had not been launched for LastLaunchedDays. *)
HiddenLaunchIsSafe ==
    [][cleaner.pc = "act" /\ cleaner.pc' # "act" =>
          LET a == cleaner.ami
          IN  (/\ Exists(a) /\ amis'[a].aws = "gone"
               /\ amis[a].tag \in {"active", "candidate"}
               /\ amis[a].created >= cleaner.at - RetentionDays)
              => LET marked == IF amis[a].retire = Never THEN cleaner.at
                               ELSE amis[a].retire - ReportDelay
                 IN  \A l \in amis[a].launches :
                        l <= marked => l < cleaner.at - LastLaunchedDays]_vars

(* No image stays for ever, those of killed jobs and those whose removal failed once
   included: the scheduled clean-up gets them in the end. *)
EventuallyRemoved == \A a \in Ids : Exists(a) ~> ~Exists(a)
=============================================================================

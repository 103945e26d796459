---------------------------- MODULE AmiCacheProofs ----------------------------
(***************************************************************************)
(* Proofs about AmiCache, for any number of jobs and images and any        *)
(* retention times.                                                        *)
(* The argument: a job that made an image keeps building until it boots    *)
(* that image, so that what it tests is what it gives a verdict on         *)
(* (JobInv); an image that was worth booting stays so, because tags only   *)
(* leave "candidate" (TrustInv); and between the decision to remove an     *)
(* image and its removal only launches are added, all of them too recent   *)
(* to count (CleanInv).                                                    *)
(***************************************************************************)
EXTENDS AmiCache, TLAPS

\* A job that creates an image runs with update and without skip up to the boot; a
\* test on a machine of a made image is on the one the verdict is for; a verdict
\* that is on its way is of tests on that image.
Sound(r, good, bad) ==
    /\ r.pc \in {"create", "created", "boot"} => r.update /\ ~r.skip
    /\ r.pc \in {"look", "launch"} /\ r.booted # Never => r.update /\ ~r.skip
    /\ r.pc \in {"look", "launch", "create"} => r.new = Never
    /\ r.pc \in {"created", "boot"} => r.new # Never
    /\ r.pc = "boot" => r.booted = r.new
    /\ r.pc = "test" /\ r.booted # Never => r.server = r.booted
    /\ r.pc = "tag" => r.booted # Never
    /\ r.pc = "tag" /\ r.verdict = "active" => r.booted \in good
    /\ r.pc = "tag" /\ r.verdict = "rejected" => r.booted \in bad

JobInv == \A j \in Jobs : Sound(job[j], passed, failed)

\* The image is there or was, and passed its tests or never had a tag.
Trusted(a, images, good) ==
    a # Base => images[a].aws # "none" /\ (a \in good \/ images[a].tag = "none")

TrustInv ==
    /\ VerdictIsEarned
    /\ \A j \in Jobs :
          /\ Trusted(job[j].image, amis, passed)
          /\ job[j].server = job[j].new \/ Trusted(job[j].server, amis, passed)

\* A tagged image that is about to be removed was marked for long enough, and the
\* launches that AWS should have reported are old.
Removable(a) ==
    (/\ Exists(a) /\ amis[a].tag \in {"active", "candidate"}
     /\ amis[a].created >= cleaner.at - RetentionDays)
    => /\ amis[a].retire # Never /\ amis[a].retire <= cleaner.at
       /\ \A l \in amis[a].launches :
             l + ReportDelay <= cleaner.at => l < cleaner.at - LastLaunchedDays

CleanInv ==
    /\ cleaner.at <= clock
    /\ cleaner.pc = "act" => cleaner.ami # Never
    /\ \A a \in cleaner.todo \cup {cleaner.ami} : a # Never => amis[a].aws # "none"
    /\ cleaner.pc = "act" /\ cleaner.act = "delete" => Removable(cleaner.ami)

IInv == TypeOK /\ JobInv /\ TrustInv /\ CleanInv

ImageRecord ==
    [aws : {"none", "pending", "available", "failed", "gone"},
     tag : {"none", "candidate", "active", "rejected"},
     created : Nat, launches : SUBSET Nat, retire : Int]

JobRecord ==
    [pc : {"look", "launch", "create", "created", "boot", "test", "tag", "done"},
     update : BOOLEAN, skip : BOOLEAN, image : Ids \cup {Base}, server : Ids \cup {Base},
     new : Ids \cup {Never}, booted : Ids \cup {Never}, attempt : Nat,
     verdict : {"none", "active", "rejected"}]

-----------------------------------------------------------------------------
(* Types.                                                                  *)

\* The identifiers of images are neither the base image nor Never.
LEMMA IdsAreNew == Base \notin Ids /\ Never \notin Ids /\ Ids \subseteq Nat
  BY AmiAssumption DEF Ids, Base, Never

\* The fixed records.
LEMMA FixedRecords ==
    /\ NoAmi \in ImageRecord /\ Over \in JobRecord
    /\ \A u, k \in BOOLEAN : NewJob(u, k) \in JobRecord
<1>1. NoAmi \in ImageRecord
  BY DEF NoAmi, Never, ImageRecord
<1>2. ASSUME NEW u \in BOOLEAN, NEW k \in BOOLEAN PROVE NewJob(u, k) \in JobRecord
  BY DEF NewJob, JobRecord
<1>3. Over \in JobRecord
  BY DEF Over, NewJob, JobRecord
<1> QED
  BY <1>1, <1>2, <1>3

\* The account starts without tagged images and the jobs with a look at it.
LEMMA InitIInv == Init => IInv
<1> SUFFICES ASSUME Init PROVE IInv
  OBVIOUS
<1>1. ImageTypes
  <2>1. [NoAmi EXCEPT !.aws = "available"] \in ImageRecord
    BY FixedRecords DEF ImageRecord
  <2> QED BY <2>1, FixedRecords DEF Init, ImageTypes, ImageRecord
<1>2. JobTypes
  <2>1. {NewJob(FALSE, FALSE), NewJob(TRUE, FALSE), NewJob(FALSE, TRUE)} \subseteq JobRecord
    BY FixedRecords
  <2> QED BY <2>1 DEF Init, JobTypes, JobRecord
<1>3. CleanerTypes
  BY DEF Init, Idle, CleanerTypes
<1>4. TypeOK
  BY <1>1, <1>2, <1>3 DEF Init, TypeOK
<1>5. \A a \in Ids : amis[a].tag = "none"
  BY DEF Init, NoAmi
<1>6. \A j \in Jobs : job[j].pc = "look" /\ job[j].booted = Never /\ job[j].image = Base
                     /\ job[j].server = Base /\ job[j].new = Never
  BY DEF Init, NewJob
<1>7. JobInv
  BY <1>6 DEF JobInv, Sound
<1>8. TrustInv
  BY <1>5, <1>6 DEF TrustInv, VerdictIsEarned, Trusted
<1>9. CleanInv
  BY DEF Init, Idle, CleanInv
<1> QED
  BY <1>4, <1>7, <1>8, <1>9 DEF IInv

\* Images: every step of a job, of AWS and of the clean-up keeps their fields.
LEMMA ImageStep == TypeOK /\ [Next]_vars => ImageTypes'
<1> SUFFICES ASSUME TypeOK, [Next]_vars PROVE ImageTypes'
  OBVIOUS
<1> USE DEF TypeOK
<1>0. amis \in [Ids -> ImageRecord]
  BY DEF ImageTypes, ImageRecord
<1>1. ASSUME NEW a \in Ids, NEW r \in ImageRecord, amis' = [amis EXCEPT ![a] = r]
      PROVE  ImageTypes'
  BY <1>0, <1>1 DEF ImageTypes, ImageRecord
<1>2. CASE UNCHANGED amis
  BY <1>2 DEF ImageTypes
<1>3. ASSUME NEW a \in Ids \cup {Base}, amis' = Launched(a) PROVE ImageTypes'
  <2>1. CASE a = Base
    BY <1>2, <1>3, <2>1 DEF Launched
  <2>2. CASE a # Base
    <3>1. [amis[a] EXCEPT !.launches = amis[a].launches \cup {clock}] \in ImageRecord
      BY <1>0, <2>2 DEF ImageRecord
    <3>2. amis' = [amis EXCEPT ![a] = [amis[a] EXCEPT !.launches = amis[a].launches \cup {clock}]]
      BY <1>3, <2>2 DEF Launched
    <3> QED BY <1>1, <2>2, <3>1, <3>2
  <2> QED BY <2>1, <2>2
<1>4. ASSUME NEW j \in Jobs, Launch(j) \/ Boot(j) PROVE ImageTypes'
  <2>1. job[j].image \in Ids \cup {Base} /\ job[j].new \in Ids \cup {Never}
    BY DEF JobTypes
  <2>2. CASE Launch(j)
    BY <1>3, <2>1, <2>2 DEF Launch
  <2>3. CASE Boot(j) /\ job[j].new \in Ids
    BY <1>3, <2>3 DEF Boot
  <2>4. CASE Boot(j) /\ job[j].new = Never
    BY <1>0, <2>4, IdsAreNew DEF Boot, Launched, Base, Never, ImageTypes, ImageRecord
  <2> QED BY <1>4, <2>1, <2>2, <2>3, <2>4
<1>5. ASSUME NEW j \in Jobs, Create(j) PROVE ImageTypes'
  <2>1. NewAmi \in ImageRecord
    BY FixedRecords DEF NewAmi, ImageRecord
  <2> QED BY <1>1, <1>5, <2>1 DEF Create
<1>6. ASSUME NEW a \in Ids, AmiReady(a) PROVE ImageTypes'
  <2>1. PICK x \in {"available", "failed"} : amis' = [amis EXCEPT ![a] = [amis[a] EXCEPT !.aws = x]]
    BY <1>6 DEF AmiReady
  <2>2. [amis[a] EXCEPT !.aws = x] \in ImageRecord
    BY <1>0 DEF ImageRecord
  <2> QED BY <1>1, <2>1, <2>2
<1>7. ASSUME NEW j \in Jobs, Tag(j) PROVE ImageTypes'
  <2> DEFINE a == job[j].booted
             r == [amis[a] EXCEPT !.tag = job[j].verdict]
  <2>1. CASE a \in Ids
    <3>1. r \in ImageRecord
      BY <1>0, <2>1 DEF ImageRecord, JobTypes
    <3>2. UNCHANGED amis \/ amis' = [amis EXCEPT ![a] = r]
      BY <1>7 DEF Tag
    <3> HIDE DEF a, r
    <3> QED BY <1>1, <1>2, <2>1, <3>1, <3>2
  <2>2. CASE a \notin Ids
    BY <1>0, <1>7, <2>2 DEF Tag, ImageTypes, ImageRecord
  <2> QED BY <2>1, <2>2
<1>8. ASSUME NEW a \in Ids, amis' = Deregistered(a) PROVE ImageTypes'
  <2>1. [NoAmi EXCEPT !.aws = "gone", !.tag = amis[a].tag] \in ImageRecord
    BY <1>0, FixedRecords DEF ImageRecord
  <2> QED BY <1>1, <1>8, <2>1 DEF Deregistered
<1>9. CASE CleanAct
  <2> DEFINE a == cleaner.ami
  <2>1. RetireAt(cleaner.at) \in Int /\ Never \in Int
    BY AmiAssumption DEF RetireAt, Never, CleanerTypes
  <2>2. \/ UNCHANGED amis \/ amis' = Deregistered(a)
        \/ \E x \in Int : amis' = [amis EXCEPT ![a] = [amis[a] EXCEPT !.retire = x]]
    BY <1>9, <2>1 DEF CleanAct
  <2>3. CASE a \in Ids
    <3>1. \A x \in Int : [amis[a] EXCEPT !.retire = x] \in ImageRecord
      BY <1>0, <2>3 DEF ImageRecord
    <3> HIDE DEF a
    <3> QED BY <1>1, <1>2, <1>8, <2>2, <2>3, <3>1
  <2>4. CASE a \notin Ids
    BY <1>0, <2>2, <2>4 DEF Deregistered, ImageTypes, ImageRecord
  <2> QED BY <2>3, <2>4
<1> QED
  BY <1>2, <1>4, <1>5, <1>6, <1>7, <1>8, <1>9
  DEF Next, JobStep, Cleanup, Look, Created, Retry, SessionFinish, Stop, CleanStart,
      CleanDecide, DeleteByName, Tick, vars

\* The histories only grow, within the images.
LEMMA HistoryStep ==
    ASSUME TypeOK, [Next]_vars
    PROVE  passed \subseteq passed' /\ failed \subseteq failed'
           /\ passed' \subseteq Ids /\ failed' \subseteq Ids
<1> USE DEF TypeOK
<1>1. ASSUME NEW j \in Jobs, SessionFinish(j)
      PROVE  /\ passed' \in {passed, passed \cup ({job[j].server} \ {Base})}
             /\ failed' \in {failed, failed \cup ({job[j].server} \ {Base})}
  BY <1>1 DEF SessionFinish
<1>2. \A j \in Jobs : {job[j].server} \ {Base} \subseteq Ids
  BY DEF JobTypes
<1>3. UNCHANGED <<passed, failed>> \/ \E j \in Jobs : SessionFinish(j)
  BY DEF Next, JobStep, Cleanup, Look, Launch, Create, Created, Boot, Retry, Tag, Stop, Others,
         AmiReady, CleanStart, CleanDecide, CleanAct, DeleteByName, Tick, vars
<1> QED
  BY <1>1, <1>2, <1>3

\* A job that moves to a sound record.
LEMMA JobMoves ==
    ASSUME TypeOK, JobInv, [Next]_vars, NEW j \in Jobs, NEW r \in JobRecord, Move(j, r),
           Sound(r, passed', failed')
    PROVE  JobTypes' /\ JobInv'
<1>1. job \in [Jobs -> JobRecord]
  BY DEF TypeOK, JobTypes, JobRecord
<1>2. JobTypes'
  BY <1>1 DEF Move, JobTypes, JobRecord
<1>3. job'[j] = r /\ \A i \in Jobs \ {j} : job'[i] = job[i]
  BY <1>1 DEF Move
<1>4. \A i \in Jobs : Sound(job[i], passed', failed')
  BY HistoryStep DEF JobInv, Sound
<1> QED
  BY <1>2, <1>3, <1>4 DEF JobInv

\* A verdict is about tests that ran, and rejects only after a failure.
LEMMA ResultStates ==
    ASSUME NEW exit, NEW outcomes
    PROVE  LET v == ResultState(exit, FALSE, outcomes)
           IN  /\ v \in {"none", "active", "rejected"}
               /\ v = "active" => /\ exit = 0 /\ outcomes # {}
                                  /\ outcomes \cap {"failed", "error"} = {}
               /\ v = "rejected" => outcomes \cap {"failed", "error"} # {}
<1>1. outcomes = {} => ResultState(exit, FALSE, outcomes) = "none"
  BY DEF ResultState
<1>2. outcomes # {} /\ outcomes \cap {"failed", "error"} # {}
      => ResultState(exit, FALSE, outcomes) = "rejected"
  BY DEF ResultState
<1>3. outcomes # {} /\ outcomes \cap {"failed", "error"} = {} /\ exit = 0
      => ResultState(exit, FALSE, outcomes) = "active"
  BY DEF ResultState
<1>4. outcomes # {} /\ outcomes \cap {"failed", "error"} = {} /\ exit # 0
      => ResultState(exit, FALSE, outcomes) = "none"
  BY DEF ResultState
<1> QED
  BY <1>1, <1>2, <1>3, <1>4

\* Jobs: one step per operation.
LEMMA JobsStep == TypeOK /\ JobInv /\ [Next]_vars => JobTypes' /\ JobInv'
<1> SUFFICES ASSUME TypeOK, JobInv, [Next]_vars PROVE JobTypes' /\ JobInv'
  OBVIOUS
<1>0. \A j \in Jobs : job[j] \in JobRecord /\ Sound(job[j], passed', failed')
  BY HistoryStep DEF TypeOK, JobTypes, JobRecord, JobInv, Sound
<1>1. ASSUME NEW j \in Jobs, Look(j) PROVE JobTypes' /\ JobInv'
  <2> DEFINE next == [job[j] EXCEPT !.pc = "launch"]
             found == SelectUsable({a \in Ids : Exists(a)})
  <2>1. \/ (job[j].skip \/ job[j].update) /\ Move(j, next)
        \/ ~job[j].skip /\ ~job[j].update /\ Move(j, [next EXCEPT !.update = TRUE])
        \/ ~job[j].skip /\ ~job[j].update /\ Move(j, [next EXCEPT !.skip = TRUE])
        \/ ~job[j].skip /\ ~job[j].update /\ \E a \in found : Move(j, [next EXCEPT !.image = a])
    BY <1>1 DEF Look
  <2>2. found \subseteq Ids
    BY DEF SelectUsable, Newest
  <2>3. job[j].pc = "look"
    BY <1>1 DEF Look
  <2> HIDE DEF found
  <2>4. next \in JobRecord /\ Sound(next, passed', failed')
    BY <1>0, <2>3 DEF JobRecord, Sound
  <2>5. ASSUME ~job[j].skip, ~job[j].update
        PROVE  /\ [next EXCEPT !.update = TRUE] \in JobRecord
               /\ Sound([next EXCEPT !.update = TRUE], passed', failed')
               /\ [next EXCEPT !.skip = TRUE] \in JobRecord
               /\ Sound([next EXCEPT !.skip = TRUE], passed', failed')
               /\ \A a \in Ids : /\ [next EXCEPT !.image = a] \in JobRecord
                                 /\ Sound([next EXCEPT !.image = a], passed', failed')
    BY <1>0, <2>3, <2>5 DEF JobRecord, Sound
  <2> HIDE DEF next
  <2> QED BY <2>1, <2>2, <2>4, <2>5, JobMoves
<1>2. ASSUME NEW j \in Jobs, Launch(j) PROVE JobTypes' /\ JobInv'
  <2> DEFINE r == [job[j] EXCEPT !.pc = "create", !.server = job[j].image]
             t == Testing(j, job[j].image)
  <2>1. job[j].pc = "launch" /\ Move(j, IF Builds(j) THEN r ELSE t)
    BY <1>2 DEF Launch
  <2>2. CASE Builds(j)
    <3>1. r \in JobRecord /\ Sound(r, passed', failed')
      BY <1>0, <2>1, <2>2 DEF JobRecord, Sound, Builds
    <3> HIDE DEF r
    <3> QED BY <2>1, <2>2, <3>1, JobMoves
  <2>3. CASE ~Builds(j)
    <3>1. t \in JobRecord /\ Sound(t, passed', failed')
      BY <1>0, <2>1, <2>3, FixedRecords DEF Testing, JobRecord, Sound, Builds
    <3> HIDE DEF t
    <3> QED BY <2>1, <2>3, <3>1, JobMoves
  <2> QED BY <2>2, <2>3
<1>3. ASSUME NEW j \in Jobs, Create(j) PROVE JobTypes' /\ JobInv'
  <2>1. PICK a \in Ids : Move(j, [job[j] EXCEPT !.pc = "created", !.new = a])
    BY <1>3 DEF Create
  <2> DEFINE r == [job[j] EXCEPT !.pc = "created", !.new = a]
  <2>2. r \in JobRecord
    BY <1>0, <1>3 DEF JobRecord
  <2>3. Sound(r, passed', failed')
    BY <1>0, <1>3, IdsAreNew DEF Create, JobRecord, Sound
  <2> HIDE DEF r
  <2> QED BY <2>1, <2>2, <2>3, JobMoves DEF r
<1>4. ASSUME NEW j \in Jobs, Created(j) PROVE JobTypes' /\ JobInv'
  <2> DEFINE r == [job[j] EXCEPT !.pc = "boot", !.booted = job[j].new]
  <2>1. Move(j, r)
    BY <1>4 DEF Created
  <2>2. r \in JobRecord /\ Sound(r, passed', failed')
    BY <1>0, <1>4 DEF Created, JobRecord, Sound
  <2> HIDE DEF r
  <2> QED BY <2>1, <2>2, JobMoves
<1>5. ASSUME NEW j \in Jobs, Boot(j) PROVE JobTypes' /\ JobInv'
  <2> DEFINE t == Testing(j, job[j].new)
  <2>1. Move(j, t)
    BY <1>5 DEF Boot
  <2>2. t \in JobRecord /\ Sound(t, passed', failed')
    BY <1>0, <1>5, FixedRecords DEF Boot, Testing, JobRecord, Sound
  <2> HIDE DEF t
  <2> QED BY <2>1, <2>2, JobMoves
<1>6. ASSUME NEW j \in Jobs, Retry(j) PROVE JobTypes' /\ JobInv'
  <2> DEFINE r == [job[j] EXCEPT !.pc = "look", !.attempt = job[j].attempt + 1, !.server = Base,
                                 !.new = Never]
  <2>1. Move(j, r)
    BY <1>6 DEF Retry
  <2>2. job[j].attempt + 1 \in Nat
    BY <1>0 DEF JobRecord
  <2>3. r \in JobRecord
    BY <1>0, <2>2 DEF JobRecord
  <2>4. /\ r.pc = "look" /\ r.booted = job[j].booted /\ r.new = Never
        /\ r.update = job[j].update /\ r.skip = job[j].skip
    BY <1>0 DEF JobRecord
  <2>5. Sound(r, passed', failed')
    BY <1>0, <1>6, <2>4 DEF Retry, Sound
  <2> HIDE DEF r
  <2> QED BY <2>1, <2>3, <2>5, JobMoves
<1>7. ASSUME NEW j \in Jobs, Move(j, Over) PROVE JobTypes' /\ JobInv'
  <2>1. Over \in JobRecord /\ Sound(Over, passed', failed')
    BY FixedRecords DEF Over, NewJob, Sound
  <2> QED BY <1>7, <2>1, JobMoves
<1>8. ASSUME NEW j \in Jobs, SessionFinish(j) PROVE JobTypes' /\ JobInv'
  <2>1. PICK e \in Endings :
          LET verdict == ResultState(e.exit, FALSE, e.outcomes)
              bad     == e.outcomes \cap {"failed", "error"} # {}
              told    == verdict # "none" /\ job[j].booted # Never
              tested  == {job[j].server} \ {Base}
          IN  /\ Move(j, IF told THEN [Over EXCEPT !.pc = "tag", !.booted = job[j].booted,
                                                  !.verdict = verdict]
                         ELSE Over)
              /\ passed' = IF e.exit = 0 /\ e.outcomes # {} /\ ~bad
                           THEN passed \cup tested ELSE passed
              /\ failed' = IF bad THEN failed \cup tested ELSE failed
    BY <1>8 DEF SessionFinish
  <2> DEFINE verdict == ResultState(e.exit, FALSE, e.outcomes)
             r == [Over EXCEPT !.pc = "tag", !.booted = job[j].booted, !.verdict = verdict]
  <2>2. /\ verdict \in {"none", "active", "rejected"}
        /\ verdict = "active" => /\ e.exit = 0 /\ e.outcomes # {}
                                 /\ e.outcomes \cap {"failed", "error"} = {}
        /\ verdict = "rejected" => e.outcomes \cap {"failed", "error"} # {}
    BY ResultStates
  <2>3. CASE verdict # "none" /\ job[j].booted # Never
    <3>1. job[j].server = job[j].booted /\ job[j].booted \in Ids
      BY <1>0, <1>8, <2>3 DEF SessionFinish, Sound, JobRecord
    <3>2. /\ verdict = "active" => job[j].booted \in passed'
          /\ verdict = "rejected" => job[j].booted \in failed'
      BY <2>1, <2>2, <3>1, IdsAreNew
    <3>3. Move(j, r)
      BY <2>1, <2>3
    <3> HIDE DEF verdict
    <3>4. r \in JobRecord /\ Sound(r, passed', failed')
      BY <2>2, <2>3, <3>1, <3>2, FixedRecords DEF JobRecord, Sound
    <3> HIDE DEF r
    <3> QED BY <3>3, <3>4, JobMoves
  <2>4. CASE ~ (verdict # "none" /\ job[j].booted # Never)
    BY <1>7, <2>1, <2>4
  <2> QED BY <2>3, <2>4
<1>9. CASE UNCHANGED job
  BY <1>0, <1>9 DEF TypeOK, JobTypes, JobInv
<1> QED
  BY <1>1, <1>2, <1>3, <1>4, <1>5, <1>6, <1>7, <1>8, <1>9
  DEF Next, JobStep, Cleanup, Tag, Stop, AmiReady, CleanStart, CleanDecide, CleanAct,
      DeleteByName, Tick, vars

-----------------------------------------------------------------------------
(* Images.                                                                 *)

\* What may become of an image in one step: it is created once and removed for
\* good, its tag only leaves "candidate" and only with an earned verdict, a launch
\* is noted at the time it happens, and only the clean-up changes the retirement.
Evolves(a, old, new) ==
    /\ old.aws # "none" => new.aws # "none"
    /\ old.aws = "gone" => new.aws = "gone"
    /\ new.tag = "active" => old.tag = "active" \/ a \in passed
    /\ new.tag = "rejected" => old.tag = "rejected" \/ a \in failed
    /\ old.aws # "none" => new.tag = old.tag \/ old.tag = "candidate"
    /\ old.aws # "none" /\ new.aws # "gone" =>
          /\ new.created = old.created
          /\ new.launches \subseteq old.launches \cup {clock}
          /\ new.retire = old.retire \/ (cleaner.pc = "act" /\ cleaner'.pc # "act")

\* A step that changes one image.
LEMMA OneImage ==
    ASSUME TypeOK, NEW b \in Ids, NEW r \in ImageRecord, amis' = [amis EXCEPT ![b] = r],
           Evolves(b, amis[b], r)
    PROVE  \A a \in Ids : Evolves(a, amis[a], amis'[a])
<1>1. amis \in [Ids -> ImageRecord]
  BY DEF TypeOK, ImageTypes, ImageRecord
<1>2. amis'[b] = r /\ \A a \in Ids \ {b} : amis'[a] = amis[a]
  BY <1>1
<1>3. \A a \in Ids : Evolves(a, amis[a], amis[a])
  BY <1>1 DEF Evolves, ImageRecord
<1> QED
  BY <1>2, <1>3

\* Every step keeps to it.
LEMMA ImagesEvolve ==
    ASSUME IInv, [Next]_vars PROVE \A a \in Ids : Evolves(a, amis[a], amis'[a])
<1> DEFINE Goal == \A a \in Ids : Evolves(a, amis[a], amis'[a])
<1>0. /\ amis \in [Ids -> ImageRecord] /\ clock \in Nat /\ TypeOK
      /\ \A j \in Jobs : job[j] \in JobRecord /\ Sound(job[j], passed, failed)
  BY DEF IInv, TypeOK, ImageTypes, ImageRecord, JobTypes, JobRecord, JobInv
<1>1. CASE UNCHANGED amis
  BY <1>0, <1>1 DEF Evolves
<1>2. ASSUME NEW a \in Ids \cup {Base}, amis' = Launched(a) PROVE Goal
  <2> DEFINE r == [amis[a] EXCEPT !.launches = amis[a].launches \cup {clock}]
  <2>1. CASE a = Base
    BY <1>1, <1>2, <2>1 DEF Launched
  <2>2. CASE a # Base
    <3>1. r \in ImageRecord /\ Evolves(a, amis[a], r)
      BY <1>0, <2>2 DEF ImageRecord, Evolves
    <3>2. amis' = [amis EXCEPT ![a] = r]
      BY <1>2, <2>2 DEF Launched
    <3> HIDE DEF r
    <3> QED BY <1>0, <2>2, <3>1, <3>2, OneImage
  <2> QED BY <2>1, <2>2
<1>3. ASSUME NEW j \in Jobs, Launch(j) \/ Boot(j) PROVE Goal
  <2>1. CASE Launch(j)
    BY <1>0, <1>2, <2>1 DEF Launch, JobRecord
  <2>2. CASE Boot(j)
    <3>1. job[j].new \in Ids
      BY <1>0, <2>2 DEF Boot, Sound, JobRecord
    <3> QED BY <1>2, <2>2, <3>1 DEF Boot
  <2> QED BY <1>3, <2>1, <2>2
<1>4. ASSUME NEW j \in Jobs, Create(j) PROVE Goal
  <2>1. PICK a \in Ids : amis[a].aws = "none" /\ amis' = [amis EXCEPT ![a] = NewAmi]
    BY <1>4 DEF Create
  <2>2. NewAmi \in ImageRecord /\ NewAmi.aws = "pending" /\ NewAmi.tag = "candidate"
    BY <1>0, FixedRecords DEF NewAmi, NoAmi, ImageRecord
  <2>3. Evolves(a, amis[a], NewAmi)
    BY <2>1, <2>2 DEF Evolves
  <2> QED BY <1>0, <2>1, <2>2, <2>3, OneImage
<1>5. ASSUME NEW a \in Ids, AmiReady(a) PROVE Goal
  <2>1. PICK x \in {"available", "failed"} : amis' = [amis EXCEPT ![a] = [amis[a] EXCEPT !.aws = x]]
    BY <1>5 DEF AmiReady
  <2> DEFINE r == [amis[a] EXCEPT !.aws = x]
  <2>2. r \in ImageRecord /\ Evolves(a, amis[a], r)
    BY <1>0, <1>5 DEF AmiReady, ImageRecord, Evolves
  <2> HIDE DEF r
  <2> QED BY <1>0, <2>1, <2>2, OneImage DEF r
<1>6. ASSUME NEW j \in Jobs, Tag(j) PROVE Goal
  <2> DEFINE a == job[j].booted
             r == [amis[a] EXCEPT !.tag = job[j].verdict]
  <2>1. a \in Ids /\ job[j].verdict \in {"none", "active", "rejected"}
    BY <1>0, <1>6 DEF Tag, Sound, JobRecord
  <2>2. CASE Exists(a) /\ amis[a].tag = "candidate"
    <3>1. r \in ImageRecord /\ Evolves(a, amis[a], r)
      BY <1>0, <1>6, <2>1, <2>2 DEF Tag, Sound, ImageRecord, Evolves
    <3>2. amis' = [amis EXCEPT ![a] = r]
      BY <1>6, <2>2 DEF Tag
    <3> HIDE DEF a, r
    <3> QED BY <1>0, <2>1, <3>1, <3>2, OneImage
  <2>3. CASE ~ (Exists(a) /\ amis[a].tag = "candidate")
    BY <1>1, <1>6, <2>3 DEF Tag
  <2> QED BY <2>2, <2>3
<1>7. ASSUME NEW a \in Ids, Exists(a), amis' = Deregistered(a) PROVE Goal
  <2> DEFINE r == [NoAmi EXCEPT !.aws = "gone", !.tag = amis[a].tag]
  <2>1. r \in ImageRecord
    BY <1>0, FixedRecords DEF ImageRecord
  <2>2. r.aws = "gone" /\ r.tag = amis[a].tag
    BY DEF NoAmi
  <2>3. Evolves(a, amis[a], r)
    BY <2>2 DEF Evolves
  <2>4. amis' = [amis EXCEPT ![a] = r]
    BY <1>7 DEF Deregistered
  <2> HIDE DEF r
  <2> QED BY <1>0, <2>1, <2>3, <2>4, OneImage
<1>8. CASE CleanAct
  <2> DEFINE a == cleaner.ami
  <2>1. RetireAt(cleaner.at) \in Int /\ Never \in Int
    BY <1>0, AmiAssumption DEF RetireAt, Never, TypeOK, CleanerTypes
  <2>2. \/ UNCHANGED amis
        \/ Exists(a) /\ amis' = Deregistered(a)
        \/ \E x \in Int : amis' = [amis EXCEPT ![a] = [amis[a] EXCEPT !.retire = x]]
    BY <1>8, <2>1 DEF CleanAct
  <2>3. a \in Ids /\ cleaner.pc = "act" /\ cleaner'.pc # "act"
    BY <1>0, <1>8 DEF CleanAct, Idle, IInv, CleanInv, TypeOK, CleanerTypes
  <2>4. ASSUME NEW x \in Int, amis' = [amis EXCEPT ![a] = [amis[a] EXCEPT !.retire = x]] PROVE Goal
    <3> DEFINE r == [amis[a] EXCEPT !.retire = x]
    <3>1. r \in ImageRecord /\ Evolves(a, amis[a], r)
      BY <1>0, <2>3 DEF ImageRecord, Evolves
    <3> HIDE DEF a, r
    <3> QED BY <1>0, <2>3, <2>4, <3>1, OneImage DEF r
  <2> HIDE DEF a
  <2> QED BY <1>1, <1>7, <2>2, <2>3, <2>4
<1> QED
  BY <1>1, <1>3, <1>4, <1>5, <1>6, <1>7, <1>8
  DEF Next, JobStep, Cleanup, Look, Created, Retry, SessionFinish, Stop, CleanStart,
      CleanDecide, DeleteByName, Tick, vars

-----------------------------------------------------------------------------
(* Trust.                                                                  *)

\* The three plans.
LEMMA CachePlans == \A a : CachePlan(a) \in {"use", "wait", "create"}
  BY DEF CachePlan

\* What a look at the account may pick to boot has passed its tests or has no tag.
LEMMA PickedIsTrusted ==
    ASSUME IInv, NEW a \in SelectUsable({x \in Ids : Exists(x)}), CachePlan(a) = "use"
    PROVE  a \in Ids /\ Trusted(a, amis, passed)
<1> DEFINE S == {x \in Ids : Exists(x)}
           usable == {x \in S : amis[x].tag # "rejected"}
<1>1. SelectUsable(S) \subseteq usable
  BY DEF SelectUsable, Newest
<1>2. a \in Ids /\ Exists(a) /\ amis[a].tag # "rejected"
  BY <1>1
<1>3. amis[a].tag # "candidate"
  BY DEF CachePlan, StillBuilding
<1>4. amis[a].tag \in {"none", "candidate", "active", "rejected"}
  BY <1>2 DEF IInv, TypeOK, ImageTypes
<1> QED
  BY <1>2, <1>3, <1>4 DEF Trusted, IInv, TrustInv, VerdictIsEarned, Exists

\* A trusted image stays so.
LEMMA TrustLasts ==
    ASSUME IInv, [Next]_vars, NEW a \in Ids \cup {Base}, Trusted(a, amis, passed) PROVE Trusted(a, amis', passed')
<1>1. a # Base => Evolves(a, amis[a], amis'[a])
  BY ImagesEvolve
<1>2. passed \subseteq passed'
  BY HistoryStep DEF IInv
<1> QED
  BY <1>1, <1>2 DEF Trusted, Evolves

\* A job that moves to trusted images.
LEMMA TrustMoves ==
    ASSUME IInv, [Next]_vars, NEW j \in Jobs, NEW r, Move(j, r),
           r.image \in Ids \cup {Base}, r.server \in Ids \cup {Base},
           Trusted(r.image, amis, passed), r.server = r.new \/ Trusted(r.server, amis, passed)
    PROVE  TrustInv'
<1>1. job \in [Jobs -> JobRecord]
  BY DEF IInv, TypeOK, JobTypes, JobRecord
<1>2. job'[j] = r /\ \A i \in Jobs \ {j} : job'[i] = job[i]
  BY <1>1 DEF Move
<1>3. VerdictIsEarned'
  BY ImagesEvolve, HistoryStep DEF IInv, TrustInv, VerdictIsEarned, Evolves
<1>4. ASSUME NEW i \in Jobs
      PROVE  /\ Trusted(job'[i].image, amis', passed')
             /\ job'[i].server = job'[i].new \/ Trusted(job'[i].server, amis', passed')
  <2>1. CASE i = j
    BY <1>2, <2>1, TrustLasts
  <2>2. CASE i # j
    <3>1. job[i].image \in Ids \cup {Base} /\ job[i].server \in Ids \cup {Base}
      BY <1>1 DEF JobRecord
    <3>2. /\ Trusted(job[i].image, amis, passed)
          /\ job[i].server = job[i].new \/ Trusted(job[i].server, amis, passed)
      BY DEF IInv, TrustInv
    <3> QED BY <1>2, <2>2, <3>1, <3>2, TrustLasts
  <2> QED BY <2>1, <2>2
<1> QED
  BY <1>3, <1>4 DEF TrustInv

\* Jobs: what they boot and test on.
LEMMA TrustStep == IInv /\ [Next]_vars => TrustInv'
<1> SUFFICES ASSUME IInv, [Next]_vars PROVE TrustInv'
  OBVIOUS
<1>0. \A j \in Jobs : /\ job[j] \in JobRecord /\ Sound(job[j], passed, failed)
                      /\ Trusted(job[j].image, amis, passed)
                      /\ job[j].server = job[j].new \/ Trusted(job[j].server, amis, passed)
  BY DEF IInv, TypeOK, JobTypes, JobRecord, JobInv, TrustInv
<1>1. Trusted(Base, amis, passed)
  BY DEF Trusted
<1>2. ASSUME NEW j \in Jobs, NEW r, Move(j, r), r.image = job[j].image, r.server = job[j].server,
             r.new = job[j].new
      PROVE  TrustInv'
  BY <1>0, <1>2, TrustMoves DEF JobRecord
<1>3. ASSUME NEW j \in Jobs, Look(j) PROVE TrustInv'
  <2> DEFINE next == [job[j] EXCEPT !.pc = "launch"]
  <2>1. /\ next.image = job[j].image /\ next.server = job[j].server /\ next.new = job[j].new
        /\ next \in JobRecord
    BY <1>0 DEF JobRecord
  <2>2. \/ Move(j, next) \/ Move(j, [next EXCEPT !.update = TRUE])
        \/ Move(j, [next EXCEPT !.skip = TRUE])
        \/ \E a \in SelectUsable({x \in Ids : Exists(x)}) :
              CachePlan(a) = "use" /\ Move(j, [next EXCEPT !.image = a])
    BY <1>3, CachePlans DEF Look
  <2> HIDE DEF next
  <2>3. CASE Move(j, next) \/ Move(j, [next EXCEPT !.update = TRUE])
             \/ Move(j, [next EXCEPT !.skip = TRUE])
    BY <1>2, <2>1, <2>3 DEF JobRecord
  <2>4. ASSUME NEW a \in SelectUsable({x \in Ids : Exists(x)}), CachePlan(a) = "use",
               Move(j, [next EXCEPT !.image = a])
        PROVE  TrustInv'
    <3>1. a \in Ids /\ Trusted(a, amis, passed)
      BY <2>4, PickedIsTrusted
    <3> DEFINE r == [next EXCEPT !.image = a]
    <3>2. r.image = a /\ r.server = job[j].server /\ r.new = job[j].new
      BY <2>1 DEF JobRecord
    <3> HIDE DEF r
    <3> QED BY <1>0, <2>4, <3>1, <3>2, TrustMoves DEF r, JobRecord
  <2> QED BY <2>2, <2>3, <2>4
<1>4. ASSUME NEW j \in Jobs, NEW a \in Ids \cup {Base}, Move(j, Testing(j, a)),
             a = job[j].new \/ Trusted(a, amis, passed)
      PROVE  TrustInv'
  <2> DEFINE t == Testing(j, a)
  <2>1. t.image = Base /\ t.server = a /\ t.new = job[j].new
    BY DEF Testing, Over, NewJob
  <2> HIDE DEF t
  <2> QED BY <1>1, <1>4, <2>1, TrustMoves DEF t
<1>5. ASSUME NEW j \in Jobs, Launch(j) PROVE TrustInv'
  <2> DEFINE r == [job[j] EXCEPT !.pc = "create", !.server = job[j].image]
  <2>1. r.image = job[j].image /\ r.server = job[j].image
    BY <1>0 DEF JobRecord
  <2>2. Move(j, r) \/ Move(j, Testing(j, job[j].image))
    BY <1>5 DEF Launch
  <2>3. job[j].image \in Ids \cup {Base}
    BY <1>0 DEF JobRecord
  <2> HIDE DEF r
  <2> QED BY <1>0, <1>4, <2>1, <2>2, <2>3, TrustMoves
<1>6. ASSUME NEW j \in Jobs, Create(j) PROVE TrustInv'
  <2>1. PICK a \in Ids : Move(j, [job[j] EXCEPT !.pc = "created", !.new = a])
    BY <1>6 DEF Create
  <2> DEFINE r == [job[j] EXCEPT !.pc = "created", !.new = a]
  <2>2. r.image = job[j].image /\ r.server = job[j].server
    BY <1>0 DEF JobRecord
  <2>3. job[j].server # job[j].new
    BY <1>0, <1>6, IdsAreNew DEF Create, Sound, JobRecord, Base, Never
  <2>4. job[j].image \in Ids \cup {Base} /\ job[j].server \in Ids \cup {Base}
    BY <1>0 DEF JobRecord
  <2> HIDE DEF r
  <2> QED BY <1>0, <2>1, <2>2, <2>3, <2>4, TrustMoves DEF r
<1>7. ASSUME NEW j \in Jobs, Created(j) PROVE TrustInv'
  <2> DEFINE r == [job[j] EXCEPT !.pc = "boot", !.booted = job[j].new]
  <2>1. r.image = job[j].image /\ r.server = job[j].server /\ r.new = job[j].new
    BY <1>0 DEF JobRecord
  <2>2. Move(j, r)
    BY <1>7 DEF Created
  <2> HIDE DEF r
  <2> QED BY <1>2, <2>1, <2>2
<1>8. ASSUME NEW j \in Jobs, Boot(j) PROVE TrustInv'
  <2>1. job[j].new \in Ids
    BY <1>0, <1>8 DEF Boot, Sound, JobRecord
  <2> QED BY <1>4, <1>8, <2>1 DEF Boot
<1>9. ASSUME NEW j \in Jobs, Retry(j) PROVE TrustInv'
  <2> DEFINE r == [job[j] EXCEPT !.pc = "look", !.attempt = job[j].attempt + 1, !.server = Base,
                                 !.new = Never]
  <2>1. r.image = job[j].image /\ r.server = Base
    BY <1>0 DEF JobRecord
  <2>2. Move(j, r)
    BY <1>9 DEF Retry
  <2>3. job[j].image \in Ids \cup {Base}
    BY <1>0 DEF JobRecord
  <2> HIDE DEF r
  <2> QED BY <1>0, <1>1, <2>1, <2>2, <2>3, TrustMoves
<1>10. ASSUME NEW j \in Jobs, NEW b, NEW v,
              Move(j, Over) \/ Move(j, [Over EXCEPT !.pc = "tag", !.booted = b, !.verdict = v])
       PROVE  TrustInv'
  <2> DEFINE r == [Over EXCEPT !.pc = "tag", !.booted = b, !.verdict = v]
  <2>1. Over.image = Base /\ Over.server = Base /\ r.image = Base /\ r.server = Base
    BY DEF Over, NewJob
  <2> HIDE DEF r
  <2> QED BY <1>1, <1>10, <2>1, TrustMoves DEF r
<1>11. ASSUME NEW j \in Jobs, SessionFinish(j) \/ Tag(j) \/ Stop(j) PROVE TrustInv'
  BY <1>10, <1>11 DEF SessionFinish, Tag, Stop
<1>12. CASE UNCHANGED job
  <2>1. VerdictIsEarned'
    BY ImagesEvolve, HistoryStep DEF IInv, TrustInv, VerdictIsEarned, Evolves
  <2>2. \A a \in Ids \cup {Base} : Trusted(a, amis, passed) => Trusted(a, amis', passed')
    BY TrustLasts
  <2> QED BY <1>0, <1>12, <2>1, <2>2 DEF TrustInv, JobRecord
<1> QED
  BY <1>3, <1>5, <1>6, <1>7, <1>8, <1>9, <1>11, <1>12
  DEF Next, JobStep, Cleanup, AmiReady, CleanStart, CleanDecide, CleanAct, DeleteByName,
      Tick, vars

-----------------------------------------------------------------------------
(* The clean-up.                                                           *)

\* The clean-up, the clock and the count of faults keep their types.
LEMMA CleanerStep ==
    ASSUME IInv, [Next]_vars PROVE CleanerTypes' /\ clock' \in Nat /\ faults' \in Nat /\ clock <= clock'
<1> USE DEF IInv, TypeOK
<1>1. /\ clock' \in {clock, clock + 1} /\ faults' \in {faults, faults + 1}
      /\ UNCHANGED cleaner \/ CleanStart \/ CleanDecide \/ CleanAct
  BY DEF Next, JobStep, Cleanup, Look, Launch, Create, Created, Boot, Retry, SessionFinish, Tag,
         Stop, Others, AmiReady, CleanStart, CleanDecide, CleanAct, DeleteByName, Tick, vars
<1>2. clock' \in Nat /\ clock <= clock' /\ faults' \in Nat
  BY <1>1
<1>3. Idle \in [pc : {"idle", "next", "act"}, todo : SUBSET Ids, ami : Ids \cup {Never},
                act : {"keep", "mark", "clear", "delete"}, at : Nat]
  BY DEF Idle
<1>4. ASSUME UNCHANGED cleaner PROVE CleanerTypes'
  BY <1>4 DEF CleanerTypes
<1>5. ASSUME CleanStart PROVE CleanerTypes'
  BY <1>3, <1>5 DEF CleanStart, CleanerTypes
<1>6. ASSUME CleanDecide PROVE CleanerTypes'
  <2>1. \A a, t : /\ CleanupAction(a, t, TRUE) \in {"keep", "mark", "clear", "delete"}
                  /\ CleanupAction(a, t, FALSE) \in {"keep", "mark", "clear", "delete"}
    BY DEF CleanupAction
  <2>2. ASSUME NEW a \in cleaner.todo, NEW x \in {"keep", "mark", "clear", "delete"},
               cleaner' = [cleaner EXCEPT !.pc = "act", !.todo = cleaner.todo \ {a}, !.ami = a,
                                          !.act = x, !.at = clock]
        PROVE  CleanerTypes'
    BY <2>2 DEF CleanerTypes
  <2>3. CASE cleaner' = Idle
    BY <1>3, <2>3 DEF CleanerTypes
  <2>4. PICK a \in cleaner.todo :
          \/ cleaner' = Idle
          \/ \E t \in Reported(a) :
                cleaner' = [cleaner EXCEPT !.pc = "act", !.todo = cleaner.todo \ {a}, !.ami = a,
                                           !.act = CleanupAction(a, t, TRUE), !.at = clock]
          \/ cleaner' = [cleaner EXCEPT !.pc = "act", !.todo = cleaner.todo \ {a}, !.ami = a,
                                        !.act = CleanupAction(a, Never, FALSE), !.at = clock]
    BY <1>6 DEF CleanDecide
  <2> QED BY <2>1, <2>2, <2>3, <2>4
<1>7. ASSUME CleanAct PROVE CleanerTypes'
  <2>1. [Idle EXCEPT !.pc = "next", !.todo = cleaner.todo]
        \in [pc : {"idle", "next", "act"}, todo : SUBSET Ids, ami : Ids \cup {Never},
             act : {"keep", "mark", "clear", "delete"}, at : Nat]
    BY <1>3 DEF CleanerTypes
  <2>2. cleaner' \in {Idle, [Idle EXCEPT !.pc = "next", !.todo = cleaner.todo]}
    BY <1>7 DEF CleanAct
  <2> QED BY <1>3, <2>1, <2>2 DEF CleanerTypes
<1> QED
  BY <1>1, <1>2, <1>4, <1>5, <1>6, <1>7

\* The decision to remove a tagged image that is not old rests on its mark and on
\* a reported launch, which no launch that AWS must report by now comes after.
LEMMA DecisionIsSafe ==
    ASSUME IInv, NEW a \in Ids, NEW t \in Reported(a), CleanupAction(a, t, TRUE) = "delete",
           amis[a].tag \in {"active", "candidate"}, amis[a].created >= clock - RetentionDays
    PROVE  /\ amis[a].retire # Never /\ amis[a].retire <= clock
           /\ \A l \in amis[a].launches : l + ReportDelay <= clock => l < clock - LastLaunchedDays
<1>1. /\ amis[a].created \in Nat /\ amis[a].retire \in Int /\ amis[a].launches \subseteq Nat
      /\ clock \in Nat
  BY DEF IInv, TypeOK, ImageTypes
<1>2. {RetentionDays, LastLaunchedDays, ReportDelay} \subseteq Nat
  BY AmiAssumption
<1>3. t \in Int
  BY <1>1 DEF Reported, Never
<1>4. ~ (amis[a].created < clock - RetentionDays)
  BY <1>1, <1>2
<1>5. /\ t < clock - LastLaunchedDays
      /\ amis[a].retire # Never /\ amis[a].retire <= clock
  BY <1>4 DEF CleanupAction
<1>6. \A l \in amis[a].launches : l + ReportDelay <= clock => l <= t
  BY DEF Reported
<1> QED
  BY <1>1, <1>2, <1>3, <1>5, <1>6

\* While the removal is under way, launches are added that are too recent to
\* matter, and nothing else that the decision rests on changes.
LEMMA CleanStep == IInv /\ [Next]_vars => CleanInv'
<1> SUFFICES ASSUME IInv, [Next]_vars PROVE CleanInv'
  OBVIOUS
<1>0. /\ cleaner \in [pc : {"idle", "next", "act"}, todo : SUBSET Ids, ami : Ids \cup {Never},
                      act : {"keep", "mark", "clear", "delete"}, at : Nat]
      /\ amis \in [Ids -> ImageRecord] /\ clock \in Nat /\ CleanInv
  BY DEF IInv, TypeOK, CleanerTypes, ImageTypes, ImageRecord
<1>1. clock' \in Nat /\ clock <= clock'
  BY CleanerStep
<1>2. \A a \in Ids : Evolves(a, amis[a], amis'[a])
  BY ImagesEvolve
<1>3. CASE UNCHANGED cleaner
  <2>1. cleaner'.at <= clock'
    BY <1>0, <1>1, <1>3 DEF CleanInv
  <2>2. \A a \in cleaner'.todo \cup {cleaner'.ami} : a # Never => amis'[a].aws # "none"
    BY <1>0, <1>2, <1>3 DEF CleanInv, Evolves
  <2>3. ASSUME cleaner.pc = "act", cleaner.act = "delete" PROVE Removable(cleaner.ami)'
    <3> DEFINE a == cleaner.ami
    <3>1. a \in Ids /\ amis[a].aws # "none" /\ Removable(a) /\ Evolves(a, amis[a], amis'[a])
      BY <1>0, <1>2, <2>3 DEF CleanInv
    <3>2. SUFFICES ASSUME amis'[a].aws \notin {"none", "gone"},
                          amis'[a].tag \in {"active", "candidate"},
                          amis'[a].created >= cleaner.at - RetentionDays
                   PROVE  /\ amis'[a].retire # Never /\ amis'[a].retire <= cleaner.at
                          /\ \A l \in amis'[a].launches :
                                l + ReportDelay <= cleaner.at => l < cleaner.at - LastLaunchedDays
      BY <1>3 DEF Removable, Exists
    <3>3. /\ Exists(a) /\ amis[a].tag \in {"active", "candidate"}
          /\ amis'[a].created = amis[a].created /\ amis'[a].retire = amis[a].retire
          /\ amis'[a].launches \subseteq amis[a].launches \cup {clock}
      BY <1>3, <2>3, <3>1, <3>2 DEF Exists, Evolves
    <3>4. ~ (clock + ReportDelay <= cleaner.at)
      BY <1>0, AmiAssumption DEF CleanInv
    <3> QED BY <3>1, <3>2, <3>3, <3>4 DEF Removable
  <2>4. cleaner'.pc = "act" => cleaner'.ami # Never
    BY <1>0, <1>3 DEF CleanInv
  <2>5. cleaner'.pc = "act" /\ cleaner'.act = "delete" => Removable(cleaner.ami)'
    BY <1>3, <2>3
  <2> QED BY <2>1, <2>2, <2>4, <2>5 DEF CleanInv
<1>4. CASE cleaner' = Idle
  BY <1>1, <1>4 DEF Idle, CleanInv
<1>5. CASE CleanStart
  <2>1. /\ cleaner'.pc = "next" /\ cleaner'.at = 0 /\ cleaner'.ami = Never
        /\ cleaner'.todo = {a \in Ids : Exists(a)}
    BY <1>5 DEF CleanStart, Idle
  <2>2. \A a \in {x \in Ids : Exists(x)} : amis'[a].aws # "none"
    BY <1>2 DEF Exists, Evolves
  <2> QED BY <1>1, <2>1, <2>2 DEF CleanInv
<1>6. CASE CleanDecide
  <2>1. UNCHANGED <<amis, clock>>
    BY <1>6 DEF CleanDecide
  <2>2. ASSUME NEW a \in cleaner.todo, NEW x, x = "delete" => Removable(a)',
               cleaner' = [cleaner EXCEPT !.pc = "act", !.todo = cleaner.todo \ {a}, !.ami = a,
                                          !.act = x, !.at = clock]
        PROVE  CleanInv'
    <3>1. /\ cleaner'.pc = "act" /\ cleaner'.todo = cleaner.todo \ {a} /\ cleaner'.ami = a
          /\ cleaner'.act = x /\ cleaner'.at = clock
      BY <1>0, <2>2
    <3>2. a \in Ids /\ a # Never
      BY <1>0, IdsAreNew
    <3>3. \A b \in cleaner.todo : b # Never => amis'[b].aws # "none"
      BY <1>0, <2>1 DEF CleanInv
    <3> QED BY <1>0, <2>1, <2>2, <3>1, <3>2, <3>3 DEF CleanInv
  <2>3. PICK a \in cleaner.todo :
          \/ cleaner' = Idle
          \/ Exists(a) /\ \E t \in Reported(a) :
                cleaner' = [cleaner EXCEPT !.pc = "act", !.todo = cleaner.todo \ {a}, !.ami = a,
                                           !.act = CleanupAction(a, t, TRUE), !.at = clock]
          \/ cleaner' = [cleaner EXCEPT !.pc = "act", !.todo = cleaner.todo \ {a}, !.ami = a,
                                        !.act = CleanupAction(a, Never, FALSE), !.at = clock]
    BY <1>6 DEF CleanDecide
  <2>4. a \in Ids
    BY <1>0
  <2>5. ASSUME NEW t \in Reported(a),
               cleaner' = [cleaner EXCEPT !.pc = "act", !.todo = cleaner.todo \ {a}, !.ami = a,
                                          !.act = CleanupAction(a, t, TRUE), !.at = clock]
        PROVE  CleanInv'
    <3>1. CleanupAction(a, t, TRUE) = "delete" => Removable(a)'
      <4>1. cleaner'.at = clock
        BY <1>0, <2>5
      <4> QED BY <2>1, <2>4, <4>1, DecisionIsSafe DEF Removable
    <3> QED BY <2>2, <2>5, <3>1
  <2>6. ASSUME cleaner' = [cleaner EXCEPT !.pc = "act", !.todo = cleaner.todo \ {a}, !.ami = a,
                                          !.act = CleanupAction(a, Never, FALSE), !.at = clock]
        PROVE  CleanInv'
    <3>1. CleanupAction(a, Never, FALSE) = "delete" => Removable(a)'
      <4>1. amis[a].tag \in {"active", "candidate"} => CleanupAction(a, Never, FALSE) = "keep"
        BY DEF CleanupAction
      <4> QED BY <2>1, <4>1 DEF Removable
    <3> QED BY <2>2, <2>6, <3>1
  <2> QED BY <1>4, <2>3, <2>5, <2>6
<1>7. CASE CleanAct
  <2>1. CASE cleaner' = [Idle EXCEPT !.pc = "next", !.todo = cleaner.todo]
    <3>1. /\ cleaner'.pc = "next" /\ cleaner'.at = 0 /\ cleaner'.ami = Never
          /\ cleaner'.todo = cleaner.todo
      BY <2>1 DEF Idle
    <3>2. \A a \in cleaner.todo : a # Never => amis'[a].aws # "none"
      BY <1>0, <1>2 DEF CleanInv, Evolves
    <3> QED BY <1>1, <3>1, <3>2 DEF CleanInv
  <2> QED BY <1>4, <1>7, <2>1 DEF CleanAct
<1> QED
  BY <1>3, <1>5, <1>6, <1>7
  DEF Next, JobStep, Cleanup, Look, Launch, Create, Created, Boot, Retry, SessionFinish, Tag,
      Stop, Others, AmiReady, DeleteByName, Tick, vars

-----------------------------------------------------------------------------
(* The theorems.                                                           *)

\* The inductive invariant holds of every state of the cache.
THEOREM Invariance == Spec => []IInv
<1>1. IInv /\ [Next]_vars => IInv'
  <2> SUFFICES ASSUME IInv, [Next]_vars PROVE IInv'
    OBVIOUS
  <2>1. ImageTypes' /\ JobTypes' /\ JobInv'
    BY ImageStep, JobsStep DEF IInv
  <2>2. TypeOK'
    BY <2>1, CleanerStep, HistoryStep DEF IInv, TypeOK
  <2> QED BY <2>1, <2>2, TrustStep, CleanStep DEF IInv
<1> QED
  BY <1>1, InitIInv, PTL DEF Spec

\* Images, jobs and the clean-up keep their types.
THEOREM TypeCorrect == Spec => []TypeOK
  BY Invariance, PTL DEF IInv

\* The verdict on an image is the one of tests on that image, however many times
\* the stack was brought up and whatever the other jobs and the clean-up did.
THEOREM VerdictsAreEarned == Spec => []VerdictIsEarned
<1>1. IInv => VerdictIsEarned
  BY DEF IInv, TrustInv
<1> QED
  BY <1>1, Invariance, PTL

\* No job tests on the untested candidate of another one.
THEOREM BootsAreTrusted == Spec => []TrustedBoot
<1>1. IInv => TrustedBoot
  BY DEF IInv, TrustInv, TrustedBoot, Trusted
<1> QED
  BY <1>1, Invariance, PTL

\* A launch that AWS had not reported yet never costs a tagged image its place.
THEOREM HiddenLaunches == Spec => HiddenLaunchIsSafe
<1> DEFINE Removal ==
        cleaner.pc = "act" /\ cleaner.pc' # "act" =>
          LET a == cleaner.ami
          IN  (/\ Exists(a) /\ amis'[a].aws = "gone"
               /\ amis[a].tag \in {"active", "candidate"}
               /\ amis[a].created >= cleaner.at - RetentionDays)
              => LET marked == IF amis[a].retire = Never THEN cleaner.at
                               ELSE amis[a].retire - ReportDelay
                 IN  \A l \in amis[a].launches :
                        l <= marked => l < cleaner.at - LastLaunchedDays
<1>1. IInv /\ [Next]_vars => Removal
  <2> SUFFICES ASSUME IInv, [Next]_vars, cleaner.pc = "act", cleaner.pc' # "act",
                      Exists(cleaner.ami), amis'[cleaner.ami].aws = "gone",
                      amis[cleaner.ami].tag \in {"active", "candidate"},
                      amis[cleaner.ami].created >= cleaner.at - RetentionDays,
                      NEW l \in amis[cleaner.ami].launches
               PROVE  l <= (IF amis[cleaner.ami].retire = Never THEN cleaner.at
                            ELSE amis[cleaner.ami].retire - ReportDelay)
                      => l < cleaner.at - LastLaunchedDays
    OBVIOUS
  <2> DEFINE a == cleaner.ami
  <2>0. /\ a \in Ids /\ amis[a].retire \in Int /\ l \in Nat /\ cleaner.at \in Nat
        /\ amis[a].aws \notin {"none", "gone"} /\ ReportDelay \in Nat
    BY AmiAssumption DEF IInv, TypeOK, CleanerTypes, CleanInv, ImageTypes, Exists
  <2>1. CleanAct
    BY DEF Next, JobStep, Cleanup, Look, Launch, Create, Created, Boot, Retry, SessionFinish, Tag,
           Stop, Others, AmiReady, CleanStart, CleanDecide, DeleteByName, Tick, vars
  <2>2. cleaner.act = "delete"
    <3>1. amis \in [Ids -> ImageRecord]
      BY DEF IInv, TypeOK, ImageTypes, ImageRecord
    <3>2. \A x : [amis EXCEPT ![a] = [amis[a] EXCEPT !.retire = x]][a].aws = amis[a].aws
      BY <2>0, <3>1 DEF ImageRecord
    <3> QED BY <2>0, <2>1, <3>2 DEF CleanAct
  <2>3. /\ amis[a].retire # Never /\ amis[a].retire <= cleaner.at
        /\ l + ReportDelay <= cleaner.at => l < cleaner.at - LastLaunchedDays
    BY <2>2 DEF IInv, CleanInv, Removable
  <2> QED BY <2>0, <2>3
<1>2. HiddenLaunchIsSafe <=> [][Removal]_vars
  BY DEF HiddenLaunchIsSafe
<1> QED
  BY <1>1, <1>2, Invariance, PTL DEF Spec
=============================================================================

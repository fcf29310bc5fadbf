--------------------------- MODULE ReleaseProofs ---------------------------
(***************************************************************************)
(* How a release is published, for any number of releases, commits, deaths  *)
(* and failures: the maintenance page's job moves main only after the       *)
(* release (MainStays), and the supervisor keeps one active generation that *)
(* is linked, pointed to and served (RunningFollowsActive), the code of     *)
(* every ancestor of it (AncestorsAreKept) and, in a rollback, the          *)
(* company's facts (FactsAreKept).                                          *)
(*                                                                         *)
(* For main: a running sync must have found the release on the plan's       *)
(* commit and no child that could move it meanwhile (SyncFounded), and a    *)
(* plan's commit must descend from the main it was planned on               *)
(* (PlanDescends), which needs that commits are made once, after their      *)
(* ancestors (Typed).                                                       *)
(*                                                                         *)
(* For the supervisor, SupKept is inductive.  Generations are numbered      *)
(* without a gap, each made from an earlier one by a candidate that knows   *)
(* it (Lineages, Submitted, Numbered); what is left unfinished is no older  *)
(* than the active generation (Left) and, unless it was switched to, leaves *)
(* the old release linked (EarlyStands); and where the process is says what *)
(* it has written so far (Before, During, Back).  The ancestors of the      *)
(* active generation are a recursive function's value: the proof uses a set *)
(* closed under parents instead (Rooted), which a birth extends and a       *)
(* return cuts, and what is deleted is newer than all of it (Newer).  The   *)
(* facts stay as they were checked because the server refuses new ones from *)
(* the check on and is stopped until the old release starts (FactsCarried). *)
(***************************************************************************)
EXTENDS UpgradeJob, ReleaseSupervisor, FiniteSetTheorems, SequenceTheorems, WellFoundedInduction, TLAPS

Plans == [main : Commits, head : Commits, branch : {"main", "work"}, source : Commits,
          mode : {"merge", "restore"}, commit : Commits \cup {-1}]
Jobs == [action : {"none", "switch", "sync-git", "recover", "rollback"},
         state : {"none", "running", "succeeded", "failed", "needs_git_sync", "interrupted"},
         phase : {"none", "merge", "validate", "publish", "sync"}, plan : Plans]

Typed ==
  /\ past \in [Commits -> SUBSET Commits]
  /\ \A c \in Commits : past[c] # {} => c \in past[c]
  /\ main \in Commits /\ past[main] # {}
  /\ checkout \in [branch : {"main", "work"}, at : Commits, clean : BOOLEAN]
  /\ release \in Seq(Commits) /\ Len(release) > 0
  /\ limbo \in {"no", "unnamed", "named"} /\ busy \in BOOLEAN
  /\ limbo = "named" => Len(release) > 1
  /\ child \in {"none", "publishing", "recovering", "rolling back", "ok", "error"}
  /\ job \in Jobs

\* Only a plan with a result is validated or published.
ResultPlanned ==
  /\ job.phase \in {"validate", "publish"} => job.plan.commit \in Commits
  /\ child = "publishing" => job.plan.commit \in Commits

PlanDescends == job.plan.commit \in Commits => job.plan.main \in past[job.plan.commit]

SyncFounded ==
  busy /\ job.phase = "sync" => child = "none" /\ activeSource = job.plan.commit

IInv == Typed /\ ResultPlanned /\ PlanDescends /\ SyncFounded

-----------------------------------------------------------------------------
(* The first commit is on main, and nothing is planned.                     *)
LEMMA StartsFounded == ASSUME JobConstants, JobInit PROVE IInv
<1>1. Typed
  <2>1. /\ main = 0 /\ 0 \in Commits /\ release = <<0>> /\ limbo = "no" /\ job = NoJob /\ child = "none"
        /\ past = [c \in Commits |-> IF c = 0 THEN {0} ELSE {}] /\ busy = FALSE
        /\ checkout = [branch |-> "main", at |-> 0, clean |-> TRUE]
    BY DEF JobConstants, JobInit
  <2>2. release \in Seq(Commits) /\ Len(release) > 0
    BY <2>1
  <2>3. NoJob \in Jobs
    BY <2>1 DEF NoJob, NoPlan, Jobs, Plans
  <2> QED
    BY <2>1, <2>2, <2>3 DEF Typed
<1>2. ResultPlanned /\ SyncFounded
  BY DEF JobInit, ResultPlanned, SyncFounded, NoJob, NoPlan
<1>3. -1 \notin Commits
  BY DEF JobConstants
<1>4. PlanDescends
  BY <1>3 DEF JobInit, PlanDescends, NoJob, NoPlan
<1> QED
  BY <1>1, <1>2, <1>3, <1>4 DEF IInv

(* How a job ends changes only what its file says of it.                    *)
LEMMA Endings ==
  ASSUME job \in Jobs
  PROVE  /\ Fails => busy' = FALSE /\ job' \in Jobs /\ job'.plan = job.plan /\ job'.phase = job.phase
         /\ Succeeds => busy' = FALSE /\ job' \in Jobs /\ job'.plan = job.plan /\ job'.phase = job.phase
  BY DEF Fails, Succeeds, Jobs

(* Starting an operation: no child runs, and no sync but over its release.  *)
LEMMA StartKeeps ==
  ASSUME JobConstants, IInv,
         \/ \E c \in Commits, mode \in {"merge", "restore"} : Switch(c, mode)
         \/ SyncGit \/ RecoverJob \/ RollbackJob
  PROVE  IInv'
<1>0. -1 \notin Commits
  BY DEF JobConstants
<1>1. ASSUME NEW c \in Commits, NEW mode \in {"merge", "restore"}, Switch(c, mode) PROVE IInv'
  <2>1. job'.plan = [NoPlan EXCEPT !.main = main, !.head = checkout.at, !.mode = mode,
                                   !.branch = checkout.branch, !.source = c]
        /\ job'.action = "switch" /\ job'.state = "running" /\ job'.phase = "merge" /\ busy' = TRUE
    BY <1>1 DEF Switch, Starts
  <2>2. job' \in Jobs /\ job'.plan.commit = -1
    BY <1>1 DEF Switch, Starts, Jobs, Plans, NoPlan, IInv, Typed, JobConstants
  <2>3. Typed'
    BY <1>1, <2>1, <2>2 DEF Switch, gitVars, IInv, Typed
  <2>4. child # "publishing" /\ UNCHANGED child
    BY <1>1 DEF Switch, Starts, Admitted
  <2> QED
    BY <1>0, <2>1, <2>2, <2>3, <2>4 DEF IInv, ResultPlanned, PlanDescends, SyncFounded
<1>2. ASSUME SyncGit PROVE IInv'
  <2>1. job'.plan = job.plan /\ job'.phase = "sync" /\ busy' = TRUE /\ job' \in Jobs /\ UNCHANGED <<past, main, checkout, release, limbo, child>>
    BY <1>2 DEF SyncGit, Starts, plan, gitVars, IInv, Typed, Jobs
  <2>2. child = "none" /\ activeSource = job.plan.commit
    BY <1>2 DEF SyncGit, Starts, Admitted, plan
  <2>3. Typed'
    BY <2>1 DEF IInv, Typed
  <2> QED
    BY <2>1, <2>2, <2>3 DEF IInv, ResultPlanned, PlanDescends, SyncFounded, activeSource
<1>3. ASSUME RecoverJob PROVE IInv'
  <2>1. job'.plan = job.plan /\ job'.phase = "none" /\ busy' = TRUE /\ job' \in Jobs /\ child' = "recovering"
        /\ UNCHANGED <<past, main, checkout, release, limbo>>
    BY <1>3 DEF RecoverJob, Starts, plan, gitVars, IInv, Typed, Jobs
  <2>2. Typed'
    BY <2>1 DEF IInv, Typed
  <2> QED
    BY <2>1, <2>2 DEF IInv, ResultPlanned, PlanDescends, SyncFounded
<1>4. ASSUME RollbackJob PROVE IInv'
  <2>1. job'.plan = NoPlan /\ job'.phase = "none" /\ busy' = TRUE /\ job' \in Jobs /\ child' = "rolling back"
        /\ UNCHANGED <<past, main, checkout, release, limbo>>
    BY <1>4 DEF RollbackJob, Starts, gitVars, IInv, Typed, Jobs, Plans, NoPlan, JobConstants
  <2>2. Typed'
    BY <2>1 DEF IInv, Typed
  <2>3. job'.plan.commit \notin Commits
    <3>1. NoPlan.commit = -1
      BY DEF NoPlan
    <3>2. job'.plan.commit = NoPlan.commit
      BY <2>1, Zenon
    <3> QED
      BY <1>0, <3>1, <3>2
  <2> QED
    BY <2>1, <2>2, <2>3 DEF IInv, ResultPlanned, PlanDescends, SyncFounded
<1> QED
  BY <1>1, <1>2, <1>3, <1>4

(* New commits get their ancestors at once; no commit's ancestors change.   *)
NewCommit(c, S) ==
  /\ c \in Commits /\ past' \in [Commits -> SUBSET Commits]
  /\ \A d \in Commits : past[d] # {} => past'[d] = past[d]
  /\ \A d \in Commits : past'[d] # {} => d \in past'[d]
  /\ past'[c] = {c} \cup S
LEMMA CommitMade ==
  \A c \in Fresh, S \in SUBSET Commits :
    Typed /\ past' = [past EXCEPT ![c] = {c} \cup S] => NewCommit(c, S)
<1> SUFFICES ASSUME NEW c \in Fresh, NEW S \in SUBSET Commits, Typed,
                    past' = [past EXCEPT ![c] = {c} \cup S]
             PROVE  NewCommit(c, S)
  OBVIOUS
<1>1. c \in Commits /\ past[c] = {}
  BY DEF Fresh
<1> QED
  BY <1>1 DEF Typed, NewCommit

(* A result is built on the main of the plan, or is that main.              *)
LEMMA BuildKeeps == ASSUME JobConstants, IInv, Build PROVE IInv'
<1>1. UNCHANGED <<main, checkout, release, limbo, child>> /\ busy /\ job.phase = "merge" /\ job \in Jobs
  BY DEF Build, Running, IInv, Typed
<1>2. CASE Unmoved /\ UNCHANGED <<busy, past>> /\ job' = [job EXCEPT !.phase = "validate", !.plan.commit = main]
  <2>1. job' \in Jobs /\ job'.plan.commit = main /\ job'.plan.main = main /\ job'.phase = "validate"
    BY <1>1, <1>2 DEF Unmoved, plan, IInv, Typed, Jobs, Plans
  <2>2. main \in Commits /\ main \in past[main]
    BY DEF IInv, Typed
  <2>3. Typed'
    BY <1>1, <1>2, <2>1 DEF IInv, Typed
  <2> QED
    BY <1>1, <1>2, <2>1, <2>2, <2>3 DEF IInv, ResultPlanned, PlanDescends, SyncFounded
<1>3. ASSUME NEW c \in Fresh, Unmoved, UNCHANGED busy,
             past' = [past EXCEPT ![c] = {c} \cup Parents],
             job' = [job EXCEPT !.phase = "validate", !.plan.commit = c]
      PROVE  IInv'
  <2>0. plan.source \in Commits /\ main \in Commits /\ main \in past[main]
    BY <1>1 DEF plan, Jobs, Plans, IInv, Typed
  <2>1. Parents \in SUBSET Commits /\ main \in Parents
    BY <2>0 DEF Parents, IInv, Typed
  <2>2. past' = [past EXCEPT ![c] = {c} \cup Parents]
    BY <1>3
  <2>3. NewCommit(c, Parents)
    BY <2>1, <2>2, CommitMade DEF IInv
  <2>4. job' \in Jobs /\ job'.plan.commit = c /\ job'.plan.main = main /\ job'.phase = "validate"
    BY <1>1, <1>3, <2>3 DEF Unmoved, plan, Jobs, Plans, NewCommit
  <2>5. Typed'
    BY <1>1, <1>3, <2>0, <2>3, <2>4 DEF IInv, Typed, NewCommit
  <2> QED
    BY <1>1, <1>3, <2>0, <2>1, <2>3, <2>4, <2>5 DEF NewCommit, IInv, ResultPlanned, PlanDescends, SyncFounded
<1>4. CASE Fails /\ UNCHANGED past
  <2>1. busy' = FALSE /\ job' \in Jobs /\ job'.plan = job.plan /\ job'.phase = job.phase
    BY <1>1, <1>4, Endings
  <2> QED
    BY <1>1, <1>4, <2>1 DEF IInv, Typed, ResultPlanned, PlanDescends, SyncFounded
<1> QED
  BY <1>2, <1>3, <1>4 DEF Build

(* Validation, and failures: nothing but the job's state.                   *)
LEMMA JobStepKeeps ==
  ASSUME IInv, Approved \/ StepFails \/ PageDies
  PROVE  IInv'
<1>0. job \in Jobs
  BY DEF IInv, Typed
<1>1. ASSUME Approved PROVE IInv'
  <2>1. CASE job' = [job EXCEPT !.phase = "publish"] /\ child' = "publishing" /\ UNCHANGED busy
    <3>1. job' \in Jobs /\ job'.plan = job.plan /\ job'.phase = "publish"
      BY <1>0, <2>1 DEF Jobs
    <3>2. job.plan.commit \in Commits
      BY <1>1 DEF Approved, Running, IInv, ResultPlanned
    <3>3. Typed'
      BY <1>1, <2>1, <3>1 DEF Approved, gitVars, IInv, Typed
    <3> QED
      BY <1>1, <2>1, <3>1, <3>2, <3>3 DEF Approved, gitVars, IInv, ResultPlanned, PlanDescends, SyncFounded
  <2>2. CASE Fails /\ UNCHANGED child
    <3>1. busy' = FALSE /\ job' \in Jobs /\ job'.plan = job.plan /\ job'.phase = job.phase
      BY <1>0, <2>2, Endings
    <3> QED
      BY <1>1, <2>2, <3>1 DEF Approved, gitVars, IInv, Typed, ResultPlanned, PlanDescends, SyncFounded
  <2> QED
    BY <1>1, <2>1, <2>2 DEF Approved
<1>2. ASSUME StepFails PROVE IInv'
  <2>1. busy' = FALSE /\ job' \in Jobs /\ job'.plan = job.plan /\ job'.phase = job.phase
    BY <1>0, <1>2, Endings DEF StepFails
  <2> QED
    BY <1>2, <2>1 DEF StepFails, gitVars, IInv, Typed, ResultPlanned, PlanDescends, SyncFounded
<1>3. ASSUME PageDies PROVE IInv'
  <2>1. busy' = FALSE /\ job' \in Jobs /\ job'.plan = job.plan /\ job'.phase = job.phase
    BY <1>0, <1>3 DEF PageDies, Jobs
  <2> QED
    BY <1>3, <2>1 DEF PageDies, gitVars, IInv, Typed, ResultPlanned, PlanDescends, SyncFounded
<1> QED
  BY <1>1, <1>2, <1>3

(* An earlier release, or one more, is a history of releases.               *)
LEMMA Histories ==
  ASSUME Typed
  PROVE  /\ \A n \in 1..Len(release) : Rewound(n) \in Seq(Commits) /\ Len(Rewound(n)) = n
         /\ job.plan.commit \in Commits
              => Extended \in Seq(Commits) /\ Len(Extended) = Len(release) + 1
<1>1. release \in Seq(Commits)
  BY DEF Typed
<1>2. ASSUME NEW n \in 1..Len(release) PROVE Rewound(n) \in Seq(Commits) /\ Len(Rewound(n)) = n
  BY <1>1, SubSeqProperties DEF Rewound
<1>3. ASSUME job.plan.commit \in Commits
      PROVE  Extended \in Seq(Commits) /\ Len(Extended) = Len(release) + 1
  BY <1>1, <1>3, AppendProperties DEF Extended, plan
<1> QED
  BY <1>2, <1>3

(* The child moves the release only while no sync runs.                     *)
LEMMA ChildKeeps == ASSUME IInv, ChildEnds PROVE IInv'
<1>1. UNCHANGED <<past, main, checkout, job, busy>> /\ child' \in {"ok", "error"} /\ child # "none"
  BY DEF ChildEnds, Publishes, RollsBack, Recovers, Refuses, gitVars
<1>2. /\ release' \in Seq(Commits) /\ Len(release') > 0
      /\ limbo' \in {"no", "unnamed", "named"} /\ (limbo' = "named" => Len(release') > 1)
  <2>0. /\ release \in Seq(Commits) /\ Len(release) \in Nat /\ Len(release) > 0
        /\ limbo \in {"no", "unnamed", "named"} /\ (limbo = "named" => Len(release) > 1)
    <3>1. release \in Seq(Commits)
      BY DEF IInv, Typed
    <3> QED
      BY <3>1, LenProperties DEF IInv, Typed
  <2>1. CASE Publishes
    <3>1. /\ release' \in {release, Extended} /\ limbo' \in {"no", "unnamed", "named"}
          /\ limbo' = "named" => release' = Extended
      BY <2>1 DEF Publishes
    <3>2. Extended \in Seq(Commits) /\ Len(Extended) = Len(release) + 1
      BY <2>1, Histories DEF Publishes, IInv, ResultPlanned
    <3> HIDE DEF Extended
    <3> QED
      BY <2>0, <3>1, <3>2
  <2>2. CASE RollsBack
    <3>1. PICK n \in 1..Len(release) :
            /\ release' = Rewound(n) /\ limbo' \in {"no", "unnamed", "named"}
            /\ limbo' = "named" => n > 1
      BY <2>2 DEF RollsBack
    <3>2. Rewound(n) \in Seq(Commits) /\ Len(Rewound(n)) = n
      BY Histories DEF IInv
    <3> QED
      BY <2>0, <3>1, <3>2
  <2>3. CASE Recovers
    <3>1. /\ release' = release \/ (limbo = "named" /\ release' = Rewound(Len(release) - 1))
          /\ limbo' \in {"no", "unnamed"} \/ (limbo' = limbo /\ release' = release)
      BY <2>3 DEF Recovers
    <3>2. CASE release' = release
      BY <2>0, <3>1, <3>2
    <3>3. CASE release' # release
      <4>1. Len(release) - 1 \in 1..Len(release)
        BY <2>0, <3>1, <3>3
      <4>2. /\ Rewound(Len(release) - 1) \in Seq(Commits)
            /\ Len(Rewound(Len(release) - 1)) = Len(release) - 1
        BY <4>1, Histories DEF IInv
      <4> QED
        BY <2>0, <3>1, <3>3, <4>2
    <3> QED
      BY <3>2, <3>3
  <2>4. CASE Refuses
    BY <2>0, <2>4 DEF Refuses
  <2> QED
    BY <2>1, <2>2, <2>3, <2>4 DEF ChildEnds
<1> QED
  BY <1>1, <1>2 DEF IInv, Typed, ResultPlanned, PlanDescends, SyncFounded

(* A sync starts over a release that is the plan's, with no child left.     *)
LEMMA ReportKeeps == ASSUME IInv, Reported \/ Unattended PROVE IInv'
<1>0. job \in Jobs /\ UNCHANGED <<past, main, checkout, release, limbo>> /\ child' = "none"
  BY DEF Reported, Unattended, gitVars, IInv, Typed
<1>1. CASE SyncWanted /\ SyncNext
  <2>1. job' \in Jobs /\ job'.plan = job.plan /\ job'.phase = "sync" /\ UNCHANGED busy
    BY <1>0, <1>1 DEF SyncNext, Jobs
  <2>2. activeSource = job.plan.commit
    BY <1>1 DEF SyncWanted, plan, activeSource
  <2> QED
    BY <1>0, <2>1, <2>2 DEF IInv, Typed, ResultPlanned, PlanDescends, SyncFounded, activeSource
<1>2. CASE Succeeds \/ Fails
  <2>1. busy' = FALSE /\ job' \in Jobs /\ job'.plan = job.plan /\ job'.phase = job.phase
    BY <1>0, <1>2, Endings
  <2> QED
    BY <1>0, <2>1 DEF IInv, Typed, ResultPlanned, PlanDescends, SyncFounded
<1>3. CASE Unattended
  <2>1. UNCHANGED <<job, busy>> /\ ~busy
    BY <1>3 DEF Unattended
  <2> QED
    BY <1>0, <2>1 DEF IInv, Typed, ResultPlanned, PlanDescends, SyncFounded
<1> QED
  BY <1>1, <1>2, <1>3 DEF Reported

(* The published commit was built, so main lands on a commit.               *)
LEMMA SyncKeeps ==
  ASSUME IInv, Sync
  PROVE  IInv' /\ (main' # main => main' = activeSource /\ main \in past[main'])
<1>0. job \in Jobs /\ UNCHANGED <<past, release, limbo, child>> /\ checkout.branch \in {"main", "work"}
  BY DEF Sync, IInv, Typed
<1>1. child = "none" /\ activeSource = job.plan.commit /\ job.plan.commit \in Commits
  <2>1. child = "none" /\ activeSource = job.plan.commit
    BY DEF Sync, Running, IInv, SyncFounded
  <2>2. release \in Seq(Commits) /\ Len(release) > 0
    BY DEF IInv, Typed
  <2>3. activeSource \in Commits
    BY <2>2, ElementOfSeq, LenProperties DEF activeSource
  <2> QED
    BY <2>1, <2>3
<1>2. job.plan.main \in past[job.plan.commit] /\ past[job.plan.commit] # {}
  BY <1>1 DEF IInv, PlanDescends
<1>3. CASE SyncPossible /\ main # plan.commit /\ main' = plan.commit /\ UNCHANGED <<job, busy>>
           /\ checkout' = IF OnMain THEN [checkout EXCEPT !.at = plan.commit] ELSE checkout
  <2>1. main = job.plan.main /\ main' = job.plan.commit
    BY <1>3 DEF SyncPossible, plan
  <2>2. checkout' \in [branch : {"main", "work"}, at : Commits, clean : BOOLEAN]
    BY <1>1, <1>3 DEF plan, IInv, Typed
  <2>3. Typed'
    BY <1>0, <1>1, <1>2, <1>3, <2>1, <2>2 DEF IInv, Typed
  <2> QED
    BY <1>0, <1>1, <1>2, <1>3, <2>1, <2>3 DEF IInv, ResultPlanned, PlanDescends, SyncFounded, activeSource
<1>4. CASE SyncPossible /\ Succeeds /\ UNCHANGED main
           /\ checkout' = [checkout EXCEPT !.branch = "main", !.at = plan.commit]
  <2>1. busy' = FALSE /\ job' \in Jobs /\ job'.plan = job.plan /\ job'.phase = job.phase
    BY <1>0, <1>4, Endings
  <2>2. checkout' \in [branch : {"main", "work"}, at : Commits, clean : BOOLEAN]
    BY <1>1, <1>4 DEF plan, IInv, Typed
  <2> QED
    BY <1>0, <1>4, <2>1, <2>2 DEF IInv, Typed, ResultPlanned, PlanDescends, SyncFounded
<1>5. CASE Fails /\ UNCHANGED <<main, checkout>>
  <2>1. busy' = FALSE /\ job' \in Jobs /\ job'.plan = job.plan /\ job'.phase = job.phase
    BY <1>0, <1>5, Endings
  <2> QED
    BY <1>0, <1>5, <2>1 DEF IInv, Typed, ResultPlanned, PlanDescends, SyncFounded
<1> QED
  BY <1>3, <1>4, <1>5 DEF Sync

(* What the developer does makes commits, and moves main only by himself.   *)
LEMMA DevelopKeeps == ASSUME IInv, Develop PROVE IInv'
<1>0. UNCHANGED <<release, limbo, child, job, busy>>
  BY DEF Develop
<1>1. ASSUME NEW c \in Fresh, past' = [past EXCEPT ![c] = {c} \cup past[checkout.at]],
             checkout' = [checkout EXCEPT !.at = c], main' = (IF OnMain THEN c ELSE main)
      PROVE  IInv'
  <2>1. past[checkout.at] \in SUBSET Commits
    BY DEF IInv, Typed
  <2>2. NewCommit(c, past[checkout.at])
    BY <1>1, <2>1, CommitMade DEF IInv
  <2>3. checkout' \in [branch : {"main", "work"}, at : Commits, clean : BOOLEAN]
    BY <1>1, <2>2 DEF IInv, Typed, NewCommit
  <2>4. main' \in Commits /\ past'[main'] # {}
    BY <1>1, <2>2 DEF IInv, Typed, NewCommit
  <2>5. Typed'
    BY <1>0, <2>2, <2>3, <2>4 DEF IInv, Typed, NewCommit
  <2> QED
    BY <1>0, <2>2, <2>5 DEF NewCommit, IInv, ResultPlanned, PlanDescends, SyncFounded, activeSource
<1>2. ASSUME checkout' = [checkout EXCEPT !.branch = "work"] \/ checkout' = [checkout EXCEPT !.clean = ~@],
             UNCHANGED <<past, main>>
      PROVE  IInv'
  <2>1. checkout' \in [branch : {"main", "work"}, at : Commits, clean : BOOLEAN]
    BY <1>2 DEF IInv, Typed
  <2> QED
    BY <1>0, <1>2, <2>1 DEF IInv, Typed, ResultPlanned, PlanDescends, SyncFounded, activeSource
<1> QED
  BY <1>1, <1>2 DEF Develop

-----------------------------------------------------------------------------
(* Only the sync and the developer touch main.                              *)
LEMMA StepFollows ==
  ASSUME JobConstants, IInv, [JobNext]_jobVars
  PROVE  IInv' /\ (main' # main => Develop \/ (main' = activeSource /\ main \in past[main']))
<1>1. CASE \/ \E c \in Commits, mode \in {"merge", "restore"} : Switch(c, mode)
           \/ SyncGit \/ RecoverJob \/ RollbackJob
  BY <1>1, StartKeeps DEF Switch, SyncGit, RecoverJob, RollbackJob, gitVars
<1>2. CASE Build
  BY <1>2, BuildKeeps DEF Build
<1>3. CASE Approved \/ StepFails \/ PageDies
  BY <1>3, JobStepKeeps DEF Approved, StepFails, PageDies, gitVars
<1>4. CASE ChildEnds
  BY <1>4, ChildKeeps DEF ChildEnds, gitVars
<1>5. CASE Reported \/ Unattended
  BY <1>5, ReportKeeps DEF Reported, Unattended, gitVars
<1>6. CASE Sync
  BY <1>6, SyncKeeps
<1>7. CASE Develop
  BY <1>7, DevelopKeeps
<1>8. CASE UNCHANGED jobVars
  BY <1>8 DEF jobVars, IInv, Typed, ResultPlanned, PlanDescends, SyncFounded, activeSource
<1> QED
  BY <1>1, <1>2, <1>3, <1>4, <1>5, <1>6, <1>7, <1>8 DEF JobNext

(* The maintenance page moves main only forward, and only to the source of  *)
(* the release that is active then, whatever dies, is retried, recovered or *)
(* committed meanwhile (executeJob(), syncSwitch()), for any number of      *)
(* commits and mishaps.                                                     *)
THEOREM MainStays ==
  ASSUME JobConstants PROVE JobSpec => MainFollowsRelease
<1>1. JobInit => IInv
  BY StartsFounded
<1>2. IInv /\ [JobNext]_jobVars
      => IInv' /\ [main' # main => Develop \/ (main' = activeSource /\ main \in past[main'])]_jobVars
  BY StepFollows
<1> QED
  BY <1>1, <1>2, PTL DEF JobSpec, MainFollowsRelease

-----------------------------------------------------------------------------

Many == Cardinality(Candidates)
Numbers == 0..(Many + 1)

(* Releases and generations are numbered without a gap.                     *)
LEMMA Numbering ==
  ASSUME SupervisorConstants
  PROVE  /\ Many \in Nat /\ Many > 0 /\ Candidates = 1..Many /\ 1 \in Candidates
         /\ Generations = 1..(Many + 1) /\ Cardinality(Generations) = Many + 1
         /\ IsFiniteSet(Generations) /\ 1 \in Generations
         /\ Candidates \subseteq Releases /\ 0 \in Releases /\ Releases = 0..Many
<1>1. Many \in Nat
  BY FS_CardinalityType DEF SupervisorConstants, Many
<1>2. Candidates = 1..Many /\ Candidates # {}
  BY DEF SupervisorConstants, Many
<1>3. Many > 0 /\ 1 \in Candidates
  BY <1>1, <1>2
<1>4. Generations = 1..(Many + 1)
  BY DEF Generations, Many
<1>5. IsFiniteSet(1..(Many + 1)) /\ Cardinality(1..(Many + 1)) = Many + 1
  BY <1>1, FS_Interval
<1>6. Candidates \subseteq Releases /\ 0 \in Releases /\ Releases = 0..Many
  BY <1>1, <1>2 DEF Releases
<1> QED
  BY <1>1, <1>2, <1>3, <1>4, <1>5, <1>6

(* A set of natural numbers that is not empty has a least element.          *)
LEMMA LeastOf == ASSUME NEW T \in SUBSET Nat, T # {} PROVE \E k \in T : \A j \in T : k <= j
<1> DEFINE R == {p \in Nat \X Nat : p[1] < p[2]}
<1>1. IsWellFoundedOn(R, Nat)
  BY NatLessThanWellFounded DEF OpToRel
<1> HIDE DEF R
<1>2. PICK k \in T : \A j \in T : ~(<<j, k>> \in R)
  BY <1>1, WFMin
<1>3. ASSUME NEW j \in T PROVE k <= j
  <2>1. ~(j < k)
    BY <1>2 DEF R
  <2> QED
    BY <2>1
<1> QED
  BY <1>3

(* recover() takes the unfinished candidate that was submitted first.       *)
LEMMA FirstIs ==
  ASSUME SupervisorConstants, NEW S \in SUBSET Candidates, S # {}
  PROVE  First(S) \in S /\ \A d \in S : First(S) <= d
<1>1. S \in SUBSET Nat
  BY Numbering
<1>2. \E k \in S : \A j \in S : k <= j
  BY <1>1, LeastOf
<1> QED
  BY <1>2 DEF First

-----------------------------------------------------------------------------
(* The published ancestry.                                                  *)

Follows(f, n) ==
  \A g \in 0..n : f[g] = IF g = 0 THEN <<>> ELSE <<g>> \o f[gen[g].parent]
Downward == \A g \in Generations : gen[g].parent \in 0..(g - 1)

LEMMA AncestryExists ==
  ASSUME SupervisorConstants, Downward, NEW n \in 0..(Many + 1)
  PROVE  \E f : Follows(f, n)
<1> DEFINE Bad == {k \in 0..(Many + 1) : ~ \E f : Follows(f, k)}
<1>1. Many \in Nat /\ Generations = 1..(Many + 1)
  BY Numbering
<1>2. \E f : Follows(f, 0)
  <2>1. Follows([g \in 0..0 |-> <<>>], 0)
    BY DEF Follows
  <2> QED
    BY <2>1
<1>3. ASSUME NEW k \in Nat, k + 1 \in 0..(Many + 1), NEW f, Follows(f, k) PROVE \E h : Follows(h, k + 1)
  <2> DEFINE h == [g \in 0..(k + 1) |-> IF g = k + 1 THEN <<g>> \o f[gen[g].parent] ELSE f[g]]
  <2>1. k + 1 \in Generations /\ gen[k + 1].parent \in 0..k
    BY <1>1, <1>3 DEF Downward
  <2>2. ASSUME NEW g \in 0..(k + 1) PROVE h[g] = IF g = 0 THEN <<>> ELSE <<g>> \o h[gen[g].parent]
    <3>1. CASE g = k + 1
      <4>1. h[g] = <<g>> \o f[gen[g].parent] /\ h[gen[g].parent] = f[gen[g].parent] /\ g # 0
        BY <2>1, <3>1
      <4> QED
        BY <4>1
    <3>2. CASE g # k + 1 /\ g # 0
      <4>1. g \in 0..k /\ g \in Generations
        BY <3>2, <1>1, <1>3
      <4>2. gen[g].parent \in 0..(g - 1)
        BY <4>1 DEF Downward
      <4>3. h[g] = f[g] /\ h[gen[g].parent] = f[gen[g].parent]
        BY <4>1, <4>2
      <4>4. f[g] = <<g>> \o f[gen[g].parent]
        BY <1>3, <3>2, <4>1 DEF Follows
      <4> QED
        BY <3>2, <4>3, <4>4
    <3>3. CASE g = 0
      <4>1. 0 \in 0..k /\ 0 # k + 1
        OBVIOUS
      <4>2. h[0] = f[0]
        BY <4>1
      <4> QED
        BY <1>3, <3>3, <4>1, <4>2 DEF Follows
    <3> QED
      BY <3>1, <3>2, <3>3
  <2> HIDE DEF h
  <2> QED
    BY <2>2 DEF Follows
<1>4. Bad = {}
  <2> SUFFICES ASSUME Bad # {} PROVE FALSE
    OBVIOUS
  <2>1. PICK k \in Bad : \A j \in Bad : k <= j
    <3>1. Bad \in SUBSET Nat
      BY <1>1
    <3> HIDE DEF Bad
    <3> QED
      BY <3>1, LeastOf
  <2>2. k \in 0..(Many + 1) /\ ~ \E f : Follows(f, k)
    OBVIOUS
  <2>3. k # 0
    BY <1>2, <2>2
  <2>4. k - 1 \in Nat /\ (k - 1) + 1 = k /\ k - 1 \in 0..(Many + 1) /\ k - 1 \notin Bad
    <3> HIDE DEF Bad
    <3>1. k - 1 \in Nat /\ (k - 1) + 1 = k /\ k - 1 \in 0..(Many + 1) /\ ~(k <= k - 1)
      BY <1>1, <2>2, <2>3
    <3> QED
      BY <2>1, <3>1
  <2>5. \E f : Follows(f, k - 1)
    BY <2>4
  <2> QED
    BY <1>3, <2>2, <2>4, <2>5
<1> QED
  BY <1>4

(* What the recursive function is, as far as the lineage goes down.         *)
LEMMA AncestryIs ==
  ASSUME SupervisorConstants, Downward
  PROVE  /\ Ancestry[0] = <<>>
         /\ \A g \in Generations : Ancestry[g] = <<g>> \o Ancestry[gen[g].parent]
<1>1. Many \in Nat /\ Generations = 1..(Many + 1) /\ Cardinality(Generations) = Many + 1
  BY Numbering
<1>2. PICK f : Follows(f, Many + 1)
  <2>1. Many + 1 \in 0..(Many + 1)
    BY <1>1
  <2> QED
    BY <2>1, AncestryExists
<1> DEFINE D == 0..Cardinality(Generations)
           Is(h) == h = [g \in D |-> IF g = 0 THEN <<>> ELSE <<g>> \o h[gen[g].parent]]
           h == [g \in D |-> f[g]]
<1>3. D = 0..(Many + 1)
  BY <1>1
<1>4. \A g \in D \ {0} : gen[g].parent \in D
  BY <1>1, <1>3 DEF Downward
<1>5. \A g \in D : h[g] = IF g = 0 THEN <<>> ELSE <<g>> \o h[gen[g].parent]
  <2> SUFFICES ASSUME NEW g \in D PROVE h[g] = IF g = 0 THEN <<>> ELSE <<g>> \o h[gen[g].parent]
    OBVIOUS
  <2>1. f[g] = IF g = 0 THEN <<>> ELSE <<g>> \o f[gen[g].parent]
    BY <1>2, <1>3 DEF Follows
  <2>2. g # 0 => h[gen[g].parent] = f[gen[g].parent]
    BY <1>4
  <2> HIDE DEF D
  <2> QED
    BY <2>1, <2>2
<1> HIDE DEF D
<1>6. h = [g \in D |-> h[g]]
  OBVIOUS
<1> HIDE DEF h
<1>7. Is(h)
  BY <1>5, <1>6
<1>8. Ancestry = CHOOSE a : Is(a)
  BY DEF Ancestry, D
<1>9. Is(Ancestry)
  BY <1>7, <1>8
<1>10. \A g \in D : Ancestry[g] = IF g = 0 THEN <<>> ELSE <<g>> \o Ancestry[gen[g].parent]
  BY <1>9
<1>11. 0 \in D /\ Generations \subseteq D /\ 0 \notin Generations
  BY <1>1, <1>3
<1> QED
  BY <1>10, <1>11

(* A set closed under parents holds the whole ancestry of its members.      *)
LEMMA AncestryWithin ==
  ASSUME SupervisorConstants, Downward,
         NEW S \in SUBSET Generations, \A g \in S : gen[g].parent \in S \cup {0}
  PROVE  \A g \in S : Ancestry[g] \in Seq(S)
<1> DEFINE Bad == {g \in S : Ancestry[g] \notin Seq(S)}
<1>1. Many \in Nat /\ Generations = 1..(Many + 1)
  BY Numbering
<1> SUFFICES ASSUME Bad # {} PROVE FALSE
  OBVIOUS
<1>2. PICK k \in Bad : \A j \in Bad : k <= j
  <2>0. S \subseteq Nat /\ Bad \subseteq S
    BY <1>1
  <2> HIDE DEF Bad
  <2>1. Bad \in SUBSET Nat
    BY <2>0
  <2> QED
    BY <2>1, LeastOf
<1>3. k \in S /\ Ancestry[k] \notin Seq(S)
  OBVIOUS
<1> DEFINE p == gen[k].parent
<1>4. p \in S \cup {0} /\ p \in 0..(k - 1) /\ k \in Nat
  BY <1>1, <1>3 DEF Downward
<1>5. Ancestry[p] \in Seq(S)
  <2>0. <<>> \in Seq(S)
    OBVIOUS
  <2>1. CASE p = 0
    <3>1. Ancestry[0] = <<>>
      BY AncestryIs
    <3> QED
      BY <2>0, <2>1, <3>1
  <2>2. CASE p # 0
    <3>1. ~(k <= p)
      BY <1>4
    <3>2. p \in S /\ p \notin Bad
      BY <1>2, <1>4, <2>2, <3>1
    <3> QED
      BY <3>2
  <2> QED
    BY <2>1, <2>2
<1>6. Ancestry[k] = <<k>> \o Ancestry[p]
  BY <1>3, AncestryIs
<1> HIDE DEF p, Bad
<1>7. <<k>> \in Seq(S)
  BY <1>3
<1> QED
  BY <1>3, <1>5, <1>6, <1>7

-----------------------------------------------------------------------------
(* The invariants of the records.                                           *)

States == {"none", "SUBMITTED", "VALIDATED", "APPROVED", "BIRTHING", "BORN", "FAILED", "ROLLING_BACK",
           "ROLLED_BACK", "DELETING", "DELETED"}
Phases == {"none", "MIGRATING", "CANDIDATE_SMOKE", "SWITCHING", "STARTING", "COMPLETED", "STOPPING",
           "RESTORED", "FAILED"}
Records == [state : States, phase : Phases, base : Numbers, target : Numbers, number : Numbers,
            proposal : {"none", "open", "born", "failed"}, intent : Numbers]
Lives == [state : {"none", "BIRTHING", "ACTIVE", "RETIRED", "FAILED", "ROLLED_BACK"},
          parent : Numbers, release : Releases]
Disks == [link : Releases, pointer : Generations, snapped : SUBSET Candidates, frozen : SUBSET Numbers,
          dir : [Releases -> {"none", "sealed", "altered", "gone"}]]
Servers == [release : Releases \cup {-1}, mode : {"open", "paused", "switching"}]

Preparing == {"running", "quiesce", "snapshot", "intent"}
Closing == {"unborn", "reopen", "closed"}
Smoking == {"create", "migrate", "smoke", "smoked", "switching"}
SwitchingOver == {"stop", "link", "pointer", "starting", "start", "healthy", "lineage", "resume", "born"}
Birthing == Smoking \cup SwitchingOver
GoingBack == {"recheck", "rstop", "freeze", "rlink", "rpointer", "rlineage", "rstart", "rhealthy",
              "rresume", "restored"}
Pcs == {"idle", "restore", "abandoned", "dropped", "rollcheck", "rquiesce", "remove", "removed", "recover",
        "after"} \cup Preparing \cup Closing \cup Birthing \cup GoingBack
Processes == [pc : Pcs, c : Candidates, quiet : BOOLEAN, path : Seq(Candidates),
              outcome : {"FAILED", "ROLLED_BACK"}]

SupTyped ==
  /\ cand \in [Candidates -> Records] /\ gen \in [Generations -> Lives]
  /\ disk \in Disks /\ app \in Servers /\ sup \in Processes
  /\ facts \in BOOLEAN /\ restored \in Numbers /\ wrong \in Nat

\* One generation is active, they are made in order, each from an earlier one, and the
\* candidate a generation was made from knows it.
OneActive == \E g \in Generations : \A h \in Generations : gen[h].state = "ACTIVE" <=> h = g
InOrder == \A g \in Generations : gen[g].state # "none" <=> g < NextNumber
MadeFrom ==
  \A g \in Generations :
    /\ gen[g].state # "none" => gen[g].release >= g - 1
    /\ gen[g].release \in Candidates =>
         /\ cand[gen[g].release].target = g /\ cand[gen[g].release].base = gen[g].parent
         /\ gen[g].state # "none"
Lineages == OneActive /\ InOrder /\ Downward /\ MadeFrom

\* Candidates are submitted in order, on a base that exists; the generations before the
\* one a candidate may become come from candidates submitted before it.
SubmittedWell(c) ==
  /\ \A d \in 1..c : cand[d].state # "none"
  /\ 0 < cand[c].base /\ cand[c].base < cand[c].number
  /\ cand[c].number <= c + 1 /\ cand[c].number <= NextNumber
  /\ \A g \in Generations : g < cand[c].number => gen[g].release < c
Submitted == \A c \in Candidates : cand[c].state # "none" => SubmittedWell(c)

TargetKnown(c) ==
  /\ cand[c].state \in {"none", "SUBMITTED", "VALIDATED", "APPROVED"} => cand[c].target = 0
  /\ cand[c].state \in {"BIRTHING", "ROLLING_BACK", "BORN"} => cand[c].target # 0
  /\ cand[c].target # 0 => cand[c].target = cand[c].number
  /\ cand[c].state = "BORN" => gen[cand[c].target].release = c /\ cand[c].phase = "COMPLETED"
Numbered == \A c \in Candidates : TargetKnown(c)

\* What is unfinished is no older than the active generation.
LeftOpen(c) ==
  /\ Active <= cand[c].target
  /\ gen[cand[c].target].state # "none" => gen[cand[c].target].release = c
Left == \A c \in Unfinished : LeftOpen(c)

Catalogue == SupTyped /\ Lineages /\ Submitted /\ Numbered /\ Left

-----------------------------------------------------------------------------
(* The active generation and the next number.                               *)

LEMMA ActiveIs ==
  ASSUME OneActive
  PROVE  Active \in Generations /\ gen[Active].state = "ACTIVE"
         /\ \A g \in Generations : gen[g].state = "ACTIVE" => g = Active
<1>1. PICK g \in Generations : \A h \in Generations : gen[h].state = "ACTIVE" <=> h = g
  BY DEF OneActive
<1> QED
  BY <1>1 DEF Active

LEMMA ActiveIsThat ==
  ASSUME NEW g \in Generations, \A h \in Generations : gen[h].state = "ACTIVE" <=> h = g
  PROVE  OneActive /\ Active = g
<1>1. OneActive
  BY DEF OneActive
<1> QED
  BY <1>1, ActiveIs

LEMMA NextIs ==
  ASSUME SupervisorConstants, SupTyped, Lineages
  PROVE  /\ NextNumber \in Nat /\ NextNumber <= Many + 2
         /\ \A g \in Generations : gen[g].state # "none" <=> g < NextNumber
         /\ Active \in Generations /\ Active < NextNumber /\ 1 < NextNumber
<1> DEFINE T == {g \in Generations : gen[g].state # "none"}
<1>1. IsFiniteSet(Generations) /\ Cardinality(Generations) = Many + 1 /\ Generations = 1..(Many + 1) /\ Many \in Nat
  BY Numbering
<1>2. IsFiniteSet(T) /\ Cardinality(T) <= Cardinality(Generations) /\ Cardinality(T) \in Nat
  <2>1. T \in SUBSET Generations
    OBVIOUS
  <2> HIDE DEF T
  <2>2. IsFiniteSet(T) /\ Cardinality(T) <= Cardinality(Generations)
    BY <1>1, <2>1, FS_Subset
  <2> QED
    BY <2>2, FS_CardinalityType
<1>3. NextNumber = 1 + Cardinality(T)
  BY DEF NextNumber
<1>4. Active \in Generations /\ gen[Active].state = "ACTIVE"
  BY ActiveIs DEF Lineages
<1>5. \A g \in Generations : gen[g].state # "none" <=> g < NextNumber
  BY DEF Lineages, InOrder
<1> HIDE DEF T
<1>6. Active < NextNumber
  BY <1>4, <1>5
<1> QED
  BY <1>1, <1>2, <1>3, <1>4, <1>5, <1>6

(* Candidates whose release some generation runs are not the first ones     *)
(* submitted after it, and a free candidate has room for its generation.    *)
LEMMA RoomLeft ==
  ASSUME SupervisorConstants, SupTyped, Lineages, Submitted, Numbered,
         NEW c \in Candidates, cand[c].state = "none", \A d \in 1..(c - 1) : cand[d].state # "none"
  PROVE  /\ NextNumber <= c + 1
         /\ \A g \in Generations : g < NextNumber => gen[g].release < c
<1>0. Many \in Nat /\ Candidates = 1..Many /\ Generations = 1..(Many + 1) /\ Releases = 0..Many
  BY Numbering
<1>1. ASSUME NEW g \in Generations, g < NextNumber PROVE gen[g].release < c /\ gen[g].release >= g - 1
  <2>1. gen[g].release \in 0..Many /\ gen[g].release >= g - 1
    BY <1>0, <1>1 DEF SupTyped, Lives, Lineages, InOrder, MadeFrom
  <2>2. CASE gen[g].release = 0
    BY <1>0, <2>1, <2>2
  <2>3. CASE gen[g].release # 0
    <3> DEFINE r == gen[g].release
    <3>1. r \in Candidates
      BY <1>0, <2>1, <2>3
    <3>2. cand[r].target = g /\ g # 0
      BY <1>0, <3>1 DEF Lineages, MadeFrom
    <3>3. cand[r].state # "none"
      BY <3>1, <3>2 DEF Numbered, TargetKnown
    <3>4. \A d \in 1..r : cand[d].state # "none"
      BY <3>1, <3>3 DEF Submitted, SubmittedWell
    <3>5. ~(c <= r)
      BY <1>0, <3>4
    <3> QED
      BY <1>0, <2>1, <3>5
  <2> QED
    BY <2>2, <2>3
<1>2. NextNumber \in Nat /\ NextNumber <= Many + 2 /\ 1 < NextNumber
  BY NextIs
<1>3. NextNumber - 1 \in Generations /\ NextNumber - 1 < NextNumber
  BY <1>0, <1>2
<1>4. gen[NextNumber - 1].release < c /\ gen[NextNumber - 1].release >= (NextNumber - 1) - 1
  BY <1>1, <1>3
<1>5. gen[NextNumber - 1].release \in Nat
  BY <1>0, <1>3 DEF SupTyped, Lives
<1>6. c \in Nat
  BY <1>0
<1> QED
  BY <1>1, <1>2, <1>4, <1>5, <1>6

-----------------------------------------------------------------------------
(* Where the process is says what is on disk, in the lineage and running.   *)

EarlyOf(c) == cand[c].phase \in {"MIGRATING", "CANDIDATE_SMOKE"}
FirstLeft(c) == \A d \in Unfinished : c <= d
Serving == Standing /\ app.release = ActiveRelease

\* With nothing unfinished, the active generation is served.
Settled == Unfinished = {} => Serving

\* What recover() abandons first was never switched to.
EarlyStands ==
  \A c \in Unfinished :
    EarlyOf(c) /\ FirstLeft(c) /\ Active = cand[c].base /\ disk.pointer = Active => disk.link = ActiveRelease

Before ==
  /\ sup.pc \in Preparing \cup Closing => Unfinished = {} /\ cand[sup.c].state = "APPROVED"
  /\ sup.pc \in Preparing => cand[sup.c].base = Active /\ cand[sup.c].number = NextNumber
  /\ sup.pc \in {"remove", "removed"} => cand[sup.c].state = "DELETING"

Published == {"pointer", "starting", "start", "healthy", "lineage", "resume", "born"}
During ==
  /\ sup.pc \in Birthing => Unfinished = {sup.c}
  /\ sup.pc \in Smoking => EarlyOf(sup.c) /\ Serving
  /\ sup.pc \in SwitchingOver => ~EarlyOf(sup.c)
  /\ sup.pc = "create" => Target = NextNumber
  /\ sup.pc \in Birthing \ {"create"} => gen[Target].release = sup.c
  /\ sup.pc \in Birthing \ {"resume", "born"} => Active = Previous
  /\ sup.pc \in {"resume", "born"} => Active = Target
  /\ sup.pc \in Published => disk.link = sup.c
  /\ sup.pc \in Published \ {"pointer"} => disk.pointer = Target
  /\ sup.pc \in {"healthy", "lineage", "resume", "born"} => app.release = sup.c

Returned == {"rstart", "rhealthy", "rresume", "restored"}
Back ==
  /\ sup.pc \in {"abandoned", "dropped"} => sup.c \in Unfinished /\ Standing
  /\ sup.pc \in {"dropped", "restored"} => Serving
  /\ sup.pc \in {"rquiesce", "restore"} =>
       \/ cand[sup.c].state = "BORN" /\ Target = Active
       \/ sup.pc = "restore" /\ sup.c \in Unfinished
  /\ sup.pc \in GoingBack \cup {"restore"} => FirstLeft(sup.c)
  /\ sup.pc \in GoingBack => cand[sup.c].state = "ROLLING_BACK" /\ ~EarlyOf(sup.c)
  /\ sup.pc \in Returned \cup {"rpointer", "rlineage"} => disk.link = gen[Previous].release
  /\ sup.pc \in Returned \cup {"rlineage"} => disk.pointer = Previous
  /\ sup.pc \in Returned => Active = Previous
  /\ sup.pc \in Returned \ {"rstart"} => app.release = disk.link

Whereabouts == Before /\ During /\ Back
SupKept == Catalogue /\ Settled /\ EarlyStands /\ Whereabouts

-----------------------------------------------------------------------------
(* What a candidate on record is based on and may become.                   *)

LEMMA RecordOf ==
  ASSUME SupervisorConstants, SupTyped, Lineages, Submitted, Numbered, NEW c \in Candidates
  PROVE  /\ cand[c].state # "none" =>
              /\ cand[c].base \in Generations /\ cand[c].number \in Generations
              /\ cand[c].base < cand[c].number /\ gen[cand[c].base].state # "none"
              /\ cand[c].base # cand[c].number
         /\ cand[c].target # 0 => cand[c].target = cand[c].number /\ cand[c].state # "none"
<1>1. Many \in Nat /\ Candidates = 1..Many /\ Generations = 1..(Many + 1)
  BY Numbering
<1>2. cand[c].base \in Nat /\ cand[c].number \in Nat
  BY <1>1 DEF SupTyped, Records, Numbers
<1>3. cand[c].target # 0 => cand[c].target = cand[c].number /\ cand[c].state # "none"
  BY DEF Numbered, TargetKnown
<1>4. ASSUME cand[c].state # "none"
      PROVE  0 < cand[c].base /\ cand[c].base < cand[c].number
             /\ cand[c].number <= c + 1 /\ cand[c].number <= NextNumber
  BY <1>4 DEF Submitted, SubmittedWell
<1>5. ASSUME cand[c].state # "none" PROVE cand[c].base \in Generations /\ cand[c].number \in Generations
  BY <1>1, <1>2, <1>4, <1>5
<1>6. ASSUME cand[c].state # "none" PROVE cand[c].base < NextNumber
  BY <1>1, <1>2, <1>4, <1>6, NextIs
<1>7. ASSUME cand[c].state # "none" PROVE gen[cand[c].base].state # "none"
  BY <1>5, <1>6, <1>7, NextIs
<1> QED
  BY <1>2, <1>3, <1>4, <1>5, <1>7

(* The release of a generation and the target of its candidate.             *)
LEMMA BornOf ==
  ASSUME SupervisorConstants, Catalogue, NEW c \in Candidates,
         cand[c].target # 0, gen[cand[c].target].release = c
  PROVE  /\ cand[c].target \in Generations /\ gen[cand[c].target].state # "none"
         /\ gen[cand[c].target].parent = cand[c].base /\ cand[c].base \in Generations
         /\ cand[c].base < cand[c].target /\ cand[c].state # "none"
         /\ gen[cand[c].base].state # "none"
<1>1. cand[c].target = cand[c].number /\ cand[c].state # "none"
  BY RecordOf DEF Catalogue
<1>2. /\ cand[c].base \in Generations /\ cand[c].number \in Generations
      /\ cand[c].base < cand[c].number /\ gen[cand[c].base].state # "none"
  BY <1>1, RecordOf DEF Catalogue
<1> QED
  BY <1>1, <1>2 DEF Catalogue, Lineages, MadeFrom

-----------------------------------------------------------------------------
(* Steps that leave the records as they are, or say something else of one   *)
(* candidate, or of the generations that there are.                         *)

LEMMA SameBooks ==
  ASSUME UNCHANGED <<cand, gen>>
  PROVE  /\ Active' = Active /\ ActiveRelease' = ActiveRelease /\ NextNumber' = NextNumber
         /\ Unfinished' = Unfinished
  BY DEF Active, ActiveRelease, NextNumber, Unfinished

LEMMA SameLineage ==
  ASSUME UNCHANGED gen
  PROVE  Active' = Active /\ ActiveRelease' = ActiveRelease /\ NextNumber' = NextNumber
  BY DEF Active, ActiveRelease, NextNumber

LEMMA CatalogueSame ==
  ASSUME Catalogue, SupTyped', UNCHANGED <<cand, gen>>
  PROVE  Catalogue'
<1>1. /\ Active' = Active /\ ActiveRelease' = ActiveRelease /\ NextNumber' = NextNumber
      /\ Unfinished' = Unfinished
  BY SameBooks
<1>2. cand' = cand /\ gen' = gen
  OBVIOUS
<1>3. Lineages'
  BY <1>1, <1>2 DEF Catalogue, Lineages, OneActive, InOrder, Downward, MadeFrom
<1>4. Submitted'
  BY <1>1, <1>2 DEF Catalogue, Submitted, SubmittedWell
<1>5. Numbered'
  BY <1>1, <1>2 DEF Catalogue, Numbered, TargetKnown
<1>6. Left'
  BY <1>1, <1>2 DEF Catalogue, Left, LeftOpen
<1> QED
  BY <1>3, <1>4, <1>5, <1>6 DEF Catalogue

\* c's record says something else, of the same base, number and target.
Restates(c) ==
  /\ cand' \in [Candidates -> Records]
  /\ \A d \in Candidates : d # c => cand'[d] = cand[d]
  /\ cand'[c].base = cand[c].base /\ cand'[c].target = cand[c].target /\ cand'[c].number = cand[c].number
  /\ cand[c].state # "none" /\ cand'[c].state # "none"
  /\ cand'[c].state \in {"SUBMITTED", "VALIDATED", "APPROVED"} =>
       cand[c].state \in {"SUBMITTED", "VALIDATED", "APPROVED"}
  /\ cand'[c].state = "BORN" =>
       cand[c].target # 0 /\ gen[cand[c].target].release = c /\ cand'[c].phase = "COMPLETED"
  /\ cand'[c].state \in {"BIRTHING", "ROLLING_BACK"} =>
       \/ cand[c].state \in {"BIRTHING", "ROLLING_BACK"}
       \/ cand[c].state = "BORN" /\ cand[c].target = Active

LEMMA CatalogueRestates ==
  ASSUME SupervisorConstants, Catalogue, SupTyped', UNCHANGED gen, NEW c \in Candidates, Restates(c)
  PROVE  Catalogue' /\ Unfinished' \ {c} = Unfinished \ {c}
         /\ (c \in Unfinished' <=> cand'[c].state \in {"BIRTHING", "ROLLING_BACK"})
<1>0. gen' = gen
  OBVIOUS
<1>1. Active' = Active /\ ActiveRelease' = ActiveRelease /\ NextNumber' = NextNumber
  BY SameLineage
<1>2. Unfinished' \ {c} = Unfinished \ {c}
      /\ (c \in Unfinished' <=> cand'[c].state \in {"BIRTHING", "ROLLING_BACK"})
      /\ Unfinished' \subseteq Candidates
  BY DEF Unfinished, Restates
<1>3. \A d \in Candidates : /\ cand'[d].base = cand[d].base /\ cand'[d].target = cand[d].target
                            /\ cand'[d].number = cand[d].number
                            /\ cand'[d].state = "none" <=> cand[d].state = "none"
  BY DEF Restates
<1>4. Lineages'
  BY <1>0, <1>1, <1>3 DEF Catalogue, Lineages, OneActive, InOrder, Downward, MadeFrom
<1>5. Submitted'
  <2>1. Many \in Nat /\ Candidates = 1..Many
    BY Numbering
  <2> SUFFICES ASSUME NEW e \in Candidates, cand[e].state # "none" PROVE SubmittedWell(e)'
    BY <1>3 DEF Submitted
  <2>2. SubmittedWell(e) /\ 1..e \subseteq Candidates
    BY <2>1 DEF Catalogue, Submitted
  <2> QED
    BY <1>0, <1>1, <1>3, <2>2 DEF SubmittedWell
<1>6. Numbered'
  <2> SUFFICES ASSUME NEW e \in Candidates PROVE TargetKnown(e)'
    BY DEF Numbered
  <2>1. TargetKnown(e)
    BY DEF Catalogue, Numbered
  <2>2. CASE e # c
    BY <1>0, <2>1, <2>2 DEF TargetKnown, Restates
  <2>3. CASE e = c
    <3>1. cand[c].state \in {"BIRTHING", "ROLLING_BACK", "BORN"} => cand[c].target # 0
      BY <2>1, <2>3 DEF TargetKnown
    <3> QED
      BY <1>0, <2>1, <2>3, <3>1 DEF TargetKnown, Restates
  <2> QED
    BY <2>2, <2>3
<1>7. Left'
  <2> SUFFICES ASSUME NEW e \in Candidates, e \in Unfinished' PROVE LeftOpen(e)'
    BY <1>2 DEF Left
  <2>1. CASE e \in Unfinished
    <3>1. LeftOpen(e)
      BY <2>1 DEF Catalogue, Left
    <3> QED
      BY <1>0, <1>1, <1>3, <3>1 DEF LeftOpen
  <2>2. CASE e \notin Unfinished
    <3>1. e = c /\ cand[c].state \notin {"BIRTHING", "ROLLING_BACK"}
      BY <1>2, <2>2 DEF Unfinished
    <3>2. cand[c].state = "BORN" /\ cand[c].target = Active
      BY <1>2, <3>1 DEF Restates
    <3>3. gen[cand[c].target].release = c /\ Active \in Nat
      BY <3>2, Numbering, NextIs DEF Catalogue, Numbered, TargetKnown
    <3> QED
      BY <1>0, <1>1, <1>3, <3>1, <3>2, <3>3 DEF LeftOpen
  <2> QED
    BY <2>1, <2>2
<1> QED
  BY <1>2, <1>4, <1>5, <1>6, <1>7 DEF Catalogue

\* Other generations are active, retired or failed, and a proposal says so.
Relives ==
  /\ \A d \in Candidates :
       /\ cand'[d].base = cand[d].base /\ cand'[d].target = cand[d].target /\ cand'[d].number = cand[d].number
       /\ cand'[d].state = cand[d].state /\ cand'[d].phase = cand[d].phase
  /\ \A g \in Generations :
       /\ gen'[g].parent = gen[g].parent /\ gen'[g].release = gen[g].release
       /\ gen'[g].state = "none" <=> gen[g].state = "none"

LEMMA CatalogueRelives ==
  ASSUME SupervisorConstants, Catalogue, SupTyped', Relives, OneActive',
         \A d \in Unfinished : Active' <= cand[d].target
  PROVE  Catalogue' /\ NextNumber' = NextNumber /\ Unfinished' = Unfinished
<1>1. Unfinished' = Unfinished
  BY DEF Unfinished, Relives
<1>2. NextNumber' = NextNumber
  BY DEF NextNumber, Relives
<1>3. Lineages'
  <2>1. InOrder'
    BY <1>2 DEF Catalogue, Lineages, InOrder, Relives
  <2>2. Downward'
    BY DEF Catalogue, Lineages, Downward, Relives
  <2>3. MadeFrom'
    BY DEF Catalogue, Lineages, MadeFrom, Relives
  <2> QED
    BY <2>1, <2>2, <2>3 DEF Lineages
<1>4. Submitted'
  <2>1. Many \in Nat /\ Candidates = 1..Many
    BY Numbering
  <2> SUFFICES ASSUME NEW e \in Candidates, cand[e].state # "none" PROVE SubmittedWell(e)'
    BY DEF Submitted, Relives
  <2>2. SubmittedWell(e) /\ 1..e \subseteq Candidates
    BY <2>1 DEF Catalogue, Submitted
  <2> QED
    BY <1>2, <2>2 DEF SubmittedWell, Relives
<1>5. Numbered'
  <2> SUFFICES ASSUME NEW e \in Candidates PROVE TargetKnown(e)'
    BY DEF Numbered
  <2>1. TargetKnown(e)
    BY DEF Catalogue, Numbered
  <2>2. cand[e].state = "BORN" => cand[e].target \in Generations
    BY <2>1, RecordOf DEF TargetKnown, Catalogue
  <2> QED
    BY <2>1, <2>2 DEF TargetKnown, Relives
<1>6. Left'
  <2> SUFFICES ASSUME NEW e \in Candidates, e \in Unfinished PROVE LeftOpen(e)'
    BY <1>1 DEF Left, Unfinished
  <2>1. LeftOpen(e)
    BY DEF Catalogue, Left
  <2>2. cand[e].target \in Generations
    <3>1. cand[e].target # 0
      BY DEF Unfinished, Catalogue, Numbered, TargetKnown
    <3> QED
      BY <3>1, RecordOf DEF Catalogue
  <2> QED
    BY <2>1, <2>2 DEF LeftOpen, Relives
<1> QED
  BY <1>1, <1>2, <1>3, <1>4, <1>5, <1>6 DEF Catalogue

-----------------------------------------------------------------------------
(* The first release runs, and no candidate is submitted.                   *)
LEMMA SupStarts == ASSUME SupervisorConstants, SupInit PROVE SupKept
<1>1. Many \in Nat /\ Candidates = 1..Many /\ Generations = 1..(Many + 1) /\ Releases = 0..Many
      /\ 1 \in Generations /\ 1 \in Candidates /\ 0 \in Releases
  BY Numbering
<1>2. /\ \A c \in Candidates : cand[c] = NoCandidate
      /\ \A g \in Generations : gen[g] = IF g = 1 THEN [state |-> "ACTIVE", parent |-> 0, release |-> 0] ELSE Unborn
      /\ sup = Away
  BY DEF SupInit
<1>3. NoCandidate \in Records
  BY <1>1 DEF NoCandidate, Records, Numbers, States, Phases
<1>4. [state |-> "ACTIVE", parent |-> 0, release |-> 0] \in Lives /\ Unborn \in Lives
  BY <1>1 DEF Lives, Unborn, Numbers
<1>5. Away \in Processes
  <2>1. <<>> \in Seq(Candidates) /\ "idle" \in Pcs
    BY DEF Pcs
  <2> QED
    BY <1>1, <2>1 DEF Away, Processes
<1>6. disk \in Disks /\ app \in Servers
  BY <1>1 DEF SupInit, Disks, Servers
<1>7. SupTyped
  <2>1. cand \in [Candidates -> Records]
    BY <1>3 DEF SupInit
  <2>2. gen \in [Generations -> Lives]
    BY <1>4 DEF SupInit
  <2>0. restored = 0 /\ wrong = 0
    BY DEF SupInit
  <2>5. facts \in BOOLEAN
    BY DEF SupInit
  <2>3. facts \in BOOLEAN /\ restored \in Numbers /\ wrong \in Nat
    BY <1>1, <2>0, <2>5 DEF Numbers
  <2>4. sup \in Processes
    BY <1>2, <1>5
  <2> QED
    BY <1>6, <2>1, <2>2, <2>3, <2>4 DEF SupTyped
<1>8. OneActive /\ Active = 1
  <2>1. \A h \in Generations : gen[h].state = "ACTIVE" <=> h = 1
    BY <1>2 DEF Unborn
  <2> QED
    BY <1>1, <2>1, ActiveIsThat
<1>9. NextNumber = 2
  <2>1. {g \in Generations : gen[g].state # "none"} = {1}
    BY <1>1, <1>2 DEF Unborn
  <2>2. Cardinality({1}) = 1
    BY FS_Singleton
  <2> QED
    BY <2>1, <2>2 DEF NextNumber
<1>10. Lineages
  <2>1. \A g \in Generations : gen[g].parent = 0 /\ gen[g].release = 0 /\ (gen[g].state # "none" <=> g = 1)
    BY <1>2 DEF Unborn
  <2>2. 0 \notin Candidates /\ \A g \in Generations : 0 \in 0..(g - 1) /\ (g < 2 <=> g = 1)
    BY <1>1
  <2> QED
    BY <1>8, <1>9, <2>1, <2>2 DEF Lineages, InOrder, Downward, MadeFrom
<1>11. \A c \in Candidates : cand[c].state = "none" /\ cand[c].target = 0
  BY <1>2 DEF NoCandidate
<1>12. Submitted /\ Numbered /\ Unfinished = {}
  BY <1>11 DEF Submitted, Numbered, TargetKnown, Unfinished
<1>13. Catalogue
  BY <1>7, <1>10, <1>12 DEF Catalogue, Left
<1>14. Serving
  BY <1>1, <1>2, <1>8 DEF SupInit, Serving, Standing, ActiveRelease
<1>15. Whereabouts
  <2>1. sup.pc = "idle"
    BY <1>2 DEF Away
  <2> QED
    BY <2>1 DEF Whereabouts, Before, During, Back, Preparing, Closing, Birthing, Smoking, SwitchingOver,
      GoingBack, Published, Returned
<1> QED
  BY <1>12, <1>13, <1>14, <1>15 DEF SupKept, Settled, EarlyStands

-----------------------------------------------------------------------------
(* How the process goes on.                                                 *)

Moves(p) ==
  /\ sup' \in Processes /\ sup'.pc = p /\ sup'.c = sup.c /\ sup'.outcome = sup.outcome
Free == {"idle", "recover", "after", "rollcheck"}

LEMMA GoTo ==
  ASSUME SupTyped, NEW p \in Pcs, sup' = [sup EXCEPT !.pc = p]
  PROVE  Moves(p)
  BY DEF SupTyped, Processes, Moves

LEMMA Leaves ==
  ASSUME SupervisorConstants, sup' = Away
  PROVE  sup' \in Processes /\ sup'.pc = "idle" /\ sup'.pc \in Free /\ sup'.outcome = "FAILED"
<1>1. <<>> \in Seq(Candidates) /\ "idle" \in Pcs /\ 1 \in Candidates
  BY Numbering DEF Pcs
<1> QED
  BY <1>1 DEF Away, Processes, Free

LEMMA Starts0 ==
  ASSUME SupervisorConstants, NEW p \in Pcs, NEW c \in Candidates, NEW o \in {"FAILED", "ROLLED_BACK"},
         NEW q \in BOOLEAN, NEW path \in Seq(Candidates),
         sup' = [pc |-> p, c |-> c, quiet |-> q, path |-> path, outcome |-> o]
  PROVE  sup' \in Processes /\ sup'.pc = p /\ sup'.c = c /\ sup'.outcome = o
  BY DEF Processes

LEMMA WhereFree == ASSUME sup'.pc \in Free PROVE Whereabouts'
  BY DEF Free, Whereabouts, Before, During, Back, Preparing, Closing, Birthing, Smoking, SwitchingOver,
      GoingBack, Published, Returned

Quiet ==
  /\ UNCHANGED <<cand, gen>> /\ disk'.link = disk.link /\ disk'.pointer = disk.pointer
  /\ app'.release = app.release

LEMMA QuietKeeps ==
  ASSUME SupKept, SupTyped', Quiet
  PROVE  /\ Catalogue' /\ Settled' /\ EarlyStands'
         /\ (Serving' <=> Serving) /\ (Standing' <=> Standing)
         /\ Active' = Active /\ NextNumber' = NextNumber /\ Unfinished' = Unfinished
         /\ cand' = cand /\ gen' = gen
<1>1. cand' = cand /\ gen' = gen /\ disk'.link = disk.link /\ disk'.pointer = disk.pointer
      /\ app'.release = app.release
  BY DEF Quiet
<1>2. /\ Active' = Active /\ ActiveRelease' = ActiveRelease /\ NextNumber' = NextNumber
      /\ Unfinished' = Unfinished
  BY <1>1, SameBooks
<1>3. Catalogue'
  BY <1>1, CatalogueSame DEF SupKept
<1>4. (Serving' <=> Serving) /\ (Standing' <=> Standing)
  BY <1>1, <1>2 DEF Serving, Standing
<1>5. Settled'
  BY <1>2, <1>4 DEF SupKept, Settled
<1>6. EarlyStands'
  BY <1>1, <1>2 DEF SupKept, EarlyStands, EarlyOf, FirstLeft
<1> QED
  BY <1>1, <1>2, <1>3, <1>4, <1>5, <1>6

LEMMA QuietFree ==
  ASSUME SupKept, SupTyped', Quiet, sup'.pc \in Free
  PROVE  SupKept'
  BY QuietKeeps, WhereFree DEF SupKept

(* A step that leaves the records, the link, the pointer and the running    *)
(* release alone, and moves on to where what is known of them suffices.     *)
LEMMA QuietMoves ==
  ASSUME SupervisorConstants, SupKept, SupTyped', Quiet, sup'.c = sup.c, NEW p, sup'.pc = p,
         \/ p \in {"quiesce", "snapshot", "intent"} /\ sup.pc \in Preparing
         \/ p \in Closing /\ sup.pc \in Preparing \cup Closing
         \/ p = "smoked" /\ sup.pc = "smoke"
         \/ p = "switching" /\ sup.pc = "smoked"
         \/ p = "restore" /\ sup.pc \in Birthing
         \/ p = "lineage" /\ sup.pc = "healthy"
         \/ p = "born" /\ sup.pc = "resume"
         \/ p = "dropped" /\ sup.pc = "abandoned" /\ app.release = ActiveRelease
         \/ p = "rquiesce" /\ sup.pc = "rollcheck" /\ cand[sup.c].state = "BORN" /\ Target = Active
         \/ p = "rstop" /\ sup.pc = "recheck"
         \/ p = "rlink" /\ sup.pc = "freeze"
         \/ p = "rresume" /\ sup.pc = "rhealthy"
         \/ p = "restored" /\ sup.pc = "rresume" /\ app.release = ActiveRelease
         \/ p = "removed" /\ sup.pc = "remove"
  PROVE  SupKept'
<1>1. /\ Catalogue' /\ Settled' /\ EarlyStands'
      /\ (Serving' <=> Serving) /\ (Standing' <=> Standing)
      /\ Active' = Active /\ NextNumber' = NextNumber /\ Unfinished' = Unfinished
      /\ cand' = cand /\ gen' = gen
  BY QuietKeeps
<1>2. disk'.link = disk.link /\ disk'.pointer = disk.pointer /\ app'.release = app.release
  BY DEF Quiet
<1>3. Before /\ During /\ Back
  BY DEF SupKept, Whereabouts
<1>4. Target' = Target /\ Previous' = Previous /\ (EarlyOf(sup.c)' <=> EarlyOf(sup.c))
      /\ (FirstLeft(sup.c)' <=> FirstLeft(sup.c)) /\ cand'[sup'.c].state = cand[sup.c].state
  BY <1>1 DEF Target, Previous, EarlyOf, FirstLeft
<1>5. Before'
  BY <1>1, <1>3, <1>4 DEF Before, Preparing, Closing, Birthing, Smoking, SwitchingOver
<1>6. During'
  BY <1>1, <1>2, <1>3, <1>4 DEF During, Preparing, Closing, Birthing, Smoking, SwitchingOver, Published
<1>7. ASSUME p = "restored", sup.pc = "rresume", app.release = ActiveRelease PROVE Serving
  BY <1>3, <1>7 DEF Back, Returned, Serving, Standing, ActiveRelease
<1>8. ASSUME p = "restore", sup.pc \in Birthing PROVE sup.c \in Unfinished /\ FirstLeft(sup.c)
  <2>1. Unfinished = {sup.c}
    BY <1>3, <1>8 DEF During
  <2>2. sup.c \in Int
    <3>1. Candidates \subseteq Int /\ sup.c \in Candidates
      BY Numbering DEF SupKept, Catalogue, SupTyped, Processes
    <3> QED
      BY <3>1
  <2> QED
    BY <2>1, <2>2 DEF FirstLeft
<1>9. Back'
  BY <1>1, <1>2, <1>3, <1>4, <1>7, <1>8
  DEF Back, Preparing, Closing, Birthing, Smoking, SwitchingOver, GoingBack, Returned, Serving
<1> QED
  BY <1>1, <1>5, <1>6, <1>9 DEF SupKept, Whereabouts

\* What is not on record of a step that only works on files or modes.
OnlyFiles ==
  /\ UNCHANGED <<cand, gen, restored>> /\ facts' \in BOOLEAN /\ wrong' \in Nat
  /\ disk' \in Disks /\ disk'.link = disk.link /\ disk'.pointer = disk.pointer
  /\ app' \in Servers /\ app'.release = app.release

LEMMA OnlyFilesQuiet ==
  ASSUME SupKept, OnlyFiles, sup' \in Processes
  PROVE  SupTyped' /\ Quiet
  BY DEF SupKept, Catalogue, SupTyped, OnlyFiles, Quiet

LEMMA NothingElse ==
  ASSUME SupKept, UNCHANGED <<cand, gen, disk, app, facts, restored, wrong>>
  PROVE  OnlyFiles
  BY DEF SupKept, Catalogue, SupTyped, OnlyFiles

LEMMA ModeOnly ==
  ASSUME SupKept, NEW m \in {"open", "paused", "switching"}, app' = [app EXCEPT !.mode = m],
         UNCHANGED <<cand, gen, disk, facts, restored, wrong>>
  PROVE  OnlyFiles
  BY DEF SupKept, Catalogue, SupTyped, OnlyFiles, Servers

LEMMA Counted ==
  ASSUME SupKept
  PROVE  wrong \in Nat /\ (Mishap => wrong' \in Nat)
  BY DEF SupKept, Catalogue, SupTyped, Mishap

LEMMA DirOnly ==
  ASSUME SupKept, NEW x, NEW w \in {"sealed", "altered", "gone"}, disk' = [disk EXCEPT !.dir[x] = w],
         UNCHANGED <<cand, gen, app, facts, restored>>, wrong' \in Nat
  PROVE  OnlyFiles
<1>1. disk \in Disks /\ app \in Servers /\ facts \in BOOLEAN
  BY DEF SupKept, Catalogue, SupTyped
<1>2. disk' \in Disks /\ disk'.link = disk.link /\ disk'.pointer = disk.pointer
  BY <1>1 DEF Disks
<1> QED
  BY <1>1, <1>2 DEF OnlyFiles

LEMMA AllPcs ==
  /\ {"quiesce", "snapshot", "intent", "running", "unborn", "reopen", "closed", "create", "migrate"} \subseteq Pcs
  /\ {"smoke", "smoked", "switching", "stop", "link", "pointer", "starting", "start", "healthy"} \subseteq Pcs
  /\ {"lineage", "resume", "born", "idle", "restore", "abandoned", "dropped", "rollcheck"} \subseteq Pcs
  /\ {"rquiesce", "remove", "removed", "recover", "after", "recheck", "rstop", "freeze"} \subseteq Pcs
  /\ {"rlink", "rpointer", "rlineage", "rstart", "rhealthy", "rresume", "restored"} \subseteq Pcs
  BY DEF Pcs, Preparing, Closing, Birthing, Smoking, SwitchingOver, GoingBack

LEMMA LeavesQuietly ==
  ASSUME SupervisorConstants, SupKept, OnlyFiles, sup' = Away
  PROVE  SupKept'
  BY Leaves, OnlyFilesQuiet, QuietFree

(* A step to `p` that only works on files or modes.                         *)
LEMMA GoesOn ==
  ASSUME SupervisorConstants, SupKept, OnlyFiles, NEW p \in Pcs, sup' = [sup EXCEPT !.pc = p],
         \/ p \in {"quiesce", "snapshot", "intent"} /\ sup.pc \in Preparing
         \/ p \in Closing /\ sup.pc \in Preparing \cup Closing
         \/ p = "smoked" /\ sup.pc = "smoke"
         \/ p = "switching" /\ sup.pc = "smoked"
         \/ p = "restore" /\ sup.pc \in Birthing
         \/ p = "lineage" /\ sup.pc = "healthy"
         \/ p = "born" /\ sup.pc = "resume"
         \/ p = "dropped" /\ sup.pc = "abandoned" /\ app.release = ActiveRelease
         \/ p = "rquiesce" /\ sup.pc = "rollcheck" /\ cand[sup.c].state = "BORN" /\ Target = Active
         \/ p = "rstop" /\ sup.pc = "recheck"
         \/ p = "rlink" /\ sup.pc = "freeze"
         \/ p = "rresume" /\ sup.pc = "rhealthy"
         \/ p = "restored" /\ sup.pc = "rresume" /\ app.release = ActiveRelease
         \/ p = "removed" /\ sup.pc = "remove"
  PROVE  SupKept'
<1>1. sup' \in Processes /\ sup'.pc = p /\ sup'.c = sup.c
  BY GoTo DEF SupKept, Catalogue, Moves
<1>2. SupTyped' /\ Quiet
  BY <1>1, OnlyFilesQuiet
<1> QED
  BY <1>1, <1>2, QuietMoves

-----------------------------------------------------------------------------
(* The steps of a birth that change no record.                              *)

LEMMA BirthStep ==
  ASSUME SupervisorConstants, SupKept, NEW c \in Candidates, Birth(c)
  PROVE  SupKept'
<1>1. OnlyFiles
  BY NothingElse DEF Birth
<1>2. sup' = [pc |-> "running", c |-> c, quiet |-> FALSE, path |-> <<>>, outcome |-> "FAILED"]
  BY DEF Birth, Away
<1>3. sup' \in Processes /\ sup'.pc = "running" /\ sup'.c = c
  <2>1. <<>> \in Seq(Candidates)
    OBVIOUS
  <2> QED
    BY <1>2, <2>1, AllPcs, Starts0
<1>4. SupTyped' /\ Quiet
  BY <1>1, <1>3, OnlyFilesQuiet
<1>5. /\ Catalogue' /\ Settled' /\ EarlyStands'
      /\ Active' = Active /\ NextNumber' = NextNumber /\ Unfinished' = Unfinished /\ cand' = cand
  BY <1>4, QuietKeeps
<1>6. Before'
  BY <1>3, <1>5 DEF Birth, Base, Before, Preparing, Closing
<1>7. During' /\ Back'
  BY <1>3 DEF During, Back, Preparing, Closing, Birthing, Smoking, SwitchingOver, GoingBack, Published, Returned
<1> QED
  BY <1>5, <1>6, <1>7 DEF SupKept, Whereabouts

LEMMA PrepareStep ==
  ASSUME SupervisorConstants, SupKept, CheckRunning \/ Quiesce \/ Snapshot \/ Smoke \/ Smoked
  PROVE  SupKept'
<1>1. ASSUME CheckRunning PROVE SupKept'
  BY <1>1, NothingElse, AllPcs, GoesOn DEF CheckRunning, In, To, Preparing
<1>2. ASSUME Quiesce PROVE SupKept'
  <2>1. OnlyFiles
    BY <1>2, ModeOnly DEF Quiesce
  <2>2. sup' \in Processes /\ sup'.pc = "snapshot" /\ sup'.c = sup.c /\ sup.pc \in Preparing
    BY <1>2, AllPcs DEF Quiesce, SupKept, Catalogue, SupTyped, Processes, In, Preparing
  <2>3. SupTyped' /\ Quiet
    BY <2>1, <2>2, OnlyFilesQuiet
  <2> QED
    BY <2>2, <2>3, QuietMoves
<1>3. ASSUME Snapshot PROVE SupKept'
  <2>1. sup.pc \in Preparing
    BY <1>3 DEF Snapshot, In, Preparing
  <2>2. CASE Carries(sup.c) /\ sup.c \notin disk.snapped
    <3>1. disk' = [disk EXCEPT !.snapped = @ \cup {sup.c}] /\ sup' = [sup EXCEPT !.pc = "intent"]
          /\ UNCHANGED <<cand, gen, app, facts, restored, wrong>>
      BY <1>3, <2>2 DEF Snapshot, To
    <3>2. sup.c \in Candidates /\ disk \in Disks /\ app \in Servers /\ facts \in BOOLEAN /\ wrong \in Nat
      BY DEF SupKept, Catalogue, SupTyped, Processes
    <3>3. disk' \in Disks /\ disk'.link = disk.link /\ disk'.pointer = disk.pointer
      BY <3>1, <3>2 DEF Disks
    <3>4. OnlyFiles
      BY <3>1, <3>2, <3>3 DEF OnlyFiles
    <3> QED
      BY <2>1, <3>1, <3>4, AllPcs, GoesOn
  <2>3. CASE ~(Carries(sup.c) /\ sup.c \notin disk.snapped)
    <3>1. sup' = [sup EXCEPT !.pc = "unborn"] /\ UNCHANGED <<cand, gen, disk, app, facts, restored, wrong>>
      BY <1>3, <2>3 DEF Snapshot, To
    <3>2. "unborn" \in Closing
      BY DEF Closing
    <3> QED
      BY <2>1, <3>1, <3>2, NothingElse, AllPcs, GoesOn
  <2> QED
    BY <2>2, <2>3
<1>4. ASSUME Smoke PROVE SupKept'
  <2>1. sup.pc = "smoke" /\ sup' = [sup EXCEPT !.pc = "smoked"]
    BY <1>4 DEF Smoke, In, To
  <2>2. OnlyFiles
    <3>1. CASE UNCHANGED <<disk, wrong>>
      BY <1>4, <3>1, NothingElse DEF Smoke
    <3>2. CASE Mishap /\ disk' = [disk EXCEPT !.dir[sup.c] = "altered"]
      BY <1>4, <3>2, Counted, DirOnly DEF Smoke
    <3> QED
      BY <1>4, <3>1, <3>2 DEF Smoke
  <2> QED
    BY <2>1, <2>2, AllPcs, GoesOn
<1>5. ASSUME Smoked PROVE SupKept'
  <2>1. sup.pc = "smoked" /\ UNCHANGED <<cand, gen, disk, app, facts, restored, wrong>>
        /\ (sup' = [sup EXCEPT !.pc = "switching"] \/ sup' = [sup EXCEPT !.pc = "restore"])
    BY <1>5 DEF Smoked, In, To
  <2>2. OnlyFiles /\ sup.pc \in Birthing
    BY <2>1, NothingElse DEF Birthing, Smoking
  <2> QED
    BY <2>1, <2>2, AllPcs, GoesOn
<1> QED
  BY <1>1, <1>2, <1>3, <1>4, <1>5

LEMMA ServerStep ==
  ASSUME SupervisorConstants, SupKept,
         \/ Healthy("healthy", "lineage") \/ Resumed("resume", "born")
         \/ Healthy("rhealthy", "rresume") \/ Resumed("rresume", "restored")
  PROVE  SupKept'
<1>1. ASSUME NEW p \in Pcs, NEW q,
             \/ p = "lineage" /\ q = "healthy"
             \/ p = "rresume" /\ q = "rhealthy",
             Healthy(q, p)
      PROVE  SupKept'
  BY <1>1, NothingElse, GoesOn DEF Healthy, In, To
<1>2. ASSUME NEW p \in Pcs, NEW q,
             \/ p = "born" /\ q = "resume"
             \/ p = "restored" /\ q = "rresume",
             Resumed(q, p)
      PROVE  SupKept'
  BY <1>2, ModeOnly, GoesOn DEF Resumed, In, To
<1>3. {"lineage", "rresume", "born", "restored"} \subseteq Pcs
  BY AllPcs
<1> QED
  BY <1>1, <1>2, <1>3

LEMMA FreezeStep ==
  ASSUME SupervisorConstants, SupKept, Freeze
  PROVE  SupKept'
<1>1. sup.pc = "freeze" /\ sup' = [sup EXCEPT !.pc = "rlink"] /\ disk' = [disk EXCEPT !.frozen = @ \cup {Target}]
      /\ UNCHANGED <<cand, gen, app, facts, restored, wrong>>
  BY DEF Freeze, In, To
<1>2. Target \in Numbers /\ disk \in Disks /\ app \in Servers /\ facts \in BOOLEAN /\ wrong \in Nat
  BY DEF SupKept, Catalogue, SupTyped, Processes, Target, Records
<1>3. disk' \in Disks /\ disk'.link = disk.link /\ disk'.pointer = disk.pointer
  BY <1>1, <1>2 DEF Disks
<1>4. OnlyFiles
  BY <1>1, <1>2, <1>3 DEF OnlyFiles
<1> QED
  BY <1>1, <1>4, AllPcs, GoesOn

-----------------------------------------------------------------------------
(* The steps of a rollback that change no record.                           *)

LEMMA ChainIs ==
  ASSUME SupervisorConstants, Catalogue
  PROVE  Chain \in Seq(Generations)
<1>1. Downward /\ Active \in Generations
  BY ActiveIs DEF Catalogue, Lineages
<1>2. \A g \in Generations : gen[g].parent \in Generations \cup {0}
  <2>1. Many \in Nat /\ Generations = 1..(Many + 1)
    BY Numbering
  <2> SUFFICES ASSUME NEW g \in Generations PROVE gen[g].parent \in Generations \cup {0}
    OBVIOUS
  <2>2. gen[g].parent \in 0..(g - 1)
    BY <1>1 DEF Downward
  <2> QED
    BY <2>1, <2>2
<1>3. Generations \in SUBSET Generations
  OBVIOUS
<1>4. \A g \in Generations : Ancestry[g] \in Seq(Generations)
  BY <1>1, <1>2, <1>3, AncestryWithin
<1> QED
  BY <1>1, <1>4 DEF Chain

(* A born candidate that is active was submitted before what is unfinished. *)
LEMMA BornFirst ==
  ASSUME SupervisorConstants, Catalogue, NEW c \in Candidates, cand[c].state = "BORN", cand[c].target = Active
  PROVE  FirstLeft(c)
<1>0. Many \in Nat /\ Candidates = 1..Many /\ Generations = 1..(Many + 1)
  BY Numbering
<1>1. Active \in Generations /\ gen[Active].state = "ACTIVE"
  BY ActiveIs DEF Catalogue, Lineages
<1>2. gen[Active].release = c
  BY DEF Catalogue, Numbered, TargetKnown
<1> SUFFICES ASSUME NEW d \in Unfinished PROVE c <= d
  BY DEF FirstLeft
<1>3. d \in Candidates /\ cand[d].state \in {"BIRTHING", "ROLLING_BACK"}
  BY DEF Unfinished
<1>4. Active <= cand[d].target /\ (gen[cand[d].target].state # "none" => gen[cand[d].target].release = d)
  BY DEF Catalogue, Left, LeftOpen
<1>5. cand[d].target = cand[d].number /\ cand[d].number \in Generations
  <2>1. cand[d].target # 0
    BY <1>3 DEF Catalogue, Numbered, TargetKnown
  <2> QED
    BY <1>3, <2>1, RecordOf DEF Catalogue
<1>6. CASE Active = cand[d].target
  BY <1>0, <1>1, <1>2, <1>3, <1>4, <1>6
<1>7. CASE Active # cand[d].target
  <2>1. Active < cand[d].number
    BY <1>0, <1>1, <1>4, <1>5, <1>7
  <2>2. SubmittedWell(d)
    BY <1>3 DEF Catalogue, Submitted
  <2>3. gen[Active].release < d
    BY <1>1, <2>1, <2>2 DEF SubmittedWell
  <2> QED
    BY <1>0, <1>2, <1>3, <2>3
<1> QED
  BY <1>6, <1>7

LEMMA RollbackStep ==
  ASSUME SupervisorConstants, SupKept, NEW c \in Candidates, Rollback(c)
  PROVE  SupKept'
<1>1. OnlyFiles
  BY NothingElse DEF Rollback
<1>2. sup' = [pc |-> "rollcheck", c |-> c, quiet |-> FALSE, path |-> <<>>, outcome |-> "ROLLED_BACK"]
  BY DEF Rollback, Away
<1>3. sup' \in Processes /\ sup'.pc \in Free
  <2>1. <<>> \in Seq(Candidates)
    OBVIOUS
  <2>2. "rollcheck" \in Free
    BY DEF Free
  <2> QED
    BY <1>2, <2>1, <2>2, AllPcs, Starts0
<1> QED
  BY <1>1, <1>3, OnlyFilesQuiet, QuietFree

LEMMA RollbackToStep ==
  ASSUME SupervisorConstants, SupKept, NEW target \in Generations, RollbackTo(target)
  PROVE  SupKept'
<1>1. OnlyFiles
  BY NothingElse DEF RollbackTo
<1>2. PICK n \in 2..Len(Chain) :
        LET steps == [i \in 1..(n - 1) |-> gen[Chain[i]].release] IN
        /\ \A i \in 1..(n - 1) : Reversible(Chain[i])
        /\ sup' = [Away EXCEPT !.pc = "rollcheck", !.c = Head(steps), !.path = Tail(steps),
                               !.outcome = "ROLLED_BACK"]
  BY DEF RollbackTo
<1> DEFINE steps == [i \in 1..(n - 1) |-> gen[Chain[i]].release]
<1>3. n - 1 \in Nat /\ n - 1 >= 1
  <2>1. Len(Chain) \in Nat
    BY ChainIs DEF SupKept
  <2> QED
    BY <2>1
<1>4. \A i \in 1..(n - 1) : gen[Chain[i]].release \in Candidates
  BY <1>2 DEF Reversible
<1>5. steps \in Seq(Candidates) /\ Len(steps) = n - 1
  BY <1>3, <1>4
<1>6. sup' = [pc |-> "rollcheck", c |-> Head(steps), quiet |-> FALSE, path |-> Tail(steps),
              outcome |-> "ROLLED_BACK"]
  BY <1>2 DEF Away
<1> HIDE DEF steps
<1>7. Head(steps) \in Candidates /\ Tail(steps) \in Seq(Candidates)
  BY <1>3, <1>5
<1>8. sup' \in Processes /\ sup'.pc \in Free
  <2>1. "rollcheck" \in Free
    BY DEF Free
  <2> QED
    BY <1>6, <1>7, <2>1, AllPcs, Starts0
<1> QED
  BY <1>1, <1>8, OnlyFilesQuiet, QuietFree

LEMMA RollCheckStep ==
  ASSUME SupervisorConstants, SupKept, RollCheck
  PROVE  SupKept'
<1>1. OnlyFiles /\ sup.pc = "rollcheck"
  BY NothingElse DEF RollCheck, In
<1>2. CASE cand[sup.c].state = "BORN" /\ cand[sup.c].target = Active /\ Carries(gen[Previous].release)
  <2>1. sup' = [sup EXCEPT !.pc = "rquiesce"] /\ Target = Active
    BY <1>2 DEF RollCheck, Target
  <2> QED
    BY <1>1, <1>2, <2>1, AllPcs, GoesOn
<1>3. CASE ~(cand[sup.c].state = "BORN" /\ cand[sup.c].target = Active /\ Carries(gen[Previous].release))
  <2>1. sup' = Away
    BY <1>3 DEF RollCheck
  <2> QED
    BY <1>1, <2>1, LeavesQuietly
<1> QED
  BY <1>2, <1>3

(* At the step that starts to restore, the candidate is the first one left. *)
LEMMA RestoreMoves ==
  ASSUME SupervisorConstants, SupKept, OnlyFiles, sup' \in Processes, sup'.pc = "restore",
         \/ cand[sup'.c].state = "BORN" /\ cand[sup'.c].target = Active
         \/ sup'.c \in Unfinished,
         FirstLeft(sup'.c)
  PROVE  SupKept'
<1>1. SupTyped' /\ Quiet
  BY OnlyFilesQuiet
<1>2. /\ Catalogue' /\ Settled' /\ EarlyStands'
      /\ Active' = Active /\ Unfinished' = Unfinished /\ cand' = cand
  BY <1>1, QuietKeeps
<1>3. Before' /\ During'
  BY DEF Before, During, Preparing, Closing, Birthing, Smoking, SwitchingOver, Published
<1>4. Back'
  BY <1>2 DEF Back, GoingBack, Returned, FirstLeft, Target
<1> QED
  BY <1>2, <1>3, <1>4 DEF SupKept, Whereabouts

LEMMA RollQuiesceStep ==
  ASSUME SupervisorConstants, SupKept, RollQuiesce
  PROVE  SupKept'
<1>1. OnlyFiles /\ sup.pc = "rquiesce" /\ sup' = [sup EXCEPT !.pc = "restore"]
  BY ModeOnly DEF RollQuiesce, In, To
<1>2. cand[sup.c].state = "BORN" /\ cand[sup.c].target = Active /\ sup.c \in Candidates
  BY <1>1 DEF SupKept, Whereabouts, Back, Target, Catalogue, SupTyped, Processes
<1>3. FirstLeft(sup.c)
  BY <1>2, BornFirst DEF SupKept
<1>4. sup' \in Processes /\ sup'.pc = "restore" /\ sup'.c = sup.c
  BY <1>1, AllPcs, GoTo DEF Moves, SupKept, Catalogue
<1> QED
  BY <1>1, <1>2, <1>3, <1>4, RestoreMoves

LEMMA RecheckStep ==
  ASSUME SupervisorConstants, SupKept, Recheck
  PROVE  SupKept'
<1>1. OnlyFiles /\ sup.pc = "recheck" /\ (sup' = [sup EXCEPT !.pc = "rstop"] \/ sup' = Away)
  BY NothingElse DEF Recheck, In
<1> QED
  BY <1>1, AllPcs, GoesOn, LeavesQuietly

-----------------------------------------------------------------------------
(* Failures, and what happens beside the supervisor.                        *)

LEMMA FailureStep ==
  ASSUME SupervisorConstants, SupKept,
         CallFails \/ Refused \/ SupervisorDies \/ WriteFacts \/ \E c \in Candidates : Alter(c)
  PROVE  SupKept'
<1>0. wrong \in Nat /\ (Mishap => wrong' \in Nat) /\ disk \in Disks /\ app \in Servers
  /\ facts \in BOOLEAN /\ sup \in Processes
  BY Counted DEF SupKept, Catalogue, SupTyped
<1>1. ASSUME CallFails PROVE SupKept'
  <2>1. OnlyFiles
    BY <1>0, <1>1 DEF CallFails, OnlyFiles
  <2>2. CASE sup' = Away
    BY <2>1, <2>2, LeavesQuietly
  <2>3. CASE sup.pc \in BirthAwaits /\ To(IF sup.pc \in {"quiesce", "snapshot"} THEN "unborn" ELSE "restore")
    <3>1. CASE sup.pc \in {"quiesce", "snapshot"}
      <4>1. sup.pc \in Preparing /\ "unborn" \in Closing /\ sup' = [sup EXCEPT !.pc = "unborn"]
        BY <2>3, <3>1 DEF Preparing, Closing, To
      <4> QED
        BY <2>1, <4>1, AllPcs, GoesOn
    <3>2. CASE sup.pc \notin {"quiesce", "snapshot"}
      <4>1. sup.pc \in Birthing /\ sup' = [sup EXCEPT !.pc = "restore"]
        BY <2>3, <3>2 DEF BirthAwaits, Birthing, Smoking, SwitchingOver, To
      <4> QED
        BY <2>1, <4>1, AllPcs, GoesOn
    <3> QED
      BY <3>1, <3>2
  <2> QED
    BY <1>1, <2>2, <2>3 DEF CallFails
<1>2. ASSUME Refused PROVE SupKept'
  BY <1>2, NothingElse, LeavesQuietly DEF Refused
<1>3. ASSUME SupervisorDies PROVE SupKept'
  <2>1. OnlyFiles /\ sup' = Away
    BY <1>0, <1>3 DEF SupervisorDies, OnlyFiles
  <2> QED
    BY <2>1, LeavesQuietly
<1>4. ASSUME NEW c \in Candidates, Alter(c) PROVE SupKept'
  <2>1. OnlyFiles
    BY <1>4, <1>0, DirOnly DEF Alter
  <2>2. sup' = sup /\ sup.pc = "idle"
    BY <1>4 DEF Alter, In
  <2>3. sup' \in Processes /\ sup'.pc \in Free
    BY <1>0, <2>2 DEF Free
  <2> QED
    BY <2>1, <2>3, OnlyFilesQuiet, QuietFree
<1>5. ASSUME WriteFacts PROVE SupKept'
  <2>0. facts' \in BOOLEAN
    BY <1>5 DEF WriteFacts
  <2>1. UNCHANGED <<cand, gen, disk, app, restored, sup, wrong>>
    BY <1>5 DEF WriteFacts
  <2>2. OnlyFiles /\ sup' \in Processes /\ sup' = sup
    BY <1>0, <2>0, <2>1 DEF OnlyFiles
  <2>3. SupTyped' /\ Quiet
    BY <2>2, OnlyFilesQuiet
  <2>4. /\ Catalogue' /\ Settled' /\ EarlyStands'
        /\ (Serving' <=> Serving) /\ (Standing' <=> Standing)
        /\ Active' = Active /\ NextNumber' = NextNumber /\ Unfinished' = Unfinished
    BY <2>3, QuietKeeps
  <2>5. cand' = cand /\ gen' = gen /\ disk' = disk /\ app' = app /\ sup' = sup
    BY <2>1
  <2>6. Whereabouts
    BY DEF SupKept
  <2>7. Before' /\ During'
    BY <2>4, <2>5, <2>6 DEF Whereabouts, Before, During, EarlyOf, Target, Previous
  <2>8. Back'
    BY <2>4, <2>5, <2>6 DEF Whereabouts, Back, EarlyOf, Target, Previous, FirstLeft
  <2> QED
    BY <2>4, <2>7, <2>8 DEF SupKept, Whereabouts
<1> QED
  BY <1>1, <1>2, <1>3, <1>4, <1>5

-----------------------------------------------------------------------------
(* Stopping, linking, pointing and starting: only of the candidate that is  *)
(* unfinished and first, which is no longer one to abandon.                 *)

LEMMA InFront ==
  ASSUME SupervisorConstants, SupKept, sup.pc \in SwitchingOver \cup GoingBack
  PROVE  /\ sup.c \in Unfinished /\ sup.c \in Candidates /\ ~EarlyOf(sup.c) /\ FirstLeft(sup.c)
         /\ \A d \in Unfinished : FirstLeft(d) => d = sup.c
<1>1. Candidates \subseteq Int /\ sup.c \in Candidates
  BY Numbering DEF SupKept, Catalogue, SupTyped, Processes
<1>2. sup.c \in Unfinished /\ ~EarlyOf(sup.c) /\ FirstLeft(sup.c)
  <2>1. CASE sup.pc \in SwitchingOver
    <3>1. Unfinished = {sup.c} /\ ~EarlyOf(sup.c)
      BY <2>1 DEF SupKept, Whereabouts, During, Birthing
    <3>2. \A d \in Unfinished : sup.c <= d
      <4>1. sup.c \in Int
        BY <1>1
      <4>2. sup.c <= sup.c
        BY <4>1
      <4> QED
        BY <3>1, <4>2
    <3> QED
      BY <3>1, <3>2 DEF FirstLeft
  <2>2. CASE sup.pc \in GoingBack
    <3>1. cand[sup.c].state = "ROLLING_BACK" /\ ~EarlyOf(sup.c) /\ FirstLeft(sup.c)
      BY <2>2 DEF SupKept, Whereabouts, Back
    <3> QED
      BY <1>1, <3>1 DEF Unfinished
  <2> QED
    BY <2>1, <2>2
<1>3. ASSUME NEW d \in Unfinished, FirstLeft(d) PROVE d = sup.c
  <2>1. d <= sup.c /\ sup.c <= d
    BY <1>2, <1>3 DEF FirstLeft
  <2>2. d \in Int /\ sup.c \in Int
    BY <1>1 DEF Unfinished
  <2> QED
    BY ONLY <2>1, <2>2
<1> QED
  BY <1>1, <1>2, <1>3

LEMMA SwitchMoves ==
  ASSUME SupervisorConstants, SupKept, sup.pc \in SwitchingOver \cup GoingBack, SupTyped',
         UNCHANGED <<cand, gen>>
  PROVE  /\ Catalogue' /\ Settled' /\ EarlyStands'
         /\ Active' = Active /\ NextNumber' = NextNumber /\ Unfinished' = Unfinished
         /\ cand' = cand /\ gen' = gen /\ Before /\ During /\ Back
<1>1. /\ Active' = Active /\ ActiveRelease' = ActiveRelease /\ NextNumber' = NextNumber
      /\ Unfinished' = Unfinished
  BY SameBooks
<1>2. Catalogue'
  BY CatalogueSame DEF SupKept
<1>3. Settled'
  BY <1>1, InFront DEF Settled
<1>4. EarlyStands'
  BY <1>1, InFront DEF EarlyStands, EarlyOf, FirstLeft
<1> QED
  BY <1>1, <1>2, <1>3, <1>4 DEF SupKept, Whereabouts

\* What moves the link, the pointer or the server in these steps, and leaves all else.
OnDisk ==
  /\ UNCHANGED <<cand, gen, facts, restored, wrong>>
  /\ disk' \in Disks /\ app' \in Servers

LEMMA OnDiskMoves ==
  ASSUME SupervisorConstants, SupKept, OnDisk, NEW p \in Pcs, sup' = [sup EXCEPT !.pc = p],
         \/ p = "link" /\ sup.pc = "stop"
         \/ p = "pointer" /\ sup.pc = "link" /\ disk'.link = sup.c
         \/ p = "starting" /\ sup.pc = "pointer" /\ disk'.link = disk.link /\ disk'.pointer = Target
         \/ /\ p = "healthy" /\ sup.pc = "start" /\ disk'.link = disk.link /\ disk'.pointer = disk.pointer
            /\ app'.release = disk.link
         \/ p = "freeze" /\ sup.pc = "rstop"
         \/ p = "rpointer" /\ sup.pc = "rlink" /\ disk'.link = gen[Previous].release
         \/ p = "rlineage" /\ sup.pc = "rpointer" /\ disk'.link = disk.link /\ disk'.pointer = Previous
         \/ /\ p = "rhealthy" /\ sup.pc = "rstart" /\ disk'.link = disk.link /\ disk'.pointer = disk.pointer
            /\ app'.release = disk.link
  PROVE  SupKept'
<1>1. sup' \in Processes /\ sup'.pc = p /\ sup'.c = sup.c
  BY GoTo DEF SupKept, Catalogue, Moves
<1>2. SupTyped'
  BY <1>1 DEF OnDisk, SupKept, Catalogue, SupTyped
<1>3. sup.pc \in SwitchingOver \cup GoingBack
  BY DEF SwitchingOver, GoingBack
<1>4. /\ Catalogue' /\ Settled' /\ EarlyStands'
      /\ Active' = Active /\ NextNumber' = NextNumber /\ Unfinished' = Unfinished
      /\ cand' = cand /\ gen' = gen /\ Before /\ During /\ Back
  BY <1>2, <1>3, SwitchMoves DEF OnDisk
<1>5. Target' = Target /\ Previous' = Previous /\ (EarlyOf(sup.c)' <=> EarlyOf(sup.c))
      /\ (FirstLeft(sup.c)' <=> FirstLeft(sup.c)) /\ cand'[sup'.c].state = cand[sup.c].state
  BY <1>1, <1>4 DEF Target, Previous, EarlyOf, FirstLeft
<1>6. Before'
  BY <1>1 DEF Before, Preparing, Closing
<1>7. During'
  BY <1>1, <1>4, <1>5 DEF During, Birthing, Smoking, SwitchingOver, Published
<1>8. Back'
  BY <1>1, <1>4, <1>5 DEF Back, GoingBack, Returned
<1> QED
  BY <1>4, <1>6, <1>7, <1>8 DEF SupKept, Whereabouts

LEMMA SwitchStep ==
  ASSUME SupervisorConstants, SupKept,
         \/ Stopped("stop", "link") \/ Linked("link", sup.c, "pointer")
         \/ Pointed("pointer", cand[sup.c].target, "starting") \/ Started("start", "healthy")
         \/ Stopped("rstop", "freeze") \/ Linked("rlink", gen[Previous].release, "rpointer")
         \/ Pointed("rpointer", Previous, "rlineage") \/ Started("rstart", "rhealthy")
  PROVE  SupKept'
<1>0. disk \in Disks /\ app \in Servers /\ sup.c \in Candidates /\ gen \in [Generations -> Lives]
      /\ Candidates \subseteq Releases
  BY Numbering DEF SupKept, Catalogue, SupTyped, Processes
<1>1. ASSUME sup.pc \in SwitchingOver \cup GoingBack
      PROVE  Previous \in Generations /\ Target \in Generations
  <2>1. cand[sup.c].state \in {"BIRTHING", "ROLLING_BACK"}
    BY <1>1, InFront DEF Unfinished
  <2>2. cand[sup.c].target # 0
    BY <1>0, <2>1 DEF SupKept, Catalogue, Numbered, TargetKnown
  <2> QED
    BY <1>0, <2>1, <2>2, RecordOf DEF SupKept, Catalogue, Previous, Target
<1>2. ASSUME NEW q, NEW p, Stopped(q, p) PROVE OnDisk /\ sup.pc = q /\ sup' = [sup EXCEPT !.pc = p]
  BY <1>0, <1>2 DEF Stopped, OnDisk, In, To, Servers
<1>3. ASSUME NEW q, NEW p, NEW r \in Releases, Linked(q, r, p)
      PROVE  OnDisk /\ sup.pc = q /\ sup' = [sup EXCEPT !.pc = p] /\ disk'.link = r
  BY <1>0, <1>3 DEF Linked, OnDisk, In, To, Disks
<1>4. ASSUME NEW q, NEW p, NEW g \in Generations, Pointed(q, g, p)
      PROVE  OnDisk /\ sup.pc = q /\ sup' = [sup EXCEPT !.pc = p] /\ disk'.link = disk.link /\ disk'.pointer = g
  BY <1>0, <1>4 DEF Pointed, OnDisk, In, To, Disks
<1>5. ASSUME NEW q, NEW p, Started(q, p)
      PROVE  OnDisk /\ sup.pc = q /\ sup' = [sup EXCEPT !.pc = p] /\ disk' = disk /\ app'.release = disk.link
  BY <1>0, <1>5 DEF Started, OnDisk, In, To, Disks, Servers
<1>6. CASE Stopped("stop", "link") \/ Stopped("rstop", "freeze")
  BY <1>2, <1>6, AllPcs, OnDiskMoves
<1>7. CASE Linked("link", sup.c, "pointer")
  BY <1>0, <1>3, <1>7, AllPcs, OnDiskMoves
<1>8. CASE Linked("rlink", gen[Previous].release, "rpointer")
  <2>1. sup.pc \in GoingBack
    BY <1>8 DEF Linked, In, GoingBack
  <2>2. gen[Previous].release \in Releases
    BY <1>0, <1>1, <2>1 DEF Lives
  <2> QED
    BY <1>3, <1>8, <2>2, AllPcs, OnDiskMoves
<1>9. CASE Pointed("pointer", cand[sup.c].target, "starting")
  <2>1. sup.pc \in SwitchingOver
    BY <1>9 DEF Pointed, In, SwitchingOver
  <2>2. Target \in Generations /\ Pointed("pointer", Target, "starting")
    BY <1>1, <1>9, <2>1 DEF Target
  <2> QED
    BY <1>4, <2>2, AllPcs, OnDiskMoves
<1>10. CASE Pointed("rpointer", Previous, "rlineage")
  <2>1. sup.pc \in GoingBack
    BY <1>10 DEF Pointed, In, GoingBack
  <2> QED
    BY <1>1, <1>4, <1>10, <2>1, AllPcs, OnDiskMoves
<1>11. CASE Started("start", "healthy") \/ Started("rstart", "rhealthy")
  <2>1. CASE Started("start", "healthy")
    BY <1>5, <2>1, AllPcs, OnDiskMoves
  <2>2. CASE Started("rstart", "rhealthy")
    BY <1>5, <2>2, AllPcs, OnDiskMoves
  <2> QED
    BY <1>11, <2>1, <2>2
<1> QED
  BY <1>6, <1>7, <1>8, <1>9, <1>10, <1>11

-----------------------------------------------------------------------------
(* Steps that say something else of one candidate.                          *)

\* The files may change, but not what is linked, pointed to and running.
SameRun ==
  /\ UNCHANGED gen /\ disk' \in Disks /\ disk'.link = disk.link /\ disk'.pointer = disk.pointer
  /\ app' \in Servers /\ app'.release = app.release /\ facts' \in BOOLEAN /\ restored' \in Numbers
  /\ wrong' \in Nat /\ sup' \in Processes

LEMMA RestateMoves ==
  ASSUME SupervisorConstants, SupKept, SameRun, NEW c \in Candidates, Restates(c)
  PROVE  /\ Catalogue' /\ Unfinished' \ {c} = Unfinished \ {c}
         /\ (c \in Unfinished' <=> cand'[c].state \in {"BIRTHING", "ROLLING_BACK"})
         /\ Active' = Active /\ NextNumber' = NextNumber /\ gen' = gen /\ ActiveRelease' = ActiveRelease
         /\ (Serving' <=> Serving) /\ (Standing' <=> Standing)
<1>1. SupTyped'
  BY DEF SameRun, Restates, SupKept, Catalogue, SupTyped
<1>2. gen' = gen /\ Active' = Active /\ ActiveRelease' = ActiveRelease /\ NextNumber' = NextNumber
  BY SameLineage DEF SameRun
<1>3. (Serving' <=> Serving) /\ (Standing' <=> Standing)
  BY <1>2 DEF SameRun, Serving, Standing
<1>4. /\ Catalogue' /\ Unfinished' \ {c} = Unfinished \ {c}
      /\ (c \in Unfinished' <=> cand'[c].state \in {"BIRTHING", "ROLLING_BACK"})
  BY <1>1, <1>2, CatalogueRestates DEF SupKept
<1> QED
  BY <1>2, <1>3, <1>4

(* Of a candidate that is not unfinished and does not become so.            *)
LEMMA OtherMoves ==
  ASSUME SupervisorConstants, SupKept, SameRun, NEW c \in Candidates, Restates(c),
         cand[c].state \notin {"BIRTHING", "ROLLING_BACK"},
         cand'[c].state \notin {"BIRTHING", "ROLLING_BACK"}
  PROVE  Catalogue' /\ Settled' /\ EarlyStands' /\ Unfinished' = Unfinished
         /\ Active' = Active /\ NextNumber' = NextNumber /\ gen' = gen
<1>1. /\ Catalogue' /\ Unfinished' \ {c} = Unfinished \ {c}
      /\ (c \in Unfinished' <=> cand'[c].state \in {"BIRTHING", "ROLLING_BACK"})
      /\ Active' = Active /\ NextNumber' = NextNumber /\ gen' = gen /\ ActiveRelease' = ActiveRelease
      /\ (Serving' <=> Serving)
  BY RestateMoves
<1>2. c \notin Unfinished /\ Unfinished' = Unfinished
  <2>1. c \notin Unfinished
    BY DEF Unfinished
  <2> QED
    BY <1>1, <2>1
<1>3. \A d \in Unfinished : d \in Candidates /\ cand'[d] = cand[d]
  BY <1>2 DEF Restates, Unfinished
<1>4. Settled'
  BY <1>1, <1>2 DEF SupKept, Settled
<1>5. EarlyStands'
  BY <1>1, <1>2, <1>3 DEF SupKept, EarlyStands, EarlyOf, FirstLeft, SameRun
<1> QED
  BY <1>1, <1>2, <1>4, <1>5

(* Of the candidate whose birth or return ends with its base served.        *)
LEMMA LastMoves ==
  ASSUME SupervisorConstants, SupKept, SameRun, NEW c \in Candidates, Restates(c), Serving, sup'.pc \in Free
  PROVE  SupKept'
<1>1. Catalogue' /\ Serving'
  BY RestateMoves
<1>2. Settled' /\ EarlyStands'
  BY <1>1 DEF Settled, EarlyStands, Serving, Standing
<1> QED
  BY <1>1, <1>2, WhereFree DEF SupKept

LEMMA Untouched ==
  ASSUME SupKept
  PROVE  /\ cand \in [Candidates -> Records] /\ sup \in Processes /\ sup.c \in Candidates
         /\ disk \in Disks /\ app \in Servers /\ facts \in BOOLEAN /\ restored \in Numbers /\ wrong \in Nat
         /\ sup.path \in Seq(Candidates)
  BY DEF SupKept, Catalogue, SupTyped, Processes

LEMMA DirMoves ==
  ASSUME SupKept, NEW x, NEW w \in {"sealed", "altered", "gone"}, disk' = [disk EXCEPT !.dir[x] = w]
  PROVE  disk' \in Disks /\ disk'.link = disk.link /\ disk'.pointer = disk.pointer
<1>1. disk \in Disks
  BY DEF SupKept, Catalogue, SupTyped
<1> QED
  BY <1>1 DEF Disks

(* The checks of a candidate, and its approval.                             *)
LEMMA CheckStep ==
  ASSUME SupervisorConstants, SupKept, NEW c \in Candidates, Validate(c) \/ Approve(c)
  PROVE  SupKept'
<1>1. PICK s \in {"VALIDATED", "APPROVED"} : cand' = [cand EXCEPT ![c].state = s]
  BY DEF Validate, Approve
<1>2. cand[c].state \in {"SUBMITTED", "VALIDATED"} /\ sup' = sup /\ sup.pc = "idle"
      /\ UNCHANGED <<gen, app, facts, restored, wrong>>
  BY DEF Validate, Approve, In
<1>3. disk' = disk \/ disk' = [disk EXCEPT !.dir[c] = "sealed"]
  BY DEF Validate, Approve
<1>4. SameRun
  <2>1. disk' \in Disks /\ disk'.link = disk.link /\ disk'.pointer = disk.pointer
    <3>1. CASE disk' = disk
      BY <3>1, Untouched
    <3>2. CASE disk' = [disk EXCEPT !.dir[c] = "sealed"]
      BY <3>2, DirMoves
    <3> QED
      BY <1>3, <3>1, <3>2
  <2> QED
    BY <1>2, <2>1, Untouched DEF SameRun
<1>5. cand' \in [Candidates -> Records]
  <2>1. s \in States
    BY DEF States
  <2> QED
    BY <1>1, <2>1, Untouched DEF Records
<1>6. Restates(c)
  BY <1>1, <1>2, <1>5, Untouched DEF Restates, Records
<1>7. cand'[c].state = s
  BY <1>1, Untouched DEF Records
<1>8. Catalogue' /\ Settled' /\ EarlyStands'
  <2>1. /\ cand[c].state \notin {"BIRTHING", "ROLLING_BACK"}
        /\ cand'[c].state \notin {"BIRTHING", "ROLLING_BACK"}
    BY <1>2, <1>7
  <2> QED
    BY <1>4, <1>6, <2>1, OtherMoves
<1>9. sup'.pc \in Free
  BY <1>2 DEF Free
<1> QED
  BY <1>8, <1>9, WhereFree DEF SupKept

(* A failure before anything was recorded.                                  *)
LEMMA GiveUpStep ==
  ASSUME SupervisorConstants, SupKept, GiveUp
  PROVE  SupKept'
<1> DEFINE c == sup.c
<1>0. c \in Candidates /\ cand[c] \in Records /\ cand \in [Candidates -> Records]
  BY Untouched
<1>1. ASSUME sup.pc \in Closing
      PROVE  cand[c].state = "APPROVED" /\ Unfinished = {} /\ cand[c].target = 0
  <2>1. cand[c].state = "APPROVED" /\ Unfinished = {}
    BY <1>1 DEF SupKept, Whereabouts, Before
  <2> QED
    BY <1>0, <2>1 DEF SupKept, Catalogue, Numbered, TargetKnown
<1>2. CASE /\ In("unborn") /\ To("reopen") /\ UNCHANGED <<app, gen, disk, facts, restored, wrong>>
           /\ cand' = [cand EXCEPT ![c].proposal = "failed"]
  <2>1. sup' \in Processes /\ sup'.pc = "reopen" /\ sup'.c = c
    BY <1>2, AllPcs, GoTo DEF To, Moves, SupKept, Catalogue
  <2>2. SameRun
    BY <1>2, <2>1, Untouched DEF SameRun
  <2>3. cand[c].state = "APPROVED" /\ Unfinished = {}
    BY <1>1, <1>2 DEF In, Closing
  <2>4. Restates(c) /\ cand'[c].state = "APPROVED"
    BY <1>0, <1>2, <2>3 DEF Restates, Records
  <2>5. Catalogue' /\ Settled' /\ EarlyStands' /\ Unfinished' = Unfinished
    BY <1>0, <2>2, <2>3, <2>4, OtherMoves
  <2>6. Before'
    BY <2>1, <2>3, <2>4, <2>5 DEF Before, Preparing, Closing
  <2>7. During' /\ Back'
    BY <2>1 DEF During, Back, Birthing, Smoking, SwitchingOver, GoingBack, Published, Returned
  <2> QED
    BY <2>5, <2>6, <2>7 DEF SupKept, Whereabouts
<1>3. CASE In("reopen") /\ To("closed") /\ UNCHANGED <<cand, gen, disk, facts, restored, wrong>>
           /\ (UNCHANGED app \/ app' = [app EXCEPT !.mode = "open"])
  <2>1. OnlyFiles
    BY <1>3, NothingElse, ModeOnly
  <2>2. sup.pc \in Closing /\ "closed" \in Closing
    BY <1>3 DEF In, Closing
  <2> QED
    BY <1>3, <2>1, <2>2, AllPcs, GoesOn DEF To
<1>4. CASE /\ In("closed") /\ sup' = Away /\ UNCHANGED <<app, gen, disk, facts, restored, wrong>>
           /\ cand' = [cand EXCEPT ![c].state = "FAILED", ![c].phase = "FAILED"]
  <2>1. sup' \in Processes /\ sup'.pc \in Free
    BY <1>4, Leaves
  <2>2. SameRun
    BY <1>4, <2>1, Untouched DEF SameRun
  <2>3. cand[c].state = "APPROVED"
    BY <1>1, <1>4 DEF In, Closing
  <2>4. Restates(c) /\ cand'[c].state = "FAILED"
    BY <1>0, <1>4, <2>3 DEF Restates, Records, States, Phases
  <2>5. Catalogue' /\ Settled' /\ EarlyStands'
    BY <1>0, <2>2, <2>3, <2>4, OtherMoves
  <2> QED
    BY <2>1, <2>5, WhereFree DEF SupKept
<1> QED
  BY <1>2, <1>3, <1>4 DEF GiveUp

(* Where a rollback goes on, or ends.                                       *)
LEMMA DoneGoes ==
  ASSUME SupKept, sup' = Done
  PROVE  sup' \in Processes /\ sup'.pc \in Free
<1>1. sup \in Processes /\ sup.path \in Seq(Candidates)
  BY Untouched
<1>2. CASE sup.path = <<>>
  <2>1. sup' = [sup EXCEPT !.pc = "after"]
    BY <1>2 DEF Done
  <2> QED
    BY <1>1, <2>1, AllPcs DEF Processes, Free
<1>3. CASE sup.path # <<>>
  <2>1. Head(sup.path) \in Candidates /\ Tail(sup.path) \in Seq(Candidates)
    BY <1>1, <1>3
  <2> DEFINE h == Head(sup.path)
             t == Tail(sup.path)
  <2>2. sup' = [sup EXCEPT !.pc = "rollcheck", !.c = h, !.path = t]
    BY <1>3 DEF Done
  <2>3. h \in Candidates /\ t \in Seq(Candidates)
    BY <2>1
  <2> HIDE DEF h, t
  <2> QED
    BY <1>1, <2>2, <2>3, AllPcs DEF Processes, Free
<1> QED
  BY <1>2, <1>3

(* The ends of a birth, of a return, and of a candidate that is abandoned.   *)
LEMMA EndStep ==
  ASSUME SupervisorConstants, SupKept,
         \/ Born \/ Restored
         \/ /\ In("dropped") /\ sup' = Done /\ UNCHANGED <<gen, app, disk, facts, restored, wrong>>
            /\ cand' = [cand EXCEPT ![sup.c].state = "FAILED", ![sup.c].phase = "RESTORED"]
  PROVE  SupKept'
<1> DEFINE c == sup.c
<1>0. c \in Candidates /\ cand[c] \in Records /\ cand \in [Candidates -> Records] /\ sup \in Processes
  BY Untouched
<1>1. sup' \in Processes /\ sup'.pc \in Free
  BY DoneGoes, Leaves DEF Born, Restored
<1>2. SameRun
  <2>1. restored' \in Numbers
    BY <1>0, Untouched DEF Born, Restored, Previous, Records
  <2> QED
    BY <1>1, <2>1, Untouched DEF Born, Restored, SameRun
<1>3. CASE Born
  <2>1. sup.pc = "born" /\ Unfinished = {c} /\ gen[Target].release = c /\ Serving
    BY <1>3 DEF Born, In, SupKept, Whereabouts, During, Birthing, SwitchingOver, Published,
      Serving, Standing, ActiveRelease
  <2>2. cand[c].state \in {"BIRTHING", "ROLLING_BACK"} /\ cand[c].target # 0
    BY <1>0, <2>1 DEF Unfinished, SupKept, Catalogue, Numbered, TargetKnown
  <2>3. cand' = [cand EXCEPT ![c].state = "BORN", ![c].phase = "COMPLETED"]
    BY <1>3 DEF Born
  <2>4. Restates(c)
    BY <1>0, <2>1, <2>2, <2>3 DEF Restates, Records, States, Phases, Target
  <2> QED
    BY <1>0, <1>1, <1>2, <2>1, <2>4, LastMoves
<1>4. CASE ~Born
  <2>1. PICK s \in {"FAILED", "ROLLED_BACK"} : cand' = [cand EXCEPT ![c].state = s, ![c].phase = "RESTORED"]
    BY <1>0, <1>4 DEF Restored, Processes
  <2>2. sup.pc \in {"dropped", "restored"}
    BY <1>4 DEF Restored, In
  <2>3. Serving
    BY <2>2 DEF SupKept, Whereabouts, Back
  <2>4. c \in Unfinished
    BY <1>0, <2>2 DEF SupKept, Whereabouts, Back, GoingBack, Unfinished
  <2>5. Restates(c)
    BY <1>0, <2>1, <2>4 DEF Restates, Records, States, Phases, Unfinished
  <2> QED
    BY <1>0, <1>1, <1>2, <2>3, <2>5, LastMoves
<1> QED
  BY <1>3, <1>4

(* Deleting code.                                                           *)
LEMMA DeleteStep ==
  ASSUME SupervisorConstants, SupKept, NEW c \in Candidates, Delete(c)
  PROVE  SupKept'
<1>0. cand[c] \in Records /\ cand \in [Candidates -> Records]
  BY Untouched
<1>1. sup' = [pc |-> "remove", c |-> c, quiet |-> FALSE, path |-> <<>>, outcome |-> "FAILED"]
      /\ cand' = [cand EXCEPT ![c].state = "DELETING", ![c].intent = Active]
      /\ UNCHANGED <<gen, disk, app, facts, restored, wrong>>
  BY DEF Delete, Away
<1>2. sup' \in Processes /\ sup'.pc = "remove" /\ sup'.c = c
  <2>1. <<>> \in Seq(Candidates)
    OBVIOUS
  <2> QED
    BY <1>1, <2>1, AllPcs, Starts0
<1>3. SameRun
  BY <1>1, <1>2, Untouched DEF SameRun
<1>4. cand[c].state \notin {"none", "BIRTHING", "ROLLING_BACK"} /\ Unfinished = {}
  <2>1. MayDelete(c)
    BY DEF Delete
  <2> QED
    BY <2>1 DEF MayDelete
<1>5. Active \in Numbers
  <2>1. Active \in Generations
    BY ActiveIs DEF SupKept, Catalogue, Lineages
  <2>2. Many \in Nat /\ Generations = 1..(Many + 1)
    BY Numbering
  <2> QED
    BY <2>1, <2>2 DEF Numbers
<1>6. Restates(c) /\ cand'[c].state = "DELETING"
  BY <1>0, <1>1, <1>4, <1>5 DEF Restates, Records, States
<1>7. Catalogue' /\ Settled' /\ EarlyStands'
  BY <1>3, <1>4, <1>6, OtherMoves
<1>8. Before'
  BY <1>2, <1>6 DEF Before, Preparing, Closing
<1>9. During' /\ Back'
  BY <1>2 DEF During, Back, Birthing, Smoking, SwitchingOver, GoingBack, Published, Returned
<1> QED
  BY <1>7, <1>8, <1>9 DEF SupKept, Whereabouts

LEMMA Deleted ==
  ASSUME SupervisorConstants, SupKept, SameRun, NEW c \in Candidates, cand[c].state = "DELETING",
         cand' = [cand EXCEPT ![c].state = "DELETED"], sup'.pc \in Free
  PROVE  SupKept'
<1>1. cand[c] \in Records /\ cand \in [Candidates -> Records]
  BY Untouched
<1>2. Restates(c) /\ cand'[c].state = "DELETED"
  BY <1>1 DEF Restates, Records, States
<1>3. Catalogue' /\ Settled' /\ EarlyStands'
  BY <1>2, OtherMoves
<1> QED
  BY <1>3, WhereFree DEF SupKept

LEMMA RemoveStep ==
  ASSUME SupervisorConstants, SupKept, Remove
  PROVE  SupKept'
<1>0. sup.c \in Candidates /\ sup \in Processes /\ disk \in Disks
  BY Untouched
<1>1. CASE In("remove")
  <2>1. sup' = [sup EXCEPT !.pc = "removed"] /\ disk' = [disk EXCEPT !.dir[sup.c] = "gone"]
        /\ UNCHANGED <<cand, gen, app, facts, restored, wrong>> /\ sup.pc = "remove"
    BY <1>1 DEF Remove, In, To
  <2>2. OnlyFiles
    BY <2>1, Counted, DirOnly
  <2> QED
    BY <2>1, <2>2, AllPcs, GoesOn
<1>2. CASE ~In("remove")
  <2>1. sup.pc = "removed" /\ sup' = Away /\ cand' = [cand EXCEPT ![sup.c].state = "DELETED"]
        /\ UNCHANGED <<gen, disk, app, facts, restored, wrong>>
    BY <1>2 DEF Remove, In
  <2>2. sup' \in Processes /\ sup'.pc \in Free
    BY <2>1, Leaves
  <2>3. SameRun
    BY <2>1, <2>2, Untouched DEF SameRun
  <2>4. cand[sup.c].state = "DELETING"
    BY <2>1 DEF SupKept, Whereabouts, Before
  <2> QED
    BY <1>0, <2>1, <2>2, <2>3, <2>4, Deleted
<1> QED
  BY <1>1, <1>2

(* recover(): interrupted deletions, then what was left unfinished.         *)
LEMMA RecoverStep ==
  ASSUME SupervisorConstants, SupKept, Recover
  PROVE  SupKept'
<1>0. sup \in Processes /\ disk \in Disks
  BY Untouched
<1>1. CASE UNCHANGED <<cand, disk>> /\ sup' = Away
  BY <1>1, NothingElse, LeavesQuietly DEF Recover
<1>2. CASE UNCHANGED <<cand, disk>> /\ sup' = [Away EXCEPT !.pc = "recover"]
  <2>1. sup' = [pc |-> "recover", c |-> 1, quiet |-> FALSE, path |-> <<>>, outcome |-> "FAILED"]
    BY <1>2 DEF Away
  <2>2. <<>> \in Seq(Candidates) /\ 1 \in Candidates /\ "recover" \in Free
    BY Numbering DEF Free
  <2>3. sup' \in Processes /\ sup'.pc \in Free
    BY <2>1, <2>2, AllPcs, Starts0
  <2> QED
    BY <1>2, <2>3, NothingElse, OnlyFilesQuiet, QuietFree DEF Recover
<1>3. CASE Unfinished # {} /\ UNCHANGED <<cand, disk>>
           /\ sup' = [sup EXCEPT !.pc = "restore", !.c = First(Unfinished)]
  <2>1. First(Unfinished) \in Unfinished /\ FirstLeft(First(Unfinished)) /\ First(Unfinished) \in Candidates
    <3>1. Unfinished \in SUBSET Candidates
      BY DEF Unfinished
    <3> QED
      BY <1>3, <3>1, FirstIs DEF FirstLeft
  <2>2. sup' \in Processes /\ sup'.pc = "restore" /\ sup'.c = First(Unfinished)
    BY <1>0, <1>3, <2>1, AllPcs DEF Processes
  <2>3. OnlyFiles
    BY <1>3, NothingElse DEF Recover
  <2> QED
    BY <2>1, <2>2, <2>3, RestoreMoves
<1>4. CASE /\ In("recover") /\ Deleting # {} /\ UNCHANGED sup
           /\ cand' = [cand EXCEPT ![First(Deleting)].state = "DELETED"]
           /\ disk' = [disk EXCEPT !.dir[First(Deleting)] = "gone"]
  <2>1. First(Deleting) \in Candidates /\ cand[First(Deleting)].state = "DELETING"
    <3>1. Deleting \in SUBSET Candidates
      BY DEF Deleting
    <3>2. First(Deleting) \in Deleting
      BY <1>4, <3>1, FirstIs
    <3> QED
      BY <3>2 DEF Deleting
  <2>2. sup' \in Processes /\ sup'.pc \in Free
    BY <1>0, <1>4 DEF In, Free
  <2>3. SameRun
    <3>1. disk' \in Disks /\ disk'.link = disk.link /\ disk'.pointer = disk.pointer
      BY <1>4, DirMoves
    <3> QED
      BY <2>2, <3>1, Untouched DEF SameRun, Recover
  <2> QED
    BY <1>4, <2>1, <2>2, <2>3, Deleted
<1> QED
  BY <1>1, <1>2, <1>3, <1>4 DEF Recover

-----------------------------------------------------------------------------
(* The phases of a birth, and the start of a return.                        *)

LEMMA PhaseStep ==
  ASSUME SupervisorConstants, SupKept,
         Migrate \/ Switching \/ Phase("starting", "STARTING", "start")
  PROVE  SupKept'
<1> DEFINE c == sup.c
<1>0. c \in Candidates /\ cand[c] \in Records /\ cand \in [Candidates -> Records] /\ sup \in Processes
      /\ Candidates \subseteq Int
  BY Untouched, Numbering
<1>1. PICK from, phase, to :
        /\ \/ from = "migrate" /\ phase = "CANDIDATE_SMOKE" /\ to = "smoke"
           \/ from = "switching" /\ phase = "SWITCHING" /\ to = "stop"
           \/ from = "starting" /\ phase = "STARTING" /\ to = "start"
        /\ Phase(from, phase, to)
  BY DEF Migrate, Switching
<1>2. sup.pc = from /\ sup' = [sup EXCEPT !.pc = to] /\ cand' = [cand EXCEPT ![c].phase = phase]
      /\ UNCHANGED <<gen, disk, app, facts, restored, wrong>>
  BY <1>1 DEF Phase, In, To
<1>3. sup' \in Processes /\ sup'.pc = to /\ sup'.c = c
  <2>1. to \in Pcs
    BY <1>1, AllPcs
  <2> QED
    BY <1>2, <2>1, GoTo DEF Moves, SupKept, Catalogue
<1>4. SameRun
  BY <1>2, <1>3, Untouched DEF SameRun
<1>5. Unfinished = {c} /\ cand[c].state \in {"BIRTHING", "ROLLING_BACK"}
  <2>1. sup.pc \in Birthing
    BY <1>1, <1>2 DEF Birthing, Smoking, SwitchingOver
  <2>2. Unfinished = {c}
    BY <2>1 DEF SupKept, Whereabouts, During
  <2> QED
    BY <2>2 DEF Unfinished
<1>6. phase \in Phases
  BY <1>1 DEF Phases
<1>7. /\ Restates(c) /\ cand'[c].state = cand[c].state /\ cand'[c].phase = phase
      /\ cand'[c].base = cand[c].base /\ cand'[c].target = cand[c].target
  BY <1>0, <1>2, <1>5, <1>6 DEF Restates, Records
<1>8. /\ Catalogue' /\ Unfinished' = Unfinished
      /\ Active' = Active /\ NextNumber' = NextNumber /\ gen' = gen /\ ActiveRelease' = ActiveRelease
      /\ (Serving' <=> Serving) /\ (Standing' <=> Standing)
  <2>1. /\ Catalogue' /\ Unfinished' \ {c} = Unfinished \ {c}
        /\ (c \in Unfinished' <=> cand'[c].state \in {"BIRTHING", "ROLLING_BACK"})
        /\ Active' = Active /\ NextNumber' = NextNumber /\ gen' = gen /\ ActiveRelease' = ActiveRelease
        /\ (Serving' <=> Serving) /\ (Standing' <=> Standing)
    BY <1>0, <1>4, <1>7, RestateMoves
  <2> QED
    BY <1>5, <1>7, <2>1
<1>9. Target' = Target /\ Previous' = Previous
  BY <1>3, <1>7 DEF Target, Previous
<1>10. During /\ disk' = disk /\ app' = app
  BY <1>2 DEF SupKept, Whereabouts
<1>11. During'
  BY <1>1, <1>2, <1>3, <1>5, <1>7, <1>8, <1>9, <1>10
  DEF During, Birthing, Smoking, SwitchingOver, Published, EarlyOf
<1>12. Before' /\ Back'
  BY <1>1, <1>3 DEF Before, Back, Preparing, Closing, GoingBack, Returned
<1>13. Settled'
  BY <1>5, <1>8 DEF Settled
<1>14. EarlyStands'
  <2>1. CASE to = "smoke"
    <3>1. Serving
      BY <1>1, <1>2, <1>10, <2>1 DEF During, Smoking
    <3> QED
      BY <1>8, <3>1 DEF EarlyStands, Serving, Standing
  <2>2. CASE to # "smoke"
    <3>1. cand'[c].phase \notin {"MIGRATING", "CANDIDATE_SMOKE"}
      BY <1>1, <1>7, <2>2
    <3> QED
      BY <1>5, <1>8, <3>1 DEF EarlyStands, EarlyOf
  <2> QED
    BY <2>1, <2>2
<1> QED
  BY <1>8, <1>11, <1>12, <1>13, <1>14 DEF SupKept, Whereabouts

LEMMA RollingBackStep ==
  ASSUME SupervisorConstants, SupKept, RollingBack
  PROVE  SupKept'
<1> DEFINE c == sup.c
<1>0. c \in Candidates /\ cand[c] \in Records /\ cand \in [Candidates -> Records] /\ sup \in Processes
      /\ Candidates \subseteq Int
  BY Untouched, Numbering
<1>1. sup.pc = "restore" /\ sup' = [sup EXCEPT !.pc = "recheck"]
      /\ cand' = [cand EXCEPT ![c].state = "ROLLING_BACK", ![c].phase = "STOPPING"]
      /\ UNCHANGED <<gen, disk, app, facts, restored, wrong>>
  BY DEF RollingBack, In, To
<1>2. sup' \in Processes /\ sup'.pc = "recheck" /\ sup'.c = c
  BY <1>1, AllPcs, GoTo DEF Moves, SupKept, Catalogue
<1>3. SameRun
  BY <1>1, <1>2, Untouched DEF SameRun
<1>4. FirstLeft(c) /\ (c \in Unfinished \/ (cand[c].state = "BORN" /\ cand[c].target = Active))
  BY <1>1 DEF SupKept, Whereabouts, Back, Target
<1>5. Restates(c) /\ cand'[c].state = "ROLLING_BACK" /\ cand'[c].phase = "STOPPING"
  BY <1>0, <1>1, <1>4 DEF Restates, Records, States, Phases, Unfinished
<1>6. /\ Catalogue' /\ Unfinished' = Unfinished \cup {c}
  <2>1. /\ Catalogue' /\ Unfinished' \ {c} = Unfinished \ {c}
        /\ (c \in Unfinished' <=> cand'[c].state \in {"BIRTHING", "ROLLING_BACK"})
    BY <1>0, <1>3, <1>5, RestateMoves
  <2> QED
    BY <1>5, <2>1
<1>7. \A d \in Unfinished' : c <= d /\ d \in Int /\ c \in Int
  <2>1. \A d \in Unfinished : c <= d /\ d \in Int
    BY <1>0, <1>4 DEF FirstLeft, Unfinished
  <2>2. c \in Int /\ c <= c
    <3>1. c \in Int
      BY <1>0
    <3> QED
      BY <3>1
  <2> QED
    BY <1>6, <2>1, <2>2
<1>8. Back'
  BY <1>2, <1>5, <1>7 DEF Back, GoingBack, Returned, FirstLeft, EarlyOf
<1>9. Before' /\ During'
  BY <1>2 DEF Before, During, Preparing, Closing, Birthing, Smoking, SwitchingOver, Published
<1>10. Settled'
  BY <1>6 DEF Settled
<1>11. EarlyStands'
  <2> SUFFICES ASSUME NEW d \in Unfinished', EarlyOf(d)', FirstLeft(d)' PROVE FALSE
    BY DEF EarlyStands
  <2>1. d <= c
    BY <1>6 DEF FirstLeft
  <2>2. d = c
    BY <1>7, <2>1
  <2> QED
    BY <1>5, <2>2 DEF EarlyOf
<1> QED
  BY <1>6, <1>8, <1>9, <1>10, <1>11 DEF SupKept, Whereabouts

-----------------------------------------------------------------------------
(* A candidate is submitted on the generation that is active.               *)
LEMMA SubmitStep ==
  ASSUME SupervisorConstants, SupKept, NEW c \in Candidates, Submit(c)
  PROVE  SupKept'
<1>0. /\ cand \in [Candidates -> Records] /\ cand[c] \in Records /\ Many \in Nat /\ Candidates = 1..Many
      /\ Generations = 1..(Many + 1)
  BY Untouched, Numbering
<1> DEFINE r == [NoCandidate EXCEPT !.state = "SUBMITTED", !.base = Active, !.number = NextNumber,
                                    !.proposal = "open"]
<1>1. /\ cand' = [cand EXCEPT ![c] = r] /\ disk' = [disk EXCEPT !.dir[c] = "sealed"]
      /\ UNCHANGED <<gen, app, facts, restored, sup, wrong>> /\ sup.pc = "idle"
      /\ cand[c].state = "none" /\ \A d \in 1..(c - 1) : cand[d].state # "none"
  BY DEF Submit, In
<1>2. NextNumber <= c + 1 /\ \A g \in Generations : g < NextNumber => gen[g].release < c
  BY <1>1, RoomLeft DEF SupKept, Catalogue
<1>3. NextNumber \in Nat /\ Active \in Generations /\ Active < NextNumber
  BY NextIs DEF SupKept, Catalogue
<1>4. r \in Records /\ r.state = "SUBMITTED" /\ r.base = Active /\ r.number = NextNumber /\ r.target = 0
  <2>1. NextNumber \in Numbers /\ Active \in Numbers /\ 0 \in Numbers
    BY <1>0, <1>2, <1>3 DEF Numbers
  <2> QED
    BY <2>1 DEF NoCandidate, Records, States, Phases
<1> HIDE DEF r
<1>5. cand' \in [Candidates -> Records] /\ cand'[c] = r /\ \A d \in Candidates : d # c => cand'[d] = cand[d]
  BY <1>0, <1>1, <1>4
<1>6. SupTyped'
  <2>1. disk' \in Disks
    BY <1>1, DirMoves
  <2> QED
    BY <1>1, <1>5, <2>1, Untouched DEF SupTyped, SupKept, Catalogue
<1>7. gen' = gen /\ Active' = Active /\ ActiveRelease' = ActiveRelease /\ NextNumber' = NextNumber
  BY <1>1, SameLineage
<1>8. Unfinished' = Unfinished /\ c \notin Unfinished
  BY <1>1, <1>4, <1>5 DEF Unfinished
<1>9. Lineages'
  <2>1. cand[c].target = 0 /\ 0 \notin Generations
    BY <1>0, <1>1 DEF SupKept, Catalogue, Numbered, TargetKnown
  <2>2. \A g \in Generations : gen[g].release # c
    BY <2>1 DEF SupKept, Catalogue, Lineages, MadeFrom
  <2>3. MadeFrom'
    BY <1>5, <1>7, <2>2 DEF SupKept, Catalogue, Lineages, MadeFrom
  <2> QED
    BY <1>7, <2>3 DEF SupKept, Catalogue, Lineages, OneActive, InOrder, Downward
<1>10. Submitted'
  <2> SUFFICES ASSUME NEW e \in Candidates, cand'[e].state # "none" PROVE SubmittedWell(e)'
    BY DEF Submitted
  <2>0. 1..e \subseteq Candidates
    BY <1>0
  <2>1. CASE e # c
    <3>1. SubmittedWell(e) /\ cand'[e] = cand[e]
      BY <1>5, <2>1 DEF SupKept, Catalogue, Submitted
    <3>2. \A d \in 1..e : cand'[d].state # "none"
      BY <1>4, <1>5, <2>0, <3>1 DEF SubmittedWell
    <3> QED
      BY <1>7, <3>1, <3>2 DEF SubmittedWell
  <2>2. CASE e = c
    <3>1. \A d \in 1..c : cand'[d].state # "none"
      <4>1. \A d \in 1..c : d \in Candidates /\ (d = c \/ d \in 1..(c - 1))
        BY <1>0
      <4> QED
        BY <1>1, <1>4, <1>5, <4>1
    <3>2. 0 < Active
      BY <1>0, <1>3
    <3> QED
      BY <1>2, <1>3, <1>4, <1>5, <1>7, <2>2, <3>1, <3>2 DEF SubmittedWell
  <2> QED
    BY <2>1, <2>2
<1>11. Numbered'
  <2> SUFFICES ASSUME NEW e \in Candidates PROVE TargetKnown(e)'
    BY DEF Numbered
  <2>1. CASE e # c
    BY <1>5, <1>7, <2>1 DEF SupKept, Catalogue, Numbered, TargetKnown
  <2>2. CASE e = c
    BY <1>4, <1>5, <2>2 DEF TargetKnown
  <2> QED
    BY <2>1, <2>2
<1>12. \A d \in Unfinished : d \in Candidates /\ cand'[d] = cand[d]
  BY <1>5, <1>8 DEF Unfinished
<1>13. Left'
  BY <1>7, <1>8, <1>12 DEF SupKept, Catalogue, Left, LeftOpen
<1>14. disk'.link = disk.link /\ disk'.pointer = disk.pointer /\ app' = app
  BY <1>1, DirMoves
<1>15. Settled'
  BY <1>7, <1>8, <1>14 DEF SupKept, Settled, Serving, Standing
<1>16. EarlyStands'
  BY <1>7, <1>8, <1>12, <1>14 DEF SupKept, EarlyStands, EarlyOf, FirstLeft
<1>17. Whereabouts'
  <2>1. sup'.pc \in Free
    BY <1>1 DEF Free
  <2> QED
    BY <2>1, WhereFree
<1> QED
  BY <1>6, <1>9, <1>10, <1>11, <1>13, <1>15, <1>16, <1>17 DEF SupKept, Catalogue

(* The intent of a birth is on record before its generation.                *)
LEMMA IntentStep ==
  ASSUME SupervisorConstants, SupKept, Intent
  PROVE  SupKept'
<1> DEFINE c == sup.c
           r == [cand[c] EXCEPT !.state = "BIRTHING", !.phase = "MIGRATING", !.target = NextNumber]
<1>0. /\ cand \in [Candidates -> Records] /\ cand[c] \in Records /\ Many \in Nat /\ Candidates = 1..Many
      /\ Generations = 1..(Many + 1) /\ c \in Candidates
  BY Untouched, Numbering
<1>1. /\ cand' = [cand EXCEPT ![c] = r] /\ UNCHANGED <<gen, disk, app, facts, restored, wrong>>
      /\ sup.pc = "intent" /\ sup' = [sup EXCEPT !.pc = "create"]
  BY DEF Intent, In, To
<1>2. sup' \in Processes /\ sup'.pc = "create" /\ sup'.c = c
  BY <1>1, AllPcs, GoTo DEF Moves, SupKept, Catalogue
<1>3. /\ Unfinished = {} /\ cand[c].state = "APPROVED" /\ cand[c].base = Active
      /\ cand[c].number = NextNumber
  BY <1>1 DEF SupKept, Whereabouts, Before, Preparing
<1>4. NextNumber \in Generations /\ NextNumber \in Nat /\ Active \in Nat /\ Active < NextNumber
  <2>1. cand[c].number \in Generations
    BY <1>0, <1>3, RecordOf DEF SupKept, Catalogue
  <2>2. Active \in Generations /\ NextNumber \in Nat /\ Active < NextNumber
    BY NextIs DEF SupKept, Catalogue
  <2> QED
    BY <1>0, <1>3, <2>1, <2>2
<1>5. /\ r \in Records /\ r.state = "BIRTHING" /\ r.phase = "MIGRATING" /\ r.target = NextNumber
      /\ r.base = Active /\ r.number = NextNumber
  <2>1. NextNumber \in Numbers
    BY <1>0, <1>4 DEF Numbers
  <2> QED
    BY <1>0, <1>3, <2>1 DEF Records, States, Phases
<1> HIDE DEF r
<1>6. cand' \in [Candidates -> Records] /\ cand'[c] = r /\ \A d \in Candidates : d # c => cand'[d] = cand[d]
  BY <1>0, <1>1, <1>5
<1>7. SupTyped'
  BY <1>1, <1>2, <1>6, Untouched DEF SupTyped, SupKept, Catalogue
<1>8. gen' = gen /\ Active' = Active /\ ActiveRelease' = ActiveRelease /\ NextNumber' = NextNumber
  BY <1>1, SameLineage
<1>9. Unfinished' = {c}
  BY <1>0, <1>3, <1>5, <1>6 DEF Unfinished
<1>10. Lineages'
  <2>1. cand[c].target = 0 /\ 0 \notin Generations
    BY <1>0, <1>3 DEF SupKept, Catalogue, Numbered, TargetKnown
  <2>2. \A g \in Generations : gen[g].release # c
    BY <1>0, <2>1 DEF SupKept, Catalogue, Lineages, MadeFrom
  <2>3. MadeFrom'
    BY <1>6, <1>8, <2>2 DEF SupKept, Catalogue, Lineages, MadeFrom
  <2> QED
    BY <1>8, <2>3 DEF SupKept, Catalogue, Lineages, OneActive, InOrder, Downward
<1>11. Submitted'
  <2>0. \A d \in Candidates : /\ cand'[d].base = cand[d].base /\ cand'[d].number = cand[d].number
                              /\ cand'[d].state = "none" <=> cand[d].state = "none"
    BY <1>3, <1>5, <1>6
  <2> SUFFICES ASSUME NEW e \in Candidates, cand[e].state # "none" PROVE SubmittedWell(e)'
    BY <2>0 DEF Submitted
  <2>1. SubmittedWell(e) /\ 1..e \subseteq Candidates
    BY <1>0 DEF SupKept, Catalogue, Submitted
  <2> QED
    BY <1>8, <2>0, <2>1 DEF SubmittedWell
<1>12. Numbered'
  <2> SUFFICES ASSUME NEW e \in Candidates PROVE TargetKnown(e)'
    BY DEF Numbered
  <2>1. CASE e # c
    BY <1>6, <1>8, <2>1 DEF SupKept, Catalogue, Numbered, TargetKnown
  <2>2. CASE e = c
    <3>1. NextNumber # 0
      BY <1>4
    <3> QED
      BY <1>5, <1>6, <2>2, <3>1 DEF TargetKnown
  <2> QED
    BY <2>1, <2>2
<1>13. Left'
  <2>1. gen[NextNumber].state = "none"
    <3>1. ~(NextNumber < NextNumber)
      BY <1>4
    <3> QED
      BY <1>4, <3>1, NextIs DEF SupKept, Catalogue
  <2>2. Active <= NextNumber
    BY <1>4
  <2> QED
    BY <1>5, <1>6, <1>8, <1>9, <2>1, <2>2 DEF Left, LeftOpen
<1>14. Serving /\ Serving' /\ Standing'
  BY <1>1, <1>3, <1>8 DEF SupKept, Settled, Serving, Standing
<1>15. Settled' /\ EarlyStands'
  BY <1>14 DEF Settled, EarlyStands, Serving, Standing
<1>16. During'
  <2>1. EarlyOf(c)'
    BY <1>2, <1>5, <1>6 DEF EarlyOf
  <2> QED
    BY <1>2, <1>5, <1>6, <1>8, <1>9, <1>14, <2>1
    DEF During, Birthing, Smoking, SwitchingOver, Published, Target, Previous
<1>17. Before' /\ Back'
  BY <1>2 DEF Before, Back, Preparing, Closing, GoingBack, Returned
<1> QED
  BY <1>7, <1>10, <1>11, <1>12, <1>13, <1>15, <1>16, <1>17 DEF SupKept, Catalogue, Whereabouts

LEMMA ActiveThen ==
  ASSUME NEW g \in Generations, \A h \in Generations : gen'[h].state = "ACTIVE" <=> h = g
  PROVE  OneActive' /\ Active' = g
<1>1. OneActive'
  BY DEF OneActive
<1>2. Active' = g
  BY DEF Active
<1> QED
  BY <1>1, <1>2

(* The generation is made under the number that was next.                   *)
LEMMA CreateStep ==
  ASSUME SupervisorConstants, SupKept, Create
  PROVE  SupKept'
<1> DEFINE c == sup.c
           t == NextNumber
           life == [state |-> "BIRTHING", parent |-> cand[sup.c].base, release |-> sup.c]
<1>0. /\ cand \in [Candidates -> Records] /\ cand[c] \in Records /\ Many \in Nat /\ Candidates = 1..Many
      /\ Generations = 1..(Many + 1) /\ c \in Candidates /\ gen \in [Generations -> Lives]
      /\ Releases = 0..Many
  BY Untouched, Numbering DEF SupKept, Catalogue, SupTyped
<1>1. /\ UNCHANGED <<cand, disk, app, facts, restored, wrong>>
      /\ sup.pc = "create" /\ sup' = [sup EXCEPT !.pc = "migrate"]
      /\ gen' = [gen EXCEPT ![cand[sup.c].target] = life]
  BY DEF Create, In, To
<1>2. sup' \in Processes /\ sup'.pc = "migrate" /\ sup'.c = c
  BY <1>1, AllPcs, GoTo DEF Moves, SupKept, Catalogue
<1>3. /\ Unfinished = {c} /\ cand[c].target = t /\ cand[c].base = Active /\ EarlyOf(c) /\ Serving
  BY <1>1 DEF SupKept, Whereabouts, During, Birthing, Smoking, Target, Previous
<1>4. /\ t \in Generations /\ t \in Nat /\ Active \in Generations /\ Active \in Nat /\ Active < t
      /\ cand[c].number = t /\ cand[c].state \in {"BIRTHING", "ROLLING_BACK"} /\ t # 0
  <2>1. cand[c].state \in {"BIRTHING", "ROLLING_BACK"}
    BY <1>3 DEF Unfinished
  <2>2. cand[c].target # 0
    BY <1>0, <2>1 DEF SupKept, Catalogue, Numbered, TargetKnown
  <2>3. cand[c].target = cand[c].number /\ cand[c].number \in Generations
    BY <1>0, <2>1, <2>2, RecordOf DEF SupKept, Catalogue
  <2>4. Active \in Generations /\ t \in Nat /\ Active < t
    BY NextIs DEF SupKept, Catalogue
  <2> QED
    BY <1>0, <1>3, <2>1, <2>2, <2>3, <2>4
<1>5. life \in Lives /\ life.state = "BIRTHING" /\ life.parent = Active /\ life.release = c
  <2>1. Active \in Numbers /\ c \in Releases
    BY <1>0, <1>4 DEF Numbers
  <2> QED
    BY <1>3, <2>1 DEF Lives
<1> HIDE DEF life
<1>6. gen' \in [Generations -> Lives] /\ gen'[t] = life /\ \A g \in Generations : g # t => gen'[g] = gen[g]
  BY <1>0, <1>1, <1>3, <1>4, <1>5
<1>7. SupTyped'
  BY <1>1, <1>2, <1>6, Untouched DEF SupTyped, SupKept, Catalogue
<1>8. \A g \in Generations : gen[g].state # "none" <=> g < t
  BY NextIs DEF SupKept, Catalogue
<1>9. NextNumber' = t + 1
  <2> DEFINE S == {g \in Generations : gen[g].state # "none"}
  <2>1. {g \in Generations : gen'[g].state # "none"} = S \cup {t}
    BY <1>4, <1>5, <1>6
  <2>2. t \notin S
    <3>1. ~(t < t)
      BY <1>4
    <3> QED
      BY <1>8, <3>1
  <2>3. IsFiniteSet(S)
    <3>1. S \in SUBSET Generations
      OBVIOUS
    <3> HIDE DEF S
    <3> QED
      BY <3>1, Numbering, FS_Subset
  <2>4. t = 1 + Cardinality(S) /\ NextNumber' = 1 + Cardinality(S \cup {t})
    BY <2>1 DEF NextNumber
  <2> HIDE DEF S, t
  <2>5. Cardinality(S \cup {t}) = Cardinality(S) + 1 /\ Cardinality(S) \in Nat
    BY <2>2, <2>3, FS_AddElement, FS_CardinalityType
  <2> QED
    BY ONLY <2>4, <2>5
<1>10. OneActive' /\ Active' = Active
  <2>1. OneActive /\ gen[Active].state = "ACTIVE" /\ \A h \in Generations : gen[h].state = "ACTIVE" => h = Active
    BY ActiveIs DEF SupKept, Catalogue, Lineages
  <2> DEFINE a == Active
  <2>2. a \in Generations /\ a # t
    BY <1>4
  <2>3. \A h \in Generations : gen'[h].state = "ACTIVE" <=> h = a
    BY <1>5, <1>6, <2>1, <2>2
  <2> HIDE DEF a
  <2>5. OneActive' /\ Active' = a
    BY <2>2, <2>3, ActiveThen
  <2> QED
    BY <2>5 DEF a
<1>11. ActiveRelease' = ActiveRelease
  BY <1>4, <1>6, <1>10 DEF ActiveRelease
<1>12. cand' = cand /\ Unfinished' = Unfinished
  BY <1>1 DEF Unfinished
<1> HIDE DEF c, t
<1>13. Lineages'
  <2>1. InOrder'
    <3> SUFFICES ASSUME NEW g \in Generations PROVE gen'[g].state # "none" <=> g < NextNumber'
      BY DEF InOrder
    <3>1. g \in Nat /\ (g < t + 1 <=> g < t \/ g = t)
      BY <1>0, <1>4
    <3> QED
      BY <1>5, <1>6, <1>8, <1>9, <3>1
  <2>2. Downward'
    <3> SUFFICES ASSUME NEW g \in Generations PROVE gen'[g].parent \in 0..(g - 1)
      BY DEF Downward
    <3>1. CASE g # t
      BY <1>6, <3>1 DEF SupKept, Catalogue, Lineages, Downward
    <3>2. CASE g = t
      BY <1>4, <1>5, <1>6, <3>2
    <3> QED
      BY <3>1, <3>2
  <2>3. MadeFrom'
    <3> SUFFICES ASSUME NEW g \in Generations
                 PROVE  /\ gen'[g].state # "none" => gen'[g].release >= g - 1
                        /\ gen'[g].release \in Candidates =>
                             /\ cand[gen'[g].release].target = g /\ cand[gen'[g].release].base = gen'[g].parent
                             /\ gen'[g].state # "none"
      BY <1>12 DEF MadeFrom
    <3>1. CASE g # t
      BY <1>6, <3>1 DEF SupKept, Catalogue, Lineages, MadeFrom
    <3>2. CASE g = t
      <4>1. cand[c].number <= c + 1
        BY <1>0, <1>4 DEF SupKept, Catalogue, Submitted, SubmittedWell
      <4>2. c >= t - 1
        BY <1>0, <1>4, <4>1
      <4> QED
        BY <1>3, <1>5, <1>6, <3>2, <4>2
    <3> QED
      BY <3>1, <3>2
  <2> QED
    BY <1>10, <2>1, <2>2, <2>3 DEF Lineages
<1>14. Submitted'
  <2> SUFFICES ASSUME NEW e \in Candidates, cand[e].state # "none" PROVE SubmittedWell(e)'
    BY <1>12 DEF Submitted
  <2>1. SubmittedWell(e)
    BY DEF SupKept, Catalogue, Submitted
  <2>2. cand[e].number <= t /\ cand[e].number \in Nat
    <3>1. cand[e] \in Records
      BY <1>0
    <3> QED
      BY <1>0, <2>1, <3>1 DEF SubmittedWell, t, Records, Numbers
  <2>3. ASSUME NEW g \in Generations, g < cand[e].number PROVE gen'[g].release < e
    <3>1. g # t
      BY <1>0, <1>4, <2>2, <2>3
    <3> QED
      BY <1>6, <2>1, <2>3, <3>1 DEF SubmittedWell
  <2>4. cand[e].number <= t + 1
    BY <1>4, <2>2
  <2> QED
    BY <1>9, <1>12, <2>1, <2>3, <2>4 DEF SubmittedWell
<1>15. Numbered'
  <2> SUFFICES ASSUME NEW e \in Candidates PROVE TargetKnown(e)'
    BY DEF Numbered
  <2>1. TargetKnown(e)
    BY DEF SupKept, Catalogue, Numbered
  <2>2. cand[e].state = "BORN" => cand[e].target \in Generations /\ cand[e].target # t
    <3>1. ASSUME cand[e].state = "BORN" PROVE cand[e].target \in Generations /\ gen[cand[e].target].state # "none"
      BY <2>1, <3>1, BornOf DEF TargetKnown, SupKept
    <3>2. ~(t < t)
      BY <1>4
    <3> QED
      BY <1>8, <3>1, <3>2
  <2> QED
    BY <1>6, <1>12, <2>1, <2>2 DEF TargetKnown
<1>16. Left'
  <2>1. Active <= t
    BY <1>4
  <2> QED
    BY <1>3, <1>5, <1>6, <1>10, <1>12, <2>1 DEF Left, LeftOpen
<1>17. Serving'
  BY <1>1, <1>3, <1>10, <1>11 DEF Serving, Standing
<1>18. Settled' /\ EarlyStands'
  BY <1>17 DEF Settled, EarlyStands, Serving, Standing
<1>19. During'
  <2>1. EarlyOf(sup.c)' /\ Target' = t /\ Previous' = Active /\ sup'.c = c
    BY <1>2, <1>3, <1>12 DEF EarlyOf, Target, Previous, c
  <2> QED
    BY <1>2, <1>3, <1>5, <1>6, <1>10, <1>12, <1>17, <2>1
    DEF During, Birthing, Smoking, SwitchingOver, Published
<1>20. Before' /\ Back'
  BY <1>2 DEF Before, Back, Preparing, Closing, GoingBack, Returned
<1> QED
  BY <1>7, <1>13, <1>14, <1>15, <1>16, <1>18, <1>19, <1>20 DEF SupKept, Catalogue, Whereabouts

-----------------------------------------------------------------------------
(* The lineage's own writes: a birth, what is abandoned, a return.           *)

LEMMA LineageStep ==
  ASSUME SupervisorConstants, SupKept, Lineage
  PROVE  SupKept'
<1> DEFINE c == sup.c
           b == cand[sup.c].base
           t == cand[sup.c].target
<1>0. /\ cand \in [Candidates -> Records] /\ cand[c] \in Records /\ Many \in Nat /\ Generations = 1..(Many + 1)
      /\ c \in Candidates /\ gen \in [Generations -> Lives]
  BY Untouched, Numbering DEF SupKept, Catalogue, SupTyped
<1>1. /\ UNCHANGED <<disk, app, facts, restored, wrong>>
      /\ sup.pc = "lineage" /\ sup' = [sup EXCEPT !.pc = "resume"]
      /\ gen' = [gen EXCEPT ![b].state = "RETIRED", ![t].state = "ACTIVE"]
      /\ cand' = [cand EXCEPT ![c].proposal = "born"]
  BY DEF Lineage, In, To
<1>2. sup' \in Processes /\ sup'.pc = "resume" /\ sup'.c = c
  BY <1>1, AllPcs, GoTo DEF Moves, SupKept, Catalogue
<1>3. /\ Unfinished = {c} /\ ~EarlyOf(c) /\ gen[t].release = c /\ Active = b
      /\ disk.link = c /\ disk.pointer = t /\ app.release = c
  BY <1>1 DEF SupKept, Whereabouts, During, Birthing, SwitchingOver, Published, Target, Previous
<1>4. /\ t \in Generations /\ b \in Generations /\ b # t /\ gen[t].state # "none" /\ gen[b].state # "none"
      /\ t \in Nat
  <2>1. t # 0
    BY <1>0, <1>3 DEF Unfinished, SupKept, Catalogue, Numbered, TargetKnown
  <2>2. /\ t \in Generations /\ gen[t].state # "none" /\ b \in Generations /\ b < t
        /\ gen[b].state # "none"
    BY <1>0, <1>3, <2>1, BornOf DEF SupKept
  <2> QED
    BY <1>0, <2>2
<1> HIDE DEF c, b, t
<1>5. /\ cand' \in [Candidates -> Records]
      /\ \A d \in Candidates :
           /\ cand'[d].base = cand[d].base /\ cand'[d].target = cand[d].target
           /\ cand'[d].number = cand[d].number
           /\ cand'[d].state = cand[d].state /\ cand'[d].phase = cand[d].phase
  BY <1>0, <1>1 DEF Records
<1>6. /\ gen' \in [Generations -> Lives]
      /\ \A g \in Generations :
           /\ gen'[g].parent = gen[g].parent /\ gen'[g].release = gen[g].release
           /\ g \notin {b, t} => gen'[g].state = gen[g].state
      /\ gen'[b].state = "RETIRED" /\ gen'[t].state = "ACTIVE"
  BY <1>0, <1>1, <1>4 DEF Lives
<1>7. Relives
  <2>1. \A g \in Generations : gen'[g].state = "none" <=> gen[g].state = "none"
    BY <1>4, <1>6
  <2> QED
    BY <1>5, <1>6, <2>1 DEF Relives
<1>8. OneActive' /\ Active' = t
  <2>1. \A h \in Generations : gen[h].state = "ACTIVE" => h = b
    BY <1>3, ActiveIs DEF SupKept, Catalogue, Lineages
  <2>2. \A h \in Generations : gen'[h].state = "ACTIVE" <=> h = t
    BY <1>4, <1>6, <2>1
  <2> QED
    BY <1>4, <2>2, ActiveThen
<1>9. SupTyped'
  BY <1>1, <1>2, <1>5, <1>6, Untouched DEF SupTyped, SupKept, Catalogue
<1>10. \A d \in Unfinished : Active' <= cand[d].target
  BY <1>3, <1>4, <1>8 DEF t, c
<1>11. Catalogue' /\ NextNumber' = NextNumber /\ Unfinished' = {c}
  BY <1>3, <1>7, <1>8, <1>9, <1>10, CatalogueRelives DEF SupKept
<1>12. ~EarlyOf(c)' /\ cand'[c].target = t /\ cand'[c].base = b
  <2>1. ~(cand'[c].phase \in {"MIGRATING", "CANDIDATE_SMOKE"})
    BY <1>0, <1>3, <1>5 DEF EarlyOf
  <2> QED
    BY <1>0, <1>2, <1>5, <2>1 DEF EarlyOf, t, b, c
<1>13. Settled' /\ EarlyStands'
  <2>1. ~(cand'[c].phase \in {"MIGRATING", "CANDIDATE_SMOKE"})
    BY <1>0, <1>3, <1>5 DEF EarlyOf
  <2> QED
    BY <1>11, <2>1 DEF Settled, EarlyStands, EarlyOf
<1>14. During'
  <2>1. /\ sup'.c = c /\ ~EarlyOf(sup.c)' /\ Target' = t /\ gen'[t].release = c
        /\ disk'.link = c /\ disk'.pointer = t /\ app'.release = c
    BY <1>0, <1>1, <1>2, <1>3, <1>4, <1>5, <1>6, <1>12 DEF EarlyOf, Target
  <2> QED
    BY <1>2, <1>8, <1>11, <2>1 DEF During, Birthing, Smoking, SwitchingOver, Published
<1>15. Before' /\ Back'
  BY <1>2 DEF Before, Back, Preparing, Closing, GoingBack, Returned
<1> QED
  BY <1>11, <1>13, <1>14, <1>15 DEF SupKept, Whereabouts

(* What a proposal is made to say of its candidate changes nothing else.    *)
LEMMA ProposalSays ==
  ASSUME cand \in [Candidates -> Records], NEW c \in Candidates, NEW p \in {"born", "failed"},
         cand' = [cand EXCEPT ![c].proposal = p]
  PROVE  /\ cand' \in [Candidates -> Records]
         /\ \A d \in Candidates :
              /\ cand'[d].base = cand[d].base /\ cand'[d].target = cand[d].target
              /\ cand'[d].number = cand[d].number
              /\ cand'[d].state = cand[d].state /\ cand'[d].phase = cand[d].phase
  BY DEF Records

(* A generation that is not to be is said to have failed, if it was made.    *)
LEMMA FailedIs ==
  ASSUME gen \in [Generations -> Lives], Target \in Generations, NEW o \in {"FAILED", "ROLLED_BACK"}
  PROVE  /\ Failed(o) \in [Generations -> Lives]
         /\ \A g \in Generations :
              /\ Failed(o)[g].parent = gen[g].parent /\ Failed(o)[g].release = gen[g].release
              /\ Failed(o)[g].state = "none" <=> gen[g].state = "none"
              /\ g # Target => Failed(o)[g].state = gen[g].state
         /\ Failed(o)[Target].state # "ACTIVE" \/ gen[Target].state = "none"
<1> DEFINE s == IF gen[Target].state = "none" THEN "none" ELSE o
           t == Target
<1>1. s \in {"none", "FAILED", "ROLLED_BACK"}
  OBVIOUS
<1>2. Failed(o) = [gen EXCEPT ![t].state = s]
  BY DEF Failed, Lives
<1>3. gen[t].state = "none" <=> s = "none"
  OBVIOUS
<1>4. t \in Generations /\ gen \in [Generations -> Lives]
  OBVIOUS
<1>5. Target = t
  OBVIOUS
<1> HIDE DEF s, t
<1> QED
  BY ONLY <1>1, <1>2, <1>3, <1>4, <1>5 DEF Lives

LEMMA AbandonStep ==
  ASSUME SupervisorConstants, SupKept, Abandon
  PROVE  SupKept'
<1> DEFINE c == sup.c
           b == cand[sup.c].base
           t == cand[sup.c].target
<1>0. /\ cand \in [Candidates -> Records] /\ cand[c] \in Records /\ Many \in Nat /\ Generations = 1..(Many + 1)
      /\ c \in Candidates /\ gen \in [Generations -> Lives]
  BY Untouched, Numbering DEF SupKept, Catalogue, SupTyped
<1>1. CASE In("dropped")
  BY <1>1, EndStep DEF Abandon, In
<1>2. CASE In("abandoned")
  <2>1. sup.pc = "abandoned" /\ app.release = ActiveRelease /\ sup' = [sup EXCEPT !.pc = "dropped"]
        /\ app' = [app EXCEPT !.mode = "open"] /\ UNCHANGED <<cand, gen, disk, facts, restored, wrong>>
    BY <1>2 DEF Abandon, In, To
  <2>2. OnlyFiles
    BY <2>1, ModeOnly
  <2> QED
    BY <2>1, <2>2, AllPcs, GoesOn
<1>3. CASE In("restore") /\ sup' = Away /\ UNCHANGED <<gen, cand>>
  <2>1. UNCHANGED <<cand, gen, disk, app, facts, restored, wrong>>
    BY <1>3 DEF Abandon, In
  <2> QED
    BY <1>3, <2>1, NothingElse, LeavesQuietly
<1>4. CASE /\ In("restore") /\ Early /\ Active = Previous /\ disk.pointer = Previous
           /\ gen' = Failed("FAILED") /\ To("abandoned") /\ UNCHANGED <<app, disk, facts, restored, wrong>>
           /\ cand' = [cand EXCEPT ![c].proposal = "failed"]
  <2>1. sup.pc = "restore" /\ sup' = [sup EXCEPT !.pc = "abandoned"] /\ EarlyOf(c) /\ Active = b
        /\ disk.pointer = b /\ disk' = disk /\ app' = app
    BY <1>4 DEF In, To, Early, EarlyOf, Previous
  <2>2. sup' \in Processes /\ sup'.pc = "abandoned" /\ sup'.c = c
    BY <2>1, AllPcs, GoTo DEF Moves, SupKept, Catalogue
  <2>3. c \in Unfinished /\ FirstLeft(c)
    <3>1. cand[c].state = "BORN" => cand[c].phase = "COMPLETED"
      BY <1>0 DEF SupKept, Catalogue, Numbered, TargetKnown
    <3> QED
      BY <2>1, <3>1 DEF SupKept, Whereabouts, Back, EarlyOf
  <2>4. disk.link = ActiveRelease
    BY <2>1, <2>3 DEF SupKept, EarlyStands
  <2>5. Target = t /\ t \in Generations /\ b \in Generations /\ b # t
    <3>1. cand[c].state \in {"BIRTHING", "ROLLING_BACK"} /\ cand[c].target # 0
      BY <1>0, <2>3 DEF Unfinished, SupKept, Catalogue, Numbered, TargetKnown
    <3> QED
      BY <1>0, <3>1, RecordOf DEF SupKept, Catalogue, Target
  <2>6. /\ gen' \in [Generations -> Lives]
        /\ \A g \in Generations :
             /\ gen'[g].parent = gen[g].parent /\ gen'[g].release = gen[g].release
             /\ gen'[g].state = "none" <=> gen[g].state = "none"
             /\ g # t => gen'[g].state = gen[g].state
        /\ gen'[t].state # "ACTIVE" \/ gen[t].state = "none"
    BY <1>0, <1>4, <2>5, FailedIs
  <2>7. /\ cand' \in [Candidates -> Records]
        /\ \A d \in Candidates :
             /\ cand'[d].base = cand[d].base /\ cand'[d].target = cand[d].target
             /\ cand'[d].number = cand[d].number
             /\ cand'[d].state = cand[d].state /\ cand'[d].phase = cand[d].phase
    BY <1>0, <1>4, ProposalSays
  <2>8. Relives
    BY <2>6, <2>7 DEF Relives
  <2> DEFINE a == Active
  <2>9. a = b /\ gen[a].state = "ACTIVE" /\ (\A h \in Generations : gen[h].state = "ACTIVE" => h = a) /\ a \in Generations
    BY <2>1, ActiveIs DEF SupKept, Catalogue, Lineages
  <2>10. Active = a
    OBVIOUS
  <2> HIDE DEF a, b, t
  <2>11. OneActive' /\ Active' = a
    <3>1. \A h \in Generations : gen'[h].state = "ACTIVE" <=> h = a
      BY <2>5, <2>6, <2>9
    <3> QED
      BY <2>9, <3>1, ActiveThen
  <2>12. SupTyped'
    BY <1>4, <2>2, <2>6, <2>7, Untouched DEF SupTyped, SupKept, Catalogue
  <2>13. \A d \in Unfinished : Active' <= cand[d].target
    BY <2>10, <2>11 DEF SupKept, Catalogue, Left, LeftOpen
  <2>14. Catalogue' /\ NextNumber' = NextNumber /\ Unfinished' = Unfinished
    BY <2>8, <2>11, <2>12, <2>13, CatalogueRelives DEF SupKept
  <2>15. Active' = Active /\ ActiveRelease' = ActiveRelease
    BY <2>6, <2>9, <2>10, <2>11 DEF ActiveRelease
  <2>16. Standing'
    BY <2>1, <2>4, <2>9, <2>10, <2>15 DEF Standing
  <2>17. Settled' /\ EarlyStands'
    BY <2>3, <2>4, <2>1, <2>14, <2>15 DEF Settled, EarlyStands
  <2>18. Back'
    BY <2>2, <2>3, <2>14, <2>16 DEF Back, GoingBack, Returned
  <2>19. Before' /\ During'
    BY <2>2 DEF Before, During, Preparing, Closing, Birthing, Smoking, SwitchingOver, Published
  <2> QED
    BY <2>14, <2>17, <2>18, <2>19 DEF SupKept, Whereabouts
<1>5. In("restore") => \/ sup' = Away /\ UNCHANGED <<gen, cand>>
                       \/ /\ Early /\ Active = Previous /\ disk.pointer = Previous
                          /\ gen' = Failed("FAILED") /\ To("abandoned")
                          /\ cand' = [cand EXCEPT ![c].proposal = "failed"]
  BY DEF Abandon, In
<1>6. In("restore") => UNCHANGED <<app, disk, facts, restored, wrong>>
  BY DEF Abandon, In
<1>7. In("restore") \/ In("abandoned") \/ In("dropped")
  BY DEF Abandon
<1> QED
  BY <1>1, <1>2, <1>3, <1>4, <1>5, <1>6, <1>7

LEMMA RollLineageStep ==
  ASSUME SupervisorConstants, SupKept, RollLineage
  PROVE  SupKept'
<1> DEFINE c == sup.c
           b == cand[sup.c].base
           t == cand[sup.c].target
           o == sup.outcome
<1>0. /\ cand \in [Candidates -> Records] /\ cand[c] \in Records /\ Many \in Nat /\ Generations = 1..(Many + 1)
      /\ c \in Candidates /\ gen \in [Generations -> Lives] /\ o \in {"FAILED", "ROLLED_BACK"}
  BY Untouched, Numbering DEF SupKept, Catalogue, SupTyped, Processes
<1>1. CASE Active \notin {Previous, Target}
  BY <1>1, NothingElse, LeavesQuietly DEF RollLineage
<1>2. CASE Active \in {Previous, Target}
  <2>1. /\ sup.pc = "rlineage" /\ sup' = [sup EXCEPT !.pc = "rstart"]
        /\ UNCHANGED <<disk, app, facts, restored, wrong>>
        /\ gen' = [Failed(o) EXCEPT ![b].state = "ACTIVE"]
        /\ cand' = [cand EXCEPT ![c].proposal = "failed"]
    BY <1>2 DEF RollLineage, In, To, Previous
  <2>2. sup' \in Processes /\ sup'.pc = "rstart" /\ sup'.c = c
    BY <2>1, AllPcs, GoTo DEF Moves, SupKept, Catalogue
  <2>3. /\ c \in Unfinished /\ ~EarlyOf(c) /\ FirstLeft(c) /\ cand[c].state = "ROLLING_BACK"
        /\ \A d \in Unfinished : FirstLeft(d) => d = c
    <3>1. sup.pc \in GoingBack
      BY <2>1 DEF GoingBack
    <3> QED
      BY <3>1, InFront DEF SupKept, Whereabouts, Back
  <2>4. disk.link = gen[b].release /\ disk.pointer = b
    BY <2>1 DEF SupKept, Whereabouts, Back, Previous
  <2>5. Target = t /\ t \in Generations /\ b \in Generations /\ b < t /\ gen[b].state # "none" /\ b # t
    <3>1. cand[c].target # 0
      BY <1>0, <2>3 DEF SupKept, Catalogue, Numbered, TargetKnown
    <3> QED
      BY <1>0, <2>3, <3>1, RecordOf DEF SupKept, Catalogue, Target
  <2> DEFINE f == Failed(o)
  <2>6. /\ f \in [Generations -> Lives]
        /\ \A g \in Generations :
             /\ f[g].parent = gen[g].parent /\ f[g].release = gen[g].release
             /\ f[g].state = "none" <=> gen[g].state = "none"
             /\ g # t => f[g].state = gen[g].state
        /\ f[t].state # "ACTIVE" \/ gen[t].state = "none"
    BY <1>0, <2>5, FailedIs
  <2>7. gen' = [f EXCEPT ![b].state = "ACTIVE"] /\ Active \in {b, t}
    BY <1>2, <2>1, <2>5 DEF Previous
  <2> HIDE DEF b, t, f
  <2>8. /\ gen' \in [Generations -> Lives]
        /\ \A g \in Generations :
             /\ gen'[g].parent = gen[g].parent /\ gen'[g].release = gen[g].release
             /\ g # b => gen'[g].state = f[g].state
        /\ gen'[b].state = "ACTIVE"
    BY <2>5, <2>6, <2>7 DEF Lives
  <2>9. /\ cand' \in [Candidates -> Records]
        /\ \A d \in Candidates :
             /\ cand'[d].base = cand[d].base /\ cand'[d].target = cand[d].target
             /\ cand'[d].number = cand[d].number
             /\ cand'[d].state = cand[d].state /\ cand'[d].phase = cand[d].phase
    BY <1>0, <2>1, ProposalSays
  <2>10. Relives
    <3>1. \A g \in Generations : gen'[g].state = "none" <=> gen[g].state = "none"
      BY <2>5, <2>6, <2>8
    <3> QED
      BY <2>8, <2>9, <3>1 DEF Relives
  <2>11. /\ gen[Active].state = "ACTIVE" /\ \A h \in Generations : gen[h].state = "ACTIVE" => h = Active
         /\ Active \in Generations
    BY ActiveIs DEF SupKept, Catalogue, Lineages
  <2>12. OneActive' /\ Active' = b
    <3>1. f[t].state # "ACTIVE"
      BY <2>5, <2>6, <2>7, <2>11
    <3>2. \A h \in Generations \ {b, t} : gen[h].state # "ACTIVE"
      BY <2>7, <2>11
    <3>3. \A h \in Generations : gen'[h].state = "ACTIVE" <=> h = b
      BY <2>5, <2>6, <2>8, <3>1, <3>2
    <3> QED
      BY <2>5, <3>3, ActiveThen
  <2>13. SupTyped'
    BY <2>1, <2>2, <2>8, <2>9, Untouched DEF SupTyped, SupKept, Catalogue
  <2>14. \A d \in Unfinished : Active' <= cand[d].target
    <3> SUFFICES ASSUME NEW d \in Unfinished PROVE b <= cand[d].target
      BY <2>12
    <3>1. Active <= cand[d].target /\ d \in Candidates
      BY DEF SupKept, Catalogue, Left, LeftOpen, Unfinished
    <3>2. cand[d].target \in Nat /\ b \in Nat /\ t \in Nat
      BY <1>0, <2>5, <3>1 DEF Records, Numbers
    <3> QED
      BY <2>5, <2>7, <3>1, <3>2
  <2>15. Catalogue' /\ NextNumber' = NextNumber /\ Unfinished' = Unfinished
    BY <2>10, <2>12, <2>13, <2>14, CatalogueRelives DEF SupKept
  <2>16. ~(cand'[c].phase \in {"MIGRATING", "CANDIDATE_SMOKE"}) /\ cand'[c].state = "ROLLING_BACK"
         /\ cand'[c].base = b
    BY <1>0, <2>3, <2>9 DEF EarlyOf, b
  <2>17. Settled'
    BY <2>3, <2>15 DEF Settled
  <2>18. EarlyStands'
    <3> SUFFICES ASSUME NEW d \in Unfinished', EarlyOf(d)', FirstLeft(d)' PROVE FALSE
      BY DEF EarlyStands
    <3>1. d \in Unfinished /\ FirstLeft(d)
      BY <2>15 DEF FirstLeft
    <3>2. d = c
      BY <2>3, <3>1
    <3> QED
      BY <2>16, <3>2 DEF EarlyOf
  <2>19. Back'
    <3>1. Previous' = b /\ gen'[b].release = gen[b].release /\ ~EarlyOf(sup.c)' /\ FirstLeft(sup.c)'
      BY <2>2, <2>3, <2>5, <2>8, <2>15, <2>16 DEF Previous, EarlyOf, FirstLeft
    <3> QED
      BY <2>1, <2>2, <2>4, <2>12, <2>16, <3>1 DEF Back, GoingBack, Returned
  <2>20. Before' /\ During'
    BY <2>2 DEF Before, During, Preparing, Closing, Birthing, Smoking, SwitchingOver, Published
  <2> QED
    BY <2>15, <2>17, <2>18, <2>19, <2>20 DEF SupKept, Whereabouts
<1> QED
  BY <1>1, <1>2

-----------------------------------------------------------------------------
LEMMA SupStep ==
  ASSUME SupervisorConstants, SupKept, [SupNext]_supVars
  PROVE  SupKept'
<1>1. CASE UNCHANGED supVars
  <2>1. /\ cand' = cand /\ gen' = gen /\ disk' = disk /\ app' = app /\ facts' = facts
        /\ restored' = restored /\ sup' = sup /\ wrong' = wrong
    BY <1>1 DEF supVars
  <2>2. /\ Active' = Active /\ ActiveRelease' = ActiveRelease /\ NextNumber' = NextNumber
        /\ Unfinished' = Unfinished
    BY <2>1, SameBooks
  <2>3. SupTyped'
    BY <2>1 DEF SupKept, Catalogue, SupTyped
  <2>4. Quiet
    BY <2>1 DEF Quiet
  <2>5. Catalogue' /\ Settled' /\ EarlyStands' /\ (Serving' <=> Serving) /\ (Standing' <=> Standing)
    BY <2>3, <2>4, QuietKeeps
  <2>6. Before' /\ During'
    BY <2>1, <2>2, <2>5 DEF SupKept, Whereabouts, Before, During, EarlyOf, Target, Previous
  <2>7. Back'
    BY <2>1, <2>2, <2>5 DEF SupKept, Whereabouts, Back, EarlyOf, Target, Previous, FirstLeft
  <2> QED
    BY <2>5, <2>6, <2>7 DEF SupKept, Whereabouts
<1>2. ASSUME NEW c \in Candidates,
             Submit(c) \/ Validate(c) \/ Approve(c) \/ Birth(c) \/ Rollback(c) \/ Delete(c) \/ Alter(c)
      PROVE  SupKept'
  BY <1>2, SubmitStep, CheckStep, BirthStep, RollbackStep, DeleteStep, FailureStep
<1>3. ASSUME NEW g \in Generations, RollbackTo(g) PROVE SupKept'
  BY <1>3, RollbackToStep
<1>4. CASE CheckRunning \/ Quiesce \/ Snapshot \/ Smoke \/ Smoked
  BY <1>4, PrepareStep
<1>5. CASE Intent \/ Create \/ Lineage
  BY <1>5, IntentStep, CreateStep, LineageStep
<1>6. CASE Migrate \/ SwitchOver
  BY <1>6, PhaseStep, SwitchStep, ServerStep DEF SwitchOver
<1>7. CASE GoBack
  BY <1>7, SwitchStep, ServerStep DEF GoBack
<1>8. CASE Born \/ Restored
  BY <1>8, EndStep
<1>9. CASE GiveUp \/ Abandon \/ RollingBack \/ Recheck \/ Freeze \/ RollLineage
  BY <1>9, GiveUpStep, AbandonStep, RollingBackStep, RecheckStep, FreezeStep, RollLineageStep
<1>10. CASE RollCheck \/ RollQuiesce \/ Remove \/ Recover
  BY <1>10, RollCheckStep, RollQuiesceStep, RemoveStep, RecoverStep
<1>11. CASE CallFails \/ Refused \/ SupervisorDies \/ WriteFacts
  BY <1>11, FailureStep
<1> QED
  BY <1>1, <1>2, <1>3, <1>4, <1>5, <1>6, <1>7, <1>8, <1>9, <1>10, <1>11 DEF SupNext

(* With nothing unfinished the one active generation is linked, pointed to  *)
(* and served (generation_supervisor.ts: birth(), restore(), recover()).    *)
THEOREM RunningFollowsActive ==
  ASSUME SupervisorConstants
  PROVE  SupInit /\ [][SupNext]_supVars => []RunningIsActive
<1>1. SupInit => SupKept
  BY SupStarts
<1>2. SupKept /\ [SupNext]_supVars => SupKept'
  BY SupStep
<1>3. SupKept => RunningIsActive
  <2> SUFFICES ASSUME SupKept, In("idle"), Unfinished = {}
               PROVE  /\ Cardinality({g \in Generations : gen[g].state = "ACTIVE"}) = 1
                      /\ Standing /\ app.release = ActiveRelease
    BY DEF RunningIsActive
  <2>1. {g \in Generations : gen[g].state = "ACTIVE"} = {Active}
    BY ActiveIs DEF SupKept, Catalogue, Lineages
  <2>2. Cardinality({Active}) = 1
    BY FS_Singleton
  <2> QED
    BY <2>1, <2>2 DEF SupKept, Settled, Serving
<1> QED
  BY <1>1, <1>2, <1>3, PTL

-----------------------------------------------------------------------------
(* A rollback the owner asked for carries the facts: they are checked when   *)
(* the server already refuses new ones, and until the old release starts no  *)
(* server runs that could write them.                                       *)

Forward == Preparing \cup Closing \cup Birthing \cup {"recover"}
Undisturbed == {"restore", "recheck", "rstop"}
Rechecked == {"rstop", "freeze", "rlink", "rpointer", "rlineage", "rstart"}

FactsCarried ==
  sup.outcome = "ROLLED_BACK" =>
    /\ sup.pc \notin Forward
    /\ sup.pc \in Undisturbed => app.mode = "switching"
    /\ sup.pc \in Rechecked => Carries(gen[Previous].release)
    /\ sup.pc \in Rechecked \ {"rstop"} => app.release = -1

LEMMA Elsewhere ==
  ASSUME \/ sup'.outcome = "FAILED"
         \/ sup'.pc \in {"idle", "abandoned", "dropped", "rollcheck", "rquiesce", "remove", "removed",
                         "after", "rhealthy", "rresume", "restored"}
  PROVE  FactsCarried'
  BY DEF FactsCarried, Forward, Preparing, Closing, Birthing, Smoking, SwitchingOver, Undisturbed, Rechecked

LEMMA Onward ==
  ASSUME SupKept, FactsCarried, sup.pc \in Forward, sup'.outcome \in {sup.outcome, "FAILED"}
  PROVE  FactsCarried'
<1>1. sup.outcome \in {"FAILED", "ROLLED_BACK"}
  BY DEF SupKept, Catalogue, SupTyped, Processes
<1>2. sup'.outcome = "FAILED"
  BY <1>1 DEF FactsCarried
<1> QED
  BY <1>2, Elsewhere

LEMMA FactsStart == ASSUME SupInit PROVE FactsCarried
  BY DEF SupInit, Away, FactsCarried

LEMMA FactsForward ==
  ASSUME SupKept, FactsCarried,
         \/ CheckRunning \/ Quiesce \/ Snapshot \/ Intent \/ Create \/ Migrate \/ Smoke \/ Smoked
         \/ SwitchOver \/ Lineage \/ Born \/ GiveUp
  PROVE  FactsCarried'
<1>1. sup \in Processes
  BY DEF SupKept, Catalogue, SupTyped
<1>2. \A p : To(p) => sup'.outcome = sup.outcome
  BY <1>1 DEF To, Processes
<1>3. sup' = Away => sup'.outcome = "FAILED"
  BY DEF Away
<1>4. ASSUME CheckRunning \/ Snapshot \/ Intent \/ Create \/ Migrate \/ Smoke \/ Smoked \/ Lineage
      PROVE  sup.pc \in Forward /\ sup'.outcome = sup.outcome
  <2>1. sup.pc \in Forward
    BY <1>4 DEF CheckRunning, Snapshot, Intent, Create, Migrate, Phase, Smoke, Smoked, Lineage, In,
      Forward, Preparing, Birthing, Smoking, SwitchingOver
  <2>2. \E p : To(p)
    BY <1>4 DEF CheckRunning, Snapshot, Intent, Create, Migrate, Phase, Smoke, Smoked, Lineage
  <2> QED
    BY <1>2, <2>1, <2>2
<1>5. ASSUME Quiesce PROVE sup.pc \in Forward /\ sup'.outcome = sup.outcome
  BY <1>1, <1>5 DEF Quiesce, In, Forward, Preparing, Processes
<1>6. ASSUME SwitchOver PROVE sup.pc \in Forward /\ sup'.outcome = sup.outcome
  <2>1. sup.pc \in Forward
    BY <1>6 DEF SwitchOver, Switching, Stopped, Linked, Pointed, Phase, Started, Healthy, Resumed, In,
      Forward, Birthing, Smoking, SwitchingOver
  <2>2. \E p : To(p)
    BY <1>6 DEF SwitchOver, Switching, Stopped, Linked, Pointed, Phase, Started, Healthy, Resumed
  <2> QED
    BY <1>2, <2>1, <2>2
<1>7. ASSUME Born PROVE sup'.outcome = "FAILED"
  BY <1>3, <1>7 DEF Born
<1>8. ASSUME GiveUp PROVE sup.pc \in Forward /\ sup'.outcome \in {sup.outcome, "FAILED"}
  BY <1>2, <1>3, <1>8 DEF GiveUp, In, Forward, Closing
<1> QED
  BY <1>4, <1>5, <1>6, <1>7, <1>8, Onward, Elsewhere

\* A step of a return that keeps what the facts are compared with.
SameFacts ==
  /\ facts' = facts /\ sup'.c = sup.c /\ sup'.outcome = sup.outcome
  /\ gen'[cand'[sup.c].base].release = gen[Previous].release

LEMMA FactsMove ==
  ASSUME FactsCarried, SameFacts,
         \/ sup.pc = "restore" /\ sup'.pc = "recheck" /\ app' = app
         \/ sup.pc = "recheck" /\ sup'.pc = "rstop" /\ app' = app /\ Carries(gen[Previous].release)
         \/ sup.pc = "rstop" /\ sup'.pc = "freeze" /\ app'.release = -1
         \/ sup.pc = "freeze" /\ sup'.pc = "rlink" /\ app' = app
         \/ sup.pc = "rlink" /\ sup'.pc = "rpointer" /\ app' = app
         \/ sup.pc = "rpointer" /\ sup'.pc = "rlineage" /\ app' = app
         \/ sup.pc = "rlineage" /\ sup'.pc = "rstart" /\ app' = app
  PROVE  FactsCarried'
<1>1. Carries(gen[Previous].release)' <=> Carries(gen[Previous].release)
  BY DEF SameFacts, Carries, Previous
<1> QED
  BY <1>1 DEF SameFacts, FactsCarried, Forward, Preparing, Closing, Birthing, Smoking, SwitchingOver,
    Undisturbed, Rechecked

LEMMA FactsBack ==
  ASSUME SupervisorConstants, SupKept, FactsCarried,
         Abandon \/ RollingBack \/ Recheck \/ Freeze \/ GoBack \/ RollLineage \/ Restored
  PROVE  FactsCarried'
<1>1. sup \in Processes /\ cand \in [Candidates -> Records] /\ sup.c \in Candidates
  BY Untouched
<1>2. \A p : To(p) => sup'.pc = p /\ sup'.c = sup.c /\ sup'.outcome = sup.outcome
  BY <1>1 DEF To, Processes
<1>3. sup' = Away => sup'.outcome = "FAILED"
  BY DEF Away
<1>4. sup' = Done => sup'.pc \in {"after", "rollcheck"}
  BY <1>1 DEF Done, Processes
<1>5. UNCHANGED <<cand, gen, facts>> /\ sup'.c = sup.c /\ sup'.outcome = sup.outcome => SameFacts
  BY DEF SameFacts, Previous
<1>6. CASE Abandon
  BY <1>2, <1>3, <1>4, <1>6, Elsewhere DEF Abandon
<1>7. CASE RollingBack
  <2>1. cand'[sup.c].base = cand[sup.c].base
    BY <1>1, <1>7 DEF RollingBack, Records
  <2>2. gen' = gen /\ facts' = facts /\ app' = app /\ To("recheck") /\ sup.pc = "restore"
    BY <1>7 DEF RollingBack, In
  <2>3. SameFacts
    BY <1>2, <2>1, <2>2 DEF SameFacts, Previous
  <2> QED
    BY <1>2, <2>2, <2>3, FactsMove
<1>8. CASE Recheck
  <2>1. UNCHANGED <<cand, gen, facts, app>> /\ sup.pc = "recheck"
    BY <1>8 DEF Recheck, In
  <2>2. CASE Carries(gen[Previous].release)
    <3>1. sup'.pc = "rstop" /\ sup'.c = sup.c /\ sup'.outcome = sup.outcome
      BY <1>1, <1>8, <2>2 DEF Recheck, Processes
    <3> QED
      BY <1>5, <2>1, <2>2, <3>1, FactsMove
  <2>3. CASE ~Carries(gen[Previous].release)
    BY <1>3, <1>8, <2>3, Elsewhere DEF Recheck
  <2> QED
    BY <2>2, <2>3
<1>9. CASE Freeze
  BY <1>2, <1>5, <1>9, FactsMove DEF Freeze, In
<1>10. CASE GoBack
  <2>1. UNCHANGED <<cand, gen, facts>>
    BY <1>10 DEF GoBack, Stopped, Linked, Pointed, Started, Healthy, Resumed
  <2>2. CASE Stopped("rstop", "freeze")
    BY <1>2, <1>5, <2>1, <2>2, FactsMove DEF Stopped, In
  <2>3. CASE Linked("rlink", gen[Previous].release, "rpointer") \/ Pointed("rpointer", Previous, "rlineage")
    BY <1>2, <1>5, <2>1, <2>3, FactsMove DEF Linked, Pointed, In
  <2>4. CASE Started("rstart", "rhealthy") \/ Healthy("rhealthy", "rresume") \/ Resumed("rresume", "restored")
    BY <1>2, <2>4, Elsewhere DEF Started, Healthy, Resumed
  <2> QED
    BY <1>10, <2>2, <2>3, <2>4 DEF GoBack
<1>11. CASE RollLineage
  <2>1. CASE Active \notin {Previous, Target}
    BY <1>3, <1>11, <2>1, Elsewhere DEF RollLineage
  <2>2. CASE Active \in {Previous, Target}
    <3>1. /\ gen' = [Failed(sup.outcome) EXCEPT ![Previous].state = "ACTIVE"] /\ To("rstart")
          /\ cand' = [cand EXCEPT ![sup.c].proposal = "failed"]
          /\ facts' = facts /\ app' = app /\ sup.pc = "rlineage"
      BY <1>11, <2>2 DEF RollLineage, In
    <3>2. cand'[sup.c].base = Previous
      BY <1>1, <3>1 DEF Records, Previous
    <3>3. Previous \in Generations /\ Target \in Generations
      <4>1. sup.pc \in GoingBack
        BY <3>1 DEF GoingBack
      <4>2. cand[sup.c].state \in {"BIRTHING", "ROLLING_BACK"}
        BY <4>1, InFront DEF Unfinished
      <4>3. cand[sup.c].target # 0
        BY <1>1, <4>2 DEF SupKept, Catalogue, Numbered, TargetKnown
      <4> QED
        BY <1>1, <4>2, <4>3, RecordOf DEF SupKept, Catalogue, Previous, Target
    <3> DEFINE f == Failed(sup.outcome)
               b == Previous
    <3>4. f \in [Generations -> Lives] /\ f[b].release = gen[b].release
      <4>1. gen \in [Generations -> Lives] /\ sup.outcome \in {"FAILED", "ROLLED_BACK"}
        BY <1>1 DEF SupKept, Catalogue, SupTyped, Processes
      <4> QED
        BY <3>3, <4>1, FailedIs
    <3>5. gen' = [f EXCEPT ![b].state = "ACTIVE"] /\ b \in Generations
      BY <3>1, <3>3
    <3> HIDE DEF f
    <3>6. gen'[b].release = gen[b].release
      BY <3>4, <3>5 DEF Lives
    <3>7. SameFacts
      BY <1>2, <3>1, <3>2, <3>6 DEF SameFacts
    <3> QED
      BY <1>2, <3>1, <3>7, FactsMove
  <2> QED
    BY <2>1, <2>2
<1>12. CASE Restored
  BY <1>4, <1>12, Elsewhere DEF Restored
<1> QED
  BY <1>6, <1>7, <1>8, <1>9, <1>10, <1>11, <1>12

LEMMA FactsBeside ==
  ASSUME SupervisorConstants, SupKept, FactsCarried,
         \/ RollCheck \/ RollQuiesce \/ Remove \/ Recover
         \/ CallFails \/ Refused \/ SupervisorDies \/ WriteFacts
         \/ \E c \in Candidates : Birth(c) \/ Rollback(c) \/ Delete(c)
         \/ \E g \in Generations : RollbackTo(g)
  PROVE  FactsCarried'
<1>1. sup \in Processes
  BY Untouched
<1>2. \A p : To(p) => sup'.pc = p /\ sup'.outcome = sup.outcome
  BY <1>1 DEF To, Processes
<1>3. sup' = Away => sup'.outcome = "FAILED"
  BY DEF Away
<1>4. CASE RollCheck
  BY <1>1, <1>3, <1>4, Elsewhere DEF RollCheck, Processes
<1>5. CASE RollQuiesce
  <2>1. sup'.pc = "restore" /\ app' = [app EXCEPT !.mode = "switching"]
    BY <1>2, <1>5 DEF RollQuiesce
  <2>2. app'.mode = "switching"
    BY <2>1, Untouched DEF Servers
  <2> QED
    BY <2>1, <2>2 DEF FactsCarried, Forward, Preparing, Closing, Birthing, Smoking, SwitchingOver,
      Undisturbed, Rechecked
<1>6. CASE Remove
  BY <1>2, <1>3, <1>6, Elsewhere DEF Remove
<1>7. CASE Recover
  <2>1. CASE sup' = Away \/ sup' = [Away EXCEPT !.pc = "recover"]
    BY <2>1, Elsewhere DEF Away
  <2>2. CASE sup.pc = "recover" /\ sup' = [sup EXCEPT !.pc = "restore", !.c = First(Unfinished)]
    <3>1. sup'.outcome = sup.outcome /\ sup.pc \in Forward
      BY <1>1, <2>2 DEF Processes, Forward
    <3> QED
      BY <3>1, Onward
  <2>3. CASE sup.pc = "recover" /\ sup' = sup
    BY <2>3, Onward DEF Forward
  <2> QED
    BY <1>7, <2>1, <2>2, <2>3 DEF Recover, In
<1>8. CASE CallFails
  <2>1. CASE sup' = Away
    BY <1>3, <2>1, Elsewhere
  <2>2. CASE sup.pc \in BirthAwaits /\ To(IF sup.pc \in {"quiesce", "snapshot"} THEN "unborn" ELSE "restore")
    <3>1. sup.pc \in Forward /\ sup'.outcome = sup.outcome
      BY <1>2, <2>2 DEF BirthAwaits, Forward, Preparing, Birthing, Smoking, SwitchingOver
    <3> QED
      BY <3>1, Onward
  <2> QED
    BY <1>8, <2>1, <2>2 DEF CallFails
<1>9. CASE Refused \/ SupervisorDies
  BY <1>3, <1>9, Elsewhere DEF Refused, SupervisorDies
<1>10. CASE WriteFacts
  <2>1. UNCHANGED <<cand, gen, app, sup>> /\ app.release # -1 /\ app.mode # "switching"
    BY <1>10 DEF WriteFacts
  <2>2. sup.outcome = "ROLLED_BACK" => sup.pc \notin Forward \cup Undisturbed \cup Rechecked
    BY <2>1 DEF FactsCarried, Undisturbed
  <2> QED
    BY <2>1, <2>2 DEF FactsCarried
<1>11. ASSUME NEW c \in Candidates, Birth(c) \/ Rollback(c) \/ Delete(c) PROVE FactsCarried'
  <2>1. CASE Birth(c) \/ Delete(c)
    BY <2>1, Elsewhere DEF Birth, Delete, Away
  <2>2. CASE Rollback(c)
    BY <2>2, Elsewhere DEF Rollback, Away
  <2> QED
    BY <1>11, <2>1, <2>2
<1>12. ASSUME NEW g \in Generations, RollbackTo(g) PROVE FactsCarried'
  <2>1. sup'.pc = "rollcheck"
    BY <1>12 DEF RollbackTo, Away
  <2> QED
    BY <2>1, Elsewhere
<1> QED
  BY <1>4, <1>5, <1>6, <1>7, <1>8, <1>9, <1>10, <1>11, <1>12

LEMMA FactsStep ==
  ASSUME SupervisorConstants, SupKept, FactsCarried, [SupNext]_supVars
  PROVE  FactsCarried'
<1>1. CASE UNCHANGED supVars
  BY <1>1 DEF supVars, FactsCarried, Carries, Previous
<1>2. ASSUME NEW c \in Candidates, Submit(c) \/ Validate(c) \/ Approve(c) \/ Alter(c) PROVE FactsCarried'
  <2>1. sup' = sup /\ sup.pc = "idle"
    BY <1>2 DEF Submit, Validate, Approve, Alter, In
  <2> QED
    BY <2>1, Elsewhere
<1> QED
  BY <1>1, <1>2, FactsForward, FactsBack, FactsBeside DEF SupNext

(* A rollback the owner asked for never starts a release that cannot carry  *)
(* the facts written since its first check (generation_supervisor.ts:       *)
(* rollbackPrevious() and restore()).                                       *)
THEOREM FactsAreKept ==
  ASSUME SupervisorConstants
  PROVE  SupInit /\ [][SupNext]_supVars => RollbackKeepsFacts
<1> DEFINE Kept == SupKept /\ FactsCarried
<1>1. SupInit => Kept
  BY SupStarts, FactsStart
<1>2. Kept /\ [SupNext]_supVars => Kept'
  BY SupStep, FactsStep
<1>3. Kept /\ [SupNext]_supVars =>
        [In("rstart") /\ sup.outcome = "ROLLED_BACK" /\ app' # app => Carries(disk.link)]_supVars
  BY DEF SupKept, Whereabouts, Back, Returned, FactsCarried, Rechecked, In
<1> HIDE DEF Kept
<1> QED
  BY <1>1, <1>2, <1>3, PTL DEF RollbackKeepsFacts

-----------------------------------------------------------------------------
(* The code of the active generation's ancestors is kept: they form a set    *)
(* closed under parents, older than what may be deleted.                    *)

Present == {"sealed", "altered"}
Rooted(S) ==
  /\ Active \in S
  /\ \A g \in S : /\ g <= Active /\ gen[g].parent \in S \cup {0}
                  /\ disk.dir[gen[g].release] \in Present
Roots == \E S \in SUBSET Generations : Rooted(S)
CodeKept ==
  /\ Roots
  /\ sup.pc = "remove" => NumberOf(sup.c) > Active
  /\ sup.pc \in SwitchingOver \cup {"switching"} => disk.dir[sup.c] \in Present

LEMMA RootsAre ==
  ASSUME SupervisorConstants, SupInit
  PROVE  CodeKept
<1>1. 1 \in Generations /\ Generations \subseteq Int /\ 0 \in Releases
  BY Numbering
<1>2. \A g \in Generations : gen[g] = IF g = 1 THEN [state |-> "ACTIVE", parent |-> 0, release |-> 0] ELSE Unborn
  BY DEF SupInit
<1>3. Active = 1
  <2>1. \A h \in Generations : gen[h].state = "ACTIVE" <=> h = 1
    BY <1>2 DEF Unborn
  <2> QED
    BY <1>1, <2>1, ActiveIsThat
<1>4. Rooted({1})
  <2>1. gen[1].parent = 0 /\ gen[1].release = 0 /\ disk.dir[0] = "sealed"
    BY <1>1, <1>2 DEF SupInit
  <2> QED
    BY <1>3, <2>1 DEF Rooted, Present
<1>5. sup.pc = "idle"
  BY DEF SupInit, Away
<1> QED
  BY <1>1, <1>4, <1>5 DEF CodeKept, Roots, SwitchingOver

(* The ancestors are the same where nothing older than the active           *)
(* generation is changed or removed.                                        *)
LEMMA RootsStay ==
  ASSUME Roots, Active' = Active,
         \A g \in Generations : g <= Active =>
           /\ gen'[g].parent = gen[g].parent /\ gen'[g].release = gen[g].release
           /\ disk.dir[gen[g].release] \in Present => disk'.dir[gen[g].release] \in Present
  PROVE  Roots'
<1>1. PICK S \in SUBSET Generations : Rooted(S)
  BY DEF Roots
<1>2. Rooted(S)'
  BY <1>1 DEF Rooted
<1> QED
  BY <1>2 DEF Roots

\* No code goes, in a step that leaves the lineage alone.
NoneGone ==
  /\ gen' = gen
  /\ \A x \in Releases : disk.dir[x] \in Present => disk'.dir[x] \in Present

LEMMA CodeStays ==
  ASSUME SupKept, CodeKept, NoneGone,
         sup'.pc = "remove" => sup.pc = "remove" /\ sup'.c = sup.c /\ cand' = cand,
         sup'.pc \in SwitchingOver \cup {"switching"} =>
           /\ sup'.c = sup.c
           /\ sup.pc \in SwitchingOver \cup {"switching"} \/ disk.dir[sup.c] \in Present
  PROVE  CodeKept'
<1>1. Active' = Active
  BY SameLineage DEF NoneGone
<1>2. \A g \in Generations : gen[g].release \in Releases
  BY DEF SupKept, Catalogue, SupTyped, Lives
<1>3. Roots'
  BY <1>1, <1>2, RootsStay DEF NoneGone, CodeKept
<1>4. sup'.pc = "remove" => NumberOf(sup.c)' > Active'
  BY <1>1 DEF CodeKept, NumberOf
<1>5. sup.c \in Releases
  BY DEF SupKept, Catalogue, SupTyped, Processes, Releases
<1>6. sup'.pc \in SwitchingOver \cup {"switching"} => disk'.dir[sup'.c] \in Present
  BY <1>5 DEF CodeKept, NoneGone
<1> QED
  BY <1>3, <1>4, <1>6 DEF CodeKept


(* A file that is written, or touched, is still there.                      *)
LEMMA DirStays ==
  ASSUME SupKept, gen' = gen,
         \/ disk' = disk
         \/ \E c \in Candidates, w \in Present : disk' = [disk EXCEPT !.dir[c] = w]
         \/ \E r : disk' = [disk EXCEPT !.link = r]
         \/ \E g : disk' = [disk EXCEPT !.pointer = g]
         \/ \E T : disk' = [disk EXCEPT !.snapped = T]
         \/ \E T : disk' = [disk EXCEPT !.frozen = T]
  PROVE  NoneGone
<1>1. disk \in Disks
  BY DEF SupKept, Catalogue, SupTyped
<1> QED
  BY <1>1 DEF NoneGone, Disks, Present

LEMMA CodeBirth ==
  ASSUME SupervisorConstants, SupKept, CodeKept,
         \/ \E c \in Candidates : \/ Submit(c) \/ Validate(c) \/ Approve(c) \/ Birth(c)
                                  \/ Rollback(c) \/ Alter(c)
         \/ \E g \in Generations : RollbackTo(g)
         \/ CheckRunning \/ Quiesce \/ Snapshot \/ Intent \/ Migrate \/ Smoke
         \/ Born \/ GiveUp
  PROVE  CodeKept'
<1>1. sup \in Processes
  BY Untouched
<1>2. \A p : To(p) => sup'.pc = p
  BY <1>1 DEF To, Processes
<1>3. sup' = Away => sup'.pc = "idle"
  BY DEF Away
<1>4. ASSUME NoneGone, sup'.pc \notin SwitchingOver \cup {"switching", "remove"} PROVE CodeKept'
  BY <1>4, CodeStays
<1>5. ASSUME NEW c \in Candidates, Submit(c) \/ Validate(c) \/ Approve(c) \/ Birth(c) \/ Rollback(c) \/ Alter(c)
      PROVE  CodeKept'
  <2>1. gen' = gen
    BY <1>5 DEF Submit, Validate, Approve, Birth, Rollback, Alter
  <2>2. disk' = disk \/ \E w \in Present : disk' = [disk EXCEPT !.dir[c] = w]
    BY <1>5 DEF Submit, Validate, Approve, Birth, Rollback, Alter, Present
  <2>3. sup'.pc \in {"idle", "running", "rollcheck"}
    BY <1>5 DEF Submit, Validate, Approve, Birth, Rollback, Alter, In, Away
  <2> QED
    BY <1>4, <2>1, <2>2, <2>3, DirStays DEF SwitchingOver
<1>6. ASSUME NEW g \in Generations, RollbackTo(g) PROVE CodeKept'
  <2>1. sup'.pc = "rollcheck" /\ gen' = gen /\ disk' = disk
    BY <1>6 DEF RollbackTo, Away
  <2> QED
    BY <1>4, <2>1, DirStays DEF SwitchingOver
<1>7. ASSUME CheckRunning \/ Quiesce \/ Snapshot \/ Intent \/ Migrate \/ Smoke PROVE CodeKept'
  <2>1. gen' = gen
    BY <1>7 DEF CheckRunning, Quiesce, Snapshot, Intent, Migrate, Phase, Smoke
  <2>2. sup.c \in Candidates
    BY Untouched
  <2>3. NoneGone
    <3>1. \/ disk' = disk \/ disk' = [disk EXCEPT !.snapped = disk.snapped \cup {sup.c}]
          \/ disk' = [disk EXCEPT !.dir[sup.c] = "altered"]
      BY <1>7 DEF CheckRunning, Quiesce, Snapshot, Intent, Migrate, Phase, Smoke
    <3>2. "altered" \in Present
      BY DEF Present
    <3> QED
      BY <2>1, <2>2, <3>1, <3>2, DirStays
  <2>4. sup'.pc \in {"quiesce", "snapshot", "intent", "unborn", "create", "smoke", "smoked"}
    BY <1>1, <1>2, <1>7 DEF CheckRunning, Quiesce, Snapshot, Intent, Migrate, Phase, Smoke, Processes
  <2> QED
    BY <1>4, <2>3, <2>4 DEF SwitchingOver
<1>8. ASSUME Born \/ GiveUp PROVE CodeKept'
  <2>1. gen' = gen /\ disk' = disk
    BY <1>8 DEF Born, GiveUp
  <2>2. sup'.pc \in {"idle", "reopen", "closed"}
    BY <1>2, <1>3, <1>8 DEF Born, GiveUp
  <2> QED
    BY <1>4, <2>1, <2>2, DirStays DEF SwitchingOver
<1> QED
  BY <1>5, <1>6, <1>7, <1>8

LEMMA CodeSwitch ==
  ASSUME SupervisorConstants, SupKept, CodeKept, Smoked \/ SwitchOver
  PROVE  CodeKept'
<1>1. sup \in Processes /\ sup.c \in Candidates /\ Candidates \subseteq Releases
  BY Untouched, Numbering
<1>2. \A p : To(p) => sup'.pc = p /\ sup'.c = sup.c
  BY <1>1 DEF To, Processes
<1>3. NoneGone
  <2>1. gen' = gen
    BY DEF Smoked, SwitchOver, Switching, Stopped, Linked, Pointed, Phase, Started, Healthy, Resumed
  <2>2. \/ disk' = disk \/ disk' = [disk EXCEPT !.link = sup.c]
        \/ disk' = [disk EXCEPT !.pointer = cand[sup.c].target]
    BY DEF Smoked, SwitchOver, Switching, Stopped, Linked, Pointed, Phase, Started, Healthy, Resumed
  <2> QED
    BY <2>1, <2>2, DirStays
<1>4. CASE Smoked
  <2>1. CASE Intact(sup.c)
    <3>1. sup'.c = sup.c /\ sup'.pc = "switching" /\ disk.dir[sup.c] \in Present
      BY <1>2, <1>4, <2>1 DEF Smoked, Intact, Present
    <3> QED
      BY <1>3, <3>1, CodeStays
  <2>2. CASE ~Intact(sup.c)
    <3>1. sup'.pc = "restore"
      BY <1>2, <1>4, <2>2 DEF Smoked
    <3> QED
      BY <1>3, <3>1, CodeStays DEF SwitchingOver
  <2> QED
    BY <2>1, <2>2
<1>5. CASE SwitchOver
  <2>1. sup.pc \in SwitchingOver \cup {"switching"} /\ \E p : p # "remove" /\ To(p)
    BY <1>5 DEF SwitchOver, Switching, Stopped, Linked, Pointed, Phase, Started, Healthy, Resumed, In, SwitchingOver
  <2>2. sup'.c = sup.c /\ sup'.pc # "remove"
    BY <1>2, <2>1
  <2> QED
    BY <1>3, <2>1, <2>2, CodeStays
<1> QED
  BY <1>4, <1>5

LEMMA CodeBack ==
  ASSUME SupervisorConstants, SupKept, CodeKept,
         \/ RollingBack \/ Recheck \/ Freeze \/ GoBack \/ Restored \/ RollCheck \/ RollQuiesce
         \/ CallFails \/ Refused \/ SupervisorDies \/ WriteFacts
  PROVE  CodeKept'
<1>1. sup \in Processes
  BY Untouched
<1>2. \A p : To(p) => sup'.pc = p
  BY <1>1 DEF To, Processes
<1>3. sup' = Away => sup'.pc = "idle"
  BY DEF Away
<1>4. sup' = Done => sup'.pc \in {"after", "rollcheck"}
  BY <1>1 DEF Done, Processes
<1>5. ASSUME NoneGone, sup'.pc \in {"idle", "after", "rollcheck", "restore", "unborn"} \cup GoingBack \cup {"rquiesce"}
      PROVE  CodeKept'
  BY <1>5, CodeStays DEF SwitchingOver, GoingBack
<1>6. CASE RollingBack \/ Recheck \/ Restored \/ RollCheck \/ RollQuiesce
  <2>1. NoneGone
    BY <1>6, DirStays DEF RollingBack, Recheck, Restored, RollCheck, RollQuiesce
  <2>2. sup'.pc \in {"idle", "after", "rollcheck", "recheck", "rstop", "rquiesce", "restore"}
    BY <1>1, <1>2, <1>3, <1>4, <1>6 DEF RollingBack, Recheck, Restored, RollCheck, RollQuiesce, Processes
  <2> QED
    BY <1>5, <2>1, <2>2 DEF GoingBack
<1>7. CASE Freeze \/ GoBack
  <2>1. gen' = gen
    BY <1>7 DEF Freeze, GoBack, Stopped, Linked, Pointed, Started, Healthy, Resumed
  <2>2. \/ disk' = disk \/ disk' = [disk EXCEPT !.frozen = disk.frozen \cup {Target}]
        \/ disk' = [disk EXCEPT !.link = gen[Previous].release]
        \/ disk' = [disk EXCEPT !.pointer = Previous]
    BY <1>7 DEF Freeze, GoBack, Stopped, Linked, Pointed, Started, Healthy, Resumed
  <2>3. NoneGone
    BY <2>1, <2>2, DirStays
  <2>4. sup'.pc \in GoingBack
    BY <1>2, <1>7 DEF Freeze, GoBack, Stopped, Linked, Pointed, Started, Healthy, Resumed, GoingBack
  <2> QED
    BY <1>5, <2>3, <2>4
<1>8. CASE CallFails \/ Refused \/ SupervisorDies
  <2>1. NoneGone
    BY <1>8, DirStays DEF CallFails, Refused, SupervisorDies
  <2>2. sup'.pc \in {"idle", "unborn", "restore"}
    BY <1>2, <1>3, <1>8 DEF CallFails, Refused, SupervisorDies
  <2> QED
    BY <1>5, <2>1, <2>2
<1>9. CASE WriteFacts
  <2>1. NoneGone /\ sup' = sup /\ cand' = cand
    BY <1>9, DirStays DEF WriteFacts
  <2> QED
    BY <2>1, CodeStays
<1> QED
  BY <1>6, <1>7, <1>8, <1>9

(* A release newer than the active generation is no ancestor's.             *)
LEMMA Newer ==
  ASSUME SupervisorConstants, SupKept, NEW c \in Candidates, NumberOf(c) > Active,
         NEW g \in Generations, g <= Active
  PROVE  gen[g].release # c
<1> SUFFICES ASSUME gen[g].release = c PROVE FALSE
  OBVIOUS
<1>1. Many \in Nat /\ Generations = 1..(Many + 1)
  BY Numbering
<1>2. cand[c].target = g
  BY DEF SupKept, Catalogue, Lineages, MadeFrom
<1>3. NumberOf(c) = g
  BY <1>1, <1>2 DEF NumberOf
<1>4. Active \in Generations
  BY ActiveIs DEF SupKept, Catalogue, Lineages
<1> QED
  BY <1>1, <1>3, <1>4

LEMMA CodeGoes ==
  ASSUME SupervisorConstants, SupKept, CodeKept, NEW c \in Candidates, NumberOf(c) > Active, gen' = gen,
         disk' = [disk EXCEPT !.dir[c] = "gone"],
         sup'.pc \notin SwitchingOver \cup {"switching", "remove"}
  PROVE  CodeKept'
<1>1. Active' = Active /\ disk \in Disks
  BY SameLineage DEF SupKept, Catalogue, SupTyped
<1>2. ASSUME NEW x \in Releases, x # c PROVE disk'.dir[x] = disk.dir[x]
  BY <1>1, <1>2 DEF Disks
<1>3. ASSUME NEW g \in Generations, g <= Active PROVE disk'.dir[gen[g].release] = disk.dir[gen[g].release]
  <2>1. gen[g].release \in Releases
    BY DEF SupKept, Catalogue, SupTyped, Lives
  <2> QED
    BY <1>2, <1>3, <2>1, Newer
<1>4. Roots'
  BY <1>1, <1>3, RootsStay DEF CodeKept
<1> QED
  BY <1>4 DEF CodeKept

LEMMA CodeDelete ==
  ASSUME SupervisorConstants, SupKept, CodeKept, (\E c \in Candidates : Delete(c)) \/ Remove \/ Recover
  PROVE  CodeKept'
<1>1. sup \in Processes /\ sup.c \in Candidates /\ cand \in [Candidates -> Records]
  BY Untouched
<1>2. ASSUME NEW c \in Candidates, Delete(c) PROVE CodeKept'
  <2>1. sup'.pc = "remove" /\ sup'.c = c /\ gen' = gen /\ disk' = disk /\ NumberOf(c) > Active
    BY <1>2 DEF Delete, MayDelete, CanDelete, Away
  <2>2. cand'[c].target = cand[c].target /\ cand'[c].number = cand[c].number
    BY <1>1, <1>2 DEF Delete, Records
  <2>3. Active' = Active
    BY <2>1, SameLineage
  <2>4. NumberOf(sup.c)' = NumberOf(c)
    BY <2>1, <2>2 DEF NumberOf
  <2>5. Roots'
    BY <2>1, <2>3, RootsStay DEF CodeKept
  <2> QED
    BY <2>1, <2>3, <2>4, <2>5 DEF CodeKept, SwitchingOver
<1>3. CASE Remove
  <2>1. CASE In("remove")
    <3>1. /\ gen' = gen /\ disk' = [disk EXCEPT !.dir[sup.c] = "gone"] /\ NumberOf(sup.c) > Active
          /\ sup' = [sup EXCEPT !.pc = "removed"]
      BY <1>3, <2>1 DEF Remove, In, To, CodeKept
    <3>2. sup'.pc = "removed"
      BY <1>1, <3>1 DEF Processes
    <3> QED
      BY <1>1, <3>1, <3>2, CodeGoes DEF SwitchingOver
  <2>2. CASE ~In("remove")
    <3>1. gen' = gen /\ disk' = disk /\ sup'.pc = "idle"
      BY <1>3, <2>2 DEF Remove, In, Away
    <3> QED
      BY <3>1, DirStays, CodeStays DEF SwitchingOver
  <2> QED
    BY <2>1, <2>2
<1>4. CASE Recover
  <2>1. CASE /\ In("recover") /\ Deleting # {} /\ MayDelete(First(Deleting)) /\ UNCHANGED sup
             /\ disk' = [disk EXCEPT !.dir[First(Deleting)] = "gone"]
    <3>1. First(Deleting) \in Candidates
      <4>1. Deleting \in SUBSET Candidates
        BY DEF Deleting
      <4> QED
        BY <2>1, <4>1, FirstIs
    <3>2. NumberOf(First(Deleting)) > Active /\ gen' = gen /\ sup'.pc = "recover"
      BY <1>4, <2>1 DEF MayDelete, CanDelete, Recover, In
    <3> QED
      BY <2>1, <3>1, <3>2, CodeGoes DEF SwitchingOver
  <2>2. CASE disk' = disk
    <3>0. \/ sup' = sup \/ sup' = Away \/ sup' = [Away EXCEPT !.pc = "recover"]
          \/ sup' = [sup EXCEPT !.pc = "restore", !.c = First(Unfinished)]
      BY <1>4 DEF Recover
    <3>3. sup' = Away \/ sup' = [Away EXCEPT !.pc = "recover"] => sup'.pc \in {"idle", "recover"}
      BY DEF Away
    <3>4. sup' = [sup EXCEPT !.pc = "restore", !.c = First(Unfinished)] => sup'.pc = "restore"
      BY <1>1 DEF Processes
    <3>1. sup'.pc \in {"idle", "recover", "restore"} \/ sup' = sup
      BY <3>0, <3>3, <3>4
    <3>2. sup.pc \in {"idle", "recover", "after"} /\ gen' = gen
      BY <1>4 DEF Recover, In
    <3> QED
      BY <2>2, <3>1, <3>2, DirStays, CodeStays DEF SwitchingOver
  <2> QED
    BY <1>4, <2>1, <2>2 DEF Recover
<1> QED
  BY <1>2, <1>3, <1>4

LEMMA CodeCreate ==
  ASSUME SupervisorConstants, SupKept, CodeKept, Create
  PROVE  CodeKept'
<1> DEFINE t == cand[sup.c].target
           life == [state |-> "BIRTHING", parent |-> cand[sup.c].base, release |-> sup.c]
<1>1. disk' = disk /\ sup.pc = "create" /\ sup' = [sup EXCEPT !.pc = "migrate"] /\ gen' = [gen EXCEPT ![t] = life]
  BY DEF Create, In, To
<1>2. sup'.pc = "migrate"
  BY <1>1, Untouched DEF Processes
<1>3. gen \in [Generations -> Lives] /\ Generations \subseteq Int
  BY Numbering DEF SupKept, Catalogue, SupTyped
<1>4. Active \in Generations /\ gen[Active].state = "ACTIVE" /\ (\A h \in Generations : gen[h].state = "ACTIVE" => h = Active)
  BY ActiveIs DEF SupKept, Catalogue, Lineages
<1>5. t = NextNumber /\ Active < t /\ t \in Nat
  <2>1. t = NextNumber
    BY <1>1 DEF SupKept, Whereabouts, During, Target
  <2> QED
    BY <2>1, NextIs DEF SupKept, Catalogue
<1>6. life.state = "BIRTHING"
  OBVIOUS
<1>7. \A g \in Generations : gen'[g] = IF g = t THEN life ELSE gen[g]
  BY <1>1, <1>3
<1> HIDE DEF t, life
<1> DEFINE a == Active
<1>8. a \in Generations /\ Active = a /\ ~(t <= a) /\ a # t
  BY <1>3, <1>4, <1>5
<1>9. \A h \in Generations : gen'[h].state = "ACTIVE" <=> h = a
  BY <1>4, <1>6, <1>7, <1>8
<1> HIDE DEF a
<1>10. Active' = a
  BY <1>8, <1>9, ActiveThen
<1>11. Roots'
  BY <1>1, <1>3, <1>7, <1>8, <1>10, RootsStay DEF CodeKept
<1> QED
  BY <1>2, <1>11 DEF CodeKept, SwitchingOver

(* A birth adds its generation to the ancestors.                            *)
LEMMA CodeLineage ==
  ASSUME SupervisorConstants, SupKept, CodeKept, Lineage
  PROVE  CodeKept'
<1> DEFINE c == sup.c
           b == cand[sup.c].base
           t == cand[sup.c].target
<1>0. /\ cand \in [Candidates -> Records] /\ Generations \subseteq Int
      /\ c \in Candidates /\ gen \in [Generations -> Lives] /\ sup \in Processes
  BY Untouched, Numbering DEF SupKept, Catalogue, SupTyped
<1>1. /\ disk' = disk /\ sup.pc = "lineage" /\ sup' = [sup EXCEPT !.pc = "resume"]
      /\ gen' = [gen EXCEPT ![b].state = "RETIRED", ![t].state = "ACTIVE"]
  BY DEF Lineage, In, To
<1>2. sup'.pc = "resume" /\ sup'.c = c
  BY <1>0, <1>1 DEF Processes
<1>3. Unfinished = {c} /\ gen[t].release = c /\ Active = b /\ disk.dir[c] \in Present
  BY <1>1 DEF SupKept, Whereabouts, During, Birthing, SwitchingOver, Target, Previous, CodeKept
<1>4. t \in Generations /\ b \in Generations /\ b < t /\ gen[t].parent = b
  <2>1. t # 0
    BY <1>0, <1>3 DEF Unfinished, SupKept, Catalogue, Numbered, TargetKnown
  <2> QED
    BY <1>0, <1>3, <2>1, BornOf DEF SupKept
<1>5. PICK S \in SUBSET Generations : Rooted(S)
  BY DEF CodeKept, Roots
<1> HIDE DEF c, b, t
<1>6. /\ gen' \in [Generations -> Lives]
      /\ \A g \in Generations :
           /\ gen'[g].parent = gen[g].parent /\ gen'[g].release = gen[g].release
           /\ g \notin {b, t} => gen'[g].state = gen[g].state
      /\ gen'[b].state = "RETIRED" /\ gen'[t].state = "ACTIVE"
  <2>1. b # t
    BY <1>0, <1>4
  <2> QED
    BY <1>0, <1>1, <1>4, <2>1 DEF Lives
<1>7. Active' = t
  <2>1. \A h \in Generations : gen[h].state = "ACTIVE" => h = b
    BY <1>3, ActiveIs DEF SupKept, Catalogue, Lineages
  <2>2. \A h \in Generations : gen'[h].state = "ACTIVE" <=> h = t
    BY <1>0, <1>4, <1>6, <2>1
  <2> QED
    BY <1>4, <2>2, ActiveThen
<1>8. b \in S /\ \A g \in S : g <= b /\ gen[g].parent \in S \cup {0} /\ disk.dir[gen[g].release] \in Present
  BY <1>3, <1>5 DEF Rooted
<1>9. PICK T \in SUBSET Generations : T = S \cup {t}
  BY <1>4
<1>10. ASSUME NEW g \in T
       PROVE  g <= t /\ gen'[g].parent \in T \cup {0} /\ disk'.dir[gen'[g].release] \in Present
  <2>1. gen'[g].parent = gen[g].parent /\ gen'[g].release = gen[g].release /\ g \in Generations
    BY <1>6
  <2>2. CASE g \in S
    <3>1. g <= b /\ g \in Int /\ b \in Int /\ t \in Int
      BY <1>0, <1>4, <1>8, <2>1, <2>2
    <3>2. g <= t
      BY <1>4, <3>1
    <3> QED
      BY <1>1, <1>8, <1>9, <2>1, <2>2, <3>2
  <2>3. CASE g = t
    <3>1. g <= t
      BY <1>0, <1>4, <2>3
    <3> QED
      BY <1>1, <1>3, <1>4, <1>8, <1>9, <2>1, <2>3, <3>1
  <2> QED
    BY <1>9, <2>2, <2>3
<1>11. Roots'
  <2>1. Rooted(T)'
    BY <1>7, <1>9, <1>10 DEF Rooted
  <2> QED
    BY <1>9, <2>1 DEF Roots
<1>12. disk'.dir[sup'.c] \in Present
  BY <1>1, <1>2, <1>3
<1> QED
  BY <1>2, <1>11, <1>12 DEF CodeKept

LEMMA CodeAbandon ==
  ASSUME SupervisorConstants, SupKept, CodeKept, Abandon
  PROVE  CodeKept'
<1> DEFINE c == sup.c
           b == cand[sup.c].base
<1>0. /\ cand \in [Candidates -> Records] /\ gen \in [Generations -> Lives] /\ sup \in Processes
      /\ c \in Candidates /\ Generations \subseteq Int
  BY Untouched, Numbering DEF SupKept, Catalogue, SupTyped
<1>1. disk' = disk /\ sup'.pc \in {"idle", "abandoned", "dropped", "after", "rollcheck"}
  <2>1. \A p : To(p) => sup'.pc = p
    BY <1>0 DEF To, Processes
  <2>2. sup' = Away => sup'.pc = "idle"
    BY DEF Away
  <2>3. sup' = Done => sup'.pc \in {"after", "rollcheck"}
    BY <1>0 DEF Done, Processes
  <2> QED
    BY <2>1, <2>2, <2>3 DEF Abandon
<1>2. CASE gen' = gen
  BY <1>1, <1>2, DirStays, CodeStays DEF SwitchingOver
<1>3. CASE In("restore") /\ Early /\ Active = Previous /\ gen' = Failed("FAILED")
  <2>1. Target \in Generations /\ b \in Generations /\ b < Target
    <3>1. cand[c].state = "BORN" => cand[c].phase = "COMPLETED"
      BY <1>0 DEF SupKept, Catalogue, Numbered, TargetKnown
    <3>2. c \in Unfinished
      BY <1>3, <3>1 DEF In, SupKept, Whereabouts, Back, Early
    <3>3. cand[c].state \in {"BIRTHING", "ROLLING_BACK"} /\ cand[c].target # 0
      BY <1>0, <3>2 DEF Unfinished, SupKept, Catalogue, Numbered, TargetKnown
    <3> QED
      BY <1>0, <3>3, RecordOf DEF SupKept, Catalogue, Target
  <2> DEFINE t == Target
             a == Active
  <2>2. /\ \A g \in Generations :
             /\ gen'[g].parent = gen[g].parent /\ gen'[g].release = gen[g].release
             /\ g # t => gen'[g].state = gen[g].state
        /\ gen'[t].state # "ACTIVE" \/ gen[t].state = "none"
        /\ gen'[t].state = "none" <=> gen[t].state = "none"
    BY <1>0, <1>3, <2>1, FailedIs
  <2>3. a \in Generations /\ gen[a].state = "ACTIVE" /\ \A h \in Generations : gen[h].state = "ACTIVE" => h = a
    BY ActiveIs DEF SupKept, Catalogue, Lineages
  <2>4. a # t /\ t \in Generations /\ Active = a
    <3>1. a = b /\ b \in Int /\ t \in Int /\ b < t
      BY <1>0, <1>3, <2>1 DEF Previous
    <3>2. a # t
      BY <3>1
    <3> QED
      BY <2>1, <3>2
  <2> HIDE DEF a, t
  <2>5. \A h \in Generations : gen'[h].state = "ACTIVE" <=> h = a
    BY <2>2, <2>3, <2>4
  <2>6. Active' = a
    BY <2>3, <2>5, ActiveThen
  <2>7. Roots'
    BY <1>1, <2>2, <2>4, <2>6, RootsStay DEF CodeKept
  <2> QED
    BY <1>1, <2>7 DEF CodeKept, SwitchingOver
<1> QED
  BY <1>2, <1>3 DEF Abandon

(* A return takes the generation it leaves from the ancestors.              *)
LEMMA CodeRolled ==
  ASSUME SupervisorConstants, SupKept, CodeKept, RollLineage
  PROVE  CodeKept'
<1> DEFINE c == sup.c
           b == cand[sup.c].base
           t == cand[sup.c].target
           o == sup.outcome
<1>0. /\ cand \in [Candidates -> Records] /\ gen \in [Generations -> Lives] /\ sup \in Processes
      /\ c \in Candidates /\ Generations \subseteq Int /\ 0 \notin Generations
      /\ o \in {"FAILED", "ROLLED_BACK"}
  BY Untouched, Numbering DEF SupKept, Catalogue, SupTyped, Processes
<1>1. CASE Active \notin {Previous, Target}
  <2>1. sup'.pc = "idle" /\ gen' = gen /\ disk' = disk
    BY <1>1 DEF RollLineage, Away
  <2> QED
    BY <2>1, DirStays, CodeStays DEF SwitchingOver
<1>2. CASE Active \in {Previous, Target}
  <2>1. /\ sup.pc = "rlineage" /\ sup' = [sup EXCEPT !.pc = "rstart"] /\ disk' = disk
        /\ gen' = [Failed(o) EXCEPT ![b].state = "ACTIVE"]
    BY <1>2 DEF RollLineage, In, To, Previous
  <2>2. sup'.pc = "rstart"
    BY <1>0, <2>1 DEF Processes
  <2>3. c \in Unfinished
    <3>1. sup.pc \in GoingBack
      BY <2>1 DEF GoingBack
    <3> QED
      BY <3>1, InFront
  <2>4. Target = t /\ t \in Generations /\ b \in Generations /\ b < t /\ b # t
    <3>1. cand[c].state \in {"BIRTHING", "ROLLING_BACK"} /\ cand[c].target # 0
      BY <1>0, <2>3 DEF Unfinished, SupKept, Catalogue, Numbered, TargetKnown
    <3> QED
      BY <1>0, <3>1, RecordOf DEF SupKept, Catalogue, Target
  <2> DEFINE f == Failed(o)
             a == Active
  <2>5. /\ f \in [Generations -> Lives]
        /\ \A g \in Generations :
             /\ f[g].parent = gen[g].parent /\ f[g].release = gen[g].release
             /\ g # t => f[g].state = gen[g].state
        /\ f[t].state # "ACTIVE" \/ gen[t].state = "none"
        /\ f[t].state = "none" <=> gen[t].state = "none"
    BY <1>0, <2>4, FailedIs
  <2>6. gen' = [f EXCEPT ![b].state = "ACTIVE"] /\ a \in {b, t} /\ Active = a
    BY <1>2, <2>1, <2>4 DEF Previous
  <2>7. a \in Generations /\ gen[a].state = "ACTIVE" /\ \A h \in Generations : gen[h].state = "ACTIVE" => h = a
    BY ActiveIs DEF SupKept, Catalogue, Lineages
  <2>8. gen[t].state # "none" => gen[t].release = c /\ gen[t].parent = b
    <3>1. gen[t].state # "none" => gen[t].release = c
      BY <2>3 DEF SupKept, Catalogue, Left, LeftOpen
    <3> QED
      BY <1>0, <2>4, <3>1 DEF SupKept, Catalogue, Lineages, MadeFrom
  <2>9. PICK S \in SUBSET Generations : Rooted(S)
    BY DEF CodeKept, Roots
  <2>10. a \in S /\ \A g \in S : g <= a /\ gen[g].parent \in S \cup {0} /\ disk.dir[gen[g].release] \in Present
    BY <2>6, <2>9 DEF Rooted
  <2> HIDE DEF c, b, t, f, a
  <2>11. /\ \A g \in Generations :
              /\ gen'[g].parent = gen[g].parent /\ gen'[g].release = gen[g].release
              /\ g # b => gen'[g].state = f[g].state
         /\ gen'[b].state = "ACTIVE"
    BY <2>4, <2>5, <2>6 DEF Lives
  <2>12. Active' = b
    <3>1. f[t].state # "ACTIVE"
      BY <2>4, <2>5, <2>6, <2>7
    <3>2. \A h \in Generations : gen'[h].state = "ACTIVE" <=> h = b
      BY <2>4, <2>5, <2>6, <2>7, <2>11, <3>1
    <3> QED
      BY <2>4, <3>2, ActiveThen
  <2>13. b \in S
    <3>1. CASE a = b
      BY <2>10, <3>1
    <3>2. CASE a = t
      <4>1. gen[a].parent = b
        BY <2>7, <2>8, <3>2
      <4>2. b \in S \cup {0}
        BY <2>10, <4>1
      <4> QED
        BY <1>0, <2>4, <4>2
    <3> QED
      BY <2>6, <3>1, <3>2
  <2>14. PICK n \in Generations : n = b
    BY <2>4
  <2>15. PICK T \in SUBSET Generations : T = {g \in S : g <= n}
    OBVIOUS
  <2>16. ASSUME NEW g \in T
         PROVE  g <= n /\ gen'[g].parent \in T \cup {0} /\ disk'.dir[gen'[g].release] \in Present
    <3>1. g \in S /\ g <= n /\ g \in Generations
      BY <2>15
    <3>2. gen'[g].parent = gen[g].parent /\ disk'.dir[gen'[g].release] \in Present
      BY <2>1, <2>10, <2>11, <3>1
    <3>3. gen[g].parent \in S \cup {0} /\ gen[g].parent \in 0..(g - 1)
      BY <2>10, <3>1 DEF SupKept, Catalogue, Lineages, Downward
    <3>4. gen[g].parent <= n
      <4>1. g \in Int /\ n \in Int
        BY <1>0, <3>1
      <4> QED
        BY <3>1, <3>3, <4>1
    <3> QED
      BY <2>15, <3>1, <3>2, <3>3, <3>4
  <2>17. n \in T
    <3>1. n <= n
      BY <1>0
    <3> QED
      BY <2>13, <2>14, <2>15, <3>1
  <2>18. Rooted(T)'
    BY <2>12, <2>14, <2>16, <2>17 DEF Rooted
  <2> QED
    BY <2>2, <2>18 DEF CodeKept, Roots, SwitchingOver
<1> QED
  BY <1>1, <1>2

LEMMA CodeStep ==
  ASSUME SupervisorConstants, SupKept, CodeKept, [SupNext]_supVars
  PROVE  CodeKept'
<1>1. CASE UNCHANGED supVars
  BY <1>1, DirStays, CodeStays DEF supVars
<1> QED
  BY <1>1, CodeBirth, CodeSwitch, CodeBack, CodeDelete, CodeCreate, CodeLineage, CodeAbandon, CodeRolled
  DEF SupNext

(* The code of every ancestor of the active generation is kept, so each can *)
(* be returned to (generation_supervisor.ts: deleteRelease(), recover()).   *)
THEOREM AncestorsAreKept ==
  ASSUME SupervisorConstants
  PROVE  SupInit /\ [][SupNext]_supVars => []AncestorsKept
<1> DEFINE Kept == SupKept /\ CodeKept
<1>1. SupInit => Kept
  BY SupStarts, RootsAre
<1>2. Kept /\ [SupNext]_supVars => Kept'
  BY SupStep, CodeStep
<1>3. Kept => AncestorsKept
  <2> SUFFICES ASSUME SupKept, CodeKept, NEW i \in 1..Len(Chain)
               PROVE  disk.dir[gen[Chain[i]].release] \in Present
    BY DEF AncestorsKept, Present
  <2>1. PICK S \in SUBSET Generations : Rooted(S)
    BY DEF CodeKept, Roots
  <2>2. Active \in S /\ \A g \in S : gen[g].parent \in S \cup {0}
    BY <2>1 DEF Rooted
  <2>3. Chain \in Seq(S)
    BY <2>2, AncestryWithin DEF Chain, SupKept, Catalogue, Lineages
  <2>4. Chain[i] \in S
    BY <2>3
  <2> QED
    BY <2>1, <2>4 DEF Rooted
<1> HIDE DEF Kept
<1> QED
  BY <1>1, <1>2, <1>3, PTL
=============================================================================

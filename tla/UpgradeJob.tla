----------------------------- MODULE UpgradeJob -----------------------------
(***************************************************************************)
(* The maintenance page's job: it merges a commit into main without moving  *)
(* main, has the result validated, approved and published by the supervisor *)
(* (a child process holding its own lock), and only then moves main.        *)
(*                                                                         *)
(* The job is saved to a file, so a page that died finds it interrupted.    *)
(* The child outlives the page; a developer works in the same checkout.     *)
(***************************************************************************)
EXTENDS Integers, FiniteSets, Sequences

CONSTANTS
  Commits,       \* 0: the commit the first release was built from
  MaxMishaps     \* bound: processes that die, commands that fail

JobConstants == 0 \in Commits /\ Commits \subseteq Nat /\ MaxMishaps \in Nat

VARIABLES
  past,      \* each commit's ancestors, itself included; empty when not made yet
  main,      \* the tip of the main branch
  checkout,  \* what is checked out: a branch ("main" or "work"), its tip, its cleanliness
  release,   \* the sources of the active release (the last one) and its ancestors
  limbo,     \* what awaits recover(): "no", or a release the lineage "named" or did not
  child,     \* the supervisor's process: what it is doing
  job,       \* the job file
  busy,      \* the page has a job in memory
  mishaps

jobVars == <<past, main, checkout, release, limbo, child, job, busy, mishaps>>
gitVars == <<past, main, checkout>>

NoPlan == [main |-> 0, head |-> 0, branch |-> "main", source |-> 0, mode |-> "merge", commit |-> -1]
NoJob == [action |-> "none", state |-> "none", phase |-> "none", plan |-> NoPlan]

JobInit ==
  /\ past = [c \in Commits |-> IF c = 0 THEN {0} ELSE {}]
  /\ main = 0 /\ checkout = [branch |-> "main", at |-> 0, clean |-> TRUE]
  /\ release = <<0>> /\ limbo = "no" /\ child = "none"
  /\ job = NoJob /\ busy = FALSE /\ mishaps = 0

Made == {c \in Commits : past[c] # {}}
Fresh == {c \in Commits : past[c] = {} /\ \A d \in Commits : past[d] = {} => c <= d}
plan == job.plan
activeSource == release[Len(release)]
Trouble == mishaps < MaxMishaps /\ mishaps' = mishaps + 1
OnMain == checkout.branch = "main"

\* No other operation may start over a running one, or before what it left is settled.
Admitted(action) ==
  /\ ~busy /\ child = "none"
  /\ job.state \in {"needs_git_sync", "interrupted"} => action \in {"sync-git", "recover"}
Starts(action, phase, p) ==
  /\ Admitted(action) /\ busy' = TRUE
  /\ job' = [action |-> action, state |-> "running", phase |-> phase, plan |-> p]

(* An old commit of main is merged (which changes nothing) or restored.      *)
Historical(source) == source # main /\ source \in past[main]
Switch(source, mode) ==
  /\ source \in Made /\ checkout.clean
  /\ mode = "restore" => Historical(source)
  /\ mode = "merge" => ~(source \in past[main] /\ activeSource = main)
  /\ Starts("switch", "merge", [NoPlan EXCEPT !.main = main, !.head = checkout.at, !.mode = mode,
                                              !.branch = checkout.branch, !.source = source])
  /\ UNCHANGED <<gitVars, release, limbo, child, mishaps>>
SyncGit ==
  /\ plan.commit # -1 /\ activeSource = plan.commit
  /\ job.state \in {"needs_git_sync", "interrupted"}
  /\ Starts("sync-git", "sync", plan)
  /\ UNCHANGED <<gitVars, release, limbo, child, mishaps>>
RecoverJob ==        \* keeps the plan of the job it replaces
  /\ Starts("recover", "none", plan) /\ child' = "recovering"
  /\ UNCHANGED <<gitVars, release, limbo, mishaps>>
RollbackJob ==
  /\ Len(release) > 1 /\ limbo # "named"
  /\ Starts("rollback", "none", NoPlan) /\ child' = "rolling back"
  /\ UNCHANGED <<gitVars, release, limbo, mishaps>>

-----------------------------------------------------------------------------
Unmoved == /\ checkout.clean /\ main = plan.main
           /\ checkout.at = plan.head /\ checkout.branch = plan.branch
Running(phase) == busy /\ job.phase = phase
Fails == /\ busy' = FALSE
         /\ job' = [job EXCEPT !.state =
                      IF \/ job.phase = "sync"
                         \/ job.phase = "publish" /\ activeSource = plan.commit
                      THEN "needs_git_sync" ELSE "failed"]
Succeeds == busy' = FALSE /\ job' = [job EXCEPT !.state = "succeeded"]

(* The exact result is built as a commit of its own, on top of main; a       *)
(* restored commit gives its tree only.                                      *)
Parents == IF plan.mode = "restore" THEN past[main] ELSE past[main] \cup past[plan.source]
Build ==
  /\ Running("merge")
  /\ \/ /\ Unmoved /\ plan.mode = "merge" /\ plan.source \in past[main]
        /\ job' = [job EXCEPT !.phase = "validate", !.plan.commit = main] /\ UNCHANGED <<busy, past>>
     \/ /\ Unmoved /\ ~(plan.mode = "merge" /\ plan.source \in past[main]) /\ UNCHANGED busy
        /\ \E c \in Fresh : /\ past' = [past EXCEPT ![c] = {c} \cup Parents]
                            /\ job' = [job EXCEPT !.phase = "validate", !.plan.commit = c]
     \/ ~Unmoved /\ Fails /\ UNCHANGED past
  /\ UNCHANGED <<main, checkout, release, limbo, child, mishaps>>

(* Validation takes long: the checkout is looked at again afterwards, and    *)
(* once more before the release is switched.                                 *)
Approved ==
  /\ Running("validate")
  /\ IF Unmoved THEN job' = [job EXCEPT !.phase = "publish"] /\ child' = "publishing" /\ UNCHANGED busy
                ELSE Fails /\ UNCHANGED child
  /\ UNCHANGED <<gitVars, release, limbo, mishaps>>
StepFails ==
  /\ Trouble /\ (Running("merge") \/ Running("validate") \/ Running("sync")) /\ Fails
  /\ UNCHANGED <<gitVars, release, limbo, child>>

(* What the supervisor does with its command.  A publication or a return may *)
(* die before or after the lineage names the other release as active; only   *)
(* what it still names is taken back by recover(), and until then nothing    *)
(* else is published or rolled back.                                         *)
Rewound(n) == SubSeq(release, 1, n)
Extended == Append(release, plan.commit)
Publishes ==
  /\ child = "publishing" /\ limbo = "no"
  /\ \/ child' = "ok" /\ release' = Extended /\ UNCHANGED <<limbo, mishaps>>
     \/ /\ Trouble /\ child' = "error"
        /\ \/ release' = release /\ limbo' \in {"no", "unnamed"}
           \/ release' = Extended /\ limbo' \in {"no", "named"}
RollsBack ==
  /\ child = "rolling back" /\ limbo = "no"
  /\ \E n \in 1..Len(release) :
       /\ release' = Rewound(n)
       /\ \/ n < Len(release) /\ child' = "ok" /\ UNCHANGED <<limbo, mishaps>>
          \/ /\ Trouble /\ child' = "error" /\ limbo' \in {"no", "unnamed", "named"}
             /\ (limbo' = "unnamed" => n < Len(release)) /\ (limbo' = "named" => n > 1)
Recovers ==
  /\ child = "recovering"
  /\ \/ /\ child' = "ok" /\ limbo' = "no" /\ UNCHANGED mishaps
        /\ release' = IF limbo = "named" THEN Rewound(Len(release) - 1) ELSE release
     \/ /\ Trouble /\ child' = "error"
        /\ \/ UNCHANGED <<release, limbo>>
           \/ limbo # "named" /\ release' = release /\ limbo' = "no"
           \/ limbo = "named" /\ release' = Rewound(Len(release) - 1) /\ limbo' \in {"unnamed", "no"}
Refuses ==
  /\ child \in {"publishing", "rolling back"} /\ limbo # "no" /\ child' = "error"
  /\ UNCHANGED <<release, limbo, mishaps>>
ChildEnds ==
  /\ Publishes \/ RollsBack \/ Recovers \/ Refuses
  /\ UNCHANGED <<gitVars, job, busy>>

SyncNext == job' = [job EXCEPT !.phase = "sync"] /\ UNCHANGED busy
SyncWantedMutant ==          \* whatever the recovery ended with
  \/ job.action = "switch"
  \/ job.action = "recover" /\ plan.commit # -1
SyncWanted ==
  /\ activeSource = plan.commit
  /\ job.action = "switch" \/ (job.action = "recover" /\ plan.commit # -1)
Reported ==
  /\ busy /\ child \in {"ok", "error"} /\ child' = "none"
  /\ \/ child = "ok" /\ SyncWanted /\ SyncNext
     \/ child = "ok" /\ ~SyncWanted /\ Succeeds     \* a recovery or a return
     \/ child = "error" /\ Fails
  /\ UNCHANGED <<gitVars, release, limbo, mishaps>>
Unattended ==                 \* the page died before its child ended
  /\ ~busy /\ child \in {"ok", "error"} /\ child' = "none"
  /\ UNCHANGED <<gitVars, release, limbo, job, busy, mishaps>>

(* main moves forward to the published commit and is checked out; a retry    *)
(* finds part of it done.                                                    *)
SyncPossible ==
  /\ checkout.clean /\ main \in {plan.main, plan.commit}
  /\ \/ checkout.at = plan.head /\ checkout.branch = plan.branch
     \/ checkout.at = plan.commit /\ OnMain
Sync ==
  /\ Running("sync")
  /\ \/ /\ SyncPossible /\ main # plan.commit /\ main' = plan.commit   \* first the ref ...
        /\ checkout' = IF OnMain THEN [checkout EXCEPT !.at = plan.commit] ELSE checkout
        /\ UNCHANGED <<job, busy>>
     \/ /\ SyncPossible /\ main = plan.commit /\ Succeeds              \* ... then the checkout
        /\ checkout' = [checkout EXCEPT !.branch = "main", !.at = plan.commit] /\ UNCHANGED main
     \/ ~SyncPossible /\ Fails /\ UNCHANGED <<main, checkout>>
  /\ UNCHANGED <<past, release, limbo, child, mishaps>>

PageDies ==
  /\ busy /\ Trouble /\ busy' = FALSE /\ job' = [job EXCEPT !.state = "interrupted"]
  /\ UNCHANGED <<gitVars, release, limbo, child>>

(* The developer: new commits on what is checked out, uncommitted changes.   *)
Develop ==
  /\ \/ \E c \in Fresh :
          /\ past' = [past EXCEPT ![c] = {c} \cup past[checkout.at]]
          /\ checkout' = [checkout EXCEPT !.at = c] /\ main' = (IF OnMain THEN c ELSE main)
     \/ /\ OnMain /\ checkout' = [checkout EXCEPT !.branch = "work"] /\ UNCHANGED <<past, main>>
     \/ checkout' = [checkout EXCEPT !.clean = ~@] /\ UNCHANGED <<past, main>>
  /\ UNCHANGED <<release, limbo, child, job, busy, mishaps>>

JobNext ==
  \/ \E c \in Commits, mode \in {"merge", "restore"} : Switch(c, mode)
  \/ SyncGit \/ RecoverJob \/ RollbackJob \/ Build \/ Approved \/ StepFails \/ ChildEnds
  \/ Reported \/ Unattended \/ Sync \/ PageDies \/ Develop
JobSpec == JobInit /\ [][JobNext]_jobVars

-----------------------------------------------------------------------------
(* The page moves main only forward, and only to the source of the release   *)
(* that is active at that moment: whatever died, was retried, was recovered  *)
(* or was committed meanwhile, no developer's commit is lost from main and   *)
(* main never runs ahead of what was published.                              *)
MainFollowsRelease ==
  [][main' # main => Develop \/ (main' = activeSource /\ main \in past[main'])]_jobVars
=============================================================================

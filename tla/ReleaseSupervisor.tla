------------------------- MODULE ReleaseSupervisor -------------------------
(***************************************************************************)
(* The supervisor of software releases: it submits, validates, approves and *)
(* publishes a candidate, rolls back along the published ancestry, deletes  *)
(* the code of newer releases and recovers what was interrupted.            *)
(*                                                                         *)
(* It keeps candidates in its own database, generations in the lineage      *)
(* database, a link to the release to start, a pointer to the generation to *)
(* open, and it drives the company's server over HTTP.  A file lock admits  *)
(* one supervisor; it may die between any two durable writes.               *)
(***************************************************************************)
EXTENDS Integers, FiniteSets, Sequences

CONSTANTS
  Candidates,   \* the releases that may be submitted, 1..n in order of submission
  Legacy,       \* releases that cannot carry the protocol facts newer ones write
  MaxFaults     \* bound: deaths of the supervisor, failed calls, altered files

Releases == {0} \cup Candidates          \* 0: the release first installed
Generations == 1..(Cardinality(Candidates) + 1)

SupervisorConstants ==
  /\ IsFiniteSet(Candidates) /\ Candidates # {} /\ Candidates = 1..Cardinality(Candidates)
  /\ Legacy \subseteq Releases /\ MaxFaults \in Nat

VARIABLES
  cand,      \* the supervisor's candidates
  gen,       \* the lineage's generations
  disk,      \* link, pointer, the releases' directories and the snapshots
  app,       \* the server: the release it runs and what it accepts
  facts,     \* the company has facts a legacy release cannot carry
  restored,  \* the generation the last rollback or recovery went back to
  sup,       \* the supervisor's process
  wrong      \* how many things went wrong

supVars == <<cand, gen, disk, app, facts, restored, sup, wrong>>

Away == [pc |-> "idle", c |-> 1, quiet |-> FALSE, path |-> <<>>, outcome |-> "FAILED"]
Unborn == [state |-> "none", parent |-> 0, release |-> 0]
NoCandidate == [state |-> "none", phase |-> "none", base |-> 0, target |-> 0, number |-> 0,
                proposal |-> "none", intent |-> 0]

SupInit ==
  /\ cand = [c \in Candidates |-> NoCandidate]
  /\ gen = [g \in Generations |->
              IF g = 1 THEN [state |-> "ACTIVE", parent |-> 0, release |-> 0] ELSE Unborn]
  /\ disk = [link |-> 0, pointer |-> 1, snapped |-> {}, frozen |-> {},
             dir |-> [x \in Releases |-> IF x = 0 THEN "sealed" ELSE "none"]]
  /\ app = [release |-> 0, mode |-> "open"]
  /\ facts = FALSE /\ restored = 0 /\ sup = Away /\ wrong = 0

Active == CHOOSE g \in Generations : gen[g].state = "ACTIVE"
ActiveRelease == gen[Active].release
NextNumber == 1 + Cardinality({g \in Generations : gen[g].state # "none"})
Unfinished == {c \in Candidates : cand[c].state \in {"BIRTHING", "ROLLING_BACK"}}
Deleting == {c \in Candidates : cand[c].state = "DELETING"}
First(S) == CHOOSE c \in S : \A d \in S : c <= d
In(pc) == sup.pc = pc
To(pc) == sup' = [sup EXCEPT !.pc = pc]
Mishap == wrong < MaxFaults /\ wrong' = wrong + 1
Carries(release) == facts => release \notin Legacy
Intact(c) == disk.dir[c] = "sealed"            \* the bytes are those the hash was taken of
Standing == disk.pointer = Active /\ disk.link = ActiveRelease
Base(c) ==
  /\ cand[c].base = Active /\ Standing /\ disk.dir[ActiveRelease] \in {"sealed", "altered"}
  /\ cand[c].proposal = "open"

-----------------------------------------------------------------------------
(* Preparing a candidate.                                                   *)

Submit(c) ==
  /\ In("idle") /\ cand[c].state = "none" /\ \A d \in 1..(c - 1) : cand[d].state # "none"
  /\ Standing
  /\ cand' = [cand EXCEPT ![c] = [NoCandidate EXCEPT !.state = "SUBMITTED", !.base = Active,
                                    !.number = NextNumber, !.proposal = "open"]]
  /\ disk' = [disk EXCEPT !.dir[c] = "sealed"]
  /\ UNCHANGED <<gen, app, facts, restored, sup, wrong>>

Validate(c) ==
  /\ In("idle") /\ cand[c].state = "SUBMITTED" /\ Base(c)
  /\ cand[c].number = NextNumber /\ Carries(c)
  /\ cand' = [cand EXCEPT ![c].state = "VALIDATED"]
  /\ disk' = [disk EXCEPT !.dir[c] = "sealed"]       \* the hash is taken now
  /\ UNCHANGED <<gen, app, facts, restored, sup, wrong>>

Approve(c) ==
  /\ In("idle") /\ cand[c].state = "VALIDATED" /\ Intact(c) /\ Base(c)
  /\ cand' = [cand EXCEPT ![c].state = "APPROVED"]
  /\ UNCHANGED <<gen, disk, app, facts, restored, sup, wrong>>

-----------------------------------------------------------------------------
(* birth(): every await and every durable write is a step of its own.       *)

Birth(c) ==
  /\ In("idle") /\ cand[c].state = "APPROVED" /\ Intact(c) /\ Base(c)
  /\ Unfinished = {} /\ cand[c].number = NextNumber
  /\ sup' = [Away EXCEPT !.pc = "running", !.c = c]
  /\ UNCHANGED <<cand, gen, disk, app, facts, restored, wrong>>

CheckRunning ==
  /\ In("running") /\ app.release = ActiveRelease
  /\ To("quiesce") /\ UNCHANGED <<cand, gen, disk, app, facts, restored, wrong>>

Quiesce ==
  /\ In("quiesce") /\ app.release # -1
  /\ app' = [app EXCEPT !.mode = "switching"]
  /\ sup' = [sup EXCEPT !.pc = "snapshot", !.quiet = TRUE]
  /\ UNCHANGED <<cand, gen, disk, facts, restored, wrong>>

(* Private assets and the company's facts must suit the candidate, and no    *)
(* earlier attempt may have left a snapshot.                                 *)
Snapshot ==
  /\ In("snapshot")
  /\ IF Carries(sup.c) /\ sup.c \notin disk.snapped
     THEN disk' = [disk EXCEPT !.snapped = @ \cup {sup.c}] /\ To("intent")
     ELSE UNCHANGED disk /\ To("unborn")
  /\ UNCHANGED <<cand, gen, app, facts, restored, wrong>>

Intent ==
  /\ In("intent") /\ To("create")
  /\ cand' = [cand EXCEPT ![sup.c] = [@ EXCEPT !.state = "BIRTHING", !.phase = "MIGRATING",
                                               !.target = NextNumber]]
  /\ UNCHANGED <<gen, disk, app, facts, restored, wrong>>

Create ==
  /\ In("create") /\ To("migrate")
  /\ gen' = [gen EXCEPT ![cand[sup.c].target] =
               [state |-> "BIRTHING", parent |-> cand[sup.c].base, release |-> sup.c]]
  /\ UNCHANGED <<cand, disk, app, facts, restored, wrong>>

Phase(from, phase, to) ==
  /\ In(from) /\ To(to) /\ cand' = [cand EXCEPT ![sup.c].phase = phase]
  /\ UNCHANGED <<gen, disk, app, facts, restored, wrong>>
Migrate == Phase("migrate", "CANDIDATE_SMOKE", "smoke")

(* The smoke test runs the candidate, which may touch its own files.         *)
Smoke ==
  /\ In("smoke")
  /\ \/ To("smoked") /\ UNCHANGED <<disk, wrong>>
     \/ Mishap /\ To("smoked") /\ disk' = [disk EXCEPT !.dir[sup.c] = "altered"]
  /\ UNCHANGED <<cand, gen, app, facts, restored>>
Smoked == /\ In("smoked") /\ To(IF Intact(sup.c) THEN "switching" ELSE "restore")
          /\ UNCHANGED <<cand, gen, disk, app, facts, restored, wrong>>

Switching == Phase("switching", "SWITCHING", "stop")
Stopped(from, to) ==
  /\ In(from) /\ To(to) /\ app' = [release |-> -1, mode |-> "paused"]
  /\ UNCHANGED <<cand, gen, disk, facts, restored, wrong>>
Linked(from, release, to) ==
  /\ In(from) /\ To(to) /\ disk' = [disk EXCEPT !.link = release]
  /\ UNCHANGED <<cand, gen, app, facts, restored, wrong>>
Pointed(from, generation, to) ==
  /\ In(from) /\ To(to) /\ disk' = [disk EXCEPT !.pointer = generation]
  /\ UNCHANGED <<cand, gen, app, facts, restored, wrong>>
Started(from, to) ==           \* a started server waits for resume()
  /\ In(from) /\ To(to) /\ app' = [release |-> disk.link, mode |-> "paused"]
  /\ UNCHANGED <<cand, gen, disk, facts, restored, wrong>>
Healthy(from, to) ==
  /\ In(from) /\ To(to)
  /\ UNCHANGED <<cand, gen, disk, app, facts, restored, wrong>>
Resumed(from, to) ==           \* refused unless the server's generation is the active one
  /\ In(from) /\ app.release = ActiveRelease
  /\ To(to) /\ app' = [app EXCEPT !.mode = "open"]
  /\ UNCHANGED <<cand, gen, disk, facts, restored, wrong>>

SwitchOver ==
  \/ Switching \/ Stopped("stop", "link") \/ Linked("link", sup.c, "pointer")
  \/ Pointed("pointer", cand[sup.c].target, "starting")
  \/ Phase("starting", "STARTING", "start")
  \/ Started("start", "healthy") \/ Healthy("healthy", "lineage") \/ Resumed("resume", "born")

Lineage ==
  /\ In("lineage") /\ To("resume")
  /\ gen' = [gen EXCEPT ![cand[sup.c].base].state = "RETIRED", ![cand[sup.c].target].state = "ACTIVE"]
  /\ cand' = [cand EXCEPT ![sup.c].proposal = "born"]
  /\ UNCHANGED <<disk, app, facts, restored, wrong>>

Born ==
  /\ In("born") /\ sup' = Away
  /\ cand' = [cand EXCEPT ![sup.c].state = "BORN", ![sup.c].phase = "COMPLETED"]
  /\ UNCHANGED <<gen, disk, app, facts, restored, wrong>>

(* A failure before anything was recorded only closes the candidate.         *)
GiveUp ==
  /\ \/ /\ In("unborn") /\ To("reopen") /\ UNCHANGED app
        /\ cand' = [cand EXCEPT ![sup.c].proposal = "failed"]
     \/ /\ In("reopen") /\ To("closed") /\ UNCHANGED cand
        /\ \/ ~sup.quiet /\ UNCHANGED app
           \/ sup.quiet /\ app.release = ActiveRelease /\ app' = [app EXCEPT !.mode = "open"]
     \/ /\ In("closed") /\ sup' = Away /\ UNCHANGED app
        /\ cand' = [cand EXCEPT ![sup.c].state = "FAILED", ![sup.c].phase = "FAILED"]
  /\ UNCHANGED <<gen, disk, facts, restored, wrong>>

-----------------------------------------------------------------------------
(* restore(): back to the generation the candidate was based on.            *)

Early == cand[sup.c].phase \in {"MIGRATING", "CANDIDATE_SMOKE"}
Previous == cand[sup.c].base
Target == cand[sup.c].target
Failed(state) == [gen EXCEPT ![Target].state = IF @ = "none" THEN @ ELSE state]
Done == IF sup.path = <<>> THEN [sup EXCEPT !.pc = "after"]
        ELSE [sup EXCEPT !.pc = "rollcheck", !.c = Head(sup.path), !.path = Tail(@)]

(* The old release was never stopped: the candidate is only abandoned.       *)
Abandon ==
  /\ \/ /\ In("restore") /\ Early
        /\ IF Active = Previous /\ disk.pointer = Previous
           THEN /\ gen' = Failed("FAILED") /\ To("abandoned")
                /\ cand' = [cand EXCEPT ![sup.c].proposal = "failed"]
           ELSE sup' = Away /\ UNCHANGED <<gen, cand>>
        /\ UNCHANGED app
     \/ /\ In("abandoned") /\ app.release = ActiveRelease /\ To("dropped")
        /\ app' = [app EXCEPT !.mode = "open"] /\ UNCHANGED <<gen, cand>>
     \/ /\ In("dropped") /\ sup' = Done /\ UNCHANGED <<gen, app>>
        /\ cand' = [cand EXCEPT ![sup.c].state = "FAILED", ![sup.c].phase = "RESTORED"]
  /\ UNCHANGED <<disk, facts, restored, wrong>>

RollingBack ==
  /\ In("restore") /\ ~Early /\ To("recheck")
  /\ cand' = [cand EXCEPT ![sup.c].state = "ROLLING_BACK", ![sup.c].phase = "STOPPING"]
  /\ UNCHANGED <<gen, disk, app, facts, restored, wrong>>

RecheckMutant ==           \* what was checked before quiescence is trusted
  /\ In("recheck") /\ To("rstop")
  /\ UNCHANGED <<cand, gen, disk, app, facts, restored, wrong>>
Recheck ==
  /\ In("recheck")
  /\ sup' = IF Carries(gen[Previous].release) THEN [sup EXCEPT !.pc = "rstop"] ELSE Away
  /\ UNCHANGED <<cand, gen, disk, app, facts, restored, wrong>>

(* The Current of the generation left behind is frozen once and kept.        *)
Freeze ==
  /\ In("freeze") /\ To("rlink")
  /\ disk' = [disk EXCEPT !.frozen = @ \cup {Target}]
  /\ UNCHANGED <<cand, gen, app, facts, restored, wrong>>

GoBack ==
  \/ Stopped("rstop", "freeze") \/ Linked("rlink", gen[Previous].release, "rpointer")
  \/ Pointed("rpointer", Previous, "rlineage")
  \/ Started("rstart", "rhealthy") \/ Healthy("rhealthy", "rresume") \/ Resumed("rresume", "restored")

(* The lineage admits one active generation: the transaction fails otherwise. *)
RollLineage ==
  /\ In("rlineage")
  /\ IF Active \in {Previous, Target}
     THEN /\ gen' = [Failed(sup.outcome) EXCEPT ![Previous].state = "ACTIVE"] /\ To("rstart")
          /\ cand' = [cand EXCEPT ![sup.c].proposal = "failed"]
     ELSE sup' = Away /\ UNCHANGED <<gen, cand>>
  /\ UNCHANGED <<disk, app, facts, restored, wrong>>

RestoredMutant ==         \* the process that recovers does not wait for the new server
  /\ In("rlineage") /\ sup' = Done /\ restored' = Previous
  /\ cand' = [cand EXCEPT ![sup.c].state = sup.outcome, ![sup.c].phase = "RESTORED"]
  /\ UNCHANGED <<gen, disk, app, facts, wrong>>
Restored ==
  /\ In("restored") /\ sup' = Done /\ restored' = Previous
  /\ cand' = [cand EXCEPT ![sup.c].state = sup.outcome, ![sup.c].phase = "RESTORED"]
  /\ UNCHANGED <<gen, disk, app, facts, wrong>>

-----------------------------------------------------------------------------
(* Rolling back at the owner's request.                                     *)

Parent(g) == gen[g].parent
Ancestry[g \in 0..Cardinality(Generations)] ==
  IF g = 0 THEN <<>> ELSE <<g>> \o Ancestry[gen[g].parent]
Chain == Ancestry[Active]
Reversible(g) ==
  /\ gen[g].release \in Candidates /\ cand[gen[g].release].state = "BORN"
  /\ cand[gen[g].release].target = g /\ cand[gen[g].release].base = Parent(g)

Rollback(c) ==
  /\ In("idle") /\ cand[c].state = "BORN" /\ cand[c].target = Active
  /\ sup' = [Away EXCEPT !.pc = "rollcheck", !.c = c, !.outcome = "ROLLED_BACK"]
  /\ UNCHANGED <<cand, gen, disk, app, facts, restored, wrong>>

(* The whole path is checked before the first stop.                          *)
RollbackTo(target) ==
  /\ In("idle") /\ Standing /\ app.release = ActiveRelease
  /\ Unfinished \cup Deleting = {} /\ gen[target].state # "FAILED"
  /\ \E n \in 2..Len(Chain) :
       LET steps == [i \in 1..(n - 1) |-> gen[Chain[i]].release] IN
       /\ Chain[n] = target
       /\ \A i \in 1..(n - 1) : /\ Reversible(Chain[i]) /\ Intact(steps[i])
                                /\ Carries(gen[Chain[i + 1]].release)
                                /\ Intact(gen[Chain[i + 1]].release)
       /\ sup' = [Away EXCEPT !.pc = "rollcheck", !.c = Head(steps), !.path = Tail(steps),
                              !.outcome = "ROLLED_BACK"]
  /\ UNCHANGED <<cand, gen, disk, app, facts, restored, wrong>>

RollCheck ==
  /\ In("rollcheck")
  /\ sup' = IF /\ cand[sup.c].state = "BORN" /\ cand[sup.c].target = Active
               /\ Carries(gen[Previous].release)
            THEN [sup EXCEPT !.pc = "rquiesce"] ELSE Away
  /\ UNCHANGED <<cand, gen, disk, app, facts, restored, wrong>>
RollQuiesce ==
  /\ In("rquiesce") /\ app.release # -1 /\ To("restore")
  /\ app' = [app EXCEPT !.mode = "switching"]
  /\ UNCHANGED <<cand, gen, disk, facts, restored, wrong>>

-----------------------------------------------------------------------------
(* Deleting code, and recovering what was interrupted.                       *)

NumberOf(c) == IF cand[c].target # 0 THEN cand[c].target ELSE cand[c].number
CanDeleteMutant(c) ==       \* any release but the one that runs
  restored = Active /\ c # ActiveRelease
CanDelete(c) == restored = Active /\ c # ActiveRelease /\ NumberOf(c) > Active
MayDelete(c) ==
  /\ Standing /\ Unfinished = {}
  /\ \/ cand[c].state \in {"SUBMITTED", "VALIDATED", "APPROVED", "BORN", "ROLLED_BACK", "FAILED"}
     \/ cand[c].state = "DELETING" /\ cand[c].intent = Active
  /\ CanDelete(c)

Delete(c) ==                 \* the intent is durable before the first file goes
  /\ In("idle") /\ MayDelete(c)
  /\ cand' = [cand EXCEPT ![c].state = "DELETING", ![c].intent = Active]
  /\ sup' = [Away EXCEPT !.pc = "remove", !.c = c]
  /\ UNCHANGED <<gen, disk, app, facts, restored, wrong>>
Remove ==
  /\ \/ In("remove") /\ To("removed") /\ UNCHANGED cand
        /\ disk' = [disk EXCEPT !.dir[sup.c] = "gone"]
     \/ In("removed") /\ sup' = Away /\ UNCHANGED disk
        /\ cand' = [cand EXCEPT ![sup.c].state = "DELETED"]
  /\ UNCHANGED <<gen, app, facts, restored, wrong>>

(* Interrupted deletions come first; one that is refused ends recover().     *)
Recover ==
  /\ \/ In("idle") /\ (Deleting \cup Unfinished # {}) /\ sup' = [Away EXCEPT !.pc = "recover"]
        /\ UNCHANGED <<cand, disk>>
     \/ /\ In("recover") /\ Deleting # {}
        /\ IF MayDelete(First(Deleting))
           THEN /\ cand' = [cand EXCEPT ![First(Deleting)].state = "DELETED"]
                /\ disk' = [disk EXCEPT !.dir[First(Deleting)] = "gone"] /\ UNCHANGED sup
           ELSE sup' = Away /\ UNCHANGED <<cand, disk>>
     \/ /\ In("recover") /\ Deleting = {} /\ UNCHANGED <<cand, disk>>
        /\ sup' = IF Unfinished = {} THEN Away
                  ELSE [sup EXCEPT !.pc = "restore", !.c = First(Unfinished)]
     \/ In("after") /\ sup' = Away /\ UNCHANGED <<cand, disk>>
  /\ UNCHANGED <<gen, app, facts, restored, wrong>>

-----------------------------------------------------------------------------
(* Everything that can go wrong, and the company at work.                    *)

BirthAwaits == {"quiesce", "snapshot", "migrate", "smoke", "stop", "link", "start", "healthy", "resume"}
RestoreAwaits == {"abandoned", "rquiesce", "rstop", "freeze", "rlink", "rstart", "rhealthy", "rresume",
                  "reopen", "remove"}
CallFails ==
  /\ Mishap
  /\ \/ sup.pc \in BirthAwaits
        /\ To(IF sup.pc \in {"quiesce", "snapshot"} THEN "unborn" ELSE "restore")
     \/ sup.pc \in RestoreAwaits \cup {"running"} /\ sup' = Away
  /\ UNCHANGED <<cand, gen, disk, app, facts, restored>>
(* A call on a server that is down, or not on the active generation, fails. *)
Refused ==
  /\ \/ sup.pc \in {"running", "abandoned", "rresume"} /\ app.release # ActiveRelease /\ sup' = Away
     \/ In("reopen") /\ sup.quiet /\ app.release # ActiveRelease /\ sup' = Away
     \/ In("rquiesce") /\ app.release = -1 /\ sup' = Away
  /\ UNCHANGED <<cand, gen, disk, app, facts, restored, wrong>>
SupervisorDies ==
  /\ ~In("idle") /\ Mishap /\ sup' = Away
  /\ UNCHANGED <<cand, gen, disk, app, facts, restored>>
Alter(c) ==
  /\ In("idle") /\ disk.dir[c] = "sealed" /\ Mishap
  /\ disk' = [disk EXCEPT !.dir[c] = "altered"]
  /\ UNCHANGED <<cand, gen, app, facts, restored, sup>>

(* The owner can write newer facts unless the server is being switched.      *)
WriteFacts ==
  /\ ~facts /\ app.release \notin Legacy \cup {-1} /\ app.mode # "switching"
  /\ facts' = TRUE
  /\ UNCHANGED <<cand, gen, disk, app, restored, sup, wrong>>

SupNext ==
  \/ \E c \in Candidates : \/ Submit(c) \/ Validate(c) \/ Approve(c) \/ Birth(c)
                           \/ Rollback(c) \/ Delete(c) \/ Alter(c)
  \/ \E g \in Generations : RollbackTo(g)
  \/ CheckRunning \/ Quiesce \/ Snapshot \/ Intent \/ Create \/ Migrate \/ Smoke \/ Smoked
  \/ SwitchOver \/ Lineage \/ Born \/ GiveUp
  \/ Abandon \/ RollingBack \/ Recheck \/ Freeze \/ GoBack \/ RollLineage \/ Restored
  \/ RollCheck \/ RollQuiesce \/ Remove \/ Recover
  \/ CallFails \/ Refused \/ SupervisorDies \/ WriteFacts

-----------------------------------------------------------------------------
(* With nothing unfinished, the pointer, the link and the running server     *)
(* agree with the one active generation: no order of writes, failures and    *)
(* recoveries leaves the lineage naming another release than the one served. *)
RunningIsActive ==
  In("idle") /\ Unfinished = {} =>
    /\ Cardinality({g \in Generations : gen[g].state = "ACTIVE"}) = 1
    /\ Standing /\ app.release = ActiveRelease

(* The code of every ancestor of the active generation is still there, so    *)
(* each of them can be rolled back to; deletion takes newer releases only.   *)
AncestorsKept == \A i \in 1..Len(Chain) : disk.dir[gen[Chain[i]].release] \in {"sealed", "altered"}

(* A rollback the owner asked for never starts a release that cannot carry   *)
(* the facts written meanwhile, though they may appear after the first check. *)
RollbackKeepsFacts ==
  [][In("rstart") /\ sup.outcome = "ROLLED_BACK" /\ app' # app => Carries(disk.link)]_supVars
=============================================================================

-------------------------- MODULE CompanyExecution --------------------------
(***************************************************************************)
(* Execution of tasks: the controller (company database and the single     *)
(* JavaScript thread of OwnerWorkService, CompanyWorkerAdapter and         *)
(* CompanyGoalScheduler), the worker processes it forks, each with a       *)
(* journal of its own, and the owner.                                      *)
(*                                                                         *)
(* A task belongs to a goal of its own, and every retry of it is a new     *)
(* attempt, identified by the task and the fence number.  Code between two *)
(* awaits, and a database transaction, is one action.  Money is the        *)
(* business of CompanyLedger; pauses and task plans are not modelled here. *)
(*                                                                         *)
(* Definitions that nothing else uses are seeded bugs: each, in place of   *)
(* its neighbour, breaks one of the properties.                            *)
(***************************************************************************)
EXTENDS Integers, FiniteSets, FiniteSetsExt, Sequences

CONSTANTS
  Tasks,        \* tasks, each with its own goal
  World,        \* the world (the person's scope) every task runs in
  Stoppable,    \* tasks whose work the owner may stop, or close the goal of
  MaxAttempts,  \* bound: attempts of a task
  MaxLaunches,  \* bound: process launches in all
  MaxRestarts   \* bound: restarts of the controller

ASSUME ExecutionConstants ==
  /\ DOMAIN World = Tasks /\ Stoppable \subseteq Tasks
  /\ MaxAttempts \in Nat /\ MaxLaunches \in Nat /\ MaxRestarts \in Nat

VARIABLES
  (* the company database *)
  attempt,    \* company_execution_attempts: state and lease owner
  launch,     \* company_worker_launches: state and epoch
  permit,     \* owner_run_permits.state, one run per attempt
  task,       \* owner_work_tasks.state
  dispatch,   \* owner_goal_dispatches.state
  goal,       \* owner_goals.status
  reviewed,   \* attempts whose unknown outcome the owner has dealt with
  on,         \* owner_automation_control.desired_mode
  (* the controller process *)
  inc,        \* which controller process this is: the lease owner it writes
  live,       \* CompanyWorkerAdapter.live
  queue,      \* messages from each live child that are not handled yet
  doing,      \* the launch the tick is in the middle of
  fault,      \* ticking stopped after an exception
  (* the workers *)
  procs,      \* worker processes that exist
  journal     \* what each attempt's journal says about its outcome

company == <<attempt, launch, permit, task, dispatch, goal, reviewed, on>>
controller == <<inc, live, queue, doing, fault>>
workers == <<procs, journal>>
vars == <<company, controller, workers>>

Ids == Tasks \X (1..MaxAttempts)

ActiveStates == {"DISPATCH_PENDING", "RUNNING", "SUSPENDED"}
TerminalStates == {"COMPLETED", "FAILED", "BLOCKED", "INTERRUPTED"}
ClaimStates == {"DISPATCH_PENDING", "RUNNING"}

(***************************************************************************)
(* What a journal proves.  "empty": nothing left the process; "suspended": *)
(* a checkpoint to go on from; "unknown": a model call, or a tool of the   *)
(* controller, was started and has no receipt; "lookup": the same of a     *)
(* tool the worker runs itself, which only fetches (webfetch, github_repo),*)
(* so no row of the company tells of it; "failed" stands for every known   *)
(* reason to stop.  A worker that ends by itself has no open lookup.       *)
(***************************************************************************)
JournalStates == {"empty", "suspended", "unknown", "lookup", "failed", "completed"}
Outcomes == JournalStates \ {"empty", "lookup"}

(* FAILED stands for failed, or blocked for a known reason; BLOCKED for a   *)
(* blocked attempt whose call or tool outcome is unknown.                   *)
StateOf == [empty |-> "FAILED", suspended |-> "SUSPENDED", unknown |-> "BLOCKED",
            lookup |-> "BLOCKED", failed |-> "FAILED", completed |-> "COMPLETED"]

Process(id, epoch) == [id |-> id, epoch |-> epoch, conn |-> TRUE, phase |-> "boot"]
ProcessType == [id : Ids, epoch : Nat, conn : BOOLEAN,
                phase : {"boot", "work", "done"}]

Idle == [what |-> "idle", id |-> <<>>]
Doing(what, id) == [what |-> what, id |-> id]

(* Every row keeps to the states of its table, leases and epochs to their    *)
(* bounds, and the tick is in at most one launch (schema of the company      *)
(* database, CompanyWorkerAdapter).                                          *)
TypeOK ==
  /\ attempt \in [Ids -> [state : {"none"} \cup ActiveStates \cup TerminalStates,
                          lease : 0..MaxRestarts]]
  /\ launch \in [Ids -> [state : {"none", "READY", "STARTING", "RUNNING",
                                  "SUSPENDED", "EXITED"},
                         epoch : Nat]]
  /\ permit \in [Ids -> {"none", "PREPARING", "ACTIVE", "SUSPENDED", "FINISHED"}]
  /\ task \in [Tasks -> {"none", "QUEUED", "RUNNING", "REPLIED", "BLOCKED", "STOPPED"}]
  /\ dispatch \in [Tasks -> {"none", "ACTIVE", "FINISHED", "CANCELLED"}]
  /\ goal \in [Tasks -> {"OPEN", "BLOCKED", "HALTED", "AWAITING", "CLOSED"}]
  /\ reviewed \subseteq Ids
  /\ on \in BOOLEAN
  /\ inc \in 0..MaxRestarts
  /\ live \subseteq Ids
  /\ queue \in [Ids -> Seq({"ready"} \cup Outcomes)]
  /\ doing \in {Idle} \cup [what : {"checking", "starting", "forking"}, id : Ids]
  /\ fault \in {"none", "work", "both"}
  /\ procs \subseteq ProcessType
  /\ journal \in [Ids -> JournalStates]

-----------------------------------------------------------------------------
Active(id) == attempt[id].state \in ActiveStates
Terminal(id) == attempt[id].state \in TerminalStates
Alive(id) == \E p \in procs : p.id = id

(* forTask(): the attempt with the highest fence, if there is one. *)
Fence(t) == Cardinality({n \in 1..MaxAttempts : attempt[<<t, n>>].state # "none"})
Started(t) == Fence(t) > 0
Latest(t) == <<t, Fence(t)>>

SameWorld(t) == {u \in Tasks : World[u] = World[t]}
IdsOf(ts) == {id \in Ids : id[1] \in ts}

(* The unique indexes on attempts: nobody else holds the world's claim. *)
WorldClear(id) == \A other \in IdsOf(SameWorld(id[1])) \ {id} :
                    attempt[other].state \notin ClaimStates

MayLaunch == MapThenSumSet(LAMBDA id : launch[id].epoch, Ids) < MaxLaunches

(* The thread is free for a handler; "checking" awaits the pid probe. *)
Free == doing.what \in {"idle", "checking"}
(* A step of the work tick, and one of the scheduler around it, can be taken. *)
WorkTick == doing.what = "idle" /\ fault = "none"
SchedulerTick == doing.what = "idle" /\ fault # "both"

(* OwnerAutomationGate.isOn(), apart from the money. *)
IsOn == on /\ fault # "both"

Disconnected(ids) == {IF p.id \in ids THEN [p EXCEPT !.conn = FALSE] ELSE p : p \in procs}

Init ==
  /\ attempt = [id \in Ids |-> [state |-> "none", lease |-> 0]]
  /\ launch = [id \in Ids |-> [state |-> "none", epoch |-> 0]]
  /\ permit = [id \in Ids |-> "none"]
  /\ task = [t \in Tasks |-> "none"]
  /\ dispatch = [t \in Tasks |-> "none"]
  /\ goal = [t \in Tasks |-> "OPEN"]
  /\ reviewed = {}
  /\ on = TRUE
  /\ inc = 0
  /\ live = {}
  /\ queue = [id \in Ids |-> <<>>]
  /\ doing = Idle
  /\ fault = "none"
  /\ procs = {}
  /\ journal = [id \in Ids |-> "empty"]

-----------------------------------------------------------------------------
(* Receipts. *)

(* applyContiguous(): the attempt, its task and its goal in one transaction. *)
ApplyToTask(id, state) ==
  /\ task' = [task EXCEPT ![id[1]] = CASE state = "RUNNING" -> "RUNNING"
                                       [] state = "COMPLETED" -> "REPLIED"
                                       [] OTHER -> "BLOCKED"]
  /\ goal' = [goal EXCEPT ![id[1]] = IF @ = "OPEN" /\ state \notin {"RUNNING", "COMPLETED"}
                                     THEN "BLOCKED" ELSE @]

Apply(id, state) ==
  /\ attempt' = [attempt EXCEPT ![id] = [state |-> state, lease |-> inc]]
  /\ ApplyToTask(id, state)

(* observe(): a fact about an attempt that is over, or whose lease another  *)
(* controller holds, is dropped.                                            *)
ObservableByLease(id) == attempt[id].lease = inc
Observable(id) == Active(id) /\ attempt[id].lease = inc

Observe(id, state) ==
  IF Observable(id) THEN Apply(id, state) ELSE UNCHANGED <<attempt, task, goal>>

(* Interrupting a possibly absent attempt, leaving task and goal alone. *)
Interrupted(t) ==
  IF Started(t) /\ Observable(Latest(t))
  THEN [attempt EXCEPT ![Latest(t)].state = "INTERRUPTED"] ELSE attempt

(***************************************************************************)
(* recover(): with the process proved dead, take over the lease, replay    *)
(* the journal, and let the launch and the run follow the attempt.  A stop *)
(* that was observed for this epoch has its event id: it is not applied    *)
(* again.                                                                  *)
(***************************************************************************)
FollowLiterally(id, state) ==
  /\ launch' = [launch EXCEPT ![id].state = state]
  /\ permit' = [permit EXCEPT ![id] = "FINISHED"]

Follow(id, state) ==
  LET suspended == state = "SUSPENDED" IN
  /\ launch' = [launch EXCEPT ![id].state = IF suspended THEN "SUSPENDED" ELSE "EXITED"]
  /\ permit' = [permit EXCEPT ![id] = IF suspended THEN "SUSPENDED" ELSE "FINISHED"]

Adopted(id) ==
  /\ attempt' = [attempt EXCEPT ![id].lease = IF Active(id) THEN inc ELSE @]
  /\ UNCHANGED <<task, goal>>

RecoverTerminal(id) ==
  /\ IF launch[id].state # "SUSPENDED" THEN Apply(id, StateOf[journal[id]]) ELSE Adopted(id)
  /\ Follow(id, attempt'[id].state)

RecoverWithoutAdoption(id) ==
  /\ IF Observable(id) /\ launch[id].state # "SUSPENDED"
     THEN Apply(id, StateOf[journal[id]]) ELSE UNCHANGED <<attempt, task, goal>>
  /\ Follow(id, attempt'[id].state)

Recover(id) ==
  /\ IF Active(id) /\ launch[id].state # "SUSPENDED"
     THEN Apply(id, StateOf[journal[id]]) ELSE Adopted(id)
  /\ Follow(id, attempt'[id].state)

-----------------------------------------------------------------------------
(* The tick of OwnerWorkService and CompanyGoalScheduler.  Every step reads  *)
(* the database again, so the steps are not ordered.                        *)

(* CompanyGoalScheduler.tick(), eligible goals, with its dispatch(). *)
Dispatch(t) ==
  /\ SchedulerTick /\ IsOn
  /\ goal[t] = "OPEN" /\ dispatch[t] = "none"
  /\ \A u \in SameWorld(t) : dispatch[u] # "ACTIVE"
  /\ \A id \in IdsOf(SameWorld(t)) : attempt[id].state \notin ClaimStates
  /\ dispatch' = [dispatch EXCEPT ![t] = "ACTIVE"]
  /\ task' = [task EXCEPT ![t] = "QUEUED"]
  /\ UNCHANGED <<attempt, launch, permit, goal, reviewed, on, controller, workers>>

(* The next attempt of a task: claim(), reserveRun() and create(). *)
Claimed(t) == <<t, Fence(t) + 1>>

MayClaim(t) ==
  /\ Fence(t) < MaxAttempts
  /\ MayLaunch
  /\ task[t] = "QUEUED" /\ dispatch[t] = "ACTIVE" /\ goal[t] = "OPEN"
  /\ Started(t) => ~Active(Latest(t))

WorldUnclaimed(t) ==
  \A id \in IdsOf(SameWorld(t)) :
     /\ attempt[id].state \notin ClaimStates
     /\ permit[id] \notin {"ACTIVE", "PREPARING"}

NewAttempt(id) ==
  /\ attempt' = [attempt EXCEPT ![id] = [state |-> "DISPATCH_PENDING", lease |-> inc]]
  /\ launch' = [launch EXCEPT ![id].state = "READY"]
  /\ permit' = [permit EXCEPT ![id] = "PREPARING"]
  /\ doing' = Doing("starting", id)
  /\ UNCHANGED <<task, dispatch, goal, reviewed, on, inc, live, queue, fault, workers>>

ClaimBusyWorld(t) == WorkTick /\ IsOn /\ MayClaim(t) /\ NewAttempt(Claimed(t))

Claim(t) ==
  /\ WorkTick /\ IsOn
  /\ MayClaim(t)
  /\ WorldUnclaimed(t)
  /\ NewAttempt(Claimed(t))

(* runWorkerTick(), the resume loop: the choice of an attempt to go on with. *)
(* start() awaits the pid probe of an attempt that has had a process.       *)
Resume(id) ==
  /\ WorkTick /\ on
  /\ attempt[id].state \in {"SUSPENDED", "DISPATCH_PENDING"}
  /\ launch[id].state \in {"READY", "SUSPENDED"}
  /\ id \notin live /\ ~Alive(id)
  /\ goal[id[1]] # "CLOSED"
  /\ WorldClear(id)
  /\ MayLaunch
  /\ doing' = Doing(IF launch[id].state = "READY" THEN "starting" ELSE "checking", id)
  /\ UNCHANGED <<company, inc, live, queue, fault, workers>>

(* start() after the probe: a goal that waits for this very attempt is       *)
(* opened again, then assertWorkerIntent() looks at the goal and the attempt. *)
Reopens(id) == goal[id[1]] = "BLOCKED" /\ attempt[id].state = "SUSPENDED"
Intended(id) == /\ goal[id[1]] = "OPEN" \/ Reopens(id)
                /\ Active(id)
                /\ launch[id].state \in {"READY", "SUSPENDED"}

Launch(id) ==
  /\ doing \in {Doing("checking", id), Doing("starting", id)}
  /\ on /\ Intended(id)
  /\ launch' = [launch EXCEPT ![id] = [state |-> "STARTING", epoch |-> @.epoch + 1]]
  /\ attempt' = [attempt EXCEPT ![id].lease = inc]
  /\ goal' = [goal EXCEPT ![id[1]] = "OPEN"]
  /\ doing' = Doing("forking", id)
  /\ UNCHANGED <<permit, task, dispatch, reviewed, on, inc, live, queue, fault, workers>>

(* OWNER_AUTOMATION_OFF is expected, and caught by the loop. *)
GiveUp(id) ==
  /\ doing \in {Doing("checking", id), Doing("starting", id)} /\ ~on
  /\ doing' = Idle
  /\ UNCHANGED <<company, inc, live, queue, fault, workers>>

(* OWNER_GOAL_PERMISSION_CHANGED and OWNER_ATTEMPT_STALE are not: the tick    *)
(* rejects and its timer is cleared.  The scheduler stops too, and blocks    *)
(* admission, when it was the one that waited for this tick.                 *)
TickFails(id) ==
  /\ doing \in {Doing("checking", id), Doing("starting", id)}
  /\ on /\ ~Intended(id)
  /\ doing' = Idle
  /\ fault' \in {"work", "both"}
  /\ UNCHANGED <<company, inc, live, queue, workers>>

(* fork() to the end of start(). *)
Fork(id) ==
  /\ doing = Doing("forking", id)
  /\ procs' = procs \cup {Process(id, launch[id].epoch)}
  /\ live' = live \cup {id}
  /\ queue' = [queue EXCEPT ![id] = <<>>]
  /\ doing' = Idle
  /\ UNCHANGED <<company, inc, fault, journal>>

(* poll(): a launch that nobody holds on to is recovered once its process is *)
(* gone.                                                                    *)
PollWithoutProbe(id) ==
  /\ WorkTick
  /\ id \notin live
  /\ launch[id].state \notin {"none", "READY", "EXITED"}
  /\ Recover(id)
  /\ UNCHANGED <<dispatch, reviewed, on, controller, workers>>

PollSkippingSuspended(id) ==
  /\ WorkTick
  /\ id \notin live
  /\ launch[id].state \in {"STARTING", "RUNNING"}
  /\ ~Alive(id)
  /\ Recover(id)
  /\ UNCHANGED <<dispatch, reviewed, on, controller, workers>>

Poll(id) ==
  /\ WorkTick
  /\ id \notin live
  /\ launch[id].state \notin {"none", "READY", "EXITED"}
  /\ ~Alive(id)
  /\ Recover(id)
  /\ UNCHANGED <<dispatch, reviewed, on, controller, workers>>

(* runWorkerTick(): a worker whose goal was closed, or the company turned   *)
(* OFF, loses its connection.                                               *)
DisconnectStale(id) ==
  /\ WorkTick
  /\ id \in live /\ \E p \in procs : p.id = id /\ p.conn
  /\ ~on \/ goal[id[1]] = "CLOSED"
  /\ procs' = Disconnected({id})
  /\ UNCHANGED <<company, controller, journal>>

(* CompanyGoalScheduler.tick(), a dispatch whose goal was closed. *)
ConvergeClosed(t) ==
  /\ SchedulerTick
  /\ dispatch[t] = "ACTIVE" /\ goal[t] = "CLOSED"
  /\ ~(Started(t) /\ Latest(t) \in live)
  /\ attempt' = Interrupted(t)
  /\ task' = [task EXCEPT ![t] = IF attempt' # attempt THEN "BLOCKED" ELSE @]
  /\ dispatch' = [dispatch EXCEPT ![t] = "CANCELLED"]
  /\ UNCHANGED <<launch, permit, goal, reviewed, on, controller, workers>>

(* ...and one whose attempt is over.  A retry that is QUEUED is no such one. *)
ConvergeCompleted(t) ==
  /\ SchedulerTick
  /\ dispatch[t] = "ACTIVE" /\ goal[t] # "CLOSED"
  /\ Started(t) /\ attempt[Latest(t)].state = "COMPLETED"
  /\ dispatch' = [dispatch EXCEPT ![t] = "FINISHED"]
  /\ goal' = [goal EXCEPT ![t] = "AWAITING"]
  /\ UNCHANGED <<attempt, launch, permit, task, reviewed, on, controller, workers>>

ConvergeTerminal(t) ==
  /\ SchedulerTick
  /\ dispatch[t] = "ACTIVE" /\ goal[t] # "CLOSED"
  /\ Started(t) /\ Terminal(Latest(t))
  /\ task[t] = "QUEUED" => attempt[Latest(t)].state = "COMPLETED"
  /\ dispatch' = [dispatch EXCEPT ![t] = "FINISHED"]
  /\ goal' = [goal EXCEPT ![t] = IF attempt[Latest(t)].state = "COMPLETED"
                                 THEN "AWAITING" ELSE "BLOCKED"]
  /\ UNCHANGED <<attempt, launch, permit, task, reviewed, on, controller, workers>>

-----------------------------------------------------------------------------
(* Messages and exits of live children. *)

(* 'ready': the launch runs, then the attempt is observed as started.  If    *)
(* the world's claim was taken meanwhile, the unique index refuses the       *)
(* update, the exception ends the handler and the worker goes on.            *)
HandleReadyUnchecked(id) ==
  /\ launch' = [launch EXCEPT ![id].state = "RUNNING"]
  /\ Observe(id, "RUNNING")
  /\ permit' = [permit EXCEPT ![id] = "ACTIVE"]

HandleReady(id) ==
  /\ launch' = [launch EXCEPT ![id].state = "RUNNING"]
  /\ IF Observable(id) /\ ~WorldClear(id)
     THEN UNCHANGED <<attempt, task, goal, permit>>
     ELSE /\ Observe(id, "RUNNING")
          /\ permit' = [permit EXCEPT ![id] = "ACTIVE"]

Handle(id) ==
  /\ Free /\ id \in live /\ queue[id] # <<>>
  /\ IF Head(queue[id]) = "ready"
     THEN HandleReady(id)
     ELSE /\ Observe(id, StateOf[Head(queue[id])])
          /\ UNCHANGED <<launch, permit>>
  /\ queue' = [queue EXCEPT ![id] = Tail(@)]
  /\ UNCHANGED <<dispatch, reviewed, on, inc, live, doing, fault, workers>>

(* The exit handler waits for the queue, then recovers. *)
ExitHandler(id) ==
  /\ Free /\ id \in live /\ queue[id] = <<>> /\ ~Alive(id)
  /\ Recover(id)
  /\ live' = live \ {id}
  /\ UNCHANGED <<dispatch, reviewed, on, inc, queue, doing, fault, workers>>

-----------------------------------------------------------------------------
(* The worker process. *)

Send(p, message) ==
  queue' = IF p.conn THEN [queue EXCEPT ![p.id] = Append(@, message)] ELSE queue

(* The lock is taken and 'ready' sent. *)
Boot(p) ==
  /\ p.phase = "boot"
  /\ procs' = (procs \ {p}) \cup {[p EXCEPT !.phase = "work"]}
  /\ Send(p, "ready")
  /\ UNCHANGED <<company, inc, live, doing, fault, journal>>

(* Only the controller's grant lets a call leave: it came after 'ready', or  *)
(* during an earlier launch.                                                *)
MayHaveCalled(p) == launch[p.id].state = "RUNNING" \/ p.epoch > 1

(* executeCompanyWorker() to its end: the outcome is in the journal before   *)
(* it is reported; a suspension is only ever read by recover().              *)
Decide(p, outcome) ==
  /\ p.phase = "work"
  /\ outcome \in {"completed", "unknown"} => MayHaveCalled(p)
  /\ journal' = [journal EXCEPT ![p.id] = outcome]
  /\ procs' = (procs \ {p}) \cup {[p EXCEPT !.phase = "done"]}
  /\ IF outcome = "suspended" THEN UNCHANGED queue ELSE Send(p, outcome)
  /\ UNCHANGED <<company, inc, live, doing, fault>>

Exit(p) ==
  /\ p.phase = "done"
  /\ procs' = procs \ {p}
  /\ UNCHANGED <<company, controller, journal>>

(* A worker is killed: its journal is at a checkpoint, or in mid call. *)
Kill(p) ==
  /\ p.phase # "done"
  /\ \E left \in {journal[p.id]} \cup
                 (IF p.phase = "boot" THEN {} ELSE {"suspended"}) \cup
                 (IF p.phase = "work" /\ MayHaveCalled(p) THEN {"unknown", "lookup"} ELSE {}) :
       journal' = [journal EXCEPT ![p.id] = left]
  /\ procs' = procs \ {p}
  /\ UNCHANGED <<company, controller>>

-----------------------------------------------------------------------------
(* The owner, through CompanyAttentionService, CompanyRecoveryService,       *)
(* OwnerGoalService and OwnerAutomationGate.                                 *)

(* stopTask() *)
MayStopReplied(t) == task[t] # "STOPPED"
MayStop(t) == task[t] \notin {"REPLIED", "STOPPED"}

StopTask(t) ==
  /\ Free /\ t \in Stoppable
  /\ dispatch[t] # "none" /\ goal[t] # "CLOSED"
  /\ MayStop(t)
  /\ procs' = IF Started(t) /\ Active(Latest(t)) /\ Latest(t) \in live
              THEN Disconnected({Latest(t)}) ELSE procs
  /\ attempt' = Interrupted(t)
  /\ task' = [task EXCEPT ![t] = "STOPPED"]
  /\ dispatch' = [dispatch EXCEPT ![t] = "FINISHED"]
  /\ goal' = [goal EXCEPT ![t] = "HALTED"]
  /\ UNCHANGED <<launch, permit, reviewed, on, controller, journal>>

(* actions(): REWORK_TASK, of which RETRY_TASK is a special case. *)
ExitedUnlessLive(id) == id \notin live
Exited(id) == id \notin live /\ launch[id].state \in {"READY", "EXITED"}

(* hasPendingOutcome(): a call or tool that nobody knows the outcome of.  It  *)
(* looks at the rows of permits, of the controller's tools and of attempts    *)
(* with such a reason: an open lookup shows in the last of them only, and not *)
(* when the owner's stop ended the attempt before its journal was read.       *)
SettledIfBlocked(id) == attempt[id].state = "BLOCKED" => id \in reviewed
Settled(id) ==
  \/ id \in reviewed
  \/ journal[id] # "unknown" /\ ~(journal[id] = "lookup" /\ attempt[id].state = "BLOCKED")

Requeue(t) ==
  /\ task' = [task EXCEPT ![t] = "QUEUED"]
  /\ dispatch' = [dispatch EXCEPT ![t] = "ACTIVE"]
  /\ goal' = [goal EXCEPT ![t] = "OPEN"]
  /\ UNCHANGED <<attempt, launch, permit, reviewed, on, controller, workers>>

Retry(t) ==
  /\ Free /\ goal[t] # "CLOSED"
  /\ task[t] \in {"BLOCKED", "STOPPED"}
  /\ Started(t) /\ Terminal(Latest(t)) /\ Exited(Latest(t))
  /\ Settled(Latest(t))
  /\ Requeue(t)

(* abandon(): the owner takes an unknown outcome on himself. *)
Abandon(t) ==
  /\ Free
  /\ Started(t) /\ attempt[Latest(t)].state = "BLOCKED" /\ Latest(t) \notin reviewed
  /\ Latest(t) \notin live /\ ~Alive(Latest(t))
  /\ reviewed' = reviewed \cup {Latest(t)}
  /\ Recover(Latest(t))
  /\ UNCHANGED <<dispatch, on, controller, workers>>

(* reconcileCall(): the bill of a call that an interrupted attempt left.     *)
Reconcile(t) ==
  /\ Free
  /\ Started(t) /\ attempt[Latest(t)].state = "INTERRUPTED" /\ Exited(Latest(t))
  /\ ~Settled(Latest(t))
  /\ reviewed' = reviewed \cup {Latest(t)}
  /\ UNCHANGED <<attempt, launch, permit, task, dispatch, goal, on, controller, workers>>

(* action(): stop or archive the goal. *)
CloseGoal(t) ==
  /\ Free /\ t \in Stoppable
  /\ dispatch[t] # "none" /\ goal[t] # "CLOSED"
  /\ goal' = [goal EXCEPT ![t] = "CLOSED"]
  /\ UNCHANGED <<attempt, launch, permit, task, dispatch, reviewed, on, controller, workers>>

(* control() *)
SwitchOff ==
  /\ Free /\ on
  /\ on' = FALSE
  /\ procs' = Disconnected(live)
  /\ UNCHANGED <<attempt, launch, permit, task, dispatch, goal, reviewed, controller, journal>>

SwitchOn ==
  /\ Free /\ ~on /\ fault # "both"
  /\ \A id \in live : permit[id] # "ACTIVE"
  /\ on' = TRUE
  /\ UNCHANGED <<attempt, launch, permit, task, dispatch, goal, reviewed, controller, workers>>

(* The controller dies at any point of its thread and another one starts.    *)
(* Workers survive it and notice only that the connection is gone.           *)
Restart ==
  /\ inc < MaxRestarts
  /\ inc' = inc + 1
  /\ live' = {}
  /\ queue' = [id \in Ids |-> <<>>]
  /\ doing' = Idle
  /\ fault' = "none"
  /\ procs' = {[p EXCEPT !.conn = FALSE] : p \in procs}
  /\ UNCHANGED <<company, journal>>

-----------------------------------------------------------------------------
Start(id) == Launch(id) \/ Fork(id) \/ GiveUp(id) \/ TickFails(id)
Converge(t) == ConvergeClosed(t) \/ ConvergeTerminal(t)
Progress(p) == Boot(p) \/ Exit(p) \/ \E outcome \in Outcomes : Decide(p, outcome)
Owner(t) == StopTask(t) \/ Retry(t) \/ Abandon(t) \/ Reconcile(t) \/ CloseGoal(t)

Next ==
  \/ \E t \in Tasks : Dispatch(t) \/ Claim(t) \/ Converge(t) \/ Owner(t)
  \/ \E id \in Ids : \/ Resume(id) \/ Start(id) \/ Poll(id) \/ DisconnectStale(id)
                     \/ Handle(id) \/ ExitHandler(id)
  \/ \E p \in procs : Progress(p) \/ Kill(p)
  \/ SwitchOff \/ SwitchOn
  \/ Restart

Spec == Init /\ [][Next]_vars

(***************************************************************************)
(* Fairness.  The tick runs every second and handles every row; a message  *)
(* and an exit are events of the runtime; a worker ends because its steps  *)
(* are bounded and its calls time out.  Kills, restarts and the owner are  *)
(* not fair.                                                               *)
(***************************************************************************)
Fairness ==
  /\ \A t \in Tasks : WF_vars(Claim(t)) /\ WF_vars(Converge(t))
  /\ \A id \in Ids : /\ WF_vars(Start(id)) /\ WF_vars(Handle(id))
                     /\ WF_vars(ExitHandler(id)) /\ WF_vars(Poll(id))
                     /\ WF_vars(DisconnectStale(id))
                     /\ WF_vars(\E p \in procs : p.id = id /\ Progress(p))

FairSpec == Spec /\ Fairness

-----------------------------------------------------------------------------
(* Two processes never work on one task: not the attempt that a retry       *)
(* replaced and its successor, nor two launches of an attempt, also when a  *)
(* controller died between forking a worker and hearing from it (claim(),   *)
(* start(), recover()).                                                     *)
OneProcessPerTask == \A p, q \in procs : p.id[1] = q.id[1] => p = q

(* Every worker that exists is accounted for: its launch is open, in the    *)
(* epoch of that very process, so poll() or the exit handler will come back *)
(* for it (recover(), abandon()).                                           *)
Supervised ==
  \A p \in procs : /\ launch[p.id].state \in {"STARTING", "RUNNING"}
                   /\ launch[p.id].epoch = p.epoch

(* A task is REPLIED exactly when its last attempt is COMPLETED, and that is *)
(* what the journal of this attempt says: no stop, retry, restart or late    *)
(* message sets the two apart (applyContiguous(), stopTask()).               *)
RepliesAreResults ==
  /\ \A t \in Tasks : task[t] = "REPLIED" <=>
       Started(t) /\ attempt[Latest(t)].state = "COMPLETED"
  /\ \A id \in Ids : attempt[id].state = "COMPLETED" => journal[id] = "completed"

(* An attempt that left a call or tool with an unknown outcome is not        *)
(* followed by another before the owner has dealt with that outcome          *)
(* (queueRetry(), hasPendingOutcome()).  The one exception is a lookup, which *)
(* fetches and changes nothing, of an attempt that the owner's own stop       *)
(* interrupted.                                                              *)
NoReplayUnreviewed ==
  \A id \in Ids :
    id[2] < Fence(id[1]) /\ journal[id] \in {"unknown", "lookup"} =>
      id \in reviewed \/ (journal[id] = "lookup" /\ attempt[id].state = "INTERRUPTED")

(* Two attempts never hold the claim of one world, whatever the order of     *)
(* retries, resumptions and restarts (company_worker_claim).                 *)
OneClaimPerWorld ==
  \A id \in Ids : attempt[id].state \in ClaimStates => WorldClear(id)

OverStaysOver == \A id \in Ids : Terminal(id) => attempt'[id].state = attempt[id].state

(* A terminal result is immutable: late messages, a replayed journal and a   *)
(* restart of the controller cannot turn one into another.                   *)
ResultsAreFinal == [][OverStaysOver]_vars

StopsStand == \A t \in Tasks : task[t] = "STOPPED" => task'[t] \in {"STOPPED", "QUEUED"}

(* Under one controller a stopped task comes back by a retry only: no late   *)
(* message and no recovery of the stopped worker brings it back.             *)
StoppedUntilRetried == [][inc = 0 => StopsStand]_vars

(* A running attempt ends or is suspended, whoever dies: an orphan of an     *)
(* earlier controller is found by poll(), unless ticking has failed.         *)
WorkersConverge ==
  \A id \in Ids : attempt[id].state = "RUNNING" ~> attempt[id].state # "RUNNING" \/ fault # "none"

(* The dispatch of an attempt that is over is finished, so that the world is *)
(* free for other goals, or the task is queued again.                        *)
DispatchesConverge ==
  \A t \in Tasks :
    dispatch[t] = "ACTIVE" /\ Started(t) /\ Terminal(Latest(t)) /\ task[t] # "QUEUED"
      ~> dispatch[t] # "ACTIVE" \/ task[t] = "QUEUED" \/ fault = "both"

(* Under one controller a stopped task becomes open to rework: its worker    *)
(* goes and its launch is closed, also when it was suspended, unless ticking *)
(* has failed (actions(), poll()).                                           *)
Reworkable(t) == Started(t) => Terminal(Latest(t)) /\ Exited(Latest(t))

StoppedIsReworkable ==
  \A t \in Tasks :
    task[t] = "STOPPED" ~> task[t] # "STOPPED" \/ Reworkable(t) \/ inc > 0 \/ fault # "none"

(* The attempts at a task, as the abstract specification sees them: claims,  *)
(* launches, processes and journals implement one begin and one end each.    *)
Attempts == INSTANCE TaskAttempts
  WITH fence <- [t \in Tasks |-> Fence(t)],
       working <- [t \in Tasks |-> Started(t) /\ Active(Latest(t))]

AttemptsSpec == Attempts!Spec

-----------------------------------------------------------------------------
(***************************************************************************)
(* What the documents of the repository say and the code does not do: each *)
(* of the following is violated, by the run that names it.                 *)
(***************************************************************************)

(* V35_STATE_AUTHORITY.md, section 4: the indexes reject a double dispatch.  *)
(* But a SUSPENDED attempt that is being resumed holds no claim until its    *)
(* worker says 'ready', so another task of that world can be claimed.        *)
OneWorkerPerWorld ==
  \A p, q \in procs :
    /\ World[p.id[1]] = World[q.id[1]]
    /\ p.phase = "work" /\ p.conn
    /\ q.phase = "work" /\ q.conn
    => p = q

(* V35_EVENT_ACTION_CONTRACT.md, STOP_TASK: the attempt becomes INTERRUPTED. *)
(* But observe() drops the interruption of an attempt whose lease an earlier *)
(* controller holds, and the attempt lives on.                               *)
StopInterrupts ==
  \A t \in Tasks : task[t] = "STOPPED" /\ Started(t) => Terminal(Latest(t))

(* The same: stopping a task leaves other goals alone.  But resuming such an *)
(* attempt finds its goal halted, and the exception ends all scheduling.     *)
StopSparesScheduling == fault # "both"

(* V35_STATE_AUTHORITY.md, section 3: what a goal does on its own does not   *)
(* affect others.  But an attempt that an earlier controller claimed and did *)
(* not launch outlives its cancelled dispatch and keeps the world's claim.   *)
ClosedGoalFreesWorld ==
  \A t \in Tasks : dispatch[t] = "CANCELLED" ~>
                    (Started(t) => attempt[Latest(t)].state \notin ClaimStates)

=============================================================================

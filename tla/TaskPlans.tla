----------------------------- MODULE TaskPlans -----------------------------
(***************************************************************************)
(* A goal carried out by an approved plan of steps.  The scheduler claims   *)
(* the step that is due, the worker's attempt ends, its result is checked   *)
(* against the step's requirements, and when no step can go on the owner is *)
(* asked to accept the whole result.  Meanwhile the owner stops, retries,   *)
(* reworks, continues and skips steps, extends limits and changes what is   *)
(* required.                                                                *)
(*                                                                         *)
(* Steps run once: recurring schedules, recruitment waits and unknown       *)
(* outcomes are not here.  The steps of one goal share one allowance of     *)
(* time and calls ("scope"); each has a root gap that counts its attempts.  *)
(***************************************************************************)
EXTENDS Integers, Sequences, FiniteSets

CONSTANTS
  Nodes,           \* the steps of the plan
  DependsOn,       \* the steps each one needs
  Checked,         \* the steps with requirements of their own
  GapAttempts,     \* attempts at a missing fact before it is given up
  MaxDispatches,   \* bound: dispatches
  MaxOwner         \* bound: the owner's commands

PlanConstants ==
  /\ DependsOn \in [Nodes -> SUBSET Nodes] /\ Checked \subseteq Nodes
  /\ {GapAttempts, MaxDispatches, MaxOwner} \subseteq Nat \ {0}

VARIABLES
  goal,      \* its status, and whether money is why it is blocked
  plan,      \* its revision, whether it is approved, what each step may lack, and the
             \* state of the steps that the owner is asked to approve it with
  node,      \* owner_task_nodes: the state, and whether a result was delivered
  job,       \* owner_goal_dispatches, each with its task, attempt and occurrence
  gap,       \* per step: the results of the attempts, their limit, what is missing
  scope,     \* the automatic window: "fresh", "running", "spent"
  proof,     \* the evidence: artifacts and reports
  closing,   \* the proposals to close the goal
  sending,   \* the dispatch CompanyGoalScheduler.dispatch() waits for, or 0
  halted,    \* history: steps the owner stopped and has not let go on since
  asked      \* the owner's commands so far

planVars == <<goal, plan, node, job, gap, scope, proof, closing, sending, halted, asked>>

Closed == {"STOPPED", "ARCHIVED", "COMPLETED", "PARTIALLY_COMPLETED"}
Results == {"empty", "poor", "part", "full"}   \* "part" reaches passPercent, "poor" does not
Unavailable == {"BLOCKED", "PARTIAL", "DEFERRED", "SKIPPED", "COMPLETED"}

PlanInit ==
  /\ goal = [status |-> "READY", why |-> ""]
  /\ node = [n \in Nodes |-> [state |-> "WAITING", delivered |-> FALSE]]
  /\ plan = [revision |-> 1, approved |-> TRUE, lacks |-> [n \in Nodes |-> {}], shown |-> node]
  /\ job = <<>>
  /\ gap = [n \in Nodes |-> [tries |-> <<>>, limit |-> GapAttempts, root |-> "none", facts |-> "none"]]
  /\ scope = "fresh" /\ proof = [files |-> 0, reports |-> {}]
  /\ closing = {} /\ sending = 0 /\ halted = {} /\ asked = 0

GoalTo(s) == goal' = [status |-> s, why |-> ""]
Live(d) == job[d].state \in {"QUEUED", "RUNNING"}
NothingLive == \A d \in DOMAIN job : ~Live(d)
Running(d) == job[d].attempt = "RUNNING"
Set(d, fields) == [k \in DOMAIN job[d] |-> IF k \in DOMAIN fields THEN fields[k] ELSE job[d][k]]
Change(d, fields) == job' = [job EXCEPT ![d] = Set(d, fields)]
DispatchOf(n) == {d \in DOMAIN job : job[d].node = n}
LatestOf(n) == IF DispatchOf(n) = {} THEN 0 ELSE CHOOSE d \in DispatchOf(n) : \A e \in DispatchOf(n) : e <= d

\* progress.latest(): the newest occurrence that was evaluated tells the step's result.
ResultOf(nd, jb, n) ==
  LET told == {d \in DOMAIN jb : jb[d].node = n /\ jb[d].outcome # "none"}
  IN IF told = {} \/ nd[n].state = "SKIPPED" THEN nd[n].state
     ELSE jb[CHOOSE d \in told : \A e \in told : e <= d].outcome
DependencyReady(nd, jb, n, k) ==
  \/ nd[k].delivered /\ ResultOf(nd, jb, k) \notin {"BLOCKED", "PARTIAL", "DEFERRED", "SKIPPED"}
  \/ k \in plan.lacks[n] /\ ResultOf(nd, jb, k) \in {"COMPLETED", "PARTIAL", "DEFERRED", "SKIPPED"}
HasProgress(nd, jb, except) ==
  LET accessible[n \in Nodes] ==
        /\ nd[n].state \notin Unavailable
        /\ \A k \in DependsOn[n] : DependencyReady(nd, jb, n, k) \/ accessible[k]
  IN \E n \in Nodes \ except : accessible[n]
Due(n) ==
  /\ plan.approved /\ node[n].state = "WAITING"
  /\ \A k \in DependsOn[n] : DependencyReady(node, job, n, k)

(* ---- the scheduler hands a step out ----------------------------------- *)

Claim(n) ==
  /\ goal.status = "READY" /\ NothingLive /\ sending = 0 /\ Due(n) /\ Len(job) < MaxDispatches
  /\ job' = Append(job, [node |-> n, state |-> "QUEUED", task |-> "none", attempt |-> "none",
                         why |-> "", occ |-> "RUNNING", outcome |-> "none", saved |-> "empty",
                         called |-> FALSE])
  /\ node' = [node EXCEPT ![n].state = "RUNNING"]
  /\ UNCHANGED <<goal, plan, gap, scope, proof, closing, sending, halted, asked>>

\* Also after a restart: the intent was committed, the task was not.
Dispatch(d) ==
  /\ job[d].state = "QUEUED" /\ job[d].task = "none" /\ sending = 0
  /\ goal.status \in {"READY", "RUNNING"}
  /\ Change(d, [task |-> "QUEUED"]) /\ sending' = d
  /\ UNCHANGED <<goal, plan, node, gap, scope, proof, closing, halted, asked>>
Dispatched ==
  /\ sending # 0 /\ sending' = 0
  /\ IF goal.status \in {"READY", "RUNNING"}
     THEN GoalTo("RUNNING") /\ Change(sending, [state |-> "RUNNING"])
     ELSE UNCHANGED <<goal, job>>
  /\ UNCHANGED <<plan, node, gap, scope, proof, closing, halted, asked>>
ControllerDies ==
  /\ sending # 0 /\ sending' = 0
  /\ UNCHANGED <<goal, plan, node, job, gap, scope, proof, closing, halted, asked>>

\* The step's occurrence ends without a result and its step is blocked.
Blocks(d, fields) ==
  LET n == job[d].node
      held == job[d].occ = "RUNNING"
      jb == [job EXCEPT ![d] = Set(d, [fields EXCEPT !.occ = IF held THEN "BLOCKED" ELSE job[d].occ])]
      nd == IF held THEN [node EXCEPT ![n].state = "BLOCKED"] ELSE node
  IN /\ job' = jb /\ node' = nd
     /\ GoalTo(IF held /\ HasProgress(nd, jb, {n}) THEN "READY" ELSE "BLOCKED")

\* The retained input of the step no longer has its hash.
DispatchFails(d) ==
  /\ job[d].state = "QUEUED" /\ job[d].task = "none" /\ sending = 0
  /\ goal.status \in {"READY", "RUNNING"} /\ DependsOn[job[d].node] # {}
  /\ Blocks(d, [state |-> "FINISHED", occ |-> ""])
  /\ UNCHANGED <<plan, gap, scope, proof, closing, sending, halted, asked>>

(* ---- the work tick and the worker ------------------------------------- *)

MayStart(d) ==
  /\ Live(d) /\ job[d].task = "QUEUED" /\ goal.status \in {"READY", "RUNNING"}
StartTask(d) ==
  /\ MayStart(d) /\ scope # "spent" /\ scope' = "running"
  /\ Change(d, [task |-> "RUNNING", attempt |-> "RUNNING", why |-> "", saved |-> "empty", called |-> FALSE])
  /\ UNCHANGED <<goal, plan, node, gap, proof, closing, sending, halted, asked>>
\* No money for the first call, or no time left: the worker is not created.
StartRefused(d) ==
  /\ MayStart(d)
  /\ \/ /\ Change(d, [task |-> "BUDGET"]) /\ goal' = [status |-> "BLOCKED", why |-> "budget"]
     \/ /\ scope = "spent" /\ Change(d, [task |-> "BLOCKED"]) /\ GoalTo("BLOCKED")
  /\ UNCHANGED <<plan, node, gap, scope, proof, closing, sending, halted, asked>>
MoneyIsBack(d) ==
  /\ job[d].task = "BUDGET" /\ goal.status \notin Closed \cup {"PAUSED"}
  /\ goal.status = "BLOCKED" => goal.why = "budget"
  /\ Change(d, [task |-> "QUEUED", state |-> "QUEUED"])
  /\ IF goal.status = "BLOCKED" THEN GoalTo("READY") ELSE UNCHANGED goal
  /\ UNCHANGED <<plan, node, gap, scope, proof, closing, sending, halted, asked>>

Exhausted(n) == Len(gap[n].tries) >= gap[n].limit
\* beforeModel(): the first call of an attempt counts against the step's root gap.
ModelCall(d) ==
  LET n == job[d].node
  IN /\ Running(d) /\ ~job[d].called /\ scope = "running" /\ ~Exhausted(n)
     /\ Change(d, [called |-> TRUE])
     /\ gap' = [gap EXCEPT ![n].tries = Append(@, "open"), ![n].root = "OPEN"]
     /\ UNCHANGED <<goal, plan, node, scope, proof, closing, sending, halted, asked>>
Saves(d, result) ==
  /\ Running(d) /\ job[d].called /\ job[d].saved = "empty"
  /\ Change(d, [saved |-> result]) /\ proof' = [proof EXCEPT !.files = @ + 1]
  /\ UNCHANGED <<goal, plan, node, gap, scope, closing, sending, halted, asked>>
WindowEnds ==
  /\ scope = "running" /\ scope' = "spent"
  /\ UNCHANGED <<goal, plan, node, job, gap, proof, closing, sending, halted, asked>>

Completes(d) ==
  /\ Running(d) /\ job[d].called
  /\ Change(d, [task |-> "REPLIED", attempt |-> "ENDED", why |-> "completed"])
  /\ UNCHANGED <<goal, plan, node, gap, scope, proof, closing, sending, halted, asked>>
\* The receipt of any other end blocks the goal at once.
Fails(d, why) ==
  /\ Running(d)
  /\ why = "limit" => (scope = "spent" \/ (~job[d].called /\ Exhausted(job[d].node)))
  /\ why = "steps" => job[d].called
  /\ Change(d, [task |-> "BLOCKED", attempt |-> "ENDED", why |-> why])
  /\ IF goal.status \in {"READY", "RUNNING"} THEN GoalTo("BLOCKED") ELSE UNCHANGED goal
  /\ UNCHANGED <<plan, node, gap, scope, proof, closing, sending, halted, asked>>

(* ---- the result is checked -------------------------------------------- *)

\* evaluate(): what an attempt's artifact is worth, and what is done next.  "again" when
\* the artifact is the same as the one of the attempt before.
Judged(d, again) ==
  LET n == job[d].node
      tries == gap[n].tries
      policy == n \in Checked
      now == IF tries = <<>> THEN tries ELSE [tries EXCEPT ![Len(tries)] = job[d].saved]
      givesUp == IF policy THEN "DEFERRED" ELSE "BLOCKED"
      met == job[d].saved # "empty" /\ (policy => job[d].saved = "full")
      almost == policy /\ job[d].saved = "part"
      checked == CASE met -> "COMPLETED"
                   [] almost -> "PARTIAL"
                   [] ~met /\ ~almost /\ Exhausted(n) -> givesUp
                   [] OTHER -> IF policy /\ again THEN "DEFERRED" ELSE "RETRY"
  IN [state |-> IF checked = "RETRY" /\ job[d].why = "limit" THEN givesUp ELSE checked,
      gap |-> [gap[n] EXCEPT !.tries = now,
                 !.root = CASE checked = "COMPLETED" -> "RESOLVED"
                            [] checked = "DEFERRED" -> "DEFERRED"
                            [] OTHER -> "OPEN",
                 !.facts = IF ~policy THEN @ ELSE IF met THEN "RESOLVED" ELSE "OPEN"]]
\* Two artifacts of the same worth may be equal; two missing ones are.
MayRepeat(d, again) ==
  LET tries == gap[job[d].node].tries
      last == Len(tries)
      alike == last >= 2 /\ tries[last - 1] = job[d].saved
  IN (again => alike) /\ (alike /\ job[d].saved = "empty" => again)

OpenGaps(gp) ==
  {<<n, "root", gp[n].root, Len(gp[n].tries)>> : n \in {m \in Nodes : gp[m].root \notin {"none", "RESOLVED"}}}
    \cup {<<n, "facts", "OPEN", 0>> : n \in {m \in Nodes : gp[m].facts = "OPEN"}}
IsPartialMutant(nd, jb, gp) ==
  \/ OpenGaps(gp) # {}
  \/ \E n \in Nodes : ResultOf(nd, jb, n) \in {"PARTIAL", "DEFERRED", "SKIPPED"}
IsPartial(nd, jb, gp) ==
  \/ OpenGaps(gp) # {}
  \/ \E n \in Nodes : nd[n].state # "COMPLETED" \/ ResultOf(nd, jb, n) \in {"PARTIAL", "DEFERRED", "SKIPPED"}

\* closeProposal(): nothing to show, the same proposal again, or a new one in its place.
Identity(nd, jb, gp, pf) ==
  [proof |-> pf, revision |-> plan.revision, gaps |-> OpenGaps(gp),
   kind |-> IF IsPartial(nd, jb, gp) THEN "partial" ELSE "full"]
SentBack(nd, jb, status) ==
  status # "WAITING_APPROVAL" /\ HasProgress(nd, jb, {}) /\ \E p \in closing : p.state = "REWORKED"
Proposed(nd, jb, gp, pf, status) ==
  LET id == Identity(nd, jb, gp, pf)
  IN \/ SentBack(nd, jb, status) \/ \E p \in closing : p.id = id
     \/ id.kind = "partial" \/ pf.files > 0
Expired == {[p EXCEPT !.state = IF @ = "PENDING" THEN "EXPIRED" ELSE @] : p \in closing}
CloseProposal(nd, jb, gp, pf, status) ==
  LET id == Identity(nd, jb, gp, pf)
  IN IF \/ SentBack(nd, jb, status) \/ \E p \in closing : p.id = id
        \/ ~Proposed(nd, jb, gp, pf, status)
     THEN closing
     ELSE Expired \cup {[id |-> id, state |-> "PENDING"]}

(* ---- CompanyGoalScheduler.tick() collects the dispatches --------------- *)

\* A task queued again waits for its new attempt; the attempt it had is history.
Collectable(d) ==
  /\ Live(d) /\ sending = 0 /\ job[d].task # "none" /\ goal.status \notin Closed \cup {"PAUSED"}
  /\ ~(job[d].task = "QUEUED" /\ job[d].attempt \in {"none", "ENDED"})

CollectClosed(d) ==
  /\ Live(d) /\ sending = 0 /\ goal.status \in Closed
  /\ Change(d, [state |-> "CANCELLED",
                occ |-> IF job[d].occ = "RUNNING" THEN "CANCELLED" ELSE job[d].occ,
                attempt |-> IF Running(d) THEN "ENDED" ELSE job[d].attempt,
                task |-> IF Running(d) THEN "BLOCKED" ELSE job[d].task,
                why |-> IF Running(d) THEN "other" ELSE job[d].why])
  /\ node' = [node EXCEPT ![job[d].node].state =
                IF job[d].occ = "RUNNING" /\ @ = "RUNNING" THEN "BLOCKED" ELSE @]
  /\ UNCHANGED <<goal, plan, gap, scope, proof, closing, sending, halted, asked>>
CollectUnstarted(d) ==
  LET n == job[d].node
      held == job[d].occ = "RUNNING"
      ends == held /\ job[d].task # "BUDGET"
      jb == [job EXCEPT ![d].state = "FINISHED", ![d].occ = IF ends THEN "BLOCKED" ELSE @]
      nd == IF ends THEN [node EXCEPT ![n].state = "BLOCKED"] ELSE node
  IN /\ Collectable(d) /\ job[d].attempt = "none" /\ job[d].task \in {"BLOCKED", "BUDGET"}
     /\ job' = jb /\ node' = nd
     /\ goal' = [status |-> IF HasProgress(nd, jb, IF held THEN {n} ELSE {}) THEN "READY" ELSE "BLOCKED",
                 why |-> IF job[d].task = "BUDGET" THEN "budget" ELSE ""]
     /\ UNCHANGED <<plan, gap, scope, proof, closing, sending, halted, asked>>
CollectRunning(d) ==
  /\ Collectable(d) /\ Running(d) /\ goal.status = "READY" /\ GoalTo("RUNNING")
  /\ UNCHANGED <<plan, node, job, gap, scope, proof, closing, sending, halted, asked>>
HasResult(d) ==
  \/ job[d].why \in {"completed", "steps"}
  \/ job[d].why \in {"ordinary", "limit"} /\ job[d].occ = "RUNNING" /\ job[d].node \in Checked
CollectFailed(d) ==
  /\ Collectable(d) /\ job[d].attempt = "ENDED" /\ ~HasResult(d)
  /\ Blocks(d, [state |-> "FINISHED", occ |-> ""])
  /\ UNCHANGED <<plan, gap, scope, proof, closing, sending, halted, asked>>
CollectResult(d, again) ==
  LET n == job[d].node
      pf == [proof EXCEPT !.reports = IF job[d].why = "completed" THEN @ \cup {d} ELSE @]
      verdict == Judged(d, again)
      jb == [job EXCEPT ![d].state = "FINISHED", ![d].outcome = verdict.state,
                        ![d].occ = IF verdict.state = "RETRY" THEN "NO_PROGRESS" ELSE verdict.state]
      nd == [node EXCEPT ![n].state = IF verdict.state = "RETRY" THEN "WAITING" ELSE verdict.state,
                         ![n].delivered = @ \/ verdict.state = "COMPLETED"]
      gp == [gap EXCEPT ![n] = verdict.gap]
      handled == {"COMPLETED", "PARTIAL", "DEFERRED", "SKIPPED"}
      over == \A m \in Nodes : nd[m].state \in handled
      stuck == ~over /\ ~HasProgress(nd, jb, {})
      partial == \E m \in Nodes : nd[m].state \in handled \ {"COMPLETED"}
      status == IF over \/ (stuck /\ partial) THEN "WAITING_APPROVAL" ELSE IF stuck THEN "BLOCKED" ELSE "READY"
  IN /\ Collectable(d) /\ job[d].attempt = "ENDED" /\ HasResult(d) /\ MayRepeat(d, again)
     /\ proof' = pf
     /\ IF job[d].occ = "RUNNING"
        THEN /\ job' = jb /\ node' = nd /\ gap' = gp /\ GoalTo(status)
             /\ closing' = IF status = "WAITING_APPROVAL" THEN CloseProposal(nd, jb, gp, pf, status) ELSE closing
        ELSE LET done == [job EXCEPT ![d].state = "FINISHED"]
                 ends == IF job[d].why = "completed" THEN "WAITING_APPROVAL" ELSE "BLOCKED"
             IN /\ job' = done /\ UNCHANGED <<node, gap>> /\ GoalTo(ends)
                /\ closing' = IF job[d].why = "completed" THEN CloseProposal(node, done, gap, pf, ends) ELSE closing
     /\ UNCHANGED <<plan, scope, sending, halted, asked>>

(* ---- the owner --------------------------------------------------------- *)

Asked == asked < MaxOwner /\ asked' = asked + 1

\* stopTask(): converge the attempt, the dispatch and the occurrence.
StopTask(d) ==
  LET n == job[d].node
      held == job[d].occ = "RUNNING"
      jb == [job EXCEPT ![d] = Set(d, [state |-> "FINISHED", task |-> "STOPPED",
                                       occ |-> IF held THEN "CANCELLED" ELSE job[d].occ,
                                       attempt |-> IF Running(d) THEN "ENDED" ELSE job[d].attempt,
                                       why |-> IF Running(d) THEN "other" ELSE job[d].why])]
      nd == IF held /\ node[n].state = "RUNNING" THEN [node EXCEPT ![n].state = "BLOCKED"] ELSE node
  IN /\ job[d].task \notin {"none", "REPLIED", "STOPPED"} /\ goal.status \notin Closed /\ Asked
     /\ job' = jb /\ node' = nd
     /\ GoalTo(IF goal.status = "PAUSED" THEN "PAUSED"
               ELSE IF HasProgress(nd, jb, IF held THEN {n} ELSE {}) THEN "READY" ELSE "BLOCKED")
     /\ halted' = halted \cup (IF held THEN {n} ELSE {})
     /\ UNCHANGED <<plan, gap, scope, proof, closing, sending>>

\* retryTask() and reworkTask(): the same task again, under the dispatch it has.
RetryAllowed(d) == scope # "spent" /\ ~Exhausted(job[d].node)
QueueRetry(d) ==
  LET n == job[d].node
      again == job[d].occ \in {"CANCELLED", "BLOCKED", "NO_PROGRESS"}
  IN /\ job[d].attempt = "ENDED" /\ goal.status \notin Closed \cup {"PAUSED"} /\ Asked
     /\ Change(d, [task |-> "QUEUED", state |-> "QUEUED", occ |-> IF again THEN "RUNNING" ELSE job[d].occ])
     /\ node' = IF again THEN [node EXCEPT ![n].state = "WAITING"] ELSE node
     /\ scope' = "fresh" /\ GoalTo("READY") /\ halted' = halted \ {n}
     /\ UNCHANGED <<plan, gap, proof, closing, sending>>
RetryTask(d) == job[d].task \in {"BLOCKED", "BUDGET"} /\ RetryAllowed(d) /\ QueueRetry(d)
ReworkTask(d) == job[d].task \in {"BLOCKED", "BUDGET", "STOPPED"} /\ ~Exhausted(job[d].node) /\ QueueRetry(d)

\* nodeActions(): a step may be touched while nothing of it runs and its plan is approved.
Touchable(n) ==
  /\ goal.status \notin Closed /\ plan.approved /\ node[n].state # "RUNNING" /\ Asked
  /\ LatestOf(n) # 0 => ~Running(LatestOf(n))
Finished(n) == IF LatestOf(n) = 0 THEN job ELSE [job EXCEPT ![LatestOf(n)].state = "FINISHED"]
ContinueNode(n) ==
  /\ Touchable(n) /\ node[n].state \in {"BLOCKED", "DEFERRED", "PARTIAL", "SKIPPED"}
  /\ LatestOf(n) # 0 => RetryAllowed(LatestOf(n))
  /\ job' = Finished(n) /\ node' = [node EXCEPT ![n].state = "WAITING"]
  /\ IF goal.status # "PAUSED" THEN GoalTo("READY") ELSE UNCHANGED goal
  /\ closing' = Expired /\ halted' = halted \ {n}
  /\ UNCHANGED <<plan, gap, scope, proof, sending>>
SkipNode(n) ==
  LET jb == Finished(n)
      nd == [node EXCEPT ![n].state = "SKIPPED"]
      ends == ~HasProgress(nd, jb, {})
  IN /\ Touchable(n) /\ n \in Checked /\ node[n].state \notin {"COMPLETED", "SKIPPED"}
     /\ job' = jb /\ node' = nd
     /\ IF goal.status = "PAUSED" THEN UNCHANGED <<goal, closing>>
        ELSE /\ GoalTo(IF ends THEN "WAITING_APPROVAL" ELSE "READY")
             /\ closing' = IF ends THEN CloseProposal(nd, jb, gap, proof, "WAITING_APPROVAL") ELSE closing
     /\ UNCHANGED <<plan, gap, scope, proof, sending, halted>>
ExtendLimits(n) ==
  /\ Touchable(n) /\ LatestOf(n) # 0
  /\ \/ scope = "spent" /\ scope' = "running" /\ UNCHANGED gap
     \/ gap[n].root # "none" /\ gap' = [gap EXCEPT ![n].limit = @ + 1] /\ UNCHANGED scope
  /\ UNCHANGED <<goal, plan, node, job, proof, closing, sending, halted>>
\* Another requirement, and another list of steps whose result may be incomplete.
AdjustPolicy(n, may) ==
  LET widened == may # plan.lacks[n]
  IN /\ Touchable(n) /\ n \in Checked
     /\ plan' = [plan EXCEPT !.revision = @ + 1, !.approved = ~widened, !.lacks[n] = may, !.shown = node]
     /\ gap' = [gap EXCEPT ![n].facts = "none"]
     /\ IF widened THEN GoalTo("DRAFT") ELSE UNCHANGED goal
     /\ UNCHANGED <<node, job, scope, proof, closing, sending, halted>>
\* The plan is approved as it was shown, the state of its steps included.
ApprovePlan ==
  /\ ~plan.approved /\ plan.shown = node /\ goal.status \notin Closed /\ Asked
  /\ plan' = [plan EXCEPT !.approved = TRUE]
  /\ IF goal.status # "PAUSED" THEN GoalTo("READY") ELSE UNCHANGED goal
  /\ UNCHANGED <<node, job, gap, scope, proof, closing, sending, halted>>
RevisePlan ==
  /\ ~plan.approved /\ goal.status \notin Closed /\ Asked
  /\ plan' = [plan EXCEPT !.revision = @ + 1, !.shown = node] /\ GoalTo("DRAFT")
  /\ UNCHANGED <<node, job, gap, scope, proof, closing, sending, halted>>

Transitions ==
  {[action |-> "pause", from |-> {"READY", "RUNNING", "WAITING_APPROVAL", "BLOCKED"}, to |-> "PAUSED"],
   [action |-> "resume", from |-> {"PAUSED"}, to |-> "READY"],
   [action |-> "stop", from |-> {"DRAFT", "READY", "RUNNING", "WAITING_APPROVAL", "PAUSED", "BLOCKED"}, to |-> "STOPPED"],
   [action |-> "reopen", from |-> {"STOPPED", "COMPLETED", "PARTIALLY_COMPLETED", "BLOCKED", "WAITING_APPROVAL"},
    to |-> "READY"],
   [action |-> "archive", from |-> (Closed \ {"ARCHIVED"}) \cup
      {"DRAFT", "READY", "RUNNING", "WAITING_APPROVAL", "PAUSED", "BLOCKED"}, to |-> "ARCHIVED"],
   [action |-> "restore", from |-> {"ARCHIVED"}, to |-> "PAUSED"]}
GoalAction(t) ==
  /\ goal.status \in t.from /\ GoalTo(t.to) /\ Asked
  /\ node' = [n \in Nodes |->
        IF t.action = "reopen" /\ node[n].state \in {"BLOCKED", "PARTIAL", "DEFERRED", "SKIPPED"}
        THEN [node[n] EXCEPT !.state = "WAITING"] ELSE node[n]]
  /\ closing' = IF t.to \in {"STOPPED", "ARCHIVED"} THEN Expired ELSE closing
  /\ halted' = IF t.action = "reopen" THEN {} ELSE halted
  /\ UNCHANGED <<plan, job, gap, scope, proof, sending>>
\* "close task" in the owner's chat, whatever the goal's status.
AskClose ==
  /\ NothingLive /\ Asked /\ Proposed(node, job, gap, proof, goal.status)
  /\ closing' = CloseProposal(node, job, gap, proof, goal.status) /\ GoalTo("WAITING_APPROVAL")
  /\ UNCHANGED <<plan, node, job, gap, scope, proof, sending, halted>>

Decide(p, state) == closing' = (closing \ {p}) \cup {[p EXCEPT !.state = state]}
Decidable(p) == p.state = "PENDING" /\ goal.status \notin Closed /\ Asked
ApproveClose(p) ==
  /\ Decidable(p) /\ goal.status = "WAITING_APPROVAL" /\ NothingLive
  /\ p.id.proof = proof /\ p.id.revision = plan.revision /\ p.id.gaps = OpenGaps(gap)
  /\ p.id.kind = "full" => proof.files > 0
  /\ GoalTo(IF p.id.kind = "full" THEN "COMPLETED" ELSE "PARTIALLY_COMPLETED")
  /\ Decide(p, "EXECUTED")
  /\ UNCHANGED <<plan, node, job, gap, scope, proof, sending, halted>>
RejectClose(p) ==
  /\ Decidable(p) /\ Decide(p, "REJECTED")
  /\ UNCHANGED <<goal, plan, node, job, gap, scope, proof, sending, halted>>
ReworkClose(p, n) ==
  /\ Decidable(p) /\ plan.approved /\ NothingLive /\ (LatestOf(n) # 0 => RetryAllowed(LatestOf(n)))
  /\ node' = [node EXCEPT ![n].state = "WAITING"] /\ plan' = [plan EXCEPT !.revision = @ + 1]
  /\ GoalTo("READY") /\ Decide(p, "REWORKED") /\ halted' = halted \ {n}
  /\ UNCHANGED <<job, gap, scope, proof, sending>>

PlanNext ==
  \/ \E n \in Nodes :
       \/ Claim(n) \/ ContinueNode(n) \/ SkipNode(n) \/ ExtendLimits(n)
       \/ \E may \in SUBSET DependsOn[n] : AdjustPolicy(n, may)
       \/ \E p \in closing : ReworkClose(p, n)
  \/ \E d \in DOMAIN job :
       \/ Dispatch(d) \/ DispatchFails(d) \/ StartTask(d) \/ StartRefused(d) \/ MoneyIsBack(d)
       \/ ModelCall(d) \/ Completes(d)
       \/ \E r \in Results \ {"empty"} : Saves(d, r)
       \/ \E w \in {"steps", "limit", "ordinary", "other"} : Fails(d, w)
       \/ CollectClosed(d) \/ CollectUnstarted(d) \/ CollectRunning(d) \/ CollectFailed(d)
       \/ \E again \in BOOLEAN : CollectResult(d, again)
       \/ StopTask(d) \/ RetryTask(d) \/ ReworkTask(d)
  \/ Dispatched \/ ControllerDies \/ WindowEnds
  \/ ApprovePlan \/ RevisePlan \/ AskClose
  \/ \E t \in Transitions : GoalAction(t)
  \/ \E p \in closing : ApproveClose(p) \/ RejectClose(p)
PlanSpec == PlanInit /\ [][PlanNext]_planVars

(* ---- properties --------------------------------------------------------- *)

\* closeProposal() handed the owner a proposal it had: one that was sent back, or, in place of
\* a partial one, the complete one for the same evidence, plan and gaps.
HandedBack ==
  \/ \E p \in closing : p.state = "REWORKED"
  \/ \E p, q \in closing :
       p.state = "EXECUTED" /\ p.id.kind = "full" /\ q.id = [p.id EXCEPT !.kind = "partial"]
EveryStepComplete == \A n \in Nodes : node[n].state = "COMPLETED"

\* A result accepted as complete has every step delivered and none at work, and unless the
\* proposal was handed back no step was put back to waiting, skipped or blocked between the
\* proposal and the decision (closeProposal(), decide()).
FullMeansDelivered ==
  goal.status = "COMPLETED" =>
    /\ NothingLive /\ \A n \in Nodes : node[n].delivered
    /\ HandedBack \/ EveryStepComplete

\* The plan of the recovery: a proposal that was sent back "must not block a new round", and a
\* partial delivery is not the complete one.  So what is accepted as complete is complete.
AcceptedIsComplete == goal.status = "COMPLETED" => EveryStepComplete

\* queueRetry(): "A stopped task left its node BLOCKED."  A step whose task the owner stopped
\* is not handed out again before the owner lets it go on.
StoppedStepWaits ==
  [][\A n \in halted : ~(node[n].state = "WAITING" /\ node'[n].state = "RUNNING")]_planVars
=============================================================================

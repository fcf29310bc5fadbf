# Verification of the EmergentInc company runtime

EmergentInc runs a small company of language-model workers for one owner. The
owner authorises an amount of money and sets goals; a controller process turns
goals into tasks, starts a worker process per task, grants it model calls one by
one, and decides what a crash, a stop, a retry or a late answer means. This
directory holds TLA+ models of that runtime, the TLC runs that check them on
small instances, and TLAPS proofs of theorems for every instance.

Paths below are relative to `src/apps/server/src/` unless they start with
another directory of the repository.

## 1. Inventory

### The parts in reach of the models

| Component | State | Operations | Correct when |
|---|---|---|---|
| Model ledger, `services/company_model_ledger.ts` | `owner_model_permits`, `company_model_dispatches` | `prepare`, `response`, `failure`, `storedResponse` | an operation reaches the provider once; a stored receipt and a settled row are final; money of a call that may be billed stays held |
| Company budget, `services/owner_company_budget.ts` | `owner_company_budget`, `owner_money_reservations` | `configure`, `reserve`, `settle`, `view` | spent + held never exceeds what was authorised, except by what a provider billed above its reservation |
| Automation gate, `services/owner_automation_gate.ts` | `owner_automation_control`, `owner_run_permits`, in-process `calls` | `control`, `ensureRunning`, `assertModelPermission`, `reserveRun`, `reconcileCall`, `reconcileWorld`, restart sweep | OFF stops new calls; unknown outcomes stop their own scope and nothing else |
| Admission holds, `services/company_admission_service.ts` | `company_admission_blocks` (`safety`, `scheduler`) | `block`, `release` | a hold stays until the decision about this very hold |
| Recovery decisions, `services/company_recovery_service.ts` | none of its own | `view`, `abandon`, `acknowledge` | a decision is bound to the facts the owner saw |
| Attempts and receipts, `services/company_execution_service.ts` | `company_execution_attempts`, receipts, sequence numbers, leases | `claim`, `observe`, `receipt`, `applyContiguous`, `adoptWorker` | fences grow, one active attempt per task, one claim per world, results are final |
| Worker adapter, `services/company_worker_adapter.ts` | `company_worker_launches`, `live` children and their message queues | `create`, `start`, `disconnect`, `poll`, `recover`, message and exit handlers | one process per attempt; each is accounted for; orphans are found |
| Work tick, `services/owner_work_service.ts` | `owner_work_tasks` | `tick`, `runWorkerTick` | what can run is claimed and started; one failure does not stop the rest |
| Goal scheduler, `services/company_goal_scheduler.ts`, `services/owner_goal_scheduler.ts` | `owner_goal_dispatches`, timer | `tick`, `dispatch`, convergence | a dispatch ends when its attempt does; goals are isolated |
| Attention, `services/company_attention_service.ts` | none of its own | `stopTask`, `queueRetry`, rework, node actions | a stop stands until a retry; no retry over an unknown outcome |
| Goals, `services/owner_goal_service.ts` | `owner_goals`, revisions, events | `create`, `edit`, `action`, `state` | status follows the owner and the evidence; revisions invalidate old decisions |
| Worker process, `execution/*` | a journal (SQLite) per attempt, a lock, checkpoints | engine steps, tool and model RPC, flush | a crash anywhere leaves a journal that proves what may have happened |
| Model client, `src/packages/model/src/provider` | none | `call` | tells "never left" from "unknown" |
| Task plans, `services/owner_task_plan_service.ts` | nodes, occurrences, plan revisions | submit, approve, occurrence and node transitions | dependencies, triggers and decisions are respected over revisions |
| Progress policy, `services/company_progress_service.ts` | scopes, windows, gaps | attach, consume, evaluate, extend | allowances are not exceeded and not spent twice |
| Proposals, `services/owner_proposal_service.ts` | `owner_company_proposals` | propose, decide, expire | a decision applies to the revision it was made on, once |
| Goal outcomes, `services/goal_outcome_evaluator.ts`, `services/owner_product_service.ts` | evidence, publications | collect, publish | no acceptance without evidence of this revision |
| Company tools and artifacts, `services/company_tool_service.ts`, `services/company_artifact_service.ts` | tool receipts, artifact rows | execute, publish | a tool's effect happens once, or is known to be unknown |
| Tool runtime, `src/packages/tools` | artifacts and evidence snapshots on disk, the call in progress | `execute`, the built-in tools, time limits, stops | a result says what happened on the other side; evidence stays what was reported |
| Payments, `services/payment_*.ts`, `services/public_store.ts` | invoices, observations, receipts, cursors, orders | quote, scan, confirm, deliver | a transfer pays one invoice once, however chain data is reordered |
| World kernel, `src/packages/runtime`, `src/packages/domain`, `src/packages/persistence`, `services/run_service.ts` | runs, messages, calls and reservations, effects and their receipts, tool executions, energy, bodies | rounds, effects, births | energy is conserved, messages are delivered once, a run resumes after a crash |
| Release supervisor, `src/supervisor` | candidates, generations, the link to the release, the pointer to the generation, snapshots | submit, validate, approve, birth, rollback, delete, recover | what is active is what is served; ancestors can be gone back to |
| Upgrade job, `src/scripts/upgrade-web.mjs` | the job file, a child process, the git checkout | switch, sync-git, recover, rollback | main moves only forward, to the commit that was published |

The other parts (legacy bridge, owner conversation and views, plugins and
instance code, protocol types, HTTP server, recovery page, front end) are listed
in `PROJECT.json` with the reason they are left out, and again in section 7.

### How they interact

* One controller process, one JavaScript thread, one SQLite database. A handler
  runs to its next `await` without interruption, and a database transaction is
  atomic. The awaits that matter are the pid probe in `start()`, the queue of
  messages before an exit handler, and the calls to the provider.
* A worker is a separate operating-system process with a database of its own
  (the journal). It outlives its controller, writes its journal before it sends a
  message, and loses the connection, not its life, when the controller dies.
* The next controller knows only the rows: leases name the controller that wrote
  them, `poll()` finds launches nobody holds on to, `recover()` replays a journal
  once the process is proved dead.
* The budget row, the reservations and the permits are written in one
  transaction; the provider is outside every transaction.
* The owner acts at any time between two handlers, on a screen that may be old.
* A world has one kernel loop. Its handlers interleave with others of the process
  only where it awaits a model or a tool; everything else it does is a sequence
  of transactions, any of which may be the last before a crash.
* The payment monitor reads a chain it does not control and writes two databases
  (payments and control), joined by an outbox.
* The supervisor and the maintenance page are processes of their own. They agree
  with the server through files (a lock, a link, a pointer, the job) and HTTP.

### What is hard

Late, repeated and contradictory receipts; a crash between any two of claim,
launch row, fork, `ready`, result and exit; orphans of an earlier controller; a
stop or a closed goal during an await; two tasks of one person in one world;
unknown outcomes that must not be replayed; a new allowance while old bills are
open; one exception in a loop over unrelated rows; a reply whose effects were
half applied; mail for a body that was replaced; scans of a chain that overlap;
a release half switched when its supervisor dies; a tool stopped while the remote
side goes on. `PROJECT.json` lists these as
hazards, each at its line, with the properties that cover it.

## 2. The modules

| Module | What it models |
|---|---|
| `ModelPermit` | One permit row with its reservation and receipt, as pure transitions |
| `CompanyLedger` | The table of permits, the allowance, ON/OFF, the safety hold, the callers and the provider |
| `BudgetAccount` | Abstract: an account from which money is held, billed and given back |
| `CompanyLedgerProofs` | Theorems about `CompanyLedger`, that it implements `BudgetAccount`, and the account's own |
| `CompanyExecution` | Attempts, launches, run permits, dispatches, goals as far as execution sees them, the tick, worker processes, stops, retries and restarts |
| `TaskAttempts` | Abstract: the attempts at a task come one after the other and end once |
| `CompanyExecutionProofs` | Theorems about `CompanyExecution`, and that it implements `TaskAttempts` |
| `CompanyWorker`, `CompanyWorkerProofs` | One attempt from inside: the engine, its journal, its channel to the controller, what recovery concludes from the journal; that nothing is done twice, proved |
| `TaskPlans` | A goal with an approved plan: steps, dispatches, results, gaps, windows, proposals and the owner's commands |
| `WorldStore` | The store of one world: runs, messages, calls, effects, tools, bodies, as the repositories compute them |
| `WorldKernel` | The kernel on that store: runs, rounds, steps, calls, effects, births, crashes, recovery, the owner's judgements |
| `WorldKernelProofs` | Theorems about `WorldKernel` |
| `Payments`, `PaymentsProofs` | An order, its invoice, the transfers on a chain, the scans that find them and the outbox; that an invoice is paid once and no cursor skips a transfer, proved |
| `ReleaseSupervisor` | Candidates and generations, publication, rollback, deletion and recovery |
| `UpgradeJob` | The maintenance page's job around the supervisor and git |
| `ReleaseProofs` | Theorems about `ReleaseSupervisor` and `UpgradeJob` |
| `ToolCalls` | The tool runtime and the built-in tools |
| `DeliveryProofs` | Theorems about `ToolCalls` (the permanence of evidence, the truth of results) and about `TaskPlans` (what is accepted as complete) |
| `MCCompanyLedger`, `MCCompanyExecution`, `MCWorldKernel`, `MCTaskPlans` | Constants and symmetry for TLC |
| `MCParts` | Six of the modules side by side, for one run of TLC; it instantiates their proof modules, so that their theorems can be cited |
| `PartsProofs` | The theorems about the parts, carried over to the system of all six |

`CompanyLedger` uses the operators of `ModelPermit` and implements
`BudgetAccount` (property `AccountSpec`). `CompanyExecution` implements
`TaskAttempts` (property `AttemptsSpec`). `WorldKernel` extends `WorldStore`.
`CompanyWorker` opens what the other two treat as one step: what a worker's
journal proves about a call (`LoseTrack`, `Refuse` and the repeated `ReportReply`
of worker operations in the ledger; the journal states `unknown` and `completed`
in the execution). `TaskPlans` opens what `CompanyExecution` reduces to one task
per goal, and reduces an attempt to its outcome. The composition of the modules
is by these interfaces; they are not run as one state machine, whose states would
be the product of independent rows.

A definition that nothing else uses (`AfterFailureReleasing`,
`ConfigureForgettingHeld`, `PollWithoutProbe`, ...) is a seeded bug. It stands
just before the definition it corrupts, and in its place the named property of
`PROJECT.json` "mutants" is violated. This is the evidence that each property can
fail.

### `ModelPermit` and `CompanyLedger`: state and actions

| Model | Code |
|---|---|
| `permit[id]` with `state`, `op`, `reserved`, `settled`, `reply` | a row of `owner_model_permits` joined with `owner_money_reservations` and `company_model_dispatches` |
| `op`, `WorkerOps`, `Scope` | `auditCallId` with its source; whether a worker's journal or this process makes the call; its world or attempt |
| `budget`, `Spent`, `Held`, `Available`, `NeedsRefill` | the `owner_company_budget` row and `view()` |
| `mode`, `hold`, `seen` | desired mode; the one `safety` admission block, which a second overrun replaces; what the owner's screen shows |
| `unlooked`, `overwritten` | history: overruns the owner has not been shown; those whose block a later overrun replaced |
| `call`, `sent` | where the caller is with the request; requests that reached the provider |
| `Prepare` | `prepare()` with `assertModelPermission()` and `reserve()` |
| `Deliver`, `Reply`, `Refuse`, `LoseTrack` | the provider, and the errors the client tells apart |
| `ReportReply`, `ReportFailure` | `response()`, `failure()`; once per call of this process, any number of times for a journal |
| `Restart` | a new controller: the constructor's sweep; calls of the process are lost |
| `Configure`, `SwitchOn`, `SwitchOff` | `configure()`, `control()` |
| `Reconcile`, `ConfirmNotBilled`, `Review` | `reconcileCall()`, `reconcileWorld()`, `abandon()` |
| `Look`, `Acknowledge` | `view()`, which shows the one permit the block names; `acknowledge()` with its hash |

Prices and token counts are abstracted to amounts (`Amounts`, `Costs`); the
reservation is any amount of the set, whether or not it covers the bill. That a
bill can exceed its reservation is therefore part of the model, not excluded by
it. One assumption about people is made: an owner who confirms that a call was
never billed is right.

### `CompanyExecution`: state and actions

| Model | Code |
|---|---|
| `attempt[t, n]` state and lease | the row of `company_execution_attempts` with fence `n` |
| `launch` state and epoch | `company_worker_launches` |
| `permit` | `owner_run_permits.state` of the attempt's run |
| `task`, `dispatch`, `goal` | rows of `owner_work_tasks`, `owner_goal_dispatches`, `owner_goals` |
| `inc`, `live`, `queue`, `doing`, `fault` | the controller: its lease owner, the children it holds, messages not handled yet, the launch between two awaits, a tick that was stopped by an exception |
| `procs`, `journal` | worker processes and what each journal proves |
| `Dispatch`, `Converge*` | `CompanyGoalScheduler.tick()` and `dispatch()` |
| `Claim`, `Resume`, `DisconnectStale` | the loops of `runWorkerTick()` |
| `Launch`, `GiveUp`, `TickFails`, `Fork` | `CompanyWorkerAdapter.start()` before and after the probe, its error paths, and the fork |
| `Handle`, `ExitHandler`, `Poll` (all with `Recover`) | messages, exits, `poll()` and `recover()` |
| `Boot`, `Decide`, `Exit`, `Kill` | a worker process |
| `StopTask`, `Retry`, `Abandon`, `Reconcile`, `CloseGoal`, `SwitchOn/Off` | the owner |
| `Restart` | the controller dies at any point of its thread and a new one starts |

Abstractions, and why they are sound for the properties:

* Each task has a goal of its own, without a plan. Goals with plans go through
  other branches of the scheduler, which are those of `TaskPlans`.
* The steps of a tick are not ordered. The code runs them in one order, but each
  reads the database again and the timer repeats them, so the model allows more
  interleavings than the code. A counterexample was accepted as a finding only
  when its order is one the code takes.
* `FAILED` stands for failed, or blocked for a known reason; `BLOCKED` for
  blocked with an unknown outcome. The code tells them apart by the rows of the
  journal and the ledger, as the model does by `journal`.
* A journal is reduced to what it proves: nothing left, a checkpoint, an unknown
  call or tool, an open fetch of the worker's own (`lookup`), a known failure, a
  result. Its steps are `CompanyWorker`'s subject. `lookup` is a state of its own
  because `hasPendingOutcome()` sees it only in an attempt that recovery blocked.
* The wait for money, pauses, maintenance and reopening a goal are not modelled.

### `CompanyWorker`: state and actions

| Model | Code |
|---|---|
| `worker`, `journal` | the process (`execution/company_worker_engine.ts`, `company_worker_entry.ts`) and its `journal.sqlite3`: checkpoint, model calls, tools, events, the last event acknowledged |
| `rpc` | the request on the channel and whether it was answered; an answer nobody waits for is dropped |
| `office` | the controller: attempt, launch, applied receipts, permits, tool receipts, the tool it runs |
| `world` | history: permits that reached the provider, answers and effects per step |
| `Opens`, `Loops`, `Granted`, `Sends`, `Reaches`, `NotSent`, `Unanswered`, `Answers` | `executeCompanyWorker()` around a model call; each journal transaction is one action |
| `Decides`, `Corrects`, `NoReply`, `UsesTool`, `LooksUp`, `Allowed`, `Runs`, `Receipted` | the decision, the format correction in its two transactions, the tools |
| `Flush`, `Acknowledged`, `Leaves`, `Disconnected`, `TimesOut`, `Refused` | reports, waits of 30 s and their ends |
| `TakesReceipt`, `GrantsModel`, `AllowsTool`, `FindsReceipt`, `TakesTool`, `HandlesTool`, `FilesReceipt` | `CompanyWorkerAdapter`'s handlers and `CompanyToolService.execute()`, before and after its await |
| `Launches`, `Recovers` | `start()` and `recover()` |
| `WorkerDies`, `OfficeDies`, `OfficeStarts` | deaths at any point |

### `TaskPlans`: state and actions

| Model | Code |
|---|---|
| `goal`, `plan`, `node` | `owner_goals`, the revision of the plan with each step's requirements, `owner_task_nodes` |
| `job[d]` | a dispatch with its task, attempt and occurrence |
| `gap`, `scope`, `proof` | the root gap of a step with its tries and limit, the automatic window, the evidence |
| `closing` | proposals to close the goal, each with the facts it was made on |
| `sending` | the dispatch that `CompanyGoalScheduler.dispatch()` awaits |
| `Claim`, `Dispatch`, `Dispatched`, `DispatchFails` | `OwnerTaskPlanService.due()`, `claim()` and `dispatch()` before and after its await |
| `StartTask`, `StartRefused`, `MoneyIsBack`, `ModelCall`, `Saves`, `Completes`, `Fails`, `WindowEnds` | what the worker's attempt does to task, window, gap and evidence |
| `CollectClosed`, `CollectUnstarted`, `CollectRunning`, `CollectFailed`, `CollectResult` | the branches of `CompanyGoalScheduler.tick()` over dispatches, with `evaluate()`, `complete()` and `closeProposal()` |
| `StopTask`, `RetryTask`, `ReworkTask`, `ContinueNode`, `SkipNode`, `ExtendLimits` | `CompanyAttentionService`, `CompanyProgressService.extend()` |
| `AdjustPolicy`, `RevisePlan`, `ApprovePlan`, `GoalAction`, `AskClose`, `ApproveClose`, `RejectClose`, `ReworkClose` | plan revisions, `OwnerGoalService.action()`, `OwnerProposalService.decide()`, `rework()` |
| `ControllerDies` | a restart, which loses the await of `dispatch()` |

Whether a result lacks facts (`Saves`, `Judged`) is an input: how evidence is
matched is text. The kinds of usage are one window.

### `WorldStore` and `WorldKernel`: state and actions

| Model | Code |
|---|---|
| `run`, `msg`, `mail` | `RunRepository`, `MessageRepository`; `mail` is the order in which messages were created |
| `call[m]` | reservations and model calls of a message, oldest first (`BudgetRepository`, `ModelCallRepository`) |
| `effect`, `tool` | receipts of effects, tool executions |
| `pixel`, `files` | energy, binding and body of a coordinate; the body its directory belongs to |
| `company` | worlds that the company pays: money replaces token budgets and energy |
| `proc` | the loop: where it is and what it keeps in memory |
| `carried` | history: how often an effect was carried out |
| `Start`, `Resume`, `RequestStop`, `RequestSuspend`, `Loop`, `LoopFails`, `EndRound`, `Finish` | `RunService` |
| `BeginRound`, `Claim`, `StopClaiming`, `Wait`, `NoteRejected` | `RoundScheduler` with the waking of idle pixels |
| `GiveUp`, `Reuse`, `Reserve`, `MarkReserved`, `MarkCalling`, `Reply`, `Refuse`, `Requeue`, `LoseTrack`, `RecordUnknown`, `Parse`, `Reject`, `Commit` | `AgentStepRunner`: one action per transaction |
| `Skip`, `SuspendBatch`, `Read`, `SkipTool`, `StartTool`, `ToolDone`, `Transfer`, `RefuseBirth` ... `Birth`, `BirthFails`, `Route`, `EndBatch` | `EffectRuntime.applyEffects()` and its handlers |
| `NotBilled`, `SettleBill`, `ResolveTool`, `ResolveMessage`, `AcknowledgeRun` | `CoreStore.resolveRecoveryOperation()` |
| `Crash` | the process dies between any two transactions |
| `Send`, `Recruit` | other services, as far as the kernel meets them |

`Resume` is `resumeInterrupted()`. It may give back what was reserved and then still
return `false`, as when `gate.resume()` throws; with the gate OFF or no model configured it
is not taken at all.

A wake-up and the feedback that a crash makes the code send twice are one message
each; replies to derived messages do nothing. Both bound the number of messages.

### `Payments`: state and actions

| Model | Code |
|---|---|
| `tx`, `chain` | what the chain knows of each transfer: not landed, seen, final |
| `order`; `invoice`, `obs`, `receipts`, `told`, `unmatched`, `cursor` | the control database; the payment database, whose outbox deliveries are `told` |
| `scan[w]` | what a scan in progress has read and keeps between its awaits |
| `CreateOrder`, `Look`, `Cancel`, `Restart` | `PublicStore`, the owner's route, the constructor's repair |
| `StartScan`, `ListSolana`, `ListEvm`, `Read`, `EndPage`, `ReadAgain`, `Expire`, `Sweep` | `PaymentMonitor`, with `PaymentService.observe()` (`Record`) |
| `Deliver` | `PaymentService.deliverMemories()` |
| `Chain`, `TimeOver`, `CallFails`, `Dies` | customers, finality, time, the RPC node, a death in the middle of any handler |

### `ReleaseSupervisor` and `UpgradeJob`: state and actions

| Model | Code |
|---|---|
| `cand`, `gen` | the supervisor's candidates, the generations of the lineage database |
| `disk` | the link to the release, the pointer to the generation, directories, snapshots |
| `app` | the server: the release it runs and whether it accepts work |
| `facts`, `Legacy` | facts in the company's database that an older release cannot carry |
| `Submit`, `Validate`, `Approve`, `Birth` ... `Born`, `GiveUp` | `GenerationSupervisor`: each await and each durable write of `birth()` |
| `Abandon`, `RollingBack`, `Recheck`, `Freeze`, `GoBack`, `RollLineage`, `Restored` | `restore()` after a failed birth or for a rollback |
| `Rollback`, `RollbackTo`, `RollCheck`, `RollQuiesce`, `Delete`, `Remove`, `Recover` | the other commands; rollback walks the ancestry one release at a time |
| `CallFails`, `Refused`, `SupervisorDies`, `Alter` | the server does not answer, refuses; the supervisor dies; files are changed |
| `past`, `main`, `checkout` (`UpgradeJob`) | commits, the branch and the working copy |
| `release`, `limbo` | the sources of the active release and its ancestors; whether an unfinished publication or return is left for `recover()`, and if the lineage already names the release it takes back |
| `job`, `busy`, `child` | the job file, the job in memory, the child process that outlives the page |
| `Switch`, `SyncGit`, `RecoverJob`, `RollbackJob`, `Build`, `Approved`, `Reported`, `Sync` | `upgrade-web.mjs` and `upgrade-git.mjs`, in both modes: `merge`, and `restore` of an old commit of `main` |
| `ChildEnds`: `Publishes`, `RollsBack`, `Recovers`, `Refuses` | the supervisor's command as the page sees it: done, died before or after the lineage changed, or refused. `ReleaseSupervisor` opens each of them |
| `Develop`, `PageDies`, `StepFails`, `Unattended` | a developer in the same checkout; deaths and failures |

### `ToolCalls`: state and actions

| Model | Code |
|---|---|
| `call` | the tool in progress with its signals: stopped, late, by whom |
| `files`, `snaps`, `told` | artifacts per agent, the evidence of an operation, what a save reported |
| `remote`, `adrift` | the remote host, and writers that outlived their ssh |
| `last` | the last result, with what had really happened (history) |
| `Execute` with `SaveArtifact` ... `GithubRepo` | `ToolRuntime.execute()` and each built-in handler |
| `RemoteStep`, `Drift`, `SshTimer` | `runSsh()`: the remote command, one that outlived its ssh, the timer |
| `Close` with `TransportFailure`, `Ended` | the end of ssh: code 0, the command's own other code, ssh's own failure (255, or none on a signal; the command then ran not at all, in part or whole), or no process at all; what the handlers make of it. `EXIT` is `vps_exec`'s `SUCCESS` with a code other than 0 |
| `Resolve`, `Response` | the resolution of a name, redirects and answers of `public_http.ts` |
| `Abort`, `ServerDies` | time limit, owner's stop; a death during a call, also between snapshot and file |

## 3. The runs

| Run | Bounds | Question and answer |
|---|---|---|
| `ledger` | 3 permits, 3 operations (two of a world, one of a worker), reservations of 2, bills of 1 or 3, allowances of 3 or 5, 2 periods | Money, replay, finality and holds in every order of calls, restarts, late receipts and owner decisions: all hold |
| `ledger_progress` | 2 permits, 2 operations, fairness | Every authorised call leaves SENT; the ledger implements the account: both hold |
| `execution_task` | 1 task, 2 attempts, 4 launches, 2 restarts, fairness | One process per task, supervision, results, replays, refinement of `TaskAttempts`; that workers, dispatches and stopped tasks converge: all hold |
| `execution_world` | 2 tasks in one world, 2 attempts each, 4 launches | The claim of a world is held once; stops stand: both hold |
| `world_kernel` | 2 coordinates, 2 seed messages (one left unread by an earlier run), replies of up to 3 effects, 3 calls per message, 2 runs of 1 round and 2 messages, 1 fault, fairness | Effects once and in order, one open bill, reservations, files and mail of the newborn, stops, rounds, and that a run ends, waits for its owner, or stands where it can be resumed: all hold |
| `parts` | see below | Ten properties of releases, the upgrade job, tools, payments, planned goals and a worker's attempt: all hold |
| `shared_world`, `stop_after_restart`, `stop_fails_tick`, `closed_goal`, `stopped_step`, `sent_back` | as small as shows it | Six claims of the documents and comments that the code does not keep, see section 5 |

`parts` checks six modules in one run. They share no state: `part` picks one, the
others stay in their initial states, so the states are the sum and not the product
of the six. Its bounds, module by module:

* `ReleaseSupervisor`: three candidates after the first release, one mishap (a death,
  a failed call, an altered directory) at any point. Three releases make an ancestry
  of three to go back along, and a newer one to delete; the first release cannot
  carry newer facts.
* `UpgradeJob`: four commits, one mishap. The fourth commit is one that a developer
  makes while a job merges two others, or the restore of an old commit after a merge.
* `ToolCalls`: one operation that may be executed again, two agents, one file, two
  contents, one trouble (a death, a timer, a stop or a lost link).
* `Payments`: two transfers, two scans at once, pages of one, two pages a scan, one
  trouble; the chain is Solana or EVM. Two transfers over pages of one are what it
  takes for a page to hide a transfer behind a newer one.
* `TaskPlans`: two steps, the second needs the first and has requirements; one attempt
  at a missing fact, two dispatches, two commands of the owner. It also holds with
  three commands.
* `CompanyWorker`: two steps, one retry of a call that was not sent, two mishaps (so a
  restart can itself be interrupted).

Why the other bounds are enough. With bills of 1 and 3 against a reservation of 2, both
a bill below and one above the reservation occur; the allowance of 3 runs out
after one call and the one of 5 after two, and a second period starts while bills
of the first are open. Three permits let an operation be tried again after a call
that never left, while another operation is in flight, and three operations let
a third call be asked for after two others have both overrun, which is what an
acknowledgement from an old screen would wrongly let through. Two attempts let a stale
attempt and its successor coexist in the rows (every rule that relates attempts relates
the last one and an earlier one); four launches let a suspended attempt be resumed twice
and still be retried; one restart is the difference between an attempt leased here and one
leased elsewhere, and the second interrupts what the first one recovers. In `execution_world` only one of the two tasks may
be stopped, and the controller does not restart, because the other runs cover this
for one task; and the theorems of section 4 hold without these bounds.
In `world_kernel` a reservation of 2 and a use of 3 under a run budget of 4 let a call
overrun what was reserved and a budget run out in the middle of a run; three calls of
a message allow an invalid reply, its repetition and one more after a crash; two runs
let a run meet what the one before it left. Every bound is named in its module and
occurs in guards.

`sent_back` explores `SendBackSpec`, the steps of `PlanNext` that one story needs:
its behaviours are behaviours of `PlanSpec`, so what it finds is one of the full model's.

Deadlock is not checked in any run: every bound, a company whose tasks are all done, a
run that is over and a release that waits for its owner are legitimate ends.

Symmetry is used in `ledger` (interchangeable permits) and `parts` (interchangeable
scans), which check safety only.

### Fairness

`CompanyLedger`: a call gets an outcome because the client times out and a dead
worker is found by `poll()`; the outcome is reported because the code after the
await, the worker's flush or `recover()` does so. `CompanyExecution`: the tick
runs every second and visits every row; messages and exits are events of the
runtime; a worker's steps are bounded. Kills, restarts and everything the owner
does are never fair. The liveness properties exempt a tick that was stopped by an
exception (`fault`), which the code does not restart, and so say so.
`WorldKernel`: the loop takes its next step (`Kernel`), because nothing but its own
awaits can hold up a JavaScript function; calls and tools answer or time out
(`Answers`). `Resume` is not fair: `resumeInterrupted()` is called by the company's tick
only (`services/company_legacy_adapter.ts:120`), while the gate is ON, and the gate may
still refuse it. Crashes and owners are not fair either. `RunsSettle` therefore says that a
run that goes on ends, or is left by a dead process in one of two states: there is
something that only its owner can judge, or the next `resumeInterrupted()` takes it up. It
excludes a loop that hangs and a run that nobody can bring on. The other modules state safety only.

## 4. What is proved

`CompanyLedgerProofs`, for every set of permits, operations, amounts, bills and
allowances that satisfies `LedgerConstants`:

* `Typing`: the rows, settings and callers keep their types.
* `SentMoneyHeld` (property `BilledNeverReleased`), `NoReplay` (`SentOnce`),
  `Final` (`FinalStatesStay`) and `OverrunSeen` (`NoGrantOnUnseenOverrun`).

They rest on `Invariance`, the inductive invariant
`IInv == TypeOK /\ Staged /\ OneOwner /\ HoldsAnswered /\ UnseenHolds`. None of
the properties is inductive alone:

* `Staged` ties a caller's stage to its row: a caller that knows its call was
  refused never delivered it, a free row has no caller. Without it `ReportFailure`
  could release a call that was sent.
* `OneOwner` says that an operation has at most one row that answers for it. With
  `Staged` it gives `SentOnce`.
* `HoldsAnswered` and `UnseenHolds` say what the safety hold names and that an
  overrun the owner has not looked at is still the one it names, unless a later overrun
  took its place (`overwritten`); `Acknowledge` needs them because it clears the one
  `safety` row for all overruns. The exception is the code's: see section 6.

Row lemmas about `ModelPermit` say what each transition preserves of one row;
table lemmas lift them to `[permit EXCEPT ![id] = ...]`; each action has a step.

* `AccountImplemented` (property `AccountSpec`): the ledger implements `BudgetAccount`.
  Its amounts are sums over the table. `SumFunction` defines a sum by recursion on a
  finite set; that there is such a function, and that one row's change moves the sum by
  that row's change, is proved without an induction rule, from the least element of a
  non-empty set of natural numbers (`AddsExists`, `SumChange`). `Permits` must be finite
  for that, which a table of a database is. `PrepareReserves`, `ReplyBills`,
  `FailureReleases`, `OwnerSettles`, `ConfigureAuthorizes` and `RestartKeepsMoney` then
  say which step of the account each step of the ledger is, or that it is none.
* `AccountCovered`: the account never promises more than was authorised plus the excess on
  record. `MoneyStaysCovered` (`MoneyCovered`) reads this off the ledger.

`CompanyExecutionProofs`, for any number of tasks, worlds, attempts, launches and
restarts that satisfies `ExecutionConstants`: `Typing`, `OneProcess`, `AllSupervised`,
`RepliesTrue`, `NoBlindReplay`, `OneClaim`, `Finality`, `StopsHold`, and
`AttemptsRefined`, that `CompanyExecution` implements `TaskAttempts`. All safety
properties of the runs `execution_task` and `execution_world` are thus theorems. The
argument, over the inductive invariant `IInv`:

* `Contiguous`: the attempts of a task are numbered without gaps, so the fence, which
  the model computes as a cardinality and the code as `MAX(fence)+1`, names the last
  attempt. `SameFence` and `NextFence` say when an action leaves it or moves it by one.
* `QueuedSettled`: a task is queued again only over an attempt whose launch has exited
  and whose unknown outcome is settled. It is what retry, rework and resumption check in
  different places.
* `OldOver` follows: every attempt but the last is terminal, exited and settled. This is
  `NoBlindReplay`, and with `Supervised` it is `OneProcess`: a process belongs to the open
  launch of its own epoch, and only the last attempt can have one (`OnlyTheLast`).
  `ForkFounded` carries this over the await between the launch row and the fork.
* `MessagesTrue`, `CompletedTrue`, `RepliedTrue`: what a message says is what the journal
  of a worker that has decided says. Without them a late message could end an attempt
  with a result its worker never had. `CompletedTrue` also keeps an open fetch out of a
  FAILED attempt, whose retry is not reviewed; that leaves the interrupted attempt as the
  only one that is followed over one, the exception `NoReplayUnreviewed` names.
* `LeasesPast`, `StoppedOver`: under the first controller no lease is foreign, so a stop
  always ends the attempt. After a restart this is false (finding `stop_after_restart`),
  and the property says so.

Each action keeps `IInv` (lemmas `...Keeps`), with general lemmas for actions that move
no attempt (`AttemptsStay`), no worker (`WorkersStay`) or no message (`MessagesStay`).
`StepSimulates` maps every step to a step of `TaskAttempts` or a stutter. Launch epochs
are natural numbers in `TypeOK`; their bound `MaxLaunches` is a guard for TLC and no
theorem depends on it.

`ReleaseProofs.MainStays`: for any number of commits, deaths and failures the page
moves `main` only forward and only to the source of the active release, through merges and
restores, publications, returns over any number of ancestors, and recoveries, each of which
may die at any point. A sync must have been founded (`SyncFounded`: the release is at the
plan's commit and no child can move it meanwhile) and a plan's commit must descend from the
`main` it was planned on (`PlanDescends`). What the supervisor does to the ancestry is to
append to it or to cut its end off (`Histories`).

`ReleaseProofs` also has all the properties of `ReleaseSupervisor`, for any number of
candidates, legacy releases, deaths and failures: `RunningFollowsActive` (property
`RunningIsActive`), `AncestorsAreKept` (`AncestorsKept`) and `FactsAreKept`
(`RollbackKeepsFacts`). The only assumptions are `SupervisorConstants`: candidates are
numbered without a gap from 1, as the order of their submission numbers them. `SupKept` is
inductive; every write between two deaths of the supervisor is covered by it:

* `Lineages`, `Submitted`, `Numbered`: one generation is active; generations are numbered
  without a gap, each made from an earlier one (`Downward`) by a candidate that knows it
  (`MadeFrom`); and a candidate's number is not taken by one submitted later. Hence a release
  and its generation name each other, which the code never checks as such.
* `Left` and `EarlyStands`: what a death leaves unfinished is no older than the active
  generation, and unless it was switched to, the old release is still linked. This is why
  `recover()` may abandon it without stopping anything.
* `Before`, `During`, `Back`: where the process is says what it has written so far, at every
  await of `birth()` and `restore()`. `Settled` is the property, freed from `In("idle")`.
* `CodeKept` adds a set of generations that holds the active one, is closed under parents,
  has its code, and holds nothing newer (`Rooted`). The ancestry itself is a recursive
  function's value (`AncestryIs`, proved without an induction rule from the least
  counterexample), and `AncestryWithin` puts it inside every such set. A birth extends the
  set (`CodeLineage`), a return cuts it at the base (`CodeRolled`), and a release that may be
  deleted is none of it, because its number is greater (`Newer`). The number is on record when
  the intent is, so the removal that a death interrupted is covered too.
* `FactsCarried`: from the recheck to the start of the old release the facts cannot grow,
  because the server is quiesced and then stopped. It holds of a rollback the owner asked
  for; after a failed birth the server may accept facts between recheck and stop (see 6).

`DeliveryProofs.EvidenceKept`: evidence stands for any operations,
agents, contents and repeated executions. `DeliveryProofs.ReportsTrue`: what a result
claims of the other side is so; the proof follows what a call in progress may still do there
until its end is filed. It claims little where ssh ends with another code than 0: a read or
a write has failed, with an effect or without one, and `vps_exec` reports a success that
says only that neither timer nor stop cut it short (see 6).

`DeliveryProofs.AcceptedWhenDelivered` (property `FullMeansDelivered`): for any plan, any
dispatches, gaps and attempts, and the owner's commands in any number and order. Nothing
in the goal's row says what it was accepted on, so the invariant `PlanIInv` is about every
proposal ever made:

* `ProposalOK`: a proposal names no more evidence and no later revision of the plan than
  there is, and a complete one was made with no gap open and every step delivered. What a
  proposal was made of only grows (`Grows`), so decided and expired ones keep this too.
* `CompleteDelivered`: a step that is COMPLETED was delivered; a stop, a retry or a skip
  may take the state back, never the delivery.
* `PendingIsComplete`: while the goal waits for its owner, either every step is COMPLETED,
  or no complete proposal can be approved, because evidence, plan or gaps have changed
  since, but for two exceptions, which are ways of `closeProposal()` to return a proposal
  that exists already. After one was sent back it returns that one (`SentBackOnce`), and a
  partial one with the same evidence, plan and gaps is returned while the complete one
  is still pending (`HasTwin`).

The exceptions are `HandedBack` in the property. Without them it is false: two commands of
the owner, the bound of `parts`, are too few to show it, and the attempt to prove it did;
see `sent_back` in section 5.

`PaymentsProofs.InvoicePaidOnce`: for any number of transfers, scans, pages and deaths
between the writes of the two databases. A receipt exists exactly when the invoice is
`FINALIZED` (`SettledOnce`), and a transfer lands only for a customer who was shown a
linked order (`ShownFirst`); without the second an order could refuse the receipt that
the outbox tells it of. That a scan reads a transfer of the chain needs the newest
transfer of a page to exist: a set of bounded numbers has a greatest element, because
otherwise adding 1 would map a finite set injectively into a smaller one (`MaxIn`).

`PaymentsProofs.CursorTracesAll` (property `CursorSkipsNothing`): for pages of any size and
scans that overlap. `TraceIInv` says that everything up to the cursor has left a trace
(an observation, an unmatched row, or the node's withholding), and the same of what a scan
in progress has gone over: of the window from the oldest transfer it has listed to the
newest, all but what its page still has to do. A trace is never taken back, so the write of
a cursor after other scans have moved on is covered. The listing hides nothing because a
page that is not full is the whole set, and a full one is upward closed.

`CompanyWorkerProofs.NothingTwice` (property `NothingDoneTwice`): for any number of steps,
retries, deaths and lost waits. The invariant ties three stores that no transaction joins:

* `PermitsKnown`: a permit is of one step and given to one call at most; of a permit whose
  call reached the provider the journal says SENT, UNKNOWN or RESPONSE under that very
  permit; an event that says "not sent" names a permit that did not reach it and that nobody
  still holds. With this `recover()` gives back only what it may, whatever it finds.
* `AnsweredOnce` and `ActedOnce`: an answer and an effect are preceded by a durable mark, in
  the journal for the worker's tools, in the controller's table too for its own. Where the
  marks disagree, the tool is not run again.
* `Channel` and `Where`: one request at most is open, a request of a dead process is answered
  to nobody, and the process is only where its journal lets it be.

`WorldKernelProofs`, for any coordinates, seeds, replies, limits and numbers of runs, rounds
and faults that satisfy the constants' assumptions: all safety properties of run
`world_kernel` (`Typing`, `ReservationsMatch`, `FilesAndBodies`, `MailAddressed`,
`OnceInOrder`, `ToolsMetOnce`, `OneBill`, `RoundsCounted`, `StopsStick`), over the invariant
`Typed /\ Placed /\ Clean /\ Resuming /\ Counted /\ Billed /\ Recording /\ Addressed /\ Housed`:

* `Clean` is its heart: as long as a round goes on, the only message in flight, the only
  unsettled call and the only started tool are those of the step the process is at. `Start`
  and `Resume` let a run begin only when there are none, and the ends of a run that leave
  something behind are named in it. This is `OneOpenBill` and `NoStartedToolMet`, and what
  `RoundsLeaveNoWork` needs.
* `Resuming` and `Recording` say how far a batch of effects came: the receipts before the
  current effect are there, an effect that was carried out has its receipt or its tool's row,
  and only a reply that is stored, valid and paid has effects. After a crash the code goes by
  these rows alone; with them it is `EffectsOnceInOrder`.
* `Billed` and `Counted` relate what a run has reserved and counted to the open bill.
* `Addressed`: what may still be handled or paid for was written for the present body, which
  a birth must ensure before it replaces one. `Housed` exempts the birth in progress, and one
  that a crash left with its mark (`Marked`), from the agreement of files and bodies.

`PartsProofs`: a step of `MCParts` is a step of one part and a stutter of the others
(`PartsStep`), so `RunningIsActive`, `AncestorsKept`, `RollbackKeepsFacts`,
`MainFollowsRelease`, `EvidenceStands`, `ReportsAreTrue`, `PaidOnce`, `CursorSkipsNothing`,
`FullMeansDelivered` and `NothingDoneTwice`, as run `parts` checks them, are theorems too.

So every safety invariant, every action property and both refinements that a passing run
checks are theorems. Only model-checked is liveness, which is outside the prover:
`NoPermitStaysSent`, `WorkersConverge`, `DispatchesConverge`, `StoppedIsReworkable` and
`RunsSettle`. The violation runs are counterexamples and need no proof.

The inductive invariants were explored by TLC on small instances while they were being
found (`PlanIInv` on two steps, for example); no run repeats that, since the proofs cover it.

## 5. Where code and documents part

Each finding is a run whose property states the document, and whose
counterexample is a behaviour of the code. `PROJECT.json` quotes the lines.

* `shared_world`: the unique index is said to reject a double dispatch. A
  suspended attempt that is being resumed holds no claim until its worker says
  `ready`, so in the same tick a retried task of the same person is claimed and
  started: two workers in one world.
* `stop_after_restart`: a stopped task's attempt is said to become INTERRUPTED.
  `observe()` silently drops the interruption of an attempt leased by an earlier
  controller.
* `stop_fails_tick`: other goals are said not to be affected by a stop. Resuming
  such an attempt throws an error the loop does not expect, and this ends all
  scheduling until the next start.
* `closed_goal`: a goal is said not to affect others. An attempt claimed by a
  controller that died before the launch outlives the closing of its goal and
  keeps the claim of its world.
* `stopped_step`: a stopped task is said to leave its node blocked. A retry puts the
  node back to WAITING; stopping the task again blocks the node only if it is RUNNING,
  so the scheduler hands the stopped step out once more.
* `sent_back`: a proposal that was sent back is said not to block the next round. When the
  owner asks to close in the chat, `closeProposal()` returns the one that was sent back,
  whatever happened since, and the goal waits for approval. If a delivered step was put
  back to waiting in between, the complete proposal of the round before is still pending,
  and approving it completes the goal with that step open.

## 6. Limits of the code that no property forbids

Behaviours met while modelling. The models reproduce those they reach; no document
promises otherwise unless one is named.

* Safety hold. The `safety` block is one row, replaced by every overrun
  (`services/company_admission_service.ts:12`), and `view()` shows the permit it names
  (`services/company_recovery_service.ts:22`). When a second call overruns before the owner
  has looked, the first one is never put before him: acknowledging the second lets calls
  through again. `NoGrantOnUnseenOverrun` exempts exactly those (`overwritten`).
* Attempts. A fetch of the worker's own (`webfetch`, `github_repo`) that was under way when
  the owner stopped its task leaves no row that `hasPendingOutcome()` looks at
  (`services/owner_goal_service.ts:124`), because `recover()` writes no reason over an
  attempt that is INTERRUPTED already (`services/company_worker_adapter.ts:207`). The task can
  be reworked unreviewed and the page fetched again. Nothing is changed by a fetch;
  `NoReplayUnreviewed` names the case.
* World kernel. An interrupted run goes on only while the company's gate is ON; nothing else
  calls `resumeInterrupted()`. Settling a bill, or confirming that there was none, revives a message
  that was abandoned (`src/packages/persistence/src/core_store.ts:260`, `:270`). A failed
  birth enqueues its feedback and records its effect in two transactions
  (`src/packages/runtime/src/effects/effect_runtime.ts:668`), so a crash repeats the
  feedback. `requestStop()` has no caller outside the tests.
* Release supervisor. `birth()` does not look for releases that are being deleted
  (`src/supervisor/generation_supervisor.ts:197`); a birth after an interrupted deletion
  makes `recover()` fail for good (`:436`, `:461`), where
  `docs/RELEASE_ROLLBACK_DELETE_20261008.md` has it finished by recovery. A crash between
  quiescence and `BIRTHING` leaves the server quiesced. `rollback <id>` (`:373`) lacks the
  check for pending recovery that `rollbackTo` has. After a failed birth, facts can be
  written between the recheck (`:333`) and the stop (`:335`).
* Upgrade job. A job that needs its git sync and is recovered without success ends as
  `failed`, after which sync-git is refused (`src/scripts/upgrade-web.mjs:318`); `main`
  never gets the published commit.
* Tools. Killing ssh does not kill the remote command
  (`src/packages/tools/src/builtin/vps.ts:237`); a write that must not overwrite checks
  first and writes later (`:657`); any exit code of ssh is a `SUCCESS` of `vps_exec`, also its
  own 255 when it could not connect or lost the link, and none at all when a signal ended it,
  which the comment at `:468` takes for the command's own result; a death in the middle of a snapshot makes every repetition
  of the operation fail as a conflict (`artifacts.ts:134`); a stop in the wait of a call that
  is already late is reported as a timeout (`vps.ts:321`).
* Payments. `scanUnmatched()` works on a row that may be stale
  (`services/payment_monitor.ts:90`); the cursor passes a transfer the node does not show at
  that moment (`:52`), and one whose status is missing is dropped for good (`:63`); invoices
  of other chains than Solana never expire (`:66`). `CursorSkipsNothing` therefore exempts
  what the node withheld.
* Task plans. A partial proposal that repeats an earlier one (same evidence, plan and gaps)
  is answered with the earlier one, even when it has expired, and the complete proposal made
  in between stays pending (`services/owner_proposal_service.ts:37`). Rework of a step that was deferred or partial never credits the earlier
  occurrence; a retry of an old failed task takes a completed node back; a step can be
  skipped while its retry is queued; a retry while a new plan awaits approval sets the goal
  READY; a dispatch's write after its await revives one that was stopped meanwhile
  (`services/company_goal_scheduler.ts:136`).
* Worker. After a call that was not sent, the journal keeps the first permit's identity, so
  a crash blocks the attempt over the second permit although it may never have been used;
  a tool refused after it was noted as started blocks the attempt although nothing ran
  (`execution/company_worker_engine.ts:97`). Both err on the side of asking the owner.
* Gate. A stopped attempt whose launch is READY leaves its run permit PREPARING
  (`services/owner_automation_gate.ts:143`), and its world stays busy.

## 7. Not modelled, and why

* Legacy bridge: one-time adoption of runs of the old kernel; new work never takes it.
  With it the legacy branches of `abandon()`, `resumeLegacyRun()` and the legacy tick.
* Owner conversation and views, front end, prompts, parsing of replies, pricing tables,
  matching of evidence: text and projections. Where a decision depends on them it is an
  input of the models.
* Plugins and instance code: file trees and manifests; a release with them is published by
  the supervisor, which is modelled.
* HTTP server, sessions, protocol types, the recovery page: every handler that changes state
  calls a service named above.
* Within modelled parts: recurring schedules, templates and recruitment of task plans;
  proposals other than to close a goal; round permits and maintenance of the gate; execution
  scopes, the detector of read-only loops and edits of a mind in the kernel; Tron, refused
  transfers and the rails in payments; build scripts, content of migrations and deletion of
  branches around the supervisor; validations that run external programs in sandboxes; schema
  migrations.

## 8. Running it

    tlc -workers 2 -config MCCompanyLedger.cfg MCCompanyLedger.tla
    tlc -workers 2 -config MCExecutionTask.cfg MCCompanyExecution.tla
    tlc -workers 2 -config MCWorldKernel.cfg MCWorldKernel.tla
    tlc -workers 2 -config MCParts.cfg MCParts.tla
    tlc -workers 2 -config MCSentBack.cfg MCTaskPlans.tla
    tlapm CompanyLedgerProofs.tla
    tlapm CompanyExecutionProofs.tla
    tlapm ReleaseProofs.tla
    tlapm DeliveryProofs.tla
    tlapm PaymentsProofs.tla
    tlapm CompanyWorkerProofs.tla
    tlapm WorldKernelProofs.tla
    tlapm PartsProofs.tla

`PROJECT.json` names the module and configuration of every run. `parts` has about 1.3
million distinct states and `world_kernel` about 185 thousand; each takes a minute or
so. To look at one part alone, give `Parts` in `MCParts.cfg` one element.
`WorldKernelProofs` takes about ten minutes to prove, `ReleaseProofs` four, the others one
or two each.

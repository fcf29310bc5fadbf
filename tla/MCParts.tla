------------------------------ MODULE MCParts ------------------------------
(***************************************************************************)
(* Six parts of the system that share no state, side by side: `part` says   *)
(* which one moves, the others rest in their initial state.                 *)
(***************************************************************************)
EXTENDS Integers, Sequences, FiniteSets, TLC

CONSTANTS
  Parts,
  Candidates, Legacy, MaxFaults,
  Commits, JobMishaps,
  Ops, Pixels, Files, Contents, MaxTrouble,
  MaxTransfers, Scanners, PageSize, Pages, MaxWrong,
  Nodes, Checked, GapAttempts, MaxDispatches, MaxOwner,
  MaxSteps, Retries, WorkerMishaps

VARIABLES
  part,
  cand, gen, disk, app, facts, restored, sup, wrong,                      \* ReleaseSupervisor
  past, main, checkout, release, limbo, child, upgrade, busy, slips,      \* UpgradeJob
  call, files, snaps, told, remote, adrift, last, trouble,                \* ToolCalls
  chain, tx, late, order, invoice, obs, receipts, delivered, unmatched, cursor, scan, up,
  withheld, bad,                                                          \* Payments
  goal, plan, node, job, gap, scope, proof, closing, sending, halted, asked,   \* TaskPlans
  worker, journal, office, rpc, world, mishaps                            \* CompanyWorker

\* Every pair of agents touches; the second step of a plan needs the first.
Neighbours == {n \in Pixels \X Pixels : n[1] # n[2]}
DependsOn == [n \in Nodes |-> IF n = "b" THEN {"a"} ELSE {}]

Release == INSTANCE ReleaseProofs WITH MaxMishaps <- JobMishaps, job <- upgrade, mishaps <- slips
Delivery == INSTANCE DeliveryProofs
Pay == INSTANCE PaymentsProofs WITH told <- delivered
Worker == INSTANCE CompanyWorkerProofs WITH MaxMishaps <- WorkerMishaps

ASSUME PartsConstants ==
  /\ Release!SupervisorConstants /\ Release!JobConstants /\ Delivery!ToolConstants
  /\ Pay!PaymentConstants /\ Delivery!PlanConstants /\ Worker!WorkerConstants
  /\ Parts \subseteq {"supervisor", "upgrade", "tool", "pay", "plan", "worker"}

Init ==
  /\ part \in Parts
  /\ Release!SupInit /\ Release!JobInit /\ Delivery!ToolInit /\ Pay!PayInit
  /\ Delivery!PlanInit /\ Worker!WorkerInit
  /\ part # "pay" => chain = "solana"

\* The scans are alike.
Alike == Permutations(Scanners)

SupVars == <<cand, gen, disk, app, facts, restored, sup, wrong>>
UpgradeVars == <<past, main, checkout, release, limbo, child, upgrade, busy, slips>>
ToolVars == <<call, files, snaps, told, remote, adrift, last, trouble>>
PayVars == <<chain, tx, late, order, invoice, obs, receipts, delivered, unmatched, cursor, scan, up,
             withheld, bad>>
PlanVars == <<goal, plan, node, job, gap, scope, proof, closing, sending, halted, asked>>
WorkerVars == <<worker, journal, office, rpc, world, mishaps>>
vars == <<part, SupVars, UpgradeVars, ToolVars, PayVars, PlanVars, WorkerVars>>

Next ==
  \/ /\ part = "supervisor" /\ Release!SupNext
     /\ UNCHANGED <<part, UpgradeVars, ToolVars, PayVars, PlanVars, WorkerVars>>
  \/ /\ part = "upgrade" /\ Release!JobNext
     /\ UNCHANGED <<part, SupVars, ToolVars, PayVars, PlanVars, WorkerVars>>
  \/ /\ part = "tool" /\ Delivery!ToolNext
     /\ UNCHANGED <<part, SupVars, UpgradeVars, PayVars, PlanVars, WorkerVars>>
  \/ /\ part = "pay" /\ Pay!PayNext
     /\ UNCHANGED <<part, SupVars, UpgradeVars, ToolVars, PlanVars, WorkerVars>>
  \/ /\ part = "plan" /\ Delivery!PlanNext
     /\ UNCHANGED <<part, SupVars, UpgradeVars, ToolVars, PayVars, WorkerVars>>
  \/ /\ part = "worker" /\ Worker!WorkerNext
     /\ UNCHANGED <<part, SupVars, UpgradeVars, ToolVars, PayVars, PlanVars>>

Spec == Init /\ [][Next]_vars

-----------------------------------------------------------------------------
(* With nothing unfinished, link, pointer and server agree with the one       *)
(* active generation (generation_supervisor.ts).                              *)
RunningIsActive == part = "supervisor" => Release!RunningIsActive
(* No ancestor of the active release loses its code (deleteRelease()).        *)
AncestorsKept == part = "supervisor" => Release!AncestorsKept
(* A rollback never starts a release that cannot carry the company's facts    *)
(* (rollbackCandidate(), which checks them again when the server is quiet).   *)
RollbackKeepsFacts == Release!RollbackKeepsFacts
(* main only moves forward, to the source of the release that is active       *)
(* (upgrade-web.mjs).                                                         *)
MainFollowsRelease == Release!MainFollowsRelease
(* Evidence reported saved stays what was reported (artifacts.ts).            *)
EvidenceStands == part = "tool" => Delivery!EvidenceStands
(* A tool's result says what happened on the other side (runtime.ts, vps.ts,  *)
(* public_http.ts).                                                           *)
ReportsAreTrue == part = "tool" => Delivery!ReportsAreTrue
(* No cursor passes a final transfer that left no trace (payment_monitor.ts). *)
CursorSkipsNothing == part = "pay" => Pay!CursorSkipsNothing
(* One receipt per invoice, and an order that is paid when its invoice is     *)
(* (payment_service.ts).                                                      *)
PaidOnce == part = "pay" => Pay!PaidOnce
(* A goal accepted as complete has every step delivered and none at work, and *)
(* every step complete unless the owner was handed a proposal he had before   *)
(* (owner_proposal_service.ts).                                               *)
FullMeansDelivered == part = "plan" => Delivery!FullMeansDelivered
(* No call is answered twice, no tool acts twice, no permit that reached the  *)
(* provider is given back (company_worker_engine.ts and _adapter.ts).         *)
NothingDoneTwice == part = "worker" => Worker!NothingDoneTwice
=============================================================================

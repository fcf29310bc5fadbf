---------------------------- MODULE PartsProofs ----------------------------
(***************************************************************************)
(* What is proved of a part holds of the system that has all of them: a     *)
(* step of the whole is a step of one part and leaves the others alone.     *)
(***************************************************************************)
EXTENDS MCParts, TLAPS

LEMMA PartsStart ==
  ASSUME Init
  PROVE  /\ Release!SupInit /\ Pay!PayInit /\ Release!JobInit /\ Delivery!ToolInit /\ Worker!WorkerInit
         /\ Delivery!PlanInit
  BY DEF Init

LEMMA PartsStep ==
  ASSUME [Next]_vars
  PROVE  /\ [Release!SupNext]_(Release!supVars)
         /\ [Pay!PayNext]_(Pay!payVars)
         /\ [Release!JobNext]_(Release!jobVars)
         /\ [Delivery!ToolNext]_(Delivery!toolVars)
         /\ [Worker!WorkerNext]_(Worker!workerVars)
         /\ [Delivery!PlanNext]_(Delivery!planVars)
  BY DEF Next, vars, SupVars, PayVars, UpgradeVars, ToolVars, PlanVars, WorkerVars, Release!supVars, Pay!payVars,
    Release!jobVars, Delivery!toolVars, Delivery!planVars, Worker!workerVars

(* An invoice is settled by one receipt and its order is paid only with it    *)
(* (payment_service.ts, public_store.ts).                                     *)
THEOREM PaidOnceHolds == Spec => []PaidOnce
<1>1. Init => Pay!PayInit
  BY PartsStart
<1>2. [Next]_vars => [Pay!PayNext]_(Pay!payVars)
  BY PartsStep
<1>3. Pay!PayInit /\ [][Pay!PayNext]_(Pay!payVars) => []Pay!PaidOnce
  BY Pay!InvoicePaidOnce, PartsConstants
<1>4. Pay!PaidOnce => PaidOnce
  BY DEF PaidOnce
<1> QED
  BY <1>1, <1>2, <1>3, <1>4, PTL DEF Spec

(* Evidence that was reported saved stays what was reported (artifacts.ts).   *)
THEOREM EvidenceStandsHolds == Spec => []EvidenceStands
<1>1. Init => Delivery!ToolInit
  BY PartsStart
<1>2. [Next]_vars => [Delivery!ToolNext]_(Delivery!toolVars)
  BY PartsStep
<1>3. Delivery!ToolInit /\ [][Delivery!ToolNext]_(Delivery!toolVars) => []Delivery!EvidenceStands
  BY Delivery!EvidenceKept DEF Delivery!ToolSpec
<1>4. Delivery!EvidenceStands => EvidenceStands
  BY DEF EvidenceStands
<1> QED
  BY <1>1, <1>2, <1>3, <1>4, PTL DEF Spec

(* What the result of a tool claims of the other side is so (runtime.ts, vps.ts, *)
(* public_http.ts).                                                             *)
THEOREM ReportsAreTrueHolds == Spec => []ReportsAreTrue
<1>1. Init => Delivery!ToolInit
  BY PartsStart
<1>2. [Next]_vars => [Delivery!ToolNext]_(Delivery!toolVars)
  BY PartsStep
<1>3. Delivery!ToolInit /\ [][Delivery!ToolNext]_(Delivery!toolVars) => []Delivery!ReportsAreTrue
  BY Delivery!ReportsTrue DEF Delivery!ToolSpec
<1>4. Delivery!ReportsAreTrue => ReportsAreTrue
  BY DEF ReportsAreTrue
<1> QED
  BY <1>1, <1>2, <1>3, <1>4, PTL DEF Spec

(* No cursor passes a final transfer that left no trace (payment_monitor.ts). *)
THEOREM CursorSkipsNothingHolds == Spec => []CursorSkipsNothing
<1>1. Init => Pay!PayInit
  BY PartsStart
<1>2. [Next]_vars => [Pay!PayNext]_(Pay!payVars)
  BY PartsStep
<1>3. Pay!PayInit /\ [][Pay!PayNext]_(Pay!payVars) => []Pay!CursorSkipsNothing
  BY Pay!CursorTracesAll, PartsConstants
<1>4. Pay!CursorSkipsNothing => CursorSkipsNothing
  BY DEF CursorSkipsNothing
<1> QED
  BY <1>1, <1>2, <1>3, <1>4, PTL DEF Spec

(* One attempt does nothing twice (company_worker_engine.ts and _adapter.ts).  *)
THEOREM NothingDoneTwiceHolds == Spec => []NothingDoneTwice
<1>1. Init => Worker!WorkerInit
  BY PartsStart
<1>2. [Next]_vars => [Worker!WorkerNext]_(Worker!workerVars)
  BY PartsStep
<1>3. Worker!WorkerInit /\ [][Worker!WorkerNext]_(Worker!workerVars) => []Worker!NothingDoneTwice
  BY Worker!NothingTwice, PartsConstants DEF Worker!WorkerSpec
<1>4. Worker!NothingDoneTwice => NothingDoneTwice
  BY DEF NothingDoneTwice
<1> QED
  BY <1>1, <1>2, <1>3, <1>4, PTL DEF Spec

(* The maintenance page moves main only forward, to the source of the active  *)
(* release (upgrade-web.mjs).                                                 *)
THEOREM MainFollowsReleaseHolds == Spec => MainFollowsRelease
<1>1. Init => Release!JobInit
  BY PartsStart
<1>2. [Next]_vars => [Release!JobNext]_(Release!jobVars)
  BY PartsStep
<1>3. Release!JobInit /\ [][Release!JobNext]_(Release!jobVars) => Release!MainFollowsRelease
  BY Release!MainStays, PartsConstants DEF Release!JobSpec
<1>4. Release!MainFollowsRelease => MainFollowsRelease
  BY DEF MainFollowsRelease
<1> QED
  BY <1>1, <1>2, <1>3, <1>4, PTL DEF Spec

(* With nothing unfinished, link, pointer and server agree with the one       *)
(* active generation (generation_supervisor.ts).                              *)
THEOREM RunningIsActiveHolds == Spec => []RunningIsActive
<1>1. Init => Release!SupInit
  BY PartsStart
<1>2. [Next]_vars => [Release!SupNext]_(Release!supVars)
  BY PartsStep
<1>3. Release!SupInit /\ [][Release!SupNext]_(Release!supVars) => []Release!RunningIsActive
  BY Release!RunningFollowsActive, PartsConstants
<1>4. Release!RunningIsActive => RunningIsActive
  BY DEF RunningIsActive
<1> QED
  BY <1>1, <1>2, <1>3, <1>4, PTL DEF Spec

(* No ancestor of the active release loses its code (deleteRelease()).        *)
THEOREM AncestorsKeptHolds == Spec => []AncestorsKept
<1>1. Init => Release!SupInit
  BY PartsStart
<1>2. [Next]_vars => [Release!SupNext]_(Release!supVars)
  BY PartsStep
<1>3. Release!SupInit /\ [][Release!SupNext]_(Release!supVars) => []Release!AncestorsKept
  BY Release!AncestorsAreKept, PartsConstants
<1>4. Release!AncestorsKept => AncestorsKept
  BY DEF AncestorsKept
<1> QED
  BY <1>1, <1>2, <1>3, <1>4, PTL DEF Spec

(* A rollback the owner asked for never starts a release that cannot carry    *)
(* the company's facts (rollbackCandidate()).                                 *)
THEOREM RollbackKeepsFactsHolds == Spec => RollbackKeepsFacts
<1>1. Init => Release!SupInit
  BY PartsStart
<1>2. [Next]_vars => [Release!SupNext]_(Release!supVars)
  BY PartsStep
<1>3. Release!SupInit /\ [][Release!SupNext]_(Release!supVars) => Release!RollbackKeepsFacts
  BY Release!FactsAreKept, PartsConstants
<1>4. Release!RollbackKeepsFacts => RollbackKeepsFacts
  BY DEF RollbackKeepsFacts
<1> QED
  BY <1>1, <1>2, <1>3, <1>4, PTL DEF Spec

(* A goal accepted as complete has every step delivered and none at work, and *)
(* every step is complete unless the owner was handed a proposal of before    *)
(* (owner_proposal_service.ts).                                               *)
THEOREM FullMeansDeliveredHolds == Spec => []FullMeansDelivered
<1>1. Init => Delivery!PlanInit
  BY PartsStart
<1>2. [Next]_vars => [Delivery!PlanNext]_(Delivery!planVars)
  BY PartsStep
<1>3. Delivery!PlanInit /\ [][Delivery!PlanNext]_(Delivery!planVars) => []Delivery!FullMeansDelivered
  BY Delivery!AcceptedWhenDelivered, PartsConstants DEF Delivery!PlanSpec
<1>4. Delivery!FullMeansDelivered => FullMeansDelivered
  BY DEF FullMeansDelivered
<1> QED
  BY <1>1, <1>2, <1>3, <1>4, PTL DEF Spec
=============================================================================

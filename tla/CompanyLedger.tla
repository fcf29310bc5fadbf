--------------------------- MODULE CompanyLedger ---------------------------
(***************************************************************************)
(* The company's money: permits, reservations, the authorised allowance,   *)
(* the ON/OFF intent and the safety hold, with the callers that use the    *)
(* permits and the provider they talk to.                                  *)
(*                                                                         *)
(* Every handler is one SQLite transaction, so an action is a handler.     *)
(* What interleaves is the life of a call between prepare() and its        *)
(* receipt: other calls, restarts, owner decisions, a new allowance.       *)
(* Definitions that nothing else uses are seeded bugs, as in ModelPermit.  *)
(***************************************************************************)
EXTENDS ModelPermit, FiniteSets, FiniteSetsExt

CONSTANTS
  Permits,      \* the permit rows that may be inserted: finitely many
  Ops,          \* operations: a source call id (auditCallId) and its source
  WorkerOps,    \* those a worker process makes: its journal survives us
  Scope,        \* the world (or, for a worker, the attempt) of each operation
  Amounts,      \* reservations prepare() may compute
  Costs,        \* bills the provider may send
  Allowances,   \* amounts the owner may authorise
  MaxPeriods,   \* bound: how many allowances the owner authorises
  NoHold        \* no safety hold

ASSUME LedgerConstants ==
  /\ IsFiniteSet(Permits)
  /\ Ops # {} /\ WorkerOps \subseteq Ops
  /\ Amounts \subseteq Nat /\ Costs \subseteq Nat /\ Allowances \subseteq Nat
  /\ MaxPeriods \in Nat
  /\ NoHold \notin Permits

VARIABLES
  permit,     \* the permit table
  budget,     \* owner_company_budget: total and baseline of the period
  mode,       \* owner_automation_control.desired_mode
  hold,       \* company_admission_blocks, id 'safety': the permit it names
  seen,       \* the hold on the owner's screen
  call,       \* how far the caller of each permit is
  sent,       \* permits whose request reached the provider
  reviewed,   \* permits with an 'owner_model_outcome_reviewed' event
  unlooked,   \* reported overruns the owner has not looked at
  overwritten \* overruns whose row a later overrun took over (history)

vars == <<permit, budget, mode, hold, seen, call, sent, reviewed, unlooked, overwritten>>

Replies == {Metered(c) : c \in Costs} \cup {Unmetered}

(***************************************************************************)
(* A caller's stage.  "granted": it holds the permit; "delivered": the     *)
(* request is at the provider; "replied", "refused" (it provably never     *)
(* left) and "ambiguous" are outcomes it knows; "gone": nobody will report *)
(* on the permit any more.                                                 *)
(***************************************************************************)
Stages == {"none", "granted", "delivered", "replied", "refused", "ambiguous", "gone"}
CallType == [stage : Stages, reply : ReplyType]
Idle == [stage |-> "none", reply |-> NoReply]

(* The rows, the owner's settings and the callers keep their types: no row   *)
(* leaves the five states of its table (company_model_ledger.ts).            *)
TypeOK ==
  /\ permit \in [Permits -> PermitType(Ops)]
  /\ budget.total \in Nat /\ budget.baseline \in Nat
  /\ budget.active \in BOOLEAN /\ budget.tokens \in Nat /\ budget.periods \in Nat
  /\ mode \in {"ON", "OFF"}
  /\ hold \in Permits \cup {NoHold}
  /\ seen \in Permits \cup {NoHold}
  /\ call \in [Permits -> CallType]
  /\ sent \subseteq Permits
  /\ reviewed \subseteq Permits
  /\ unlooked \subseteq Permits
  /\ overwritten \subseteq Permits

-----------------------------------------------------------------------------
(* OwnerCompanyBudget.view() *)

Rows(state) == {id \in Permits : permit[id].state \in state}

SpentAll == SumFunction([id \in Permits |-> SpentBy(permit[id])])
Held == SumFunction([id \in Permits |-> HeldBy(permit[id])])

Total == budget.total - budget.baseline
Spent == SpentAll - budget.baseline
Available == LET left == Total - Spent - Held IN IF left > 0 THEN left ELSE 0
NeedsRefill == budget.active /\ Total - Spent <= 0

(* OwnerAutomationGate.isOn() *)
IsOn == mode = "ON" /\ hold = NoHold /\ budget.active /\ Available > 0 /\ ~NeedsRefill

(* Calls of this process that have not returned: the gate's `calls` set. *)
InProcess == {id \in Permits : permit[id].op \notin WorkerOps
                             /\ call[id].stage \in {"granted", "delivered",
                                                    "replied", "refused", "ambiguous"}}

(***************************************************************************)
(* assertModelPermission(): an unknown outcome stops its own scope only.   *)
(* A worker's attempt waits for any unanswered unknown call, a world for   *)
(* any unknown call the owner has not reviewed.                            *)
(***************************************************************************)
ScopeClear(op) ==
  \A id \in Rows({"UNKNOWN"}) : Scope[permit[id].op] = Scope[op] =>
     IF op \in WorkerOps THEN IsAnswered(permit[id])
     ELSE permit[id].op \in WorkerOps \/ id \in reviewed

(* Seeded: a prepare() that looks for a call in flight only. *)
UnownedInFlight(op) == \A id \in Permits : ~(permit[id].op = op /\ permit[id].state = "SENT")

(* prepare(): the operation has no permit that may have reached the provider. *)
Unowned(op) == \A id \in Permits : ~Owns(permit[id], op)

-----------------------------------------------------------------------------
Init ==
  /\ permit = [id \in Permits |-> FreePermit(CHOOSE op \in Ops : TRUE)]
  /\ budget = [total |-> 0, baseline |-> 0, active |-> FALSE, tokens |-> 0, periods |-> 0]
  /\ mode = "OFF"
  /\ hold = NoHold
  /\ seen = NoHold
  /\ call = [id \in Permits |-> Idle]
  /\ sent = {}
  /\ reviewed = {}
  /\ unlooked = {}
  /\ overwritten = {}

(* CompanyModelLedger.prepare() with OwnerCompanyBudget.reserve(). *)
Prepare(id, op, amount) ==
  /\ permit[id].state = "FREE"
  /\ IsOn
  /\ ScopeClear(op)
  /\ Unowned(op)
  /\ amount <= Available
  /\ permit' = [permit EXCEPT ![id] = Authorized(op, amount)]
  /\ call' = [call EXCEPT ![id].stage = "granted"]
  /\ UNCHANGED <<budget, mode, hold, seen, sent, reviewed, unlooked, overwritten>>

-----------------------------------------------------------------------------
(* The provider, external to the program. *)

Deliver(id) ==
  /\ call[id].stage = "granted"
  /\ call' = [call EXCEPT ![id].stage = "delivered"]
  /\ sent' = sent \cup {id}
  /\ UNCHANGED <<permit, budget, mode, hold, seen, reviewed, unlooked, overwritten>>

Reply(id, r) ==
  /\ call[id].stage = "delivered"
  /\ call' = [call EXCEPT ![id] = [stage |-> "replied", reply |-> r]]
  /\ UNCHANGED <<permit, budget, mode, hold, seen, sent, reviewed, unlooked, overwritten>>

(* No connection was made: the client reports InfrastructureFailureError. *)
Refuse(id) ==
  /\ call[id].stage = "granted"
  /\ call' = [call EXCEPT ![id].stage = "refused"]
  /\ UNCHANGED <<permit, budget, mode, hold, seen, sent, reviewed, unlooked, overwritten>>

(* Anything else that is not a response: OutcomeUnknownError, or a worker   *)
(* that died while its journal says SENT.                                   *)
LoseTrack(id) ==
  /\ call[id].stage \in {"granted", "delivered"}
  /\ call' = [call EXCEPT ![id].stage = "ambiguous"]
  /\ UNCHANGED <<permit, budget, mode, hold, seen, sent, reviewed, unlooked, overwritten>>

(***************************************************************************)
(* The caller reports the outcome it knows: CompanyModelLedger.response()  *)
(* or failure().  A call of this process reports once; a worker's journal  *)
(* is flushed, and replayed by recover(), any number of times, also after  *)
(* a restart of the controller.                                            *)
(***************************************************************************)
Finished(id) == IF permit[id].op \in WorkerOps THEN call
                ELSE [call EXCEPT ![id].stage = "gone"]

ReportReply(id) ==
  /\ call[id].stage = "replied"
  /\ AcceptsReply(permit[id], call[id].reply)
  /\ permit' = [permit EXCEPT ![id] = AfterReply(@, call[id].reply)]
  /\ IF Overruns(permit[id], call[id].reply)
     THEN /\ hold' = id
          /\ unlooked' = unlooked \cup {id}
          /\ overwritten' = overwritten \cup ({hold} \ {NoHold})
     ELSE UNCHANGED <<hold, unlooked, overwritten>>
  /\ call' = Finished(id)
  /\ UNCHANGED <<budget, mode, seen, sent, reviewed>>

ReportFailure(id) ==
  /\ call[id].stage \in {"refused", "ambiguous"}
  /\ permit' = [permit EXCEPT ![id] = AfterFailure(@, call[id].stage = "refused")]
  /\ call' = Finished(id)
  /\ UNCHANGED <<budget, mode, hold, seen, sent, reviewed, unlooked, overwritten>>

(***************************************************************************)
(* The controller stops and starts again.  Calls of its own process are    *)
(* lost with it; workers, and what their journals say, are not.            *)
(***************************************************************************)
Restart ==
  /\ permit' = [id \in Permits |-> AfterRestart(permit[id])]
  /\ call' = [id \in Permits |-> IF id \in InProcess THEN [call[id] EXCEPT !.stage = "gone"]
                                 ELSE call[id]]
  /\ UNCHANGED <<budget, mode, hold, seen, sent, reviewed, unlooked, overwritten>>

-----------------------------------------------------------------------------
(* The owner. *)

(* OwnerCompanyBudget.configure(): bills that are still held keep their     *)
(* money in the new period.                                                 *)
Authorize(amount) ==
  budget' = [total |-> SpentAll + amount, baseline |-> SpentAll, active |-> TRUE,
             tokens |-> amount, periods |-> budget.periods + 1]

ConfigureForgettingHeld(amount) ==
  /\ budget.periods < MaxPeriods
  /\ ~(NeedsRefill /\ budget.tokens = amount)
  /\ Authorize(amount)
  /\ UNCHANGED <<permit, mode, hold, seen, call, sent, reviewed, unlooked, overwritten>>

Configure(amount) ==
  /\ budget.periods < MaxPeriods
  /\ amount >= Held
  /\ ~(NeedsRefill /\ budget.tokens = amount)
  /\ Authorize(amount)
  /\ UNCHANGED <<permit, mode, hold, seen, call, sent, reviewed, unlooked, overwritten>>

(* OwnerAutomationGate.control(): OFF always, ON only when nothing is left  *)
(* in flight from before and nothing holds the company.                     *)
SwitchOff ==
  /\ mode = "ON"
  /\ mode' = "OFF"
  /\ UNCHANGED <<permit, budget, hold, seen, call, sent, reviewed, unlooked, overwritten>>

SwitchOn ==
  /\ mode = "OFF"
  /\ hold = NoHold /\ budget.active /\ ~NeedsRefill /\ Available > 0
  /\ InProcess = {}
  /\ mode' = "ON"
  /\ UNCHANGED <<permit, budget, hold, seen, call, sent, reviewed, unlooked, overwritten>>

(* OwnerAutomationGate.reconcileCall(), and the branch of reconcileWorld()  *)
(* that copies a bill the world's own recovery settled.                     *)
Reconcile(id, cost) ==
  /\ permit[id].state = "UNKNOWN"
  /\ permit' = [permit EXCEPT ![id] = AfterReconcile(@, cost)]
  /\ UNCHANGED <<budget, mode, hold, seen, call, sent, reviewed, unlooked, overwritten>>

(* reconcileWorld(): the owner confirmed with the provider that a call of a *)
(* world was never billed.  Such a statement is assumed to be true.         *)
ConfirmNotBilled(id) ==
  /\ permit[id].state = "UNKNOWN"
  /\ permit[id].op \notin WorkerOps
  /\ call[id].stage = "gone" /\ id \notin sent
  /\ permit' = [permit EXCEPT ![id].state = "NOT_SENT"]
  /\ UNCHANGED <<budget, mode, hold, seen, call, sent, reviewed, unlooked, overwritten>>

(* An abandoned outcome: reconcileWorld() and CompanyRecoveryService.abandon() *)
(* record the decision and keep the money held.                                *)
Review(id) ==
  /\ permit[id].state = "UNKNOWN" /\ id \notin reviewed
  /\ reviewed' = reviewed \cup {id}
  /\ UNCHANGED <<permit, budget, mode, hold, seen, call, sent, unlooked, overwritten>>

(* CompanyRecoveryService.view(): what the owner decides on.  It shows the    *)
(* one permit the 'safety' row names, not the overruns it named before.      *)
Look ==
  /\ hold # seen
  /\ seen' = hold
  /\ unlooked' = unlooked \ {hold}
  /\ UNCHANGED <<permit, budget, mode, hold, call, sent, reviewed, overwritten>>

AcknowledgeBlindly ==
  /\ hold # NoHold /\ seen # NoHold
  /\ permit[hold].state = "SETTLED"
  /\ hold' = NoHold
  /\ UNCHANGED <<permit, budget, mode, seen, call, sent, reviewed, unlooked, overwritten>>

(* CompanyRecoveryService.acknowledge(): the hash binds the decision to the *)
(* hold, and the permit behind it, that the owner saw.                      *)
Acknowledge ==
  /\ hold # NoHold /\ seen = hold
  /\ permit[hold].state = "SETTLED"
  /\ hold' = NoHold
  /\ UNCHANGED <<permit, budget, mode, seen, call, sent, reviewed, unlooked, overwritten>>

-----------------------------------------------------------------------------
Outcome(id) == \/ Deliver(id) \/ Refuse(id) \/ LoseTrack(id)
               \/ \E r \in Replies : Reply(id, r)
Report(id) == ReportReply(id) \/ ReportFailure(id)
OwnerDecides(id) == \/ ConfirmNotBilled(id) \/ Review(id)
                    \/ \E cost \in Costs : Reconcile(id, cost)

Next ==
  \/ \E id \in Permits, op \in Ops, amount \in Amounts : Prepare(id, op, amount)
  \/ \E id \in Permits : Outcome(id) \/ Report(id) \/ OwnerDecides(id)
  \/ \E amount \in Allowances : Configure(amount)
  \/ SwitchOff \/ SwitchOn
  \/ Look \/ Acknowledge
  \/ Restart

Spec == Init /\ [][Next]_vars

(***************************************************************************)
(* Fairness.  The provider client times out (MCL_TIMEOUT_MS) and a worker  *)
(* that dies is found by poll(), so a call always gets an outcome; the     *)
(* outcome is reported by the code after the await, by the worker's flush  *)
(* or by recover().  The owner and the restarts are not fair.              *)
(***************************************************************************)
Fairness == \A id \in Permits : WF_vars(Outcome(id)) /\ WF_vars(Report(id))

FairSpec == Spec /\ Fairness

-----------------------------------------------------------------------------
(* What the bills of reported and verified calls went beyond reservations. *)
Excess == SumFunction([id \in Permits |-> ExcessBy(permit[id])])

(* Money: what is spent and what may still be billed stay within what the   *)
(* owner authorised, over every new period, restart and late receipt; only  *)
(* a provider that bills more than was reserved can go beyond it, and by    *)
(* exactly that much (reserve(), configure(), settle()).                    *)
MoneyCovered == SpentAll + Held <= budget.total + Excess

(* The ledger implements the account: its rows are summed up, its calls,     *)
(* holds and restarts are not the account's business.                       *)
Account == INSTANCE BudgetAccount
  WITH total <- budget.total, spent <- SpentAll, held <- Held, excess <- Excess

AccountSpec == Account!Spec

(* A call whose request reached the provider never gives its reservation    *)
(* back unbilled, whatever crash, retry or late report follows (failure(),  *)
(* the sweep of the gate's constructor).                                    *)
BilledNeverReleased == \A id \in sent : permit[id].state # "NOT_SENT"

(* No operation reaches the provider twice: the audit call id admits a new  *)
(* permit only once every earlier one is known not to have left.            *)
SentOnce == \A i, j \in sent : permit[i].op = permit[j].op => i = j

RowsFinal ==
  \A id \in Permits :
    /\ permit[id].state \in {"SETTLED", "NOT_SENT"} =>
         permit'[id].state = permit[id].state /\ permit'[id].settled = permit[id].settled
    /\ IsAnswered(permit[id]) => permit'[id].reply = permit[id].reply

(* A settled or released row is final, and a stored receipt is never        *)
(* replaced: late, repeated and contradictory reports change nothing.       *)
FinalStatesStay == [][RowsFinal]_vars

Grants == \E id \in Permits : permit[id].state = "FREE" /\ permit'[id].state # "FREE"

(* After a receipt above its reservation no model call is authorised until   *)
(* the owner has looked at that very overrun (halt(), acknowledge()).  The    *)
(* one way past him is the row itself: an overrun whose hold a later overrun  *)
(* took over may never be shown, but the last one always is.                  *)
NoGrantOnUnseenOverrun == [][Grants => unlooked \subseteq overwritten]_vars

(* Every authorised call leaves SENT: it is settled, released or put before *)
(* the owner as unknown.  No reservation waits on a call nobody follows.    *)
NoPermitStaysSent ==
  \A id \in Permits : permit[id].state = "SENT" ~> permit[id].state # "SENT"

=============================================================================

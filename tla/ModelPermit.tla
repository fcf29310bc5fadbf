---------------------------- MODULE ModelPermit ----------------------------
(***************************************************************************)
(* One authorised model call, as the company keeps it: a row of            *)
(* owner_model_permits joined with its reservation (owner_money_            *)
(* reservations) and its stored provider receipt (company_model_dispatches).*)
(*                                                                         *)
(* The operators are the row's transitions.  They hold no state of their   *)
(* own: CompanyLedger applies them to the whole table.                     *)
(*                                                                         *)
(* A definition that nothing else uses is a seeded bug: with it in place   *)
(* of its neighbour the model loses one of its properties.                 *)
(***************************************************************************)
EXTENDS Integers

(***************************************************************************)
(* A provider receipt.  "metered" is a response whose token usage is       *)
(* known, "unmetered" one whose usage is missing, so its price is not      *)
(* known.  Two receipts have the same digest exactly when they are equal.  *)
(***************************************************************************)
NoReply == [kind |-> "none", cost |-> 0]
Metered(cost) == [kind |-> "metered", cost |-> cost]
Unmetered == [kind |-> "unmetered", cost |-> 0]

ReplyType == [kind : {"none", "metered", "unmetered"}, cost : Nat]

PermitStates == {"FREE", "SENT", "UNKNOWN", "SETTLED", "NOT_SENT"}

PermitType(Op) == [state : PermitStates, op : Op, reserved : Nat,
                   settled : Nat, reply : ReplyType]

(* A row that has not been inserted yet. *)
FreePermit(op) == [state |-> "FREE", op |-> op, reserved |-> 0,
                   settled |-> 0, reply |-> NoReply]

(* The row prepare() inserts, with the reservation it makes. *)
Authorized(op, amount) == [state |-> "SENT", op |-> op, reserved |-> amount,
                           settled |-> 0, reply |-> NoReply]

(* The row holds its reservation: the bill is not known and may still come. *)
IsHeld(p) == p.state \in {"SENT", "UNKNOWN"}

(* What a row adds to the money spent, to the money held, and to what bills *)
(* went beyond their reservations.                                          *)
SpentBy(p) == IF p.state = "SETTLED" THEN p.settled ELSE 0
HeldBy(p) == IF IsHeld(p) THEN p.reserved ELSE 0
ExcessBy(p) == IF p.state = "SETTLED" /\ p.settled > p.reserved
               THEN p.settled - p.reserved ELSE 0

IsAnswered(p) == p.reply # NoReply

(* The row answers for its operation: a new permit would be a replay. *)
Owns(p, op) == p.op = op /\ p.state \notin {"FREE", "NOT_SENT"}

-----------------------------------------------------------------------------
(* response(): a stored receipt accepts only its own duplicate, a call      *)
(* known not to have left accepts none, and a bill that was already settled *)
(* by hand accepts only a receipt of that very cost.                        *)
AcceptsReply(p, r) ==
  \/ p.reply = r
  \/ /\ ~IsAnswered(p)
     /\ p.state \notin {"FREE", "NOT_SENT"}
     /\ p.state = "SETTLED" => r = Metered(p.settled)

AfterReply(p, r) ==
  IF IsAnswered(p) THEN p
  ELSE IF r.kind = "metered"
       THEN [p EXCEPT !.state = "SETTLED", !.settled = r.cost, !.reply = r]
       ELSE [p EXCEPT !.state = "UNKNOWN", !.reply = r]

(* The receipt just stored costs more than was reserved for it. *)
Overruns(p, r) == ~IsAnswered(p) /\ r.kind = "metered" /\ r.cost > p.reserved

(* failure(): releases the money only of a call that provably never left,   *)
(* and says nothing about a row that is settled, released or answered.      *)
AfterFailureUnguarded(p, notSent) ==
  [p EXCEPT !.state = IF notSent THEN "NOT_SENT" ELSE "UNKNOWN"]

AfterFailureReleasing(p, notSent) ==
  [p EXCEPT !.state = IF notSent THEN "RELEASED" ELSE "UNKNOWN"]

AfterFailureSilent(p, notSent) ==
  IF IsHeld(p) /\ ~IsAnswered(p) /\ notSent THEN [p EXCEPT !.state = "NOT_SENT"] ELSE p

AfterFailure(p, notSent) ==
  IF IsHeld(p) /\ ~IsAnswered(p)
  THEN [p EXCEPT !.state = IF notSent THEN "NOT_SENT" ELSE "UNKNOWN"]
  ELSE p

(* The sweep of the gate's constructor: a prior process never proves that a *)
(* SENT call was not delivered.                                             *)
AfterRestartReleasing(p) ==
  IF p.state = "SENT" THEN [p EXCEPT !.state = "NOT_SENT"] ELSE p

AfterRestart(p) ==
  IF p.state = "SENT" THEN [p EXCEPT !.state = "UNKNOWN"] ELSE p

(* A bill the owner verified with the provider. *)
AfterReconcile(p, cost) == [p EXCEPT !.state = "SETTLED", !.settled = cost]

=============================================================================

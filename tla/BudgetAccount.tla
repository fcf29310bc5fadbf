--------------------------- MODULE BudgetAccount ---------------------------
(***************************************************************************)
(* What the company's money promises, without permits, calls or owners:    *)
(* an account from which money is held, then billed or given back.  The    *)
(* comment of OwnerCompanyBudget, "integer money is the only company       *)
(* spending authorization", is about this account; CompanyLedger           *)
(* implements it.                                                          *)
(***************************************************************************)
EXTENDS Integers

VARIABLES total, spent, held, excess

vars == <<total, spent, held, excess>>

Init == total = 0 /\ spent = 0 /\ held = 0 /\ excess = 0

(* A new allowance starts from what is spent and covers what is held. *)
Authorize ==
  /\ total' \in Nat /\ total' >= spent + held
  /\ UNCHANGED <<spent, held, excess>>

Reserve ==
  /\ held' \in Nat /\ held' >= held
  /\ spent + held' <= total
  /\ UNCHANGED <<total, spent, excess>>

(* A bill replaces the reservation it was made against; what it exceeds it  *)
(* by is on record.                                                         *)
Bill ==
  /\ held' \in Nat /\ held' <= held
  /\ spent' \in Nat /\ spent' >= spent
  /\ excess' = LET over == (spent' - spent) - (held - held')
               IN IF over > 0 THEN excess + over ELSE excess
  /\ UNCHANGED total

(* Money of a call that never left goes back. *)
Release ==
  /\ held' \in Nat /\ held' <= held
  /\ UNCHANGED <<total, spent, excess>>

Next == Authorize \/ Reserve \/ Bill \/ Release

Spec == Init /\ [][Next]_vars

(* All four amounts are natural numbers. *)
TypeOK == total \in Nat /\ spent \in Nat /\ held \in Nat /\ excess \in Nat

(* What is spent and held is authorised, or on record as excess. *)
Covered == spent + held <= total + excess
=============================================================================

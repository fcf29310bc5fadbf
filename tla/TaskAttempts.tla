---------------------------- MODULE TaskAttempts ----------------------------
(***************************************************************************)
(* What the company promises of the attempts at a task: they come one      *)
(* after the other, numbered by a fence that only grows, and an attempt    *)
(* that is over is over for good.                                          *)
(***************************************************************************)
EXTENDS Naturals

CONSTANT Tasks

VARIABLES
  fence,    \* how many attempts the task has had
  working   \* the last of them is not over

vars == <<fence, working>>

(* Attempts are numbered by their fences; working is a flag per task. *)
TypeOK == fence \in [Tasks -> Nat] /\ working \in [Tasks -> BOOLEAN]

Init == fence = [t \in Tasks |-> 0] /\ working = [t \in Tasks |-> FALSE]

Begin(t) ==
  /\ ~working[t]
  /\ fence' = [fence EXCEPT ![t] = @ + 1]
  /\ working' = [working EXCEPT ![t] = TRUE]

End(t) ==
  /\ working[t]
  /\ working' = [working EXCEPT ![t] = FALSE]
  /\ UNCHANGED fence

Next == \E t \in Tasks : Begin(t) \/ End(t)

Spec == Init /\ [][Next]_vars
=============================================================================

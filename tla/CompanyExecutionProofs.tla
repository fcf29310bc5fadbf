----------------------- MODULE CompanyExecutionProofs -----------------------
(***************************************************************************)
(* Theorems about CompanyExecution for any number of tasks, attempts,      *)
(* launches and restarts.                                                  *)
(*                                                                         *)
(* None of the properties is inductive.  What makes them hold together:    *)
(* fences number the attempts without gaps; an attempt that has a          *)
(* successor is over, closed and settled (OldOver), because a task is       *)
(* queued again only then (QueuedSettled); a process exists only for an    *)
(* open launch of its own epoch (Supervised), so only for the last         *)
(* attempt; and what a message says is in the journal (MessagesTrue).      *)
(***************************************************************************)
EXTENDS CompanyExecution, FiniteSetTheorems, TLAPS

\* The fences as a table: the number of attempts each task has had.
fence == [t \in Tasks |-> Fence(t)]
Last(t) == <<t, fence[t]>>

\* Attempts are numbered from 1 without gaps.
Contiguous ==
  \A t \in Tasks : /\ fence[t] \in 0..MaxAttempts
                   /\ \A n \in 1..MaxAttempts : attempt[<<t, n>>].state # "none" <=> n <= fence[t]

\* No launch without an attempt, no attempt without a dispatch.
RowsFounded ==
  /\ \A id \in Ids : attempt[id].state = "none" => launch[id].state = "none"
  /\ \A id \in live : attempt[id].state # "none"
  /\ \A t \in Tasks : dispatch[t] = "none" => fence[t] = 0

\* A launch that is about to be forked has no process yet.
ForkFounded ==
  \A id \in Ids : doing = Doing("forking", id) =>
    launch[id].state = "STARTING" /\ Active(id) /\ ~Alive(id)

Over(id) == Exited(id) /\ Settled(id)

\* A task is queued again only over an attempt that is closed and settled.
QueuedSettled ==
  \A t \in Tasks : task[t] = "QUEUED" /\ fence[t] > 0 /\ ~Active(Last(t)) => Over(Last(t))

OldOver == \A id \in Ids : id[2] < fence[id[1]] => Terminal(id) /\ Over(id)

OneProcessPerId == \A p, q \in procs : p.id = q.id => p = q

Finished(id) == \A p \in procs : p.id = id => p.phase = "done"

\* A message about an outcome repeats the journal of a worker that has decided.
MessagesTrue ==
  \A id \in Ids : \A i \in DOMAIN queue[id] :
    queue[id][i] = "ready" \/ (queue[id][i] = journal[id] /\ Finished(id))

\* What the company says of an attempt that ended by itself is in its journal.
CompletedTrue ==
  \A id \in Ids :
    /\ attempt[id].state = "COMPLETED" => journal[id] = "completed" /\ Finished(id)
    /\ attempt[id].state = "FAILED" => journal[id] # "lookup" /\ Finished(id)

RepliedTrue ==
  \A t \in Tasks : task[t] = "REPLIED" <=> fence[t] > 0 /\ attempt[Last(t)].state = "COMPLETED"

\* Leases are those of this controller or of an earlier one.
LeasesPast == \A id \in Ids : attempt[id].lease <= inc

\* Under the first controller a stop always ends the attempt.
StoppedOver ==
  inc = 0 => \A t \in Tasks : task[t] = "STOPPED" /\ fence[t] > 0 => Terminal(Last(t))

IInv ==
  /\ TypeOK /\ Contiguous /\ RowsFounded /\ Supervised /\ ForkFounded
  /\ QueuedSettled /\ OldOver /\ OneProcessPerId
  /\ MessagesTrue /\ CompletedTrue /\ RepliedTrue
  /\ OneClaimPerWorld /\ LeasesPast /\ StoppedOver

-----------------------------------------------------------------------------
(* Identities and fences.                                                   *)

LEMMA IdParts ==
  /\ \A id \in Ids : id[1] \in Tasks /\ id[2] \in 1..MaxAttempts /\ id = <<id[1], id[2]>>
  /\ \A t \in Tasks, n \in 1..MaxAttempts : <<t, n>> \in Ids
  BY DEF Ids

(* The operators of the model, in terms of the table of fences.             *)
LEMMA FenceFacts ==
  ASSUME Contiguous, NEW t \in Tasks
  PROVE  /\ fence[t] \in Nat /\ fence[t] <= MaxAttempts
         /\ Fence(t) = fence[t] /\ (Started(t) <=> fence[t] > 0) /\ Latest(t) = Last(t)
         /\ Claimed(t) = <<t, fence[t] + 1>>
         /\ fence[t] > 0 => Last(t) \in Ids /\ attempt[Last(t)].state # "none"
<1>1. fence[t] \in Nat /\ fence[t] <= MaxAttempts
  BY ExecutionConstants DEF Contiguous
<1>2. Fence(t) = fence[t]
  BY DEF fence
<1>3. (Started(t) <=> fence[t] > 0) /\ Latest(t) = Last(t) /\ Claimed(t) = <<t, fence[t] + 1>>
  BY <1>2 DEF Started, Latest, Last, Claimed
<1>4. ASSUME fence[t] > 0 PROVE Last(t) \in Ids /\ attempt[Last(t)].state # "none"
  <2>1. fence[t] \in 1..MaxAttempts
    BY <1>1, <1>4, ExecutionConstants
  <2> QED
    BY <2>1 DEF Contiguous, Last, Ids
<1> QED
  BY <1>1, <1>2, <1>3, <1>4

(* As long as no attempt is made, fences stay.                              *)
LEMMA SameFence ==
  ASSUME \A id \in Ids : attempt'[id].state = "none" <=> attempt[id].state = "none"
  PROVE  fence' = fence /\ (Contiguous => Contiguous')
<1>1. ASSUME NEW t \in Tasks
      PROVE  {n \in 1..MaxAttempts : attempt'[<<t, n>>].state # "none"}
             = {n \in 1..MaxAttempts : attempt[<<t, n>>].state # "none"}
  BY IdParts
<1>2. fence' = fence
  BY <1>1 DEF fence, Fence
<1>3. ASSUME Contiguous PROVE Contiguous'
  BY <1>2, <1>3, IdParts DEF Contiguous
<1> QED
  BY <1>2, <1>3

(* The next attempt of a task raises its fence by one.                      *)
LEMMA NextFence ==
  ASSUME Contiguous, NEW t \in Tasks, fence[t] < MaxAttempts,
         attempt'[<<t, fence[t] + 1>>].state # "none",
         \A id \in Ids \ {<<t, fence[t] + 1>>} : attempt'[id] = attempt[id]
  PROVE  fence' = [fence EXCEPT ![t] = fence[t] + 1] /\ Contiguous'
<1>1. fence[t] \in Nat /\ MaxAttempts \in Nat
  BY ExecutionConstants, FenceFacts
<1>2. {n \in 1..MaxAttempts : attempt'[<<t, n>>].state # "none"} = 1..(fence[t] + 1)
  <2>1. ASSUME NEW n \in 1..MaxAttempts
        PROVE  attempt'[<<t, n>>].state # "none" <=> n \in 1..(fence[t] + 1)
    <3>1. CASE n = fence[t] + 1
      BY <1>1, <3>1
    <3>2. CASE n # fence[t] + 1
      <4>1. attempt'[<<t, n>>] = attempt[<<t, n>>]
        BY <3>2 DEF Ids
      <4> QED
        BY <1>1, <3>2, <4>1 DEF Contiguous
    <3> QED
      BY <3>1, <3>2
  <2> QED
    BY <1>1, <2>1
<1>3. Cardinality(1..(fence[t] + 1)) = fence[t] + 1
  BY <1>1, FS_Interval
<1>4. fence'[t] = fence[t] + 1
  BY <1>2, <1>3 DEF fence, Fence
<1>5. ASSUME NEW u \in Tasks \ {t} PROVE fence'[u] = fence[u]
  <2>1. {n \in 1..MaxAttempts : attempt'[<<u, n>>].state # "none"}
        = {n \in 1..MaxAttempts : attempt[<<u, n>>].state # "none"}
    BY DEF Ids
  <2> QED
    BY <2>1 DEF fence, Fence
<1>6. fence' = [fence EXCEPT ![t] = fence[t] + 1]
  BY <1>4, <1>5 DEF fence
<1>7. ASSUME NEW u \in Tasks
      PROVE  /\ fence'[u] \in 0..MaxAttempts
             /\ \A n \in 1..MaxAttempts : attempt'[<<u, n>>].state # "none" <=> n <= fence'[u]
  <2>1. CASE u = t
    BY <1>1, <1>2, <1>4, <2>1
  <2>2. CASE u # t
    BY <1>5, <2>2 DEF Contiguous, Ids
  <2> QED
    BY <2>1, <2>2
<1> QED
  BY <1>6, <1>7 DEF Contiguous

(* Only the last attempt of a task can be active, launched or running.      *)
LEMMA OnlyTheLast ==
  ASSUME IInv, NEW id \in Ids
  PROVE  /\ id[1] \in Tasks
         /\ Active(id) \/ Alive(id) \/ launch[id].state \in {"STARTING", "RUNNING"} \/ id \in live
              => fence[id[1]] > 0 /\ id = Last(id[1])
         /\ id \in live => attempt[id].state # "none"
<1>1. id[1] \in Tasks /\ id[2] \in 1..MaxAttempts /\ id = <<id[1], id[2]>>
  BY IdParts
<1>2. Alive(id) => launch[id].state \in {"STARTING", "RUNNING"}
  BY DEF Alive, IInv, Supervised
<1>3. Active(id) \/ launch[id].state \in {"STARTING", "RUNNING"} \/ id \in live => attempt[id].state # "none"
  BY DEF Active, ActiveStates, IInv, RowsFounded
<1>4. attempt[id].state # "none" => id[2] <= fence[id[1]]
  BY <1>1 DEF IInv, Contiguous
<1>5. Active(id) \/ launch[id].state \in {"STARTING", "RUNNING"} \/ id \in live => ~(id[2] < fence[id[1]])
  BY DEF IInv, OldOver, Over, Exited, Terminal, TerminalStates, Active, ActiveStates
<1>6. fence[id[1]] \in Nat
  BY <1>1, FenceFacts DEF IInv
<1> QED
  BY <1>1, <1>2, <1>3, <1>4, <1>5, <1>6 DEF Last, IInv, RowsFounded

-----------------------------------------------------------------------------
(* Parts of the invariant that a step keeps because of what it leaves alone. *)

(* Without a change of attempts, fences and claims stay.                    *)
LEMMA AttemptsStay ==
  ASSUME IInv, UNCHANGED attempt
  PROVE  fence' = fence /\ Contiguous' /\ OneClaimPerWorld' /\ (inc' = inc => LeasesPast')
<1>1. fence' = fence /\ Contiguous'
  BY SameFence DEF IInv
<1>2. OneClaimPerWorld' /\ (inc' = inc => LeasesPast')
  BY DEF IInv, OneClaimPerWorld, WorldClear, LeasesPast
<1> QED
  BY <1>1, <1>2

(* Without a change of attempts, launches and processes, nothing is said of  *)
(* them that was not said before.                                           *)
LEMMA WorkersStay ==
  ASSUME IInv, UNCHANGED <<attempt, launch, procs>>, doing' = doing \/ doing'.what # "forking"
  PROVE  Supervised' /\ ForkFounded' /\ OneProcessPerId'
<1>1. Supervised' /\ OneProcessPerId'
  BY DEF IInv, Supervised, OneProcessPerId
<1>2. ForkFounded'
  BY DEF IInv, ForkFounded, Doing, Active, Alive
<1> QED
  BY <1>1, <1>2

LEMMA MessagesStay ==
  ASSUME IInv, UNCHANGED <<attempt, procs, queue, journal>>
  PROVE  MessagesTrue' /\ CompletedTrue'
  BY DEF IInv, MessagesTrue, CompletedTrue, Finished

LEMMA OldStay ==
  ASSUME IInv, UNCHANGED <<attempt, launch, journal>>, live' \subseteq live, reviewed \subseteq reviewed'
  PROVE  OldOver'
<1>1. fence' = fence
  BY AttemptsStay
<1> QED
  BY <1>1 DEF IInv, OldOver, Over, Exited, Settled, Terminal

-----------------------------------------------------------------------------
(* The scheduler and the owner: tasks, dispatches and goals.                *)

LEMMA DispatchKeeps == ASSUME IInv, NEW t \in Tasks, Dispatch(t) PROVE IInv'
<1>0. /\ UNCHANGED <<attempt, launch, permit, goal, reviewed, on, inc, live, queue, doing, fault, procs, journal>>
      /\ dispatch' = [dispatch EXCEPT ![t] = "ACTIVE"] /\ task' = [task EXCEPT ![t] = "QUEUED"]
      /\ dispatch[t] = "none"
  BY DEF Dispatch, controller, workers
<1>1. fence' = fence /\ Contiguous' /\ OneClaimPerWorld' /\ LeasesPast'
  BY <1>0, AttemptsStay
<1>2. Supervised' /\ ForkFounded' /\ OneProcessPerId' /\ MessagesTrue' /\ CompletedTrue' /\ OldOver'
  BY <1>0, WorkersStay, MessagesStay, OldStay
<1>3. TypeOK'
  BY <1>0 DEF IInv, TypeOK
<1>4. fence[t] = 0
  BY <1>0 DEF IInv, RowsFounded
<1>5. RowsFounded'
  BY <1>0, <1>1, <1>4 DEF IInv, RowsFounded, TypeOK
<1>6. QueuedSettled' /\ RepliedTrue' /\ StoppedOver'
  BY <1>0, <1>1, <1>4 DEF IInv, TypeOK, QueuedSettled, RepliedTrue, StoppedOver, Last, Active, Over, Exited, Settled, Terminal
<1> QED
  BY <1>1, <1>2, <1>3, <1>5, <1>6 DEF IInv

LEMMA ConvergeTerminalKeeps == ASSUME IInv, NEW t \in Tasks, ConvergeTerminal(t) PROVE IInv'
<1>0. /\ UNCHANGED <<attempt, launch, permit, task, reviewed, on, inc, live, queue, doing, fault, procs, journal>>
      /\ dispatch' = [dispatch EXCEPT ![t] = "FINISHED"]
      /\ goal' = [goal EXCEPT ![t] = IF attempt[Latest(t)].state = "COMPLETED" THEN "AWAITING" ELSE "BLOCKED"]
      /\ dispatch[t] = "ACTIVE"
  BY DEF ConvergeTerminal, controller, workers
<1>1. fence' = fence /\ Contiguous' /\ OneClaimPerWorld' /\ LeasesPast'
  BY <1>0, AttemptsStay
<1>2. Supervised' /\ ForkFounded' /\ OneProcessPerId' /\ MessagesTrue' /\ CompletedTrue' /\ OldOver'
  BY <1>0, WorkersStay, MessagesStay, OldStay
<1>3. TypeOK'
  BY <1>0 DEF IInv, TypeOK
<1>4. RowsFounded' /\ QueuedSettled' /\ RepliedTrue' /\ StoppedOver'
  BY <1>0, <1>1 DEF IInv, TypeOK, RowsFounded, QueuedSettled, RepliedTrue, StoppedOver, Last, Active, Over, Exited, Settled, Terminal
<1> QED
  BY <1>1, <1>2, <1>3, <1>4 DEF IInv

LEMMA RetryKeeps == ASSUME IInv, NEW t \in Tasks, Retry(t) PROVE IInv'
<1>0. /\ UNCHANGED <<attempt, launch, permit, reviewed, on, inc, live, queue, doing, fault, procs, journal>>
      /\ dispatch' = [dispatch EXCEPT ![t] = "ACTIVE"] /\ task' = [task EXCEPT ![t] = "QUEUED"]
      /\ goal' = [goal EXCEPT ![t] = "OPEN"] /\ task[t] \in {"BLOCKED", "STOPPED"}
  BY DEF Retry, Requeue, controller, workers
<1>1. fence' = fence /\ Contiguous' /\ OneClaimPerWorld' /\ LeasesPast'
  BY <1>0, AttemptsStay
<1>2. Supervised' /\ ForkFounded' /\ OneProcessPerId' /\ MessagesTrue' /\ CompletedTrue' /\ OldOver'
  BY <1>0, WorkersStay, MessagesStay, OldStay
<1>3. TypeOK'
  BY <1>0 DEF IInv, TypeOK
<1>4. fence[t] > 0 /\ Over(Last(t))
  BY FenceFacts DEF Retry, Over, IInv
<1>5. RowsFounded' /\ RepliedTrue' /\ StoppedOver'
  BY <1>0, <1>1 DEF IInv, TypeOK, RowsFounded, RepliedTrue, StoppedOver, Last, Terminal
<1>6. QueuedSettled'
  <2>1. \A u \in Tasks : /\ Last(u)' = Last(u)
                         /\ Active(Last(u))' = Active(Last(u))
                         /\ Over(Last(u))' = Over(Last(u))
    BY <1>0, <1>1 DEF Last, Active, Over, Exited, Settled
  <2>2. \A u \in Tasks \ {t} : task'[u] = task[u]
    BY <1>0 DEF IInv, TypeOK
  <2> QED
    BY <1>1, <1>4, <2>1, <2>2 DEF IInv, QueuedSettled
<1> QED
  BY <1>1, <1>2, <1>3, <1>5, <1>6 DEF IInv

LEMMA ReconcileKeeps == ASSUME IInv, NEW t \in Tasks, Reconcile(t) PROVE IInv'
<1>0. /\ UNCHANGED <<attempt, launch, permit, task, dispatch, goal, on, inc, live, queue, doing, fault, procs, journal>>
      /\ reviewed' = reviewed \cup {Latest(t)}
  BY DEF Reconcile, controller, workers
<1>1. fence' = fence /\ Contiguous' /\ OneClaimPerWorld' /\ LeasesPast'
  BY <1>0, AttemptsStay
<1>2. Supervised' /\ ForkFounded' /\ OneProcessPerId' /\ MessagesTrue' /\ CompletedTrue' /\ OldOver'
  BY <1>0, WorkersStay, MessagesStay, OldStay
<1>3. Latest(t) \in Ids
  BY FenceFacts DEF Reconcile, IInv
<1>4. TypeOK'
  BY <1>0, <1>3 DEF IInv, TypeOK
<1>5. RowsFounded' /\ RepliedTrue' /\ StoppedOver' /\ QueuedSettled'
  BY <1>0, <1>1 DEF IInv, TypeOK, RowsFounded, RepliedTrue, StoppedOver, QueuedSettled, Last, Terminal, Active, Over, Exited, Settled
<1> QED
  BY <1>1, <1>2, <1>4, <1>5 DEF IInv

(* Steps that touch neither tasks, attempts, launches nor journals.         *)
LEMMA QuietKeeps ==
  ASSUME IInv, TypeOK', UNCHANGED <<attempt, launch, task, dispatch, reviewed, inc, live, queue, journal, procs>>,
         doing' = doing \/ doing'.what # "forking"
  PROVE  IInv'
<1>1. fence' = fence /\ Contiguous' /\ OneClaimPerWorld' /\ LeasesPast'
  BY AttemptsStay
<1>2. Supervised' /\ ForkFounded' /\ OneProcessPerId' /\ MessagesTrue' /\ CompletedTrue' /\ OldOver'
  BY WorkersStay, MessagesStay, OldStay
<1>3. RowsFounded' /\ RepliedTrue' /\ StoppedOver' /\ QueuedSettled'
  BY <1>1 DEF IInv, RowsFounded, RepliedTrue, StoppedOver, QueuedSettled, Last, Terminal, Active, Over, Exited, Settled
<1> QED
  BY <1>1, <1>2, <1>3 DEF IInv

LEMMA ChoiceKeeps ==
  ASSUME IInv, NEW id \in Ids, Resume(id) \/ GiveUp(id) \/ TickFails(id)
  PROVE  IInv'
<1>1. /\ UNCHANGED <<attempt, launch, permit, task, dispatch, goal, reviewed, on, inc, live, queue, journal, procs>>
      /\ doing' \in {Idle, Doing("starting", id), Doing("checking", id)}
      /\ fault' \in {fault, "work", "both"}
  BY DEF Resume, GiveUp, TickFails, company, workers
<1>2. doing'.what # "forking"
  BY <1>1 DEF Idle, Doing
<1>3. TypeOK'
  BY <1>1 DEF IInv, TypeOK, Idle, Doing
<1> QED
  BY <1>1, <1>2, <1>3, QuietKeeps

LEMMA OwnerKeeps ==
  ASSUME IInv, SwitchOn \/ \E t \in Tasks : CloseGoal(t)
  PROVE  IInv'
<1>1. /\ UNCHANGED <<attempt, launch, permit, task, dispatch, reviewed, inc, live, queue, doing, fault, journal, procs>>
  BY DEF SwitchOn, CloseGoal, controller, workers
<1>2. TypeOK'
  BY <1>1 DEF SwitchOn, CloseGoal, IInv, TypeOK
<1> QED
  BY <1>1, <1>2, QuietKeeps

-----------------------------------------------------------------------------
(* The beginning, and the steps that make an attempt and launch it.          *)

LEMMA InitFounded == ASSUME Init PROVE IInv
<1>1. \A t \in Tasks : {n \in 1..MaxAttempts : attempt[<<t, n>>].state # "none"} = {}
  BY DEF Init, Ids
<1>2. \A t \in Tasks : fence[t] = 0
  BY <1>1, FS_EmptySet DEF fence, Fence
<1>3. TypeOK
  BY ExecutionConstants DEF Init, TypeOK, JournalStates
<1>4. Contiguous
  BY <1>2, ExecutionConstants, IdParts DEF Init, Contiguous
<1>5. RowsFounded /\ Supervised /\ QueuedSettled /\ OldOver /\ OneProcessPerId
  BY <1>2, IdParts DEF Init, RowsFounded, Supervised, QueuedSettled, OldOver, OneProcessPerId
<1>6. ForkFounded
  BY DEF Init, ForkFounded, Idle, Doing
<1>7. MessagesTrue /\ CompletedTrue /\ RepliedTrue /\ OneClaimPerWorld /\ LeasesPast /\ StoppedOver
  BY <1>2, ExecutionConstants DEF Init, MessagesTrue, CompletedTrue, RepliedTrue, OneClaimPerWorld, LeasesPast, StoppedOver, ClaimStates
<1> QED
  BY <1>3, <1>4, <1>5, <1>6, <1>7 DEF IInv

LEMMA ClaimKeeps == ASSUME IInv, NEW t \in Tasks, Claim(t) PROVE IInv'
<1> DEFINE new == <<t, fence[t] + 1>>
<1>0. /\ UNCHANGED <<task, dispatch, goal, reviewed, on, inc, live, queue, fault, procs, journal>>
      /\ attempt' = [attempt EXCEPT ![new] = [state |-> "DISPATCH_PENDING", lease |-> inc]]
      /\ launch' = [launch EXCEPT ![new].state = "READY"]
      /\ permit' = [permit EXCEPT ![new] = "PREPARING"]
      /\ doing' = Doing("starting", new)
  BY FenceFacts DEF Claim, NewAttempt, workers, IInv
<1>1. /\ fence[t] < MaxAttempts /\ fence[t] \in Nat
      /\ task[t] = "QUEUED" /\ dispatch[t] = "ACTIVE"
      /\ fence[t] > 0 => Last(t) \in Ids /\ Terminal(Last(t)) /\ Over(Last(t))
  <2>1. fence[t] < MaxAttempts /\ fence[t] \in Nat /\ task[t] = "QUEUED" /\ dispatch[t] = "ACTIVE"
    BY FenceFacts DEF Claim, MayClaim, IInv
  <2>2. ASSUME fence[t] > 0 PROVE Last(t) \in Ids /\ ~Active(Last(t)) /\ attempt[Last(t)].state # "none"
    BY <2>2, FenceFacts DEF Claim, MayClaim, IInv
  <2> QED
    BY <2>1, <2>2 DEF IInv, QueuedSettled, TypeOK, Active, Terminal
<1>2. new \in Ids /\ attempt[new].state = "none" /\ launch[new].state = "none"
  <2>1. fence[t] + 1 \in 1..MaxAttempts
    BY <1>1, ExecutionConstants
  <2> QED
    BY <1>1, <2>1, IdParts DEF IInv, Contiguous, RowsFounded
<1>3. ~Alive(new) /\ new \notin live
  BY <1>2 DEF IInv, Alive, Supervised, RowsFounded
<1>4. /\ attempt'[new] = [state |-> "DISPATCH_PENDING", lease |-> inc]
      /\ launch'[new].state = "READY"
      /\ \A id \in Ids \ {new} : attempt'[id] = attempt[id] /\ launch'[id] = launch[id]
  BY <1>0, <1>2 DEF IInv, TypeOK
<1>5. fence' = [fence EXCEPT ![t] = fence[t] + 1] /\ Contiguous'
  BY <1>1, <1>4, NextFence DEF IInv
<1>6. fence'[t] = fence[t] + 1 /\ \A u \in Tasks \ {t} : fence'[u] = fence[u]
  BY <1>5 DEF fence
<1>7. TypeOK'
  <2>0. /\ attempt \in [Ids -> [state : {"none"} \cup ActiveStates \cup TerminalStates, lease : 0..MaxRestarts]]
        /\ [state |-> "DISPATCH_PENDING", lease |-> inc]
              \in [state : {"none"} \cup ActiveStates \cup TerminalStates, lease : 0..MaxRestarts]
    BY DEF IInv, TypeOK, ActiveStates
  <2>1. attempt' \in [Ids -> [state : {"none"} \cup ActiveStates \cup TerminalStates, lease : 0..MaxRestarts]]
    <3>1. attempt' = [attempt EXCEPT ![new] = [state |-> "DISPATCH_PENDING", lease |-> inc]]
      BY <1>0
    <3> QED
      BY <2>0, <3>1
  <2>2. launch' \in [Ids -> [state : {"none", "READY", "STARTING", "RUNNING", "SUSPENDED", "EXITED"},
                            epoch : Nat]]
    <3>1. launch \in [Ids -> [state : {"none", "READY", "STARTING", "RUNNING", "SUSPENDED", "EXITED"},
                            epoch : Nat]]
      BY DEF IInv, TypeOK
    <3>2. launch' = [launch EXCEPT ![new].state = "READY"]
      BY <1>0
    <3> QED
      BY <3>1, <3>2
  <2>3. permit' \in [Ids -> {"none", "PREPARING", "ACTIVE", "SUSPENDED", "FINISHED"}]
    BY <1>0, <1>2 DEF IInv, TypeOK
  <2>4. doing' \in {Idle} \cup [what : {"checking", "starting", "forking"}, id : Ids]
    BY <1>0, <1>2 DEF Doing
  <2> QED
    BY <1>0, <2>1, <2>2, <2>3, <2>4 DEF IInv, TypeOK
<1>8. RowsFounded'
  BY <1>0, <1>1, <1>3, <1>4, <1>6 DEF IInv, RowsFounded
<1>9. Supervised' /\ ForkFounded' /\ OneProcessPerId'
  BY <1>0, <1>3, <1>4 DEF IInv, TypeOK, ProcessType, Supervised, ForkFounded, OneProcessPerId, Doing, Alive
<1>10. OldOver'
  <2>1. ASSUME NEW id \in Ids, id[2] < fence'[id[1]]
        PROVE  id # new /\ Terminal(id) /\ Over(id)
    <3>1. id[1] \in Tasks /\ id[2] \in 1..MaxAttempts /\ id = <<id[1], id[2]>>
      BY IdParts
    <3>2. CASE id[1] # t
      BY <1>6, <2>1, <3>1, <3>2 DEF IInv, OldOver
    <3>3. CASE id[1] = t
      <4>1. id[2] < fence[t] + 1 /\ id # new
        BY <1>1, <1>6, <2>1, <3>1, <3>3
      <4>2. id[2] < fence[t] \/ (id[2] = fence[t] /\ id = Last(t) /\ fence[t] > 0)
        BY <1>1, <3>1, <3>3, <4>1 DEF Last
      <4> QED
        BY <1>1, <3>3, <4>1, <4>2 DEF IInv, OldOver
    <3> QED
      BY <3>2, <3>3
  <2> QED
    BY <1>0, <1>4, <2>1 DEF OldOver, Terminal, Over, Exited, Settled
<1>11. ASSUME NEW u \in Tasks \ {t}, fence[u] > 0 PROVE Last(u)' = Last(u) /\ Last(u) \in Ids \ {new}
  BY <1>6, <1>11, FenceFacts DEF IInv, Last
<1>12. Last(t)' = new
  BY <1>6 DEF Last
<1>13. QueuedSettled' /\ RepliedTrue' /\ StoppedOver'
  <2>1. QueuedSettled'
    BY <1>0, <1>4, <1>6, <1>11, <1>12 DEF IInv, QueuedSettled, Active, ActiveStates, Over, Exited, Settled
  <2>2. RepliedTrue' /\ StoppedOver'
    BY <1>0, <1>1, <1>4, <1>6, <1>11, <1>12 DEF IInv, RepliedTrue, StoppedOver, Terminal
  <2> QED
    BY <2>1, <2>2
<1>14. MessagesTrue' /\ CompletedTrue'
  BY <1>0, <1>4 DEF IInv, MessagesTrue, CompletedTrue, Finished
<1>15. OneClaimPerWorld'
  <2>1. \A other \in IdsOf(SameWorld(t)) : attempt[other].state \notin ClaimStates
    BY DEF Claim, WorldUnclaimed
  <2>2. \A id \in Ids \ {new} : attempt[id].state \in ClaimStates => new \notin IdsOf(SameWorld(id[1]))
    BY <1>2, <2>1, IdParts DEF IdsOf, SameWorld
  <2> QED
    BY <1>2, <1>4, <2>1, <2>2 DEF IInv, OneClaimPerWorld, WorldClear, IdsOf
<1>16. LeasesPast'
  BY <1>0, <1>4, ExecutionConstants DEF IInv, LeasesPast, TypeOK
<1> QED
  BY <1>5, <1>7, <1>8, <1>9, <1>10, <1>13, <1>14, <1>15, <1>16 DEF IInv

LEMMA LaunchKeeps == ASSUME IInv, NEW id \in Ids, Launch(id) PROVE IInv'
<1>0. /\ UNCHANGED <<permit, task, dispatch, reviewed, on, inc, live, queue, fault, procs, journal>>
      /\ launch' = [launch EXCEPT ![id] = [state |-> "STARTING", epoch |-> launch[id].epoch + 1]]
      /\ attempt' = [attempt EXCEPT ![id].lease = inc]
      /\ goal' = [goal EXCEPT ![id[1]] = "OPEN"]
      /\ doing' = Doing("forking", id)
      /\ Active(id) /\ launch[id].state \in {"READY", "SUSPENDED"}
  BY DEF Launch, Intended, workers
<1>1. /\ launch'[id] = [state |-> "STARTING", epoch |-> launch[id].epoch + 1]
      /\ attempt'[id].state = attempt[id].state /\ attempt'[id].lease = inc
      /\ \A other \in Ids \ {id} : attempt'[other] = attempt[other] /\ launch'[other] = launch[other]
  BY <1>0 DEF IInv, TypeOK
<1>2. ~Alive(id) /\ id = Last(id[1]) /\ id[1] \in Tasks /\ attempt[id].state # "none"
  BY <1>0, OnlyTheLast DEF IInv, Supervised, Alive, Active, ActiveStates
<1>3. fence' = fence /\ Contiguous'
  BY <1>1, SameFence DEF IInv
<1>4. TypeOK'
  <2>1. launch[id].epoch + 1 \in Nat /\ inc \in 0..MaxRestarts
    BY DEF IInv, TypeOK
  <2>2. launch' \in [Ids -> [state : {"none", "READY", "STARTING", "RUNNING", "SUSPENDED", "EXITED"},
                            epoch : Nat]]
    <3>1. launch \in [Ids -> [state : {"none", "READY", "STARTING", "RUNNING", "SUSPENDED", "EXITED"},
                            epoch : Nat]]
      BY DEF IInv, TypeOK
    <3>2. launch' = [launch EXCEPT ![id] = [state |-> "STARTING", epoch |-> launch[id].epoch + 1]]
      BY <1>0
    <3> QED
      BY <2>1, <3>1, <3>2
  <2>3. attempt' \in [Ids -> [state : {"none"} \cup ActiveStates \cup TerminalStates, lease : 0..MaxRestarts]]
    <3>1. attempt \in [Ids -> [state : {"none"} \cup ActiveStates \cup TerminalStates, lease : 0..MaxRestarts]]
      BY DEF IInv, TypeOK
    <3>2. attempt' = [attempt EXCEPT ![id].lease = inc]
      BY <1>0
    <3> QED
      BY <2>1, <3>1, <3>2
  <2>4. goal' \in [Tasks -> {"OPEN", "BLOCKED", "HALTED", "AWAITING", "CLOSED"}]
    BY <1>0, <1>2 DEF IInv, TypeOK
  <2>5. doing' \in {Idle} \cup [what : {"checking", "starting", "forking"}, id : Ids]
    BY <1>0 DEF Doing
  <2> QED
    BY <1>0, <2>2, <2>3, <2>4, <2>5 DEF IInv, TypeOK
<1>5. RowsFounded'
  BY <1>0, <1>1, <1>2, <1>3 DEF IInv, RowsFounded
<1>6. Supervised' /\ OneProcessPerId'
  BY <1>0, <1>1, <1>2 DEF IInv, TypeOK, ProcessType, Supervised, OneProcessPerId, Alive
<1>7. ForkFounded'
  BY <1>0, <1>1, <1>2 DEF ForkFounded, Doing, Active, Alive
<1>8. OldOver'
  <2>1. ~(id[2] < fence[id[1]])
    BY <1>0 DEF IInv, OldOver, Active, ActiveStates, Terminal, TerminalStates
  <2> QED
    BY <1>0, <1>1, <1>3, <2>1 DEF IInv, OldOver, Terminal, Over, Exited, Settled
<1>9. QueuedSettled' /\ RepliedTrue' /\ StoppedOver'
  <2>1. \A t \in Tasks : Last(t)' = Last(t) /\ (fence[t] > 0 => Last(t) \in Ids)
    BY <1>3, FenceFacts DEF IInv, Last
  <2>2. QueuedSettled'
    BY <1>0, <1>1, <1>3, <2>1 DEF IInv, QueuedSettled, Active, Over, Exited, Settled
  <2>3. RepliedTrue' /\ StoppedOver'
    BY <1>0, <1>1, <1>3, <2>1 DEF IInv, RepliedTrue, StoppedOver, Terminal
  <2> QED
    BY <2>2, <2>3
<1>10. MessagesTrue' /\ CompletedTrue'
  BY <1>0, <1>1 DEF IInv, MessagesTrue, CompletedTrue, Finished
<1>11. OneClaimPerWorld' /\ LeasesPast'
  <2>1. OneClaimPerWorld'
    BY <1>1 DEF IInv, OneClaimPerWorld, WorldClear, IdsOf, SameWorld
  <2>2. LeasesPast'
    BY <1>0, <1>1, ExecutionConstants DEF IInv, LeasesPast, TypeOK
  <2> QED
    BY <2>1, <2>2
<1> QED
  BY <1>3, <1>4, <1>5, <1>6, <1>7, <1>8, <1>9, <1>10, <1>11 DEF IInv

LEMMA ForkKeeps == ASSUME IInv, NEW id \in Ids, Fork(id) PROVE IInv'
<1> DEFINE new == Process(id, launch[id].epoch)
<1>0. /\ UNCHANGED <<attempt, launch, permit, task, dispatch, goal, reviewed, on, inc, fault, journal>>
      /\ procs' = procs \cup {new}
      /\ live' = live \cup {id}
      /\ queue' = [queue EXCEPT ![id] = <<>>]
      /\ doing' = Idle
      /\ doing = Doing("forking", id)
  BY DEF Fork, company
<1>1. launch[id].state = "STARTING" /\ Active(id) /\ ~Alive(id)
  BY <1>0 DEF IInv, ForkFounded
<1>2. id = Last(id[1]) /\ id[1] \in Tasks /\ attempt[id].state # "none"
  BY <1>1, OnlyTheLast DEF Active, ActiveStates
<1>3. fence' = fence /\ Contiguous' /\ OneClaimPerWorld' /\ LeasesPast'
  BY <1>0, AttemptsStay
<1>4. new.id = id /\ new.epoch = launch[id].epoch /\ new \in ProcessType
  BY DEF Process, ProcessType, IInv, TypeOK
<1>5. TypeOK'
  BY <1>0, <1>4 DEF IInv, TypeOK
<1>6. RowsFounded'
  BY <1>0, <1>2, <1>3 DEF IInv, RowsFounded
<1>7. Supervised' /\ OneProcessPerId'
  BY <1>0, <1>1, <1>4 DEF IInv, Supervised, OneProcessPerId, Alive
<1>8. ForkFounded'
  BY <1>0 DEF ForkFounded, Idle, Doing
<1>9. OldOver'
  <2>1. ~(id[2] < fence[id[1]])
    BY <1>1 DEF IInv, OldOver, Active, ActiveStates, Terminal, TerminalStates
  <2> QED
    BY <1>0, <1>3, <2>1 DEF IInv, OldOver, Terminal, Over, Exited, Settled
<1>10. QueuedSettled' /\ RepliedTrue' /\ StoppedOver'
  <2>1. \A t \in Tasks : Last(t)' = Last(t)
    BY <1>3 DEF Last
  <2>2. QueuedSettled'
    BY <1>0, <1>1, <1>3, <2>1 DEF IInv, QueuedSettled, Active, Over, Exited, Settled
  <2>3. RepliedTrue' /\ StoppedOver'
    BY <1>0, <1>3, <2>1 DEF IInv, RepliedTrue, StoppedOver, Terminal
  <2> QED
    BY <2>2, <2>3
<1>11. \A other \in Ids \ {id} : Finished(other)' <=> Finished(other)
  BY <1>0, <1>4 DEF Finished
<1>12. MessagesTrue'
  <2>1. queue'[id] = <<>> /\ \A other \in Ids \ {id} : queue'[other] = queue[other]
    BY <1>0 DEF IInv, TypeOK
  <2> QED
    BY <1>0, <1>11, <2>1 DEF IInv, MessagesTrue
<1>13. CompletedTrue'
  BY <1>0, <1>1, <1>11 DEF IInv, CompletedTrue, Active, ActiveStates
<1> QED
  BY <1>3, <1>5, <1>6, <1>7, <1>8, <1>9, <1>10, <1>12, <1>13 DEF IInv

-----------------------------------------------------------------------------
(* The steps that move an attempt on.                                       *)

(* The last attempt of a task takes on another state, and its task follows. *)
LEMMA AttemptMoves ==
  ASSUME IInv, NEW id \in Ids, Active(id), NEW state, NEW lease, NEW follows,
         attempt' = [attempt EXCEPT ![id] = [state |-> state, lease |-> lease]],
         task' = [task EXCEPT ![id[1]] = follows],
         state \in {"RUNNING", "SUSPENDED"} \cup TerminalStates,
         lease \in Nat, lease <= inc, inc' = inc, journal' = journal,
         state = "RUNNING" => WorldClear(id),
         state = "COMPLETED" => journal[id] = "completed" /\ Finished(id)',
         state = "FAILED" => journal[id] # "lookup" /\ Finished(id)',
         \A other \in Ids : Finished(other) => Finished(other)',
         follows = "REPLIED" <=> state = "COMPLETED",
         follows = "STOPPED" => state \in TerminalStates
  PROVE  /\ fence' = fence /\ Contiguous' /\ CompletedTrue' /\ RepliedTrue'
         /\ OneClaimPerWorld' /\ LeasesPast' /\ StoppedOver'
         /\ id = Last(id[1]) /\ id[1] \in Tasks
<1>0. /\ attempt'[id].state = state /\ attempt'[id].lease = lease
      /\ \A other \in Ids \ {id} : attempt'[other] = attempt[other]
  BY DEF IInv, TypeOK
<1>1. id = Last(id[1]) /\ id[1] \in Tasks /\ attempt[id].state # "none" /\ attempt'[id].state # "none"
  BY <1>0, OnlyTheLast DEF Active, ActiveStates, TerminalStates
<1>2. /\ task'[id[1]] = follows
      /\ \A t \in Tasks \ {id[1]} : task'[t] = task[t]
  BY <1>1 DEF IInv, TypeOK
<1>3. fence' = fence /\ Contiguous'
  BY <1>0, <1>1, SameFence DEF IInv
<1>4. CompletedTrue'
  BY <1>0 DEF IInv, CompletedTrue
<1>5. \A t \in Tasks \ {id[1]} : fence[t] > 0 => Last(t) \in Ids \ {id}
  BY FenceFacts DEF IInv, Last
<1>6. \A t \in Tasks : Last(t)' = Last(t)
  BY <1>3 DEF Last
<1>7. fence[id[1]] > 0
  BY OnlyTheLast
<1>8. RepliedTrue' /\ StoppedOver'
  BY <1>0, <1>1, <1>2, <1>3, <1>5, <1>6, <1>7 DEF IInv, RepliedTrue, StoppedOver, Terminal
<1>9. OneClaimPerWorld'
  <2>1. ASSUME NEW one \in Ids, attempt'[one].state \in ClaimStates,
               NEW other \in IdsOf(SameWorld(one[1])) \ {one}
        PROVE  attempt'[other].state \notin ClaimStates
    <3>1. other \in Ids /\ one[1] \in Tasks
      BY <2>1, IdParts DEF IdsOf
    <3>2. CASE one = id
      <4>1. state = "RUNNING"
        BY <1>0, <2>1, <3>2 DEF ClaimStates, TerminalStates
      <4> QED
        BY <1>0, <2>1, <3>1, <3>2, <4>1 DEF WorldClear
    <3>3. CASE one # id /\ other = id
      <4>1. one \in IdsOf(SameWorld(id[1])) \ {id} /\ attempt[one].state \in ClaimStates
        BY <1>0, <2>1, <3>1, <3>3 DEF IdsOf, SameWorld
      <4>2. state # "RUNNING"
        BY <4>1 DEF WorldClear
      <4> QED
        BY <1>0, <3>3, <4>2 DEF ClaimStates, TerminalStates
    <3>4. CASE one # id /\ other # id
      BY <1>0, <2>1, <3>1, <3>4 DEF IInv, OneClaimPerWorld, WorldClear
    <3> QED
      BY <3>2, <3>3, <3>4
  <2> QED
    BY <2>1 DEF OneClaimPerWorld, WorldClear, IdsOf, SameWorld
<1>10. LeasesPast'
  BY <1>0 DEF IInv, LeasesPast
<1> QED
  BY <1>1, <1>3, <1>4, <1>8, <1>9, <1>10

(* A step that leaves every state of attempts and tasks alone.              *)
LEMMA StatesStay ==
  ASSUME IInv, NEW id \in Ids, NEW lease \in Nat,
         attempt' = [attempt EXCEPT ![id].lease = lease], UNCHANGED task,
         lease <= inc, inc' = inc, journal' = journal,
         \A other \in Ids : Finished(other) => Finished(other)'
  PROVE  /\ fence' = fence /\ Contiguous' /\ CompletedTrue' /\ RepliedTrue'
         /\ OneClaimPerWorld' /\ LeasesPast' /\ StoppedOver'
<1>0. /\ \A other \in Ids : attempt'[other].state = attempt[other].state
      /\ \A other \in Ids : attempt'[other].lease = attempt[other].lease \/ attempt'[other].lease = lease
  BY DEF IInv, TypeOK
<1>1. fence' = fence /\ Contiguous'
  BY <1>0, SameFence DEF IInv
<1>2. \A t \in Tasks : Last(t)' = Last(t) /\ (fence[t] > 0 => Last(t) \in Ids)
  BY <1>1, FenceFacts DEF IInv, Last
<1>3. CompletedTrue' /\ LeasesPast'
  BY <1>0 DEF IInv, CompletedTrue, LeasesPast
<1>4. RepliedTrue' /\ StoppedOver'
  BY <1>0, <1>1, <1>2 DEF IInv, RepliedTrue, StoppedOver, Terminal
<1>5. OneClaimPerWorld'
  BY <1>0 DEF IInv, OneClaimPerWorld, WorldClear, IdsOf, SameWorld
<1> QED
  BY <1>1, <1>3, <1>4, <1>5

(* recover(), whoever calls it.                                             *)
LEMMA RecoverKeeps ==
  ASSUME IInv, NEW id \in Ids, Recover(id), ~Alive(id), attempt[id].state # "none",
         doing.what # "forking", live' \subseteq live, reviewed \subseteq reviewed', reviewed' \subseteq Ids,
         UNCHANGED <<dispatch, on, inc, queue, doing, fault, procs, journal>>
  PROVE  IInv'
<1> DEFINE applied == Active(id) /\ launch[id].state # "SUSPENDED"
           left == StateOf[journal[id]]
<1>0. /\ launch' = [launch EXCEPT ![id].state = IF attempt'[id].state = "SUSPENDED" THEN "SUSPENDED" ELSE "EXITED"]
      /\ permit' = [permit EXCEPT ![id] = IF attempt'[id].state = "SUSPENDED" THEN "SUSPENDED" ELSE "FINISHED"]
  BY DEF Recover, Follow
<1>1. /\ inc \in Nat /\ inc \in 0..MaxRestarts /\ attempt[id].lease \in 0..MaxRestarts /\ attempt[id].lease \in Nat
      /\ attempt[id].lease <= inc
      /\ left \in {"FAILED", "SUSPENDED", "BLOCKED", "COMPLETED"}
      /\ left = "COMPLETED" => journal[id] = "completed"
      /\ left = "FAILED" => journal[id] # "lookup"
      /\ Finished(id) /\ id[1] \in Tasks
  <2>1. inc \in Nat /\ inc \in 0..MaxRestarts /\ attempt[id].lease \in 0..MaxRestarts /\ attempt[id].lease \in Nat
    BY ExecutionConstants DEF IInv, TypeOK
  <2>2. left \in {"FAILED", "SUSPENDED", "BLOCKED", "COMPLETED"} /\ (left = "COMPLETED" => journal[id] = "completed")
       /\ (left = "FAILED" => journal[id] # "lookup")
    BY DEF IInv, TypeOK, StateOf, JournalStates
  <2>3. Finished(id) /\ id[1] \in Tasks /\ attempt[id].lease <= inc
    BY IdParts DEF Finished, Alive, IInv, LeasesPast
  <2> QED
    BY <2>1, <2>2, <2>3
<1>2. \A other \in Ids : Finished(other)' <=> Finished(other)
  BY DEF Finished
<1>3. ASSUME applied
      PROVE  /\ attempt' = [attempt EXCEPT ![id] = [state |-> left, lease |-> inc]]
             /\ task' = [task EXCEPT ![id[1]] = IF left = "COMPLETED" THEN "REPLIED" ELSE "BLOCKED"]
             /\ goal' = [goal EXCEPT ![id[1]] = IF goal[id[1]] = "OPEN" /\ left # "COMPLETED"
                                                THEN "BLOCKED" ELSE goal[id[1]]]
  BY <1>1, <1>3 DEF Recover, Apply, ApplyToTask
<1>4. ASSUME ~applied
      PROVE  /\ attempt' = [attempt EXCEPT ![id].lease = IF Active(id) THEN inc ELSE attempt[id].lease]
             /\ UNCHANGED <<task, goal>>
  BY <1>4 DEF Recover, Adopted
<1>5. /\ fence' = fence /\ Contiguous' /\ CompletedTrue' /\ RepliedTrue'
      /\ OneClaimPerWorld' /\ LeasesPast' /\ StoppedOver'
  <2>1. CASE applied
    <3> DEFINE follows == IF left = "COMPLETED" THEN "REPLIED" ELSE "BLOCKED"
    <3>1. /\ left \in {"RUNNING", "SUSPENDED"} \cup TerminalStates /\ left # "RUNNING"
          /\ (follows = "REPLIED" <=> left = "COMPLETED") /\ follows # "STOPPED"
      BY <1>1 DEF TerminalStates
    <3>2. Active(id) /\ inc <= inc
      BY <1>1, <2>1
    <3> HIDE DEF left, follows
    <3>3. /\ attempt' = [attempt EXCEPT ![id] = [state |-> left, lease |-> inc]]
          /\ task' = [task EXCEPT ![id[1]] = follows]
      BY <1>3, <2>1 DEF follows
    <3> QED
      BY <1>1, <1>2, <3>1, <3>2, <3>3, AttemptMoves
  <2>2. CASE ~applied
    <3> DEFINE lease == IF Active(id) THEN inc ELSE attempt[id].lease
    <3>1. lease \in Nat /\ lease <= inc
      BY <1>1
    <3>2. attempt' = [attempt EXCEPT ![id].lease = lease] /\ UNCHANGED task
      BY <1>4, <2>2
    <3> HIDE DEF lease
    <3> QED
      BY <1>1, <1>2, <3>1, <3>2, StatesStay
  <2> QED
    BY <2>1, <2>2
<1>6. /\ \A other \in Ids \ {id} : attempt'[other] = attempt[other] /\ launch'[other] = launch[other]
      /\ attempt'[id].state = IF applied THEN left ELSE attempt[id].state
      /\ launch'[id].epoch = launch[id].epoch
      /\ attempt'[id].state # "SUSPENDED" => launch'[id].state = "EXITED"
  <2>1. \A other \in Ids \ {id} : attempt'[other] = attempt[other] /\ launch'[other] = launch[other]
    BY <1>0, <1>3, <1>4 DEF IInv, TypeOK
  <2>2. attempt'[id].state = IF applied THEN left ELSE attempt[id].state
    BY <1>3, <1>4 DEF IInv, TypeOK
  <2>3. launch'[id].epoch = launch[id].epoch /\ (attempt'[id].state # "SUSPENDED" => launch'[id].state = "EXITED")
    BY <1>0 DEF IInv, TypeOK
  <2> QED
    BY <2>1, <2>2, <2>3
<1> HIDE DEF applied, left
<1>7. TypeOK'
  <2>0. /\ attempt \in [Ids -> [state : {"none"} \cup ActiveStates \cup TerminalStates, lease : 0..MaxRestarts]]
        /\ launch \in [Ids -> [state : {"none", "READY", "STARTING", "RUNNING", "SUSPENDED", "EXITED"}, epoch : Nat]]
        /\ permit \in [Ids -> {"none", "PREPARING", "ACTIVE", "SUSPENDED", "FINISHED"}]
        /\ task \in [Tasks -> {"none", "QUEUED", "RUNNING", "REPLIED", "BLOCKED", "STOPPED"}]
        /\ goal \in [Tasks -> {"OPEN", "BLOCKED", "HALTED", "AWAITING", "CLOSED"}]
    BY DEF IInv, TypeOK
  <2>1. attempt' \in [Ids -> [state : {"none"} \cup ActiveStates \cup TerminalStates, lease : 0..MaxRestarts]]
    <3>1. CASE applied
      <4>1. left \in {"none"} \cup ActiveStates \cup TerminalStates
        BY <1>1 DEF ActiveStates, TerminalStates
      <4> QED
        BY <1>1, <1>3, <2>0, <3>1, <4>1
    <3>2. CASE ~applied
      <4> DEFINE lease == IF Active(id) THEN inc ELSE attempt[id].lease
      <4>1. lease \in 0..MaxRestarts
        BY <1>1
      <4>2. attempt' = [attempt EXCEPT ![id].lease = lease]
        BY <1>4, <3>2
      <4> HIDE DEF lease
      <4> QED
        BY <2>0, <4>1, <4>2
    <3> QED
      BY <3>1, <3>2
  <2>2. /\ launch' \in [Ids -> [state : {"none", "READY", "STARTING", "RUNNING", "SUSPENDED", "EXITED"}, epoch : Nat]]
        /\ permit' \in [Ids -> {"none", "PREPARING", "ACTIVE", "SUSPENDED", "FINISHED"}]
    BY <1>0, <2>0
  <2>3. task' \in [Tasks -> {"none", "QUEUED", "RUNNING", "REPLIED", "BLOCKED", "STOPPED"}]
    BY <1>1, <1>3, <1>4, <2>0
  <2>4. goal' \in [Tasks -> {"OPEN", "BLOCKED", "HALTED", "AWAITING", "CLOSED"}]
    BY <1>1, <1>3, <1>4, <2>0
  <2> QED
    BY <2>1, <2>2, <2>3, <2>4 DEF IInv, TypeOK
<1>8. RowsFounded'
  <2>1. attempt'[id].state # "none"
    BY <1>1, <1>6
  <2>2. live \subseteq Ids
    BY DEF IInv, TypeOK
  <2> QED
    BY <1>5, <1>6, <2>1, <2>2 DEF IInv, RowsFounded
<1>9. Supervised' /\ OneProcessPerId'
  BY <1>6 DEF IInv, TypeOK, ProcessType, Supervised, OneProcessPerId, Alive
<1>10. ForkFounded' /\ MessagesTrue'
  BY <1>2 DEF IInv, ForkFounded, Doing, MessagesTrue
<1>11. Active(id) => id = Last(id[1]) /\ ~(id[2] < fence[id[1]])
  BY OnlyTheLast DEF IInv, OldOver, Active, ActiveStates, Terminal, TerminalStates
<1>12. OldOver'
  <2>1. ASSUME NEW other \in Ids, other[2] < fence[other[1]] PROVE Terminal(other)' /\ Over(other)'
    <3>1. CASE other # id
      BY <1>6, <2>1, <3>1 DEF IInv, OldOver, Terminal, Over, Exited, Settled
    <3>2. CASE other = id
      BY <1>6, <1>11, <2>1, <3>2 DEF IInv, OldOver, Terminal, TerminalStates, Over, Exited, Settled, applied
    <3> QED
      BY <3>1, <3>2
  <2> QED
    BY <1>5, <2>1 DEF OldOver
<1>13. QueuedSettled'
  <2>1. ASSUME NEW t \in Tasks, task'[t] = "QUEUED", fence[t] > 0, ~Active(Last(t))'
        PROVE  Over(Last(t))'
    <3>0. Last(t)' = Last(t) /\ Last(t) \in Ids /\ Last(t)[1] = t
      BY <1>5, <2>1, FenceFacts DEF Last, IInv
    <3>1. ~(applied /\ id[1] = t) /\ task[t] = "QUEUED"
      BY <1>1, <1>3, <1>4, <2>1 DEF IInv, TypeOK
    <3>2. attempt'[Last(t)].state = attempt[Last(t)].state
      BY <1>6, <3>0, <3>1
    <3>3. Over(Last(t))
      BY <2>1, <3>0, <3>1, <3>2 DEF IInv, QueuedSettled, Active
    <3>4. CASE Last(t) # id
      BY <1>6, <3>0, <3>3, <3>4 DEF Over, Exited, Settled
    <3>5. CASE Last(t) = id
      BY <1>6, <2>1, <3>0, <3>2, <3>3, <3>5 DEF Over, Exited, Settled, Active, ActiveStates
    <3> QED
      BY <3>4, <3>5
  <2> QED
    BY <1>5, <2>1 DEF QueuedSettled, Last
<1> QED
  BY <1>5, <1>7, <1>8, <1>9, <1>10, <1>12, <1>13 DEF IInv

LEMMA RecoveriesKeep ==
  ASSUME IInv, \/ \E id \in Ids : Poll(id) \/ ExitHandler(id)
               \/ \E t \in Tasks : Abandon(t)
  PROVE  IInv'
<1>1. ASSUME NEW id \in Ids, Poll(id) PROVE IInv'
  <2>1. doing.what # "forking" /\ attempt[id].state # "none" /\ reviewed \subseteq Ids
    BY <1>1 DEF Poll, WorkTick, IInv, RowsFounded, TypeOK
  <2> QED
    BY <1>1, <2>1, RecoverKeeps DEF Poll, controller, workers
<1>2. ASSUME NEW id \in Ids, ExitHandler(id) PROVE IInv'
  <2>1. doing.what # "forking" /\ attempt[id].state # "none" /\ reviewed \subseteq Ids
    BY <1>2 DEF ExitHandler, Free, IInv, RowsFounded, TypeOK
  <2> QED
    BY <1>2, <2>1, RecoverKeeps DEF ExitHandler, workers
<1>3. ASSUME NEW t \in Tasks, Abandon(t) PROVE IInv'
  <2>1. Latest(t) \in Ids
    BY <1>3, FenceFacts DEF Abandon, IInv
  <2>2. doing.what # "forking" /\ attempt[Latest(t)].state # "none"
    BY <1>3 DEF Abandon, Free
  <2>3. reviewed \subseteq reviewed' /\ reviewed' \subseteq Ids
    BY <1>3, <2>1 DEF Abandon, IInv, TypeOK
  <2> QED
    BY <1>3, <2>1, <2>2, <2>3, RecoverKeeps DEF Abandon, controller, workers
<1> QED
  BY <1>1, <1>2, <1>3

(* A message is handled: the launch may run, the attempt is observed.       *)
LEMMA HandleKeeps == ASSUME IInv, NEW id \in Ids, Handle(id) PROVE IInv'
<1> DEFINE message == Head(queue[id])
           ready == message = "ready"
           seen == Observable(id) /\ (ready => WorldClear(id))
           state == IF ready THEN "RUNNING" ELSE StateOf[message]
           follows == CASE state = "RUNNING" -> "RUNNING" [] state = "COMPLETED" -> "REPLIED" [] OTHER -> "BLOCKED"
<1>0. /\ UNCHANGED <<dispatch, reviewed, on, inc, live, doing, fault, procs, journal>>
      /\ queue' = [queue EXCEPT ![id] = Tail(queue[id])]
      /\ id \in live /\ queue[id] # <<>> /\ doing.what # "forking"
  BY DEF Handle, Free, workers
<1>1. queue[id] \in Seq({"ready"} \cup Outcomes) /\ Len(queue[id]) > 0 /\ message = queue[id][1]
  BY <1>0 DEF IInv, TypeOK
<1>2. message \in {"ready"} \cup Outcomes /\ (ready \/ (message = journal[id] /\ Finished(id)))
  BY <1>1 DEF IInv, MessagesTrue
<1>3. /\ state \in {"RUNNING", "FAILED", "SUSPENDED", "BLOCKED", "COMPLETED"}
      /\ state = "COMPLETED" => journal[id] = "completed" /\ Finished(id)
      /\ state = "FAILED" => journal[id] # "lookup" /\ Finished(id)
      /\ state = "RUNNING" => ready
      /\ ready => state = "RUNNING"
  BY <1>2 DEF StateOf, Outcomes, JournalStates
<1>4. /\ inc \in Nat /\ inc \in 0..MaxRestarts
      /\ id[1] \in Tasks /\ id = Last(id[1]) /\ attempt[id].state # "none"
  BY <1>0, ExecutionConstants, OnlyTheLast DEF IInv, TypeOK
<1>5. /\ attempt' = IF seen THEN [attempt EXCEPT ![id] = [state |-> state, lease |-> inc]] ELSE attempt
      /\ task' = IF seen THEN [task EXCEPT ![id[1]] = follows] ELSE task
      /\ goal' \in {goal, [goal EXCEPT ![id[1]] = "BLOCKED"]}
      /\ launch' \in {launch, [launch EXCEPT ![id].state = "RUNNING"]}
      /\ permit' \in {permit, [permit EXCEPT ![id] = "ACTIVE"]}
  <2>1. CASE ready
    BY <1>4, <2>1 DEF Handle, HandleReady, Observe, Apply, ApplyToTask, IInv, TypeOK
  <2>2. CASE ~ready
    BY <1>4, <2>2 DEF Handle, Observe, Apply, ApplyToTask, IInv, TypeOK
  <2> QED
    BY <2>1, <2>2
<1>6. \A other \in Ids : Finished(other)' <=> Finished(other)
  BY <1>0 DEF Finished
<1>7. /\ follows \in {"RUNNING", "REPLIED", "BLOCKED"} /\ (follows = "REPLIED" <=> state = "COMPLETED")
      /\ state \in {"RUNNING", "SUSPENDED"} \cup TerminalStates
      /\ seen => Active(id) /\ (state = "RUNNING" => WorldClear(id))
  BY <1>3 DEF TerminalStates, Observable
<1> HIDE DEF message, ready, seen, state, follows
<1>8. /\ fence' = fence /\ Contiguous' /\ CompletedTrue' /\ RepliedTrue'
      /\ OneClaimPerWorld' /\ LeasesPast' /\ StoppedOver'
  <2>1. CASE seen
    <3>1. inc <= inc /\ follows # "STOPPED" /\ inc' = inc /\ journal' = journal
      BY <1>0, <1>4, <1>7
    <3>2. /\ attempt' = [attempt EXCEPT ![id] = [state |-> state, lease |-> inc]]
          /\ task' = [task EXCEPT ![id[1]] = follows]
      BY <1>5, <2>1
    <3> QED
      BY <1>3, <1>4, <1>6, <1>7, <2>1, <3>1, <3>2, AttemptMoves
  <2>2. CASE ~seen
    <3>1. attempt' = attempt /\ task' = task
      BY <1>5, <2>2
    <3>2. fence' = fence /\ Contiguous' /\ OneClaimPerWorld' /\ LeasesPast'
      BY <1>0, <3>1, AttemptsStay
    <3>3. CompletedTrue' /\ RepliedTrue' /\ StoppedOver'
      BY <1>0, <1>6, <3>1, <3>2 DEF IInv, CompletedTrue, RepliedTrue, StoppedOver, Last, Terminal
    <3> QED
      BY <3>2, <3>3
  <2> QED
    BY <2>1, <2>2
<1>9. /\ \A other \in Ids \ {id} : attempt'[other] = attempt[other] /\ launch'[other] = launch[other]
      /\ attempt'[id].state = IF seen THEN state ELSE attempt[id].state
      /\ launch'[id].epoch = launch[id].epoch /\ launch'[id].state \in {launch[id].state, "RUNNING"}
  <2>1. \A other \in Ids \ {id} : attempt'[other] = attempt[other] /\ launch'[other] = launch[other]
    BY <1>5 DEF IInv, TypeOK
  <2>2. attempt'[id].state = IF seen THEN state ELSE attempt[id].state
    BY <1>5 DEF IInv, TypeOK
  <2>3. launch'[id].epoch = launch[id].epoch /\ launch'[id].state \in {launch[id].state, "RUNNING"}
    BY <1>5 DEF IInv, TypeOK
  <2> QED
    BY <2>1, <2>2, <2>3
<1>10. TypeOK'
  <2>0. /\ attempt \in [Ids -> [state : {"none"} \cup ActiveStates \cup TerminalStates, lease : 0..MaxRestarts]]
        /\ launch \in [Ids -> [state : {"none", "READY", "STARTING", "RUNNING", "SUSPENDED", "EXITED"}, epoch : Nat]]
        /\ permit \in [Ids -> {"none", "PREPARING", "ACTIVE", "SUSPENDED", "FINISHED"}]
        /\ task \in [Tasks -> {"none", "QUEUED", "RUNNING", "REPLIED", "BLOCKED", "STOPPED"}]
        /\ goal \in [Tasks -> {"OPEN", "BLOCKED", "HALTED", "AWAITING", "CLOSED"}]
        /\ queue \in [Ids -> Seq({"ready"} \cup Outcomes)]
    BY DEF IInv, TypeOK
  <2>1. attempt' \in [Ids -> [state : {"none"} \cup ActiveStates \cup TerminalStates, lease : 0..MaxRestarts]]
    <3>1. state \in {"none"} \cup ActiveStates \cup TerminalStates
      BY <1>7 DEF ActiveStates
    <3> QED
      BY <1>4, <1>5, <2>0, <3>1
  <2>2. launch' \in [Ids -> [state : {"none", "READY", "STARTING", "RUNNING", "SUSPENDED", "EXITED"}, epoch : Nat]]
    <3>1. CASE launch' = launch
      BY <2>0, <3>1
    <3>2. CASE launch' = [launch EXCEPT ![id].state = "RUNNING"]
      BY <2>0, <3>2
    <3> QED
      BY <1>5, <3>1, <3>2
  <2>3. /\ permit' \in [Ids -> {"none", "PREPARING", "ACTIVE", "SUSPENDED", "FINISHED"}]
        /\ goal' \in [Tasks -> {"OPEN", "BLOCKED", "HALTED", "AWAITING", "CLOSED"}]
    BY <1>4, <1>5, <2>0
  <2>4. task' \in [Tasks -> {"none", "QUEUED", "RUNNING", "REPLIED", "BLOCKED", "STOPPED"}]
    BY <1>4, <1>5, <1>7, <2>0
  <2>5. queue' \in [Ids -> Seq({"ready"} \cup Outcomes)]
    BY <1>0, <1>1, <2>0
  <2> QED
    BY <1>0, <2>1, <2>2, <2>3, <2>4, <2>5 DEF IInv, TypeOK
<1>11. RowsFounded'
  <2>1. attempt'[id].state # "none"
    BY <1>3, <1>4, <1>9
  <2>2. live \subseteq Ids
    BY DEF IInv, TypeOK
  <2> QED
    BY <1>0, <1>8, <1>9, <2>1, <2>2 DEF IInv, RowsFounded
<1>12. Supervised' /\ OneProcessPerId' /\ ForkFounded'
  <2>1. \A p \in procs : p.id \in Ids
    BY DEF IInv, TypeOK, ProcessType
  <2>2. Supervised'
    BY <1>0, <1>9, <2>1 DEF IInv, Supervised
  <2>3. OneProcessPerId' /\ ForkFounded'
    BY <1>0 DEF IInv, OneProcessPerId, ForkFounded, Doing
  <2> QED
    BY <2>2, <2>3
<1>13. OldOver'
  <2>1. ASSUME NEW other \in Ids, other[2] < fence[other[1]] PROVE Terminal(other)' /\ Over(other)'
    <3>1. other # id
      BY <1>0, <2>1 DEF IInv, OldOver, Over, Exited
    <3> QED
      BY <1>0, <1>9, <2>1, <3>1 DEF IInv, OldOver, Terminal, Over, Exited, Settled
  <2> QED
    BY <1>8, <2>1 DEF OldOver
<1>14. QueuedSettled'
  <2>1. ASSUME NEW t \in Tasks, task'[t] = "QUEUED", fence[t] > 0, ~Active(Last(t))'
        PROVE  Over(Last(t))'
    <3>0. Last(t)' = Last(t) /\ Last(t) \in Ids /\ Last(t)[1] = t
      BY <1>8, <2>1, FenceFacts DEF Last, IInv
    <3>1. ~(seen /\ id[1] = t) /\ task[t] = "QUEUED"
      BY <1>4, <1>5, <1>7, <2>1 DEF IInv, TypeOK
    <3>2. attempt'[Last(t)].state = attempt[Last(t)].state
      BY <1>9, <3>0, <3>1
    <3>3. Over(Last(t))
      BY <2>1, <3>0, <3>1, <3>2 DEF IInv, QueuedSettled, Active
    <3>4. Last(t) # id
      BY <1>0, <3>3 DEF Over, Exited
    <3> QED
      BY <1>0, <1>9, <3>0, <3>3, <3>4 DEF Over, Exited, Settled
  <2> QED
    BY <1>8, <2>1 DEF QueuedSettled, Last
<1>15. MessagesTrue'
  <2>1. /\ \A i \in DOMAIN Tail(queue[id]) : i + 1 \in DOMAIN queue[id] /\ Tail(queue[id])[i] = queue[id][i + 1]
        /\ queue'[id] = Tail(queue[id]) /\ \A other \in Ids \ {id} : queue'[other] = queue[other]
    BY <1>0, <1>1 DEF IInv, TypeOK
  <2> QED
    BY <1>0, <1>6, <2>1 DEF IInv, MessagesTrue
<1> QED
  BY <1>8, <1>10, <1>11, <1>12, <1>13, <1>14, <1>15 DEF IInv

(* The last attempt is interrupted, if this controller holds its lease.     *)
LEMMA InterruptedFacts ==
  ASSUME IInv, NEW t \in Tasks, attempt' = Interrupted(t), NEW follows,
         task' = [task EXCEPT ![t] = follows], UNCHANGED <<inc, journal>>,
         \A other \in Ids : Finished(other)' <=> Finished(other),
         follows # "REPLIED", task[t] # "REPLIED" \/ attempt' # attempt \/ follows = task[t],
         follows = "STOPPED" => task[t] # "REPLIED"
  PROVE  /\ fence' = fence /\ Contiguous' /\ CompletedTrue' /\ RepliedTrue'
         /\ OneClaimPerWorld' /\ LeasesPast' /\ StoppedOver'
         /\ \/ attempt' = attempt
            \/ /\ fence[t] > 0 /\ Active(Last(t)) /\ Last(t) \in Ids
               /\ attempt' = [attempt EXCEPT ![Last(t)] = [state |-> "INTERRUPTED", lease |-> attempt[Last(t)].lease]]
<1> DEFINE id == Last(t)
<1>1. CASE Started(t) /\ Observable(Latest(t))
  <2>1. fence[t] > 0 /\ id \in Ids /\ Active(id) /\ attempt[id].lease = inc /\ inc \in Nat
    BY <1>1, FenceFacts, ExecutionConstants DEF Observable, IInv, TypeOK
  <2>2. attempt' = [attempt EXCEPT ![id].state = "INTERRUPTED"]
    BY <1>1, FenceFacts DEF Interrupted, IInv
  <2>3. attempt' = [attempt EXCEPT ![id] = [state |-> "INTERRUPTED", lease |-> inc]]
    <3>1. attempt[id] \in [state : {"none"} \cup ActiveStates \cup TerminalStates, lease : 0..MaxRestarts]
      BY <2>1 DEF IInv, TypeOK
    <3>2. [attempt[id] EXCEPT !.state = "INTERRUPTED"] = [state |-> "INTERRUPTED", lease |-> inc]
      BY <2>1, <3>1
    <3>3. attempt' = [attempt EXCEPT ![id] = [attempt[id] EXCEPT !.state = "INTERRUPTED"]]
      BY <2>2
    <3> QED
      BY <3>2, <3>3
  <2>4. /\ id[1] = t /\ "INTERRUPTED" \in TerminalStates /\ inc <= inc /\ "INTERRUPTED" # "RUNNING"
        /\ "INTERRUPTED" # "COMPLETED" /\ task' = [task EXCEPT ![id[1]] = follows]
    BY <2>1 DEF Last, TerminalStates
  <2> HIDE DEF id
  <2>5. /\ fence' = fence /\ Contiguous' /\ CompletedTrue' /\ RepliedTrue'
        /\ OneClaimPerWorld' /\ LeasesPast' /\ StoppedOver'
    BY <2>1, <2>3, <2>4, AttemptMoves
  <2> QED
    BY <2>1, <2>3, <2>5 DEF id
<1>2. CASE ~(Started(t) /\ Observable(Latest(t)))
  <2>1. attempt' = attempt
    BY <1>2 DEF Interrupted
  <2>2. fence' = fence /\ Contiguous' /\ OneClaimPerWorld' /\ LeasesPast'
    BY <2>1, AttemptsStay
  <2>3. CompletedTrue'
    BY <2>1 DEF IInv, CompletedTrue
  <2>4. \A u \in Tasks : Last(u)' = Last(u) /\ task'[u] = IF u = t THEN follows ELSE task[u]
    BY <2>2 DEF Last, IInv, TypeOK
  <2>5. RepliedTrue'
    BY <2>1, <2>2, <2>4 DEF IInv, RepliedTrue
  <2>6. StoppedOver'
    <3>1. ASSUME inc = 0, fence[t] > 0 PROVE Terminal(id)
      <4>1. id \in Ids /\ attempt[id].state # "none" /\ ~Observable(id)
        BY <1>2, <3>1, FenceFacts DEF IInv
      <4>2. attempt[id].lease = inc
        BY <3>1, <4>1, ExecutionConstants DEF IInv, LeasesPast, TypeOK
      <4> QED
        BY <4>1, <4>2 DEF Observable, Active, Terminal, IInv, TypeOK
    <3> QED
      BY <2>1, <2>2, <2>4, <3>1 DEF IInv, StoppedOver, Terminal
  <2> QED
    BY <2>1, <2>2, <2>3, <2>5, <2>6
<1> QED
  BY <1>1, <1>2

LEMMA InterruptionKeeps ==
  ASSUME IInv, NEW t \in Tasks, attempt' = Interrupted(t), TypeOK', dispatch[t] # "none",
         task' \in [Tasks -> {"none", "QUEUED", "RUNNING", "REPLIED", "BLOCKED", "STOPPED"}],
         \A u \in Tasks \ {t} : task'[u] = task[u] /\ (dispatch'[u] = "none" => dispatch[u] = "none"),
         dispatch'[t] # "none", task'[t] # "QUEUED" \/ task'[t] = task[t],
         fence' = fence, Contiguous', CompletedTrue', RepliedTrue', OneClaimPerWorld', LeasesPast', StoppedOver',
         \/ attempt' = attempt
         \/ /\ fence[t] > 0 /\ Active(Last(t)) /\ Last(t) \in Ids /\ task'[t] # "QUEUED"
            /\ attempt' = [attempt EXCEPT ![Last(t)] = [state |-> "INTERRUPTED", lease |-> attempt[Last(t)].lease]],
         UNCHANGED <<launch, reviewed, inc, live, queue, doing, journal>>, doing.what # "forking",
         Supervised', OneProcessPerId',
         \A other \in Ids : Finished(other)' <=> Finished(other)
  PROVE  IInv'
<1> DEFINE id == Last(t)
<1>1. /\ \A other \in Ids : attempt'[other].state = "none" <=> attempt[other].state = "none"
      /\ \A other \in Ids : attempt'[other].state # attempt[other].state =>
           other = id /\ Active(id) /\ attempt'[id].state = "INTERRUPTED" /\ task'[t] # "QUEUED"
  BY DEF IInv, TypeOK, Active, ActiveStates
<1>2. RowsFounded'
  <2>1. live \subseteq Ids
    BY DEF IInv, TypeOK
  <2> QED
    BY <1>1, <2>1 DEF IInv, RowsFounded
<1>3. ForkFounded' /\ MessagesTrue'
  BY DEF IInv, ForkFounded, Doing, MessagesTrue
<1>4. OldOver'
  BY <1>1 DEF IInv, OldOver, Terminal, TerminalStates, Active, ActiveStates, Over, Exited, Settled
<1>5. QueuedSettled'
  <2>1. ASSUME NEW u \in Tasks, task'[u] = "QUEUED", fence[u] > 0, ~Active(Last(u))'
        PROVE  Over(Last(u)) /\ attempt'[Last(u)].state = attempt[Last(u)].state
    <3>1. Last(u) \in Ids /\ Last(u)[1] = u /\ Last(u)' = Last(u) /\ (u # t => Last(u) # id)
      BY <2>1, FenceFacts DEF IInv, Last
    <3>2. task[u] = "QUEUED" /\ attempt'[Last(u)].state = attempt[Last(u)].state
      BY <1>1, <2>1, <3>1
    <3> QED
      BY <2>1, <3>1, <3>2 DEF IInv, QueuedSettled, Active
  <2> QED
    BY <2>1 DEF QueuedSettled, Last, Over, Exited, Settled
<1> QED
  BY <1>2, <1>3, <1>4, <1>5 DEF IInv

LEMMA InterruptedTyped ==
  ASSUME TypeOK, NEW id \in Ids,
         attempt' = attempt \/ attempt' = [attempt EXCEPT ![id] = [state |-> "INTERRUPTED", lease |-> attempt[id].lease]]
  PROVE  attempt' \in [Ids -> [state : {"none"} \cup ActiveStates \cup TerminalStates, lease : 0..MaxRestarts]]
<1> DEFINE row == [state |-> "INTERRUPTED", lease |-> attempt[id].lease]
           Rows == [state : {"none"} \cup ActiveStates \cup TerminalStates, lease : 0..MaxRestarts]
<1>1. attempt \in [Ids -> Rows]
  BY DEF TypeOK
<1>2. row \in Rows
  BY <1>1 DEF TerminalStates
<1> HIDE DEF row, Rows
<1>3. CASE attempt' = attempt
  BY <1>1, <1>3 DEF Rows
<1>4. CASE attempt' = [attempt EXCEPT ![id] = row]
  <2>1. attempt' \in [Ids -> Rows]
    BY <1>1, <1>2, <1>4
  <2> QED
    BY <2>1 DEF Rows
<1> QED
  BY <1>3, <1>4 DEF row

(* A process that loses its connection is the same process otherwise.       *)
LEMMA Unplugged ==
  ASSUME IInv, NEW ids, procs' = Disconnected(ids)
  PROVE  /\ procs' \subseteq ProcessType /\ OneProcessPerId' /\ (UNCHANGED launch => Supervised')
         /\ \A id : (Finished(id)' <=> Finished(id)) /\ (Alive(id)' <=> Alive(id))
<1> DEFINE cut(p) == IF p.id \in ids THEN [p EXCEPT !.conn = FALSE] ELSE p
<1>1. \A p \in procs : p \in ProcessType
  BY DEF IInv, TypeOK
<1>2. \A p \in procs : cut(p) \in ProcessType /\ cut(p).id = p.id /\ cut(p).epoch = p.epoch /\ cut(p).phase = p.phase
  BY <1>1 DEF ProcessType
<1>3. procs' = {cut(p) : p \in procs}
  BY DEF Disconnected
<1> HIDE DEF cut
<1>4. procs' \subseteq ProcessType
  BY <1>2, <1>3
<1>5. OneProcessPerId'
  BY <1>2, <1>3 DEF IInv, OneProcessPerId
<1>6. UNCHANGED launch => Supervised'
  BY <1>2, <1>3 DEF IInv, Supervised
<1>7. \A id : (Finished(id)' <=> Finished(id)) /\ (Alive(id)' <=> Alive(id))
  BY <1>2, <1>3 DEF Finished, Alive
<1> QED
  BY <1>4, <1>5, <1>6, <1>7

LEMMA StopTaskKeeps == ASSUME IInv, NEW t \in Tasks, StopTask(t) PROVE IInv'
<1>0. /\ UNCHANGED <<launch, permit, reviewed, on, inc, live, queue, doing, fault, journal>>
      /\ attempt' = Interrupted(t)
      /\ task' = [task EXCEPT ![t] = "STOPPED"]
      /\ dispatch' = [dispatch EXCEPT ![t] = "FINISHED"]
      /\ goal' = [goal EXCEPT ![t] = "HALTED"]
      /\ task[t] # "REPLIED" /\ dispatch[t] # "none" /\ doing.what # "forking"
      /\ procs' \in {procs, Disconnected({Latest(t)})}
  BY DEF StopTask, MayStop, Free, controller
<1>1. /\ procs' \subseteq ProcessType /\ OneProcessPerId' /\ Supervised'
      /\ \A other \in Ids : Finished(other)' <=> Finished(other)
  <2>1. CASE procs' = procs
    BY <1>0, <2>1 DEF IInv, TypeOK, OneProcessPerId, Supervised, Finished
  <2>2. CASE procs' = Disconnected({Latest(t)})
    BY <1>0, <2>2, Unplugged
  <2> QED
    BY <1>0, <2>1, <2>2
<1>2. /\ fence' = fence /\ Contiguous' /\ CompletedTrue' /\ RepliedTrue'
      /\ OneClaimPerWorld' /\ LeasesPast' /\ StoppedOver'
      /\ \/ attempt' = attempt
         \/ /\ fence[t] > 0 /\ Active(Last(t)) /\ Last(t) \in Ids
            /\ attempt' = [attempt EXCEPT ![Last(t)] = [state |-> "INTERRUPTED", lease |-> attempt[Last(t)].lease]]
  <2>1. UNCHANGED <<inc, journal>> /\ "STOPPED" # "REPLIED"
    BY <1>0
  <2> QED
    BY <1>0, <1>1, <2>1, InterruptedFacts
<1>3. TypeOK'
  <2>1. attempt' \in [Ids -> [state : {"none"} \cup ActiveStates \cup TerminalStates, lease : 0..MaxRestarts]]
    BY <1>2, InterruptedTyped DEF IInv, TypeOK
  <2>2. /\ task' \in [Tasks -> {"none", "QUEUED", "RUNNING", "REPLIED", "BLOCKED", "STOPPED"}]
        /\ dispatch' \in [Tasks -> {"none", "ACTIVE", "FINISHED", "CANCELLED"}]
        /\ goal' \in [Tasks -> {"OPEN", "BLOCKED", "HALTED", "AWAITING", "CLOSED"}]
    BY <1>0 DEF IInv, TypeOK
  <2> QED
    BY <1>0, <1>1, <2>1, <2>2 DEF IInv, TypeOK
<1>4. /\ task' \in [Tasks -> {"none", "QUEUED", "RUNNING", "REPLIED", "BLOCKED", "STOPPED"}]
      /\ \A u \in Tasks \ {t} : task'[u] = task[u] /\ dispatch'[u] = dispatch[u]
      /\ task'[t] = "STOPPED" /\ dispatch'[t] = "FINISHED"
  BY <1>0, <1>3 DEF IInv, TypeOK
<1> QED
  BY <1>0, <1>1, <1>2, <1>3, <1>4, InterruptionKeeps

LEMMA ConvergeClosedKeeps == ASSUME IInv, NEW t \in Tasks, ConvergeClosed(t) PROVE IInv'
<1> DEFINE follows == IF attempt' # attempt THEN "BLOCKED" ELSE task[t]
<1>0. /\ UNCHANGED <<launch, permit, goal, reviewed, on, inc, live, queue, doing, fault, procs, journal>>
      /\ attempt' = Interrupted(t)
      /\ task' = [task EXCEPT ![t] = follows]
      /\ dispatch' = [dispatch EXCEPT ![t] = "CANCELLED"]
      /\ dispatch[t] = "ACTIVE" /\ doing.what # "forking"
  BY DEF ConvergeClosed, SchedulerTick, controller, workers
<1>1. /\ \A other \in Ids : Finished(other)' <=> Finished(other)
      /\ OneProcessPerId' /\ Supervised'
  BY <1>0 DEF IInv, Finished, OneProcessPerId, Supervised
<1>2. /\ fence' = fence /\ Contiguous' /\ CompletedTrue' /\ RepliedTrue'
      /\ OneClaimPerWorld' /\ LeasesPast' /\ StoppedOver'
      /\ \/ attempt' = attempt
         \/ /\ fence[t] > 0 /\ Active(Last(t)) /\ Last(t) \in Ids
            /\ attempt' = [attempt EXCEPT ![Last(t)] = [state |-> "INTERRUPTED", lease |-> attempt[Last(t)].lease]]
  <2>1. CASE attempt' = attempt
    <3>1. task' = task
      BY <1>0, <2>1 DEF IInv, TypeOK
    <3>2. fence' = fence /\ Contiguous' /\ OneClaimPerWorld' /\ LeasesPast'
      BY <1>0, <2>1, AttemptsStay
    <3>3. CompletedTrue' /\ RepliedTrue' /\ StoppedOver'
      BY <1>0, <1>1, <2>1, <3>1, <3>2 DEF IInv, CompletedTrue, RepliedTrue, StoppedOver, Last, Terminal
    <3> QED
      BY <2>1, <3>2, <3>3
  <2>2. CASE attempt' # attempt
    <3>1. UNCHANGED <<inc, journal>> /\ task' = [task EXCEPT ![t] = "BLOCKED"]
      BY <1>0, <2>2
    <3> QED
      BY <1>0, <1>1, <2>2, <3>1, InterruptedFacts
  <2> QED
    BY <2>1, <2>2
<1>3. TypeOK'
  <2>1. attempt' \in [Ids -> [state : {"none"} \cup ActiveStates \cup TerminalStates, lease : 0..MaxRestarts]]
    BY <1>2, InterruptedTyped DEF IInv, TypeOK
  <2>2. /\ task' \in [Tasks -> {"none", "QUEUED", "RUNNING", "REPLIED", "BLOCKED", "STOPPED"}]
        /\ dispatch' \in [Tasks -> {"none", "ACTIVE", "FINISHED", "CANCELLED"}]
    BY <1>0 DEF IInv, TypeOK
  <2> QED
    BY <1>0, <2>1, <2>2 DEF IInv, TypeOK
<1>4. /\ task' \in [Tasks -> {"none", "QUEUED", "RUNNING", "REPLIED", "BLOCKED", "STOPPED"}]
      /\ \A u \in Tasks \ {t} : task'[u] = task[u] /\ dispatch'[u] = dispatch[u]
      /\ task'[t] = follows /\ dispatch'[t] = "CANCELLED" /\ dispatch[t] # "none"
  BY <1>0, <1>3 DEF IInv, TypeOK
<1>5. (task'[t] # "QUEUED" \/ task'[t] = task[t]) /\ (attempt' # attempt => task'[t] # "QUEUED")
  BY <1>4
<1> HIDE DEF follows
<1> QED
  BY <1>0, <1>1, <1>2, <1>3, <1>4, <1>5, InterruptionKeeps

(* Connections are cut, and a restart forgets what the controller held.     *)
LEMMA CutKeeps ==
  ASSUME IInv, SwitchOff \/ Restart \/ \E id \in Ids : DisconnectStale(id)
  PROVE  IInv'
<1>0. /\ UNCHANGED <<attempt, launch, permit, task, dispatch, goal, reviewed, journal>>
      /\ \/ UNCHANGED <<inc, live, queue, doing, fault>> /\ on' \in BOOLEAN
         \/ /\ inc < MaxRestarts /\ inc' = inc + 1 /\ live' = {} /\ queue' = [id \in Ids |-> <<>>]
            /\ doing' = Idle /\ fault' = "none" /\ on' = on
  BY DEF SwitchOff, Restart, DisconnectStale, company, controller, IInv, TypeOK
<1>1. /\ procs' \subseteq ProcessType /\ OneProcessPerId' /\ Supervised'
      /\ \A id : (Finished(id)' <=> Finished(id)) /\ (Alive(id)' <=> Alive(id))
  <2>1. CASE SwitchOff
    BY <1>0, <2>1, Unplugged DEF SwitchOff
  <2>2. CASE Restart
    <3>1. /\ procs' = {[p EXCEPT !.conn = FALSE] : p \in procs}
          /\ \A p \in procs : p.id \in Ids
      BY <2>2 DEF Restart, IInv, TypeOK, ProcessType
    <3>2. Disconnected(Ids) = {[p EXCEPT !.conn = FALSE] : p \in procs}
      BY <3>1 DEF Disconnected
    <3>3. procs' = Disconnected(Ids)
      BY <3>1, <3>2
    <3> QED
      BY <1>0, <3>3, Unplugged
  <2>3. ASSUME NEW id \in Ids, DisconnectStale(id)
        PROVE  /\ procs' \subseteq ProcessType /\ OneProcessPerId' /\ Supervised'
               /\ \A other : (Finished(other)' <=> Finished(other)) /\ (Alive(other)' <=> Alive(other))
    BY <1>0, <2>3, Unplugged DEF DisconnectStale
  <2> QED
    BY <2>1, <2>2, <2>3
<1>2. inc' \in Nat /\ inc \in Nat /\ inc <= inc' /\ inc' \in 0..MaxRestarts /\ (inc' = 0 => inc = 0)
  BY <1>0, ExecutionConstants DEF IInv, TypeOK
<1>3. fence' = fence /\ Contiguous' /\ OneClaimPerWorld'
  BY <1>0, AttemptsStay
<1>4. LeasesPast'
  BY <1>0, <1>2, ExecutionConstants DEF IInv, LeasesPast, TypeOK
<1>5. TypeOK'
  <2>1. /\ queue' \in [Ids -> Seq({"ready"} \cup Outcomes)] /\ live' \subseteq Ids
        /\ fault' \in {"none", "work", "both"}
    <3>1. queue \in [Ids -> Seq({"ready"} \cup Outcomes)] /\ live \subseteq Ids /\ fault \in {"none", "work", "both"}
      BY DEF IInv, TypeOK
    <3>2. [id \in Ids |-> <<>>] \in [Ids -> Seq({"ready"} \cup Outcomes)]
      OBVIOUS
    <3>3. queue' = queue \/ queue' = [id \in Ids |-> <<>>]
      BY <1>0
    <3>4. queue' \in [Ids -> Seq({"ready"} \cup Outcomes)]
      BY <3>1, <3>2, <3>3
    <3> QED
      BY <1>0, <3>1, <3>4
  <2>2. doing' \in {Idle} \cup [what : {"checking", "starting", "forking"}, id : Ids]
    BY <1>0 DEF IInv, TypeOK
  <2>3. on' \in BOOLEAN
    <3>1. on \in BOOLEAN
      BY DEF IInv, TypeOK
    <3> QED
      BY <1>0, <3>1
  <2> QED
    BY <1>0, <1>1, <1>2, <2>1, <2>2, <2>3 DEF IInv, TypeOK
<1>6. RowsFounded' /\ OldOver'
  <2>1. live' \subseteq live
    BY <1>0
  <2> QED
    BY <1>0, <1>3, <2>1, OldStay DEF IInv, RowsFounded
<1>7. ForkFounded'
  <2>1. CASE doing' = doing
    BY <1>0, <1>1, <2>1 DEF IInv, ForkFounded, Active
  <2>2. CASE doing' = Idle
    BY <2>2 DEF ForkFounded, Idle, Doing
  <2> QED
    BY <1>0, <2>1, <2>2
<1>8. MessagesTrue' /\ CompletedTrue'
  BY <1>0, <1>1 DEF IInv, MessagesTrue, CompletedTrue
<1>9. QueuedSettled' /\ RepliedTrue' /\ StoppedOver'
  BY <1>0, <1>2, <1>3 DEF IInv, QueuedSettled, RepliedTrue, StoppedOver, Last, Active, Over, Exited, Settled, Terminal
<1> QED
  BY <1>1, <1>3, <1>4, <1>5, <1>6, <1>7, <1>8, <1>9 DEF IInv

-----------------------------------------------------------------------------
(* The workers.                                                             *)

(* A process p moves on to `after`, at most one process, with its journal at *)
(* `left`; only its own queue may change, and what it says is true.          *)
Advances(p, left, after) ==
  /\ left \in JournalStates
  /\ procs' = (procs \ {p}) \cup after
  /\ \A q \in after : q \in ProcessType /\ q.id = p.id /\ q.epoch = p.epoch
  /\ \A q, r \in after : q = r
  /\ journal' = [journal EXCEPT ![p.id] = left]
  /\ queue' \in [Ids -> Seq({"ready"} \cup Outcomes)]
  /\ \A other \in Ids \ {p.id} : queue'[other] = queue[other]
  /\ \A i \in DOMAIN queue'[p.id] :
       queue'[p.id][i] = "ready" \/ (queue'[p.id][i] = left /\ \A q \in after : q.phase = "done")
  /\ attempt[p.id].state = "COMPLETED" => left = "completed" /\ \A q \in after : q.phase = "done"
  /\ attempt[p.id].state = "FAILED" => left # "lookup" /\ \A q \in after : q.phase = "done"
  /\ UNCHANGED <<attempt, launch, permit, task, dispatch, goal, reviewed, on, inc, live, doing, fault>>

LEMMA WorkerKeeps ==
  ASSUME IInv, NEW p \in procs, NEW left, NEW after, Advances(p, left, after)
  PROVE  IInv'
<1> USE DEF Advances
<1>1. p.id \in Ids /\ Alive(p.id) /\ launch[p.id].state \in {"STARTING", "RUNNING"}
  BY DEF IInv, TypeOK, ProcessType, Alive, Supervised
<1>2. fence' = fence /\ Contiguous' /\ OneClaimPerWorld' /\ LeasesPast'
  BY AttemptsStay
<1>3. journal'[p.id] = left /\ \A other \in Ids \ {p.id} : journal'[other] = journal[other]
  BY <1>1 DEF IInv, TypeOK
<1>4. /\ \A q \in procs' : q.id = p.id => q \in after
      /\ \A other \in Ids \ {p.id} : (Finished(other)' <=> Finished(other)) /\ (Alive(other)' <=> Alive(other))
  BY DEF IInv, OneProcessPerId, Finished, Alive
<1>5. TypeOK'
  <2>1. journal' \in [Ids -> JournalStates] /\ procs' \subseteq ProcessType
    BY DEF IInv, TypeOK
  <2> QED
    BY <2>1 DEF IInv, TypeOK
<1>6. RowsFounded' /\ RepliedTrue' /\ StoppedOver'
  BY <1>2 DEF IInv, RowsFounded, RepliedTrue, StoppedOver, Last, Terminal
<1>7. Supervised' /\ OneProcessPerId'
  BY DEF IInv, Supervised, OneProcessPerId
<1>8. ForkFounded'
  BY <1>1, <1>4 DEF IInv, ForkFounded, Active
<1>9. \A other \in Ids : Over(other) => Over(other)'
  BY <1>1, <1>3 DEF Over, Exited, Settled
<1>10. OldOver'
  BY <1>2, <1>9 DEF IInv, OldOver, Terminal
<1>11. QueuedSettled'
  <2>1. \A t \in Tasks : Last(t)' = Last(t) /\ (fence[t] > 0 => Last(t) \in Ids)
    BY <1>2, FenceFacts DEF IInv, Last
  <2>2. \A t \in Tasks : fence[t] > 0 => (Active(Last(t))' <=> Active(Last(t)))
    BY <2>1 DEF Active
  <2>3. \A t \in Tasks : fence[t] > 0 => (Over(Last(t)) => Over(Last(t))')
    BY <1>9, <2>1 DEF Over, Exited, Settled
  <2> QED
    BY <1>2, <2>2, <2>3 DEF IInv, QueuedSettled
<1>12. MessagesTrue'
  BY <1>3, <1>4 DEF IInv, MessagesTrue, Finished
<1>13. CompletedTrue'
  BY <1>3, <1>4 DEF IInv, CompletedTrue, Finished
<1> QED
  BY <1>2, <1>5, <1>6, <1>7, <1>8, <1>10, <1>11, <1>12, <1>13 DEF IInv

LEMMA WorkersKeep ==
  ASSUME IInv, NEW p \in procs, Progress(p) \/ Kill(p)
  PROVE  IInv'
<1>1. p \in ProcessType /\ p.id \in Ids /\ p.conn \in BOOLEAN
  BY DEF IInv, TypeOK, ProcessType
<1>2. /\ queue \in [Ids -> Seq({"ready"} \cup Outcomes)] /\ queue[p.id] \in Seq({"ready"} \cup Outcomes)
      /\ journal \in [Ids -> JournalStates] /\ journal[p.id] \in JournalStates
      /\ journal = [journal EXCEPT ![p.id] = journal[p.id]]
  BY <1>1 DEF IInv, TypeOK
<1>3. ASSUME p.phase # "done"
      PROVE  (\A i \in DOMAIN queue[p.id] : queue[p.id][i] = "ready") /\ attempt[p.id].state \notin {"COMPLETED", "FAILED"}
  BY <1>1, <1>3 DEF IInv, MessagesTrue, CompletedTrue, Finished
<1>4. ASSUME NEW message \in {"ready"} \cup Outcomes, Send(p, message)
      PROVE  /\ queue' \in [Ids -> Seq({"ready"} \cup Outcomes)]
             /\ \A other \in Ids \ {p.id} : queue'[other] = queue[other]
             /\ queue'[p.id] \in {queue[p.id], Append(queue[p.id], message)}
  BY <1>1, <1>2, <1>4 DEF Send
<1>5. ASSUME NEW message \in {"ready"} \cup Outcomes, Send(p, message)
      PROVE  \A i \in DOMAIN queue'[p.id] :
               queue'[p.id][i] = message \/ (i \in DOMAIN queue[p.id] /\ queue'[p.id][i] = queue[p.id][i])
  <2>1. \A i \in DOMAIN Append(queue[p.id], message) :
          Append(queue[p.id], message)[i] = message
          \/ (i \in DOMAIN queue[p.id] /\ Append(queue[p.id], message)[i] = queue[p.id][i])
    BY <1>2
  <2> QED
    BY <1>4, <1>5, <2>1
<1>6. ASSUME NEW phase \in {"work", "done"}
      PROVE  /\ [p EXCEPT !.phase = phase] \in ProcessType /\ [p EXCEPT !.phase = phase].id = p.id
             /\ [p EXCEPT !.phase = phase].epoch = p.epoch /\ [p EXCEPT !.phase = phase].phase = phase
  BY <1>1, <1>6 DEF ProcessType
<1>7. CASE Boot(p)
  <2> DEFINE next == [p EXCEPT !.phase = "work"]
  <2>1. /\ UNCHANGED <<attempt, launch, permit, task, dispatch, goal, reviewed, on, inc, live, doing, fault>>
        /\ procs' = (procs \ {p}) \cup {next} /\ p.phase # "done"
        /\ journal' = [journal EXCEPT ![p.id] = journal[p.id]]
    BY <1>2, <1>7 DEF Boot, company
  <2>2. /\ queue' \in [Ids -> Seq({"ready"} \cup Outcomes)]
        /\ \A other \in Ids \ {p.id} : queue'[other] = queue[other]
        /\ \A i \in DOMAIN queue'[p.id] : queue'[p.id][i] = "ready"
    <3>1. Send(p, "ready") /\ "ready" \in {"ready"} \cup Outcomes
      BY <1>7 DEF Boot
    <3>2. /\ queue' \in [Ids -> Seq({"ready"} \cup Outcomes)]
          /\ \A other \in Ids \ {p.id} : queue'[other] = queue[other]
      BY <1>4, <3>1
    <3>3. \A i \in DOMAIN queue'[p.id] :
            queue'[p.id][i] = "ready" \/ (i \in DOMAIN queue[p.id] /\ queue'[p.id][i] = queue[p.id][i])
      BY <1>5, <3>1
    <3> QED
      BY <1>3, <2>1, <3>2, <3>3
  <2>3. next \in ProcessType /\ next.id = p.id /\ next.epoch = p.epoch
    BY <1>6
  <2> HIDE DEF next
  <2>4. \A q \in {next} : q \in ProcessType /\ q.id = p.id /\ q.epoch = p.epoch
    BY <2>3
  <2>5. \A q, r \in {next} : q = r
    OBVIOUS
  <2>6. attempt[p.id].state \notin {"COMPLETED", "FAILED"}
    BY <1>3, <2>1
  <2>7. Advances(p, journal[p.id], {next})
    BY <1>2, <2>1, <2>2, <2>4, <2>5, <2>6 DEF Advances
  <2> QED
    BY <2>7, WorkerKeeps
<1>8. ASSUME NEW outcome \in Outcomes, Decide(p, outcome) PROVE IInv'
  <2> DEFINE next == [p EXCEPT !.phase = "done"]
  <2>1. /\ UNCHANGED <<attempt, launch, permit, task, dispatch, goal, reviewed, on, inc, live, doing, fault>>
        /\ procs' = (procs \ {p}) \cup {next} /\ p.phase # "done"
        /\ journal' = [journal EXCEPT ![p.id] = outcome] /\ outcome \in JournalStates
    BY <1>8 DEF Decide, company, Outcomes
  <2>2. /\ queue' \in [Ids -> Seq({"ready"} \cup Outcomes)]
        /\ \A other \in Ids \ {p.id} : queue'[other] = queue[other]
        /\ \A i \in DOMAIN queue'[p.id] : queue'[p.id][i] = "ready" \/ queue'[p.id][i] = outcome
    <3>1. CASE outcome = "suspended"
      BY <1>2, <1>3, <1>8, <2>1, <3>1 DEF Decide
    <3>2. CASE outcome # "suspended"
      <4>1. Send(p, outcome) /\ outcome \in {"ready"} \cup Outcomes
        BY <1>8, <3>2 DEF Decide
      <4>2. /\ queue' \in [Ids -> Seq({"ready"} \cup Outcomes)]
            /\ \A other \in Ids \ {p.id} : queue'[other] = queue[other]
        BY <1>4, <4>1
      <4>3. \A i \in DOMAIN queue'[p.id] :
              queue'[p.id][i] = outcome \/ (i \in DOMAIN queue[p.id] /\ queue'[p.id][i] = queue[p.id][i])
        BY <1>5, <4>1
      <4> QED
        BY <1>3, <2>1, <4>2, <4>3
    <3> QED
      BY <3>1, <3>2
  <2>3. next \in ProcessType /\ next.id = p.id /\ next.epoch = p.epoch /\ next.phase = "done"
    BY <1>6
  <2> HIDE DEF next
  <2>4. \A q \in {next} : q \in ProcessType /\ q.id = p.id /\ q.epoch = p.epoch /\ q.phase = "done"
    BY <2>3
  <2>5. \A q, r \in {next} : q = r
    OBVIOUS
  <2>6. attempt[p.id].state \notin {"COMPLETED", "FAILED"}
    BY <1>3, <2>1
  <2>7. Advances(p, outcome, {next})
    BY <2>1, <2>2, <2>4, <2>5, <2>6 DEF Advances
  <2> QED
    BY <2>7, WorkerKeeps
<1>9. CASE Exit(p)
  <2>1. /\ UNCHANGED <<attempt, launch, permit, task, dispatch, goal, reviewed, on, inc, live, doing, fault, queue>>
        /\ procs' = (procs \ {p}) \cup {}
        /\ journal' = [journal EXCEPT ![p.id] = journal[p.id]]
    BY <1>2, <1>9 DEF Exit, company, controller
  <2>2. /\ \A i \in DOMAIN queue'[p.id] : queue'[p.id][i] = "ready" \/ queue'[p.id][i] = journal[p.id]
        /\ attempt[p.id].state = "COMPLETED" => journal[p.id] = "completed"
        /\ attempt[p.id].state = "FAILED" => journal[p.id] # "lookup"
    BY <1>1, <2>1 DEF IInv, MessagesTrue, CompletedTrue
  <2>3. Advances(p, journal[p.id], {})
    BY <1>2, <2>1, <2>2 DEF Advances
  <2> QED
    BY <2>3, WorkerKeeps
<1>10. CASE Kill(p)
  <2>1. /\ UNCHANGED <<attempt, launch, permit, task, dispatch, goal, reviewed, on, inc, live, doing, fault, queue>>
        /\ procs' = (procs \ {p}) \cup {} /\ p.phase # "done"
    BY <1>10 DEF Kill, company, controller
  <2>2. PICK left \in JournalStates : journal' = [journal EXCEPT ![p.id] = left]
    BY <1>2, <1>10 DEF Kill, JournalStates
  <2>3. (\A i \in DOMAIN queue'[p.id] : queue'[p.id][i] = "ready") /\ attempt[p.id].state \notin {"COMPLETED", "FAILED"}
    BY <1>3, <2>1
  <2>4. Advances(p, left, {})
    BY <1>2, <2>1, <2>2, <2>3 DEF Advances
  <2> QED
    BY <2>4, WorkerKeeps
<1> QED
  BY <1>7, <1>8, <1>9, <1>10 DEF Progress

-----------------------------------------------------------------------------
(* The invariant, and what no step may do.                                  *)

LEMMA Keeps == ASSUME IInv, [Next]_vars PROVE IInv'
<1>1. ASSUME NEW t \in Tasks, Dispatch(t) \/ Claim(t) PROVE IInv'
  BY <1>1, DispatchKeeps, ClaimKeeps
<1>2. ASSUME NEW t \in Tasks, Converge(t) PROVE IInv'
  BY <1>2, ConvergeClosedKeeps, ConvergeTerminalKeeps DEF Converge
<1>3. ASSUME NEW t \in Tasks, Owner(t) PROVE IInv'
  BY <1>3, StopTaskKeeps, RetryKeeps, RecoveriesKeep, ReconcileKeeps, OwnerKeeps DEF Owner
<1>4. ASSUME NEW id \in Ids, Resume(id) \/ Start(id) PROVE IInv'
  BY <1>4, ChoiceKeeps, LaunchKeeps, ForkKeeps DEF Start
<1>5. ASSUME NEW id \in Ids, Poll(id) \/ DisconnectStale(id) \/ Handle(id) \/ ExitHandler(id) PROVE IInv'
  BY <1>5, RecoveriesKeep, CutKeeps, HandleKeeps
<1>6. ASSUME NEW p \in procs, Progress(p) \/ Kill(p) PROVE IInv'
  BY <1>6, WorkersKeep
<1>7. ASSUME SwitchOff \/ SwitchOn \/ Restart PROVE IInv'
  BY <1>7, OwnerKeeps, CutKeeps
<1>8. CASE UNCHANGED vars
  <2>1. UNCHANGED <<attempt, launch, permit, task, dispatch, goal, reviewed, on, inc, live, queue, doing, fault, journal, procs>>
    BY <1>8 DEF vars, company, controller, workers
  <2>2. TypeOK'
    BY <2>1 DEF IInv, TypeOK
  <2> QED
    BY <2>1, <2>2, QuietKeeps
<1> QED
  BY <1>1, <1>2, <1>3, <1>4, <1>5, <1>6, <1>7, <1>8 DEF Next

(* What a step does to the attempts: nothing but to their leases, or it      *)
(* makes the next one of a task, or it moves on one that is not over, and    *)
(* the task of that one with it.                                            *)
Beginning == \E t \in Tasks : /\ Claimed(t) \in Ids /\ attempt[Claimed(t)].state = "none"
                              /\ ~(Started(t) /\ Active(Latest(t))) /\ Fence(t) < MaxAttempts
                              /\ attempt' = [attempt EXCEPT ![Claimed(t)] = [state |-> "DISPATCH_PENDING", lease |-> inc]]
                              /\ task' = task
SameStates == \A id \in Ids : attempt'[id].state = attempt[id].state
Moving == \E id \in Ids : /\ Active(id)
                          /\ \A other \in Ids \ {id} : attempt'[other] = attempt[other]
                          /\ attempt'[id].state \in {"RUNNING", "SUSPENDED"} \cup TerminalStates
                          /\ \A t \in Tasks \ {id[1]} : task'[t] = task[t]

LEMMA Steps ==
  ASSUME IInv, [Next]_vars
  PROVE  \/ SameStates /\ StopsStand
         \/ Beginning
         \/ Moving
         \/ SameStates /\ task' = task
<1>0. /\ attempt \in [Ids -> [state : {"none"} \cup ActiveStates \cup TerminalStates, lease : 0..MaxRestarts]]
      /\ task \in [Tasks -> {"none", "QUEUED", "RUNNING", "REPLIED", "BLOCKED", "STOPPED"}]
  BY DEF IInv, TypeOK
<1>1. ASSUME NEW t \in Tasks, Dispatch(t) \/ Retry(t) PROVE SameStates /\ StopsStand
  BY <1>0, <1>1 DEF Dispatch, Retry, Requeue, SameStates, StopsStand
<1>2. ASSUME NEW t \in Tasks, Claim(t) PROVE Beginning
  <2>1. fence[t] \in Nat /\ fence[t] < MaxAttempts /\ Claimed(t) = <<t, fence[t] + 1>> /\ Fence(t) = fence[t]
    BY <1>2, FenceFacts DEF Claim, MayClaim, IInv
  <2>2. fence[t] + 1 \in 1..MaxAttempts
    BY <2>1, ExecutionConstants
  <2>3. Claimed(t) \in Ids /\ attempt[Claimed(t)].state = "none"
    BY <2>1, <2>2, IdParts DEF IInv, Contiguous
  <2> QED
    BY <1>2, <2>1, <2>3 DEF Claim, MayClaim, NewAttempt, Beginning
<1>3. ASSUME NEW id \in Ids, Recover(id) PROVE Moving \/ (SameStates /\ task' = task)
  <2>1. id[1] \in Tasks /\ StateOf[journal[id]] \in {"SUSPENDED"} \cup TerminalStates
    BY IdParts DEF IInv, TypeOK, StateOf, JournalStates, TerminalStates
  <2>2. CASE Active(id) /\ launch[id].state # "SUSPENDED"
    <3>1. /\ attempt' = [attempt EXCEPT ![id] = [state |-> StateOf[journal[id]], lease |-> inc]]
          /\ \A t \in Tasks \ {id[1]} : task'[t] = task[t]
      BY <1>0, <1>3, <2>1, <2>2 DEF Recover, Apply, ApplyToTask
    <3>2. /\ \A other \in Ids \ {id} : attempt'[other] = attempt[other]
          /\ attempt'[id].state = StateOf[journal[id]]
      BY <1>0, <3>1
    <3> QED
      BY <2>1, <2>2, <3>1, <3>2 DEF Moving
  <2>3. CASE ~(Active(id) /\ launch[id].state # "SUSPENDED")
    BY <1>0, <1>3, <2>3 DEF Recover, Adopted, SameStates
  <2> QED
    BY <2>2, <2>3
<1>4. ASSUME NEW id \in Ids, Handle(id) PROVE Moving \/ (SameStates /\ task' = task)
  <2>1. /\ queue[id] \in Seq({"ready"} \cup Outcomes) /\ queue[id] # <<>> /\ id[1] \in Tasks
    BY <1>4, IdParts DEF Handle, IInv, TypeOK
  <2>2. Head(queue[id]) # "ready" => StateOf[Head(queue[id])] \in {"SUSPENDED"} \cup TerminalStates
    BY <2>1 DEF StateOf, Outcomes, JournalStates, TerminalStates
  <2>3. \/ attempt' = attempt /\ task' = task
        \/ \E state \in {"RUNNING", "SUSPENDED"} \cup TerminalStates : Active(id) /\ Apply(id, state)
    BY <1>4, <2>2 DEF Handle, HandleReady, Observe, Observable
  <2>4. ASSUME NEW state \in {"RUNNING", "SUSPENDED"} \cup TerminalStates, Active(id), Apply(id, state) PROVE Moving
    <3>1. /\ attempt' = [attempt EXCEPT ![id] = [state |-> state, lease |-> inc]]
          /\ \A t \in Tasks \ {id[1]} : task'[t] = task[t]
      BY <1>0, <2>1, <2>4 DEF Apply, ApplyToTask
    <3>2. (\A other \in Ids \ {id} : attempt'[other] = attempt[other]) /\ attempt'[id].state = state
      BY <1>0, <3>1
    <3> QED
      BY <2>4, <3>1, <3>2 DEF Moving
  <2> QED
    BY <2>3, <2>4 DEF SameStates
<1>5. ASSUME NEW t \in Tasks, NEW follows, attempt' = Interrupted(t), task' = [task EXCEPT ![t] = follows],
             follows \in {"BLOCKED", "STOPPED"} \/ follows = task[t], attempt' # attempt \/ follows \in {"STOPPED", task[t]}
      PROVE  Moving \/ (SameStates /\ StopsStand)
  <2>1. \A u \in Tasks \ {t} : task'[u] = task[u]
    BY <1>0, <1>5
  <2>2. CASE Started(t) /\ Observable(Latest(t))
    <3>1. Last(t) \in Ids /\ Last(t)[1] = t /\ Active(Last(t)) /\ attempt' = [attempt EXCEPT ![Last(t)].state = "INTERRUPTED"]
      BY <1>5, <2>2, FenceFacts DEF Interrupted, Observable, IInv, Last
    <3>2. (\A other \in Ids \ {Last(t)} : attempt'[other] = attempt[other]) /\ attempt'[Last(t)].state = "INTERRUPTED"
      BY <1>0, <3>1
    <3> QED
      BY <2>1, <3>1, <3>2 DEF Moving, TerminalStates
  <2>3. CASE ~(Started(t) /\ Observable(Latest(t)))
    <3>1. attempt' = attempt /\ follows \in {"STOPPED", task[t]}
      BY <1>5, <2>3 DEF Interrupted
    <3> QED
      BY <1>0, <1>5, <2>1, <3>1 DEF SameStates, StopsStand
  <2> QED
    BY <2>2, <2>3
<1>6. ASSUME NEW t \in Tasks, StopTask(t) PROVE Moving \/ (SameStates /\ StopsStand)
  <2>1. attempt' = Interrupted(t) /\ task' = [task EXCEPT ![t] = "STOPPED"] /\ "STOPPED" \in {"STOPPED", task[t]}
    BY <1>6 DEF StopTask
  <2> QED
    BY <1>5, <2>1
<1>7. ASSUME NEW t \in Tasks, ConvergeClosed(t) PROVE Moving \/ (SameStates /\ StopsStand)
  <2> DEFINE follows == IF attempt' # attempt THEN "BLOCKED" ELSE task[t]
  <2>1. attempt' = Interrupted(t) /\ task' = [task EXCEPT ![t] = follows]
    BY <1>7 DEF ConvergeClosed
  <2>2. (follows \in {"BLOCKED", "STOPPED"} \/ follows = task[t]) /\ (attempt' # attempt \/ follows \in {"STOPPED", task[t]})
    OBVIOUS
  <2> HIDE DEF follows
  <2> QED
    BY <1>5, <2>1, <2>2
<1>8. ASSUME NEW id \in Ids, Launch(id) PROVE SameStates /\ task' = task
  BY <1>0, <1>8 DEF Launch, SameStates
<1>9. ASSUME attempt' = attempt, task' = task PROVE SameStates /\ task' = task
  BY <1>9 DEF SameStates
<1>10. ASSUME NEW t \in Tasks, Converge(t) \/ Owner(t) PROVE Moving \/ (SameStates /\ (StopsStand \/ task' = task))
  <2>1. CASE ConvergeTerminal(t) \/ Reconcile(t) \/ CloseGoal(t)
    BY <1>9, <2>1 DEF ConvergeTerminal, Reconcile, CloseGoal
  <2>2. CASE Abandon(t)
    <3>1. Latest(t) \in Ids /\ Recover(Latest(t))
      BY <2>2, FenceFacts DEF Abandon, IInv
    <3> QED
      BY <1>3, <3>1
  <2>3. CASE StopTask(t) \/ ConvergeClosed(t)
    BY <1>6, <1>7, <2>3
  <2>4. CASE Retry(t)
    BY <1>1, <2>4
  <2> QED
    BY <1>10, <2>1, <2>2, <2>3, <2>4 DEF Converge, Owner
<1>11. ASSUME NEW id \in Ids,
              Resume(id) \/ Start(id) \/ Poll(id) \/ DisconnectStale(id) \/ Handle(id) \/ ExitHandler(id)
       PROVE  Moving \/ (SameStates /\ task' = task)
  <2>1. CASE Resume(id) \/ GiveUp(id) \/ TickFails(id) \/ Fork(id) \/ DisconnectStale(id)
    BY <1>9, <2>1 DEF Resume, GiveUp, TickFails, Fork, DisconnectStale, company
  <2>2. CASE Poll(id) \/ ExitHandler(id)
    <3>1. Recover(id)
      BY <2>2 DEF Poll, ExitHandler
    <3> QED
      BY <1>3, <3>1
  <2>3. CASE Handle(id) \/ Launch(id)
    BY <1>4, <1>8, <2>3
  <2> QED
    BY <1>11, <2>1, <2>2, <2>3 DEF Start
<1>12. ASSUME NEW p \in procs, Progress(p) \/ Kill(p) PROVE SameStates /\ task' = task
  BY <1>9, <1>12 DEF Progress, Kill, Boot, Exit, Decide, company
<1>13. ASSUME SwitchOff \/ SwitchOn \/ Restart \/ UNCHANGED vars PROVE SameStates /\ task' = task
  BY <1>9, <1>13 DEF SwitchOff, SwitchOn, Restart, vars, company
<1> QED
  BY <1>1, <1>2, <1>10, <1>11, <1>12, <1>13 DEF Next

LEMMA StepsAreFinal ==
  ASSUME IInv, [Next]_vars
  PROVE  OverStaysOver /\ (inc = 0 => StopsStand)
<1>0. attempt \in [Ids -> [state : {"none"} \cup ActiveStates \cup TerminalStates, lease : 0..MaxRestarts]]
  BY DEF IInv, TypeOK
<1>1. CASE SameStates /\ (StopsStand \/ task' = task)
  BY <1>1 DEF SameStates, OverStaysOver, StopsStand
<1>2. CASE Beginning
  BY <1>0, <1>2 DEF Beginning, OverStaysOver, StopsStand, Terminal, TerminalStates
<1>3. CASE Moving
  <2>1. PICK id \in Ids : /\ Active(id)
                          /\ \A other \in Ids \ {id} : attempt'[other] = attempt[other]
                          /\ \A t \in Tasks \ {id[1]} : task'[t] = task[t]
    BY <1>3 DEF Moving
  <2>2. ~Terminal(id)
    BY <2>1 DEF Active, ActiveStates, Terminal, TerminalStates
  <2>3. OverStaysOver
    BY <2>1, <2>2 DEF OverStaysOver
  <2>4. inc = 0 => task[id[1]] # "STOPPED"
    BY <2>1, <2>2, OnlyTheLast DEF IInv, StoppedOver
  <2>5. inc = 0 => StopsStand
    BY <2>1, <2>4 DEF StopsStand
  <2> QED
    BY <2>3, <2>5
<1> QED
  BY <1>1, <1>2, <1>3, Steps

LEMMA Invariance == Spec => []IInv
<1>1. Init => IInv
  BY InitFounded
<1>2. IInv /\ [Next]_vars => IInv'
  BY Keeps
<1> QED
  BY <1>1, <1>2, PTL DEF Spec

(* Every reachable state is of the declared types.                          *)
THEOREM Typing == Spec => []TypeOK
<1>1. IInv => TypeOK
  BY DEF IInv
<1> QED
  BY <1>1, Invariance, PTL

(* However many tasks, attempts and restarts there are, two processes never  *)
(* work on one task.                                                        *)
THEOREM OneProcess == Spec => []OneProcessPerTask
<1>1. ASSUME IInv PROVE OneProcessPerTask
  <2>1. ASSUME NEW p \in procs, NEW q \in procs, p.id[1] = q.id[1] PROVE p = q
    <3>1. p.id \in Ids /\ q.id \in Ids /\ Alive(p.id) /\ Alive(q.id)
      BY <1>1 DEF IInv, TypeOK, ProcessType, Alive
    <3>2. p.id = q.id
      BY <1>1, <2>1, <3>1, OnlyTheLast
    <3> QED
      BY <1>1, <3>2 DEF IInv, OneProcessPerId
  <2> QED
    BY <2>1 DEF OneProcessPerTask
<1> QED
  BY <1>1, Invariance, PTL

(* Every worker that exists belongs to the open launch of its own epoch.    *)
THEOREM AllSupervised == Spec => []Supervised
<1>1. IInv => Supervised
  BY DEF IInv
<1> QED
  BY <1>1, Invariance, PTL

(* A task is REPLIED exactly when its last attempt is COMPLETED by its journal. *)
THEOREM RepliesTrue == Spec => []RepliesAreResults
<1>1. ASSUME IInv PROVE RepliesAreResults
  BY <1>1, FenceFacts DEF IInv, RepliedTrue, CompletedTrue, RepliesAreResults
<1> QED
  BY <1>1, Invariance, PTL

(* No attempt follows one whose unknown outcome nobody has dealt with, but   *)
(* for a lookup of an attempt that the owner's stop interrupted.             *)
THEOREM NoBlindReplay == Spec => []NoReplayUnreviewed
<1>1. ASSUME IInv PROVE NoReplayUnreviewed
  <2> SUFFICES ASSUME NEW id \in Ids, id[2] < Fence(id[1]), id \notin reviewed,
                      journal[id] \in {"unknown", "lookup"}
               PROVE  journal[id] = "lookup" /\ attempt[id].state = "INTERRUPTED"
    BY DEF NoReplayUnreviewed
  <2>1. Terminal(id) /\ Settled(id)
    BY <1>1, FenceFacts, IdParts DEF IInv, OldOver, Over
  <2>2. journal[id] = "lookup" /\ attempt[id].state # "BLOCKED"
    BY <2>1 DEF Settled
  <2> QED
    BY <1>1, <2>1, <2>2 DEF IInv, CompletedTrue, Terminal, TerminalStates
<1> QED
  BY <1>1, Invariance, PTL

(* Two attempts never hold the claim of one world.                          *)
THEOREM OneClaim == Spec => []OneClaimPerWorld
<1>1. IInv => OneClaimPerWorld
  BY DEF IInv
<1> QED
  BY <1>1, Invariance, PTL

(* No step turns a result into another one.                                 *)
THEOREM Finality == Spec => ResultsAreFinal
<1>1. IInv /\ [Next]_vars => [OverStaysOver]_vars
  BY StepsAreFinal
<1> QED
  BY <1>1, Invariance, PTL DEF Spec, ResultsAreFinal

(* Under the first controller a stopped task comes back by a retry only.    *)
THEOREM StopsHold == Spec => StoppedUntilRetried
<1>1. IInv /\ [Next]_vars => [inc = 0 => StopsStand]_vars
  BY StepsAreFinal
<1> QED
  BY <1>1, Invariance, PTL DEF Spec, StoppedUntilRetried

-----------------------------------------------------------------------------
(* Tasks have their attempts one after the other: the refinement of         *)
(* TaskAttempts.                                                            *)

Works(t) == fence[t] > 0 /\ Active(Last(t))
Working == [t \in Tasks |-> Works(t)]

(* The flag of one task changes.                                            *)
LEMMA FlagChanges ==
  ASSUME NEW t \in Tasks, \A u \in Tasks \ {t} : Works(u)' <=> Works(u)
  PROVE  /\ Works(t)' /\ Works(t) => Working' = Working
         /\ Works(t)' /\ ~Works(t) => Working' = [Working EXCEPT ![t] = TRUE] /\ ~Working[t]
         /\ ~Works(t)' /\ Works(t) => Working' = [Working EXCEPT ![t] = FALSE] /\ Working[t]
<1>0. \A u \in Tasks : Works(u) \in BOOLEAN /\ Works(u)' \in BOOLEAN
  BY DEF Works
<1>1. ASSUME Works(t)', Works(t) PROVE Working' = Working
  <2>1. \A u \in Tasks : Works(u)' = Works(u)
    BY <1>0, <1>1, SMT
  <2> QED
    BY <2>1 DEF Working
<1>2. ASSUME Works(t)', ~Works(t) PROVE Working' = [Working EXCEPT ![t] = TRUE] /\ ~Working[t]
  <2>1. ASSUME NEW u \in Tasks PROVE Works(u)' = IF u = t THEN TRUE ELSE Works(u)
    <3>1. CASE u = t
      <4>1. Works(t)' = TRUE
        BY <1>0, <1>2, SMT
      <4> QED
        BY <3>1, <4>1, Zenon
    <3>2. CASE u # t
      <4>1. Works(u)' = Works(u)
        BY <1>0, <3>2, SMT
      <4> QED
        BY <3>2, <4>1, Zenon
    <3> QED
      BY <3>1, <3>2
  <2> QED
    BY <1>2, <2>1 DEF Working
<1>3. ASSUME ~Works(t)', Works(t) PROVE Working' = [Working EXCEPT ![t] = FALSE] /\ Working[t]
  <2>1. ASSUME NEW u \in Tasks PROVE Works(u)' = IF u = t THEN FALSE ELSE Works(u)
    <3>1. CASE u = t
      <4>1. Works(t)' = FALSE
        BY <1>0, <1>3, SMT
      <4> QED
        BY <3>1, <4>1, Zenon
    <3>2. CASE u # t
      <4>1. Works(u)' = Works(u)
        BY <1>0, <3>2, SMT
      <4> QED
        BY <3>2, <4>1, Zenon
    <3> QED
      BY <3>1, <3>2
  <2> QED
    BY <1>3, <2>1 DEF Working
<1> QED
  BY <1>1, <1>2, <1>3

LEMMA StepSimulates == ASSUME IInv, IInv', [Next]_vars PROVE [Attempts!Next]_(Attempts!vars)
<1>0. /\ attempt \in [Ids -> [state : {"none"} \cup ActiveStates \cup TerminalStates, lease : 0..MaxRestarts]]
      /\ \A t \in Tasks : Fence(t) = fence[t] /\ (Started(t) <=> fence[t] > 0) /\ Latest(t) = Last(t)
      /\ \A t \in Tasks : /\ Fence(t)' = fence'[t] /\ (Started(t)' <=> fence'[t] > 0) /\ Latest(t)' = Last(t)'
                          /\ fence[t] \in Nat
      /\ \A t \in Tasks : fence[t] > 0 => Last(t) \in Ids
  BY FenceFacts DEF IInv, TypeOK, fence, Started, Latest, Last
<1>1. /\ [t \in Tasks |-> Fence(t)] = fence /\ [t \in Tasks |-> Fence(t)'] = fence'
      /\ [t \in Tasks |-> Started(t) /\ Active(Latest(t))] = Working
      /\ [t \in Tasks |-> Started(t)' /\ Active(Latest(t))'] = Working'
  BY <1>0 DEF fence, Working, Works
<1>2. CASE SameStates
  <2>1. fence' = fence
    BY <1>2, SameFence DEF SameStates
  <2>2. \A t \in Tasks : Last(t)' = Last(t) /\ (Works(t)' <=> Works(t))
    BY <1>0, <1>2, <2>1 DEF SameStates, Last, Active, Works
  <2>3. Working' = Working
    <3>1. \A t \in Tasks : Works(t) \in BOOLEAN /\ Works(t)' \in BOOLEAN
      BY DEF Works
    <3>2. \A t \in Tasks : Works(t)' = Works(t)
      BY <2>2, <3>1, SMT
    <3> QED
      BY <3>2 DEF Working
  <2> QED
    BY <1>1, <2>1, <2>3 DEF Attempts!vars
<1>3. CASE Beginning
  <2>1. PICK t \in Tasks : /\ Claimed(t) \in Ids /\ attempt[Claimed(t)].state = "none"
                           /\ ~(Started(t) /\ Active(Latest(t))) /\ Fence(t) < MaxAttempts
                           /\ attempt' = [attempt EXCEPT ![Claimed(t)] = [state |-> "DISPATCH_PENDING", lease |-> inc]]
    BY <1>3 DEF Beginning
  <2>2. Claimed(t) = <<t, fence[t] + 1>> /\ fence[t] < MaxAttempts
    BY <1>0, <2>1 DEF Claimed
  <2>3. /\ attempt'[Claimed(t)].state = "DISPATCH_PENDING"
        /\ \A id \in Ids \ {Claimed(t)} : attempt'[id] = attempt[id]
    BY <1>0, <2>1
  <2>4. fence' = [fence EXCEPT ![t] = fence[t] + 1]
    BY <2>2, <2>3, NextFence DEF IInv
  <2>5. /\ fence'[t] = fence[t] + 1 /\ \A u \in Tasks \ {t} : fence'[u] = fence[u]
        /\ fence'[t] > 0 /\ Last(t)' = Claimed(t)
    <3>1. fence'[t] = fence[t] + 1 /\ \A u \in Tasks \ {t} : fence'[u] = fence[u]
      BY <2>4 DEF fence
    <3>2. fence[t] \in Nat
      BY <1>0
    <3> QED
      BY <2>2, <3>1, <3>2 DEF Last
  <2>6. Works(t)' /\ ~Works(t)
    BY <1>0, <2>1, <2>3, <2>5 DEF Active, ActiveStates, Works
  <2>7. ASSUME NEW u \in Tasks \ {t} PROVE Works(u)' <=> Works(u)
    <3>1. fence'[u] = fence[u] /\ Last(u)' = Last(u) /\ Last(u) # Claimed(t)
      BY <2>2, <2>5 DEF Last
    <3> QED
      BY <1>0, <2>3, <3>1 DEF Active, Works
  <2>8. Working' = [Working EXCEPT ![t] = TRUE] /\ ~Working[t]
    BY <2>6, <2>7, FlagChanges
  <2>9. Attempts!Begin(t)
    BY <1>1, <2>4, <2>8 DEF Attempts!Begin
  <2> QED
    BY <2>9 DEF Attempts!Next
<1>4. CASE Moving
  <2>1. PICK id \in Ids : /\ Active(id)
                          /\ \A other \in Ids \ {id} : attempt'[other] = attempt[other]
                          /\ attempt'[id].state \in {"RUNNING", "SUSPENDED"} \cup TerminalStates
    BY <1>4 DEF Moving
  <2> DEFINE t == id[1]
  <2>2. t \in Tasks /\ id = Last(t) /\ Works(t) /\ fence[t] > 0
    BY <2>1, OnlyTheLast DEF Works
  <2>3. fence' = fence
    <3>1. attempt[id].state # "none" /\ attempt'[id].state # "none"
      BY <2>1 DEF Active, ActiveStates, TerminalStates
    <3> QED
      BY <2>1, <3>1, SameFence
  <2>4. \A u \in Tasks : Last(u)' = Last(u)
    BY <2>3 DEF Last
  <2>5. ASSUME NEW u \in Tasks \ {t} PROVE Works(u)' <=> Works(u)
    <3>1. Last(u) # id
      BY <2>2 DEF Last
    <3> QED
      BY <1>0, <2>1, <2>3, <2>4, <3>1 DEF Active, Works
  <2> HIDE DEF t
  <2>6. CASE Works(t)'
    <3>1. Working' = Working
      BY <2>2, <2>5, <2>6, FlagChanges
    <3> QED
      BY <1>1, <2>3, <3>1 DEF Attempts!vars
  <2>7. CASE ~Works(t)'
    <3>1. Working' = [Working EXCEPT ![t] = FALSE] /\ Working[t]
      BY <2>2, <2>5, <2>7, FlagChanges
    <3>2. Attempts!End(t)
      BY <1>1, <2>3, <3>1 DEF Attempts!End
    <3> QED
      BY <2>2, <3>2 DEF Attempts!Next
  <2> QED
    BY <2>6, <2>7
<1> QED
  BY <1>2, <1>3, <1>4, Steps

(* Claims, launches, processes and journals implement one begin and one end  *)
(* of each attempt at a task.                                               *)
THEOREM AttemptsRefined == Spec => AttemptsSpec
<1>1. Init => Attempts!Init
  <2>1. ASSUME Init PROVE Attempts!Init
    <3>1. \A t \in Tasks : {n \in 1..MaxAttempts : attempt[<<t, n>>].state # "none"} = {}
      BY <2>1 DEF Init, Ids
    <3>2. \A t \in Tasks : Fence(t) = 0 /\ ~Started(t)
      <4>1. \A t \in Tasks : Fence(t) = 0
        BY <3>1, FS_EmptySet DEF Fence
      <4> QED
        BY <4>1 DEF Started
    <3>3. [t \in Tasks |-> Fence(t)] = [t \in Tasks |-> 0]
      BY <3>2
    <3>4. [t \in Tasks |-> Started(t) /\ Active(Latest(t))] = [t \in Tasks |-> FALSE]
      BY <3>2, Zenon
    <3> QED
      BY <3>3, <3>4 DEF Attempts!Init
  <2> QED
    BY <2>1
<1>2. IInv /\ IInv' /\ [Next]_vars => [Attempts!Next]_(Attempts!vars)
  BY StepSimulates
<1> QED
  BY <1>1, <1>2, Invariance, PTL DEF Spec, AttemptsSpec, Attempts!Spec
=============================================================================

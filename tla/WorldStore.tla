----------------------------- MODULE WorldStore -----------------------------
(***************************************************************************)
(* The SQLite store of one world, and what its repositories compute.       *)
(*                                                                         *)
(* A message is a seed, one that effect i of a seed's reply sent (<<m,i>>), *)
(* the joint feedback of its tools (<<m,0>>) or the wake-up of a pixel      *)
(* (<<p,0>>).  Replies to derived messages do nothing: a bound.  A feedback *)
(* that a crash makes the code send twice is one message here.              *)
(* Token counts are small numbers; one reservation is Estimate tokens.      *)
(***************************************************************************)
EXTENDS Integers, FiniteSets, FiniteSetsExt, Sequences, SequencesExt

CONSTANTS
  Pixels,       \* coordinates, all neighbours of each other
  Seeds,        \* messages sent to the world from outside
  Recipient,    \* the pixel each seed is for
  Unread,       \* seeds sent before, whose pixel ran out of energy
  Replies,      \* the decisions the model may give to each seed
  MaxEffects,   \* effects of the longest decision
  Energy,       \* what each pixel starts with; 0 is an empty coordinate
  Estimate,     \* tokens reserved for a call
  Costs,        \* tokens a call may turn out to have used
  RunLimit,     \* token budget of a run
  MaxCalls,     \* bound: model calls of a message
  MaxRuns       \* bound: runs

Effects == [kind : {"READ", "TOOL", "TRANSFER", "REPRODUCE", "ROUTE"}, to : Pixels, amount : Int]

ASSUME StoreConstants ==
  /\ IsFiniteSet(Pixels) /\ Pixels # {} /\ IsFiniteSet(Seeds)
  /\ Recipient \in [Seeds -> Pixels] /\ Unread \subseteq Seeds /\ Energy \in [Pixels -> Nat]
  /\ \A s \in Seeds : \A plan \in Replies[s] : plan \in Seq(Effects) /\ Len(plan) <= MaxEffects
  /\ Estimate \in Nat \ {0} /\ Costs \subseteq Nat /\ RunLimit \in Nat
  /\ MaxEffects \in Nat /\ MaxCalls \in Nat /\ MaxRuns \in Nat

VARIABLES
  company,  \* the owner's money budget replaces token budgets and energy
  run,      \* runs and their checkpoints
  mail,     \* messages in the order they were created
  msg,      \* what is stored of each message
  call,     \* per message: reservations and calls, oldest first
  effect,   \* receipts of the effects of each message
  tool,     \* tool executions of each message
  pixel     \* accounts and current bindings

store == <<company, run, mail, msg, call, effect, tool, pixel>>

Runs == 1..MaxRuns
Indices == 1..MaxEffects
Messages == Seeds \cup (Seeds \X (0..MaxEffects)) \cup (Pixels \X {0})

RunStates == {"none", "RUNNING", "COMPLETED", "STOPPED", "FAILED"}
InFlight == {"PROCESSING", "RESERVED", "CALLING", "CALL_OUTCOME_UNKNOWN",
             "AWAITING_SETTLEMENT"}
Claimable == {"QUEUED", "RESPONSE_STORED"}
Waiting == {"WAITING_PIXEL_BUDGET", "WAITING_RUN_BUDGET"}
MessageStates == {"COMMITTED", "ABANDONED", "MODEL_RESPONSE_INVALID"}
                   \cup InFlight \cup Claimable \cup Waiting
RecoveryStops == {"CALL_OUTCOME_UNKNOWN", "PAUSED_RECOVERY_REQUIRED"}
StopReasons == {"none", "USER_STOPPED", "SERVICE_SHUTDOWN", "INFRASTRUCTURE_FAILURE",
                "RUN_BUDGET_EXHAUSTED", "MODEL_RESPONSE_INVALID", "NO_ACTIVE_MESSAGES",
                "MESSAGE_LIMIT_REACHED", "ROUND_LIMIT_REACHED"} \cup RecoveryStops
Outcomes == {"none", "SUCCESS", "MODEL_RESPONSE_INVALID", "CALL_OUTCOME_UNKNOWN",
             "CALL_OUTCOME_RECONCILED"}
Recorded == {"APPLIED", "FAILED", "SKIPPED"}

-----------------------------------------------------------------------------
(* Runs.                                                                    *)
NoRun == [status |-> "none", stop |-> "none", resume |-> FALSE, next |-> 0, last |-> 0,
          started |-> FALSE, messages |-> 0, spent |-> 0, reserved |-> 0]
Created == {r \in Runs : run[r].status # "none"}
Latest == Cardinality(Created)
WorldRound == Max({0} \cup {run[r].next - 1 : r \in Created})

NewRun(rounds) == [NoRun EXCEPT !.status = "RUNNING", !.resume = TRUE,
                                !.next = WorldRound + 1, !.last = WorldRound + rounds]

(* completeRound(): only from the round the checkpoint is at. *)
RoundCompleted(row, round) ==
  IF row.next # round THEN row
  ELSE [row EXCEPT !.next = round + 1, !.started = FALSE, !.messages = 0]

(* updateRunStatus(): a stop reason already there is kept if none is given. *)
WithStatus(row, status, reason) ==
  [row EXCEPT !.status = status, !.stop = IF reason = "none" THEN @ ELSE reason]

-----------------------------------------------------------------------------
(* Messages.                                                                *)
InMail(m) == \E i \in DOMAIN mail : mail[i] = m
Position(m) == CHOOSE i \in DOMAIN mail : mail[i] = m
WithState(ms, s) == [m \in Messages |-> IF m \in ms THEN [msg[m] EXCEPT !.state = s]
                                        ELSE msg[m]]
InState(states) == {m \in Messages : InMail(m) /\ msg[m].state \in states}

(* enqueueMessage(): the binding of the recipient is captured.  A message    *)
(* with that id is left alone.                                               *)
NewMessage(p, round) == [state |-> "QUEUED", to |-> p, round |-> round, body |-> pixel[p].body]
Enqueue(m, p, round) ==
  IF InMail(m) THEN UNCHANGED <<mail, msg>>
  ELSE mail' = Append(mail, m) /\ msg' = [msg EXCEPT ![m] = NewMessage(p, round)]

(* claimNext(): mail for a body that is no longer there is abandoned. *)
Outdated(round) == {m \in InState(Claimable) :
                      msg[m].round <= round /\ msg[m].body # pixel[msg[m].to].body}
WorldEligible(p) == pixel[p].body = 0 \/ pixel[p].career = "active"
Ready(round) == {m \in InState(Claimable) \ Outdated(round) :
                   msg[m].round <= round /\ WorldEligible(msg[m].to)}
Rank(m) == CASE msg[m].state = "RESPONSE_STORED" -> 0
             [] m \in Pixels \X {0}              -> 1
             [] OTHER                            -> 2
Before(m, n) == Rank(m) < Rank(n) \/ (Rank(m) = Rank(n) /\ Position(m) < Position(n))
Claimed(round) == CHOOSE m \in Ready(round) : \A n \in Ready(round) \ {m} : Before(m, n)

Pending(p) == {m \in InState(Claimable \cup Waiting \cup {"PROCESSING", "RESERVED", "CALLING"}) :
                 msg[m].to = p}

(* commitMessage(): it is counted in the round, once. *)
CountCommit(r, m) ==
  IF msg[m].state # "COMMITTED" /\ run[r].started
  THEN run' = [run EXCEPT ![r].messages = @ + 1] ELSE UNCHANGED run
Committed(r, m) == CountCommit(r, m) /\ msg' = WithState({m}, "COMMITTED")

-----------------------------------------------------------------------------
(* Calls.  A reservation is made before the row of its call exists: its      *)
(* outcome is then "none".  tokens is -1 as long as the usage is unknown.    *)
NewCall(r) == [run |-> r, bill |-> "OPEN", outcome |-> "none", tokens |-> -1, plan |-> <<>>,
               valid |-> TRUE]
Calls(m) == DOMAIN call[m]
LastCall(m) == call[m][Len(call[m])]
(* getLatestByMessageId() sees only calls that were recorded. *)
Rows(m) == {i \in Calls(m) : call[m][i].outcome # "none"}
HasRow(m) == Rows(m) # {}
LatestRow(m) == call[m][Max(Rows(m))]
Answered(m) == HasRow(m) /\ LatestRow(m).outcome = "SUCCESS"
InvalidReplies(m) == Cardinality({i \in Calls(m) : call[m][i].outcome = "MODEL_RESPONSE_INVALID"})
OpenBills == {b \in Messages \X (1..MaxCalls) :
                b[2] \in Calls(b[1]) /\ call[b[1]][b[2]].bill = "OPEN"}
Unknown == {b \in Messages \X (1..MaxCalls) :
              b[2] \in Calls(b[1]) /\ call[b[1]][b[2]].outcome = "CALL_OUTCOME_UNKNOWN"}
StartedTools == {e \in Messages \X Indices : tool[e[1]][e[2]] = "STARTED"}

(* refund() and settle() do nothing to a bill that is not open; the energy   *)
(* of a pixel pays for its calls and an exhausted pixel becomes inactive.    *)
Spent(p, tokens) ==
  IF company THEN pixel
  ELSE [pixel EXCEPT ![p].active = @ /\ pixel[p].energy > tokens,
                     ![p].energy = Max({0, @ - tokens})]
RunRefundedMutant(m, i) == run
RunRefunded(m, i) ==
  IF call[m][i].bill # "OPEN" THEN run
  ELSE [run EXCEPT ![call[m][i].run].reserved = Max({0, @ - Estimate})]
RunSettled(m, i, tokens) ==
  [run EXCEPT ![call[m][i].run].reserved = Max({0, @ - Estimate}),
              ![call[m][i].run].spent = @ + tokens]
CallRefunded(m, i) ==
  [call EXCEPT ![m][i].bill = IF @ = "OPEN" THEN "REFUNDED" ELSE @]

(* getUnfinalizedOperations() *)
Unfinalized == \/ \E r \in Runs : run[r].status = "RUNNING"
               \/ OpenBills # {} \/ Unknown # {} \/ StartedTools # {} \/ InState(InFlight) # {}

-----------------------------------------------------------------------------
(* Pixels.                                                                  *)
Charged(p, delta) == [pixel EXCEPT ![p].energy = Max({0, @ + delta}),
                                   ![p].active = pixel[p].energy + delta > 0]

HasBody(p) == Energy[p] > 0 \/ \E n \in Unread : Recipient[n] = p
StoreInit ==
  /\ company \in BOOLEAN
  /\ run = [r \in Runs |-> NoRun]
  /\ pixel = [p \in Pixels |-> [energy |-> Energy[p], active |-> Energy[p] > 0,
                                body |-> IF HasBody(p) THEN 1 ELSE 0,
                                career |-> IF HasBody(p) THEN "active" ELSE "none"]]
  /\ mail = SetToSeq(Unread)
  /\ msg = [m \in Messages |-> [state |-> IF m \in Unread THEN "WAITING_PIXEL_BUDGET" ELSE "QUEUED",
                                to |-> IF m \in Unread THEN Recipient[m] ELSE CHOOSE p \in Pixels : TRUE,
                                round |-> 0, body |-> IF m \in Unread THEN 1 ELSE 0]]
  /\ call = [m \in Messages |-> <<>>]
  /\ effect = [m \in Messages |-> [i \in Indices |-> "none"]]
  /\ tool = [m \in Messages |-> [i \in Indices |-> "none"]]

StoreTypeOK ==
  /\ company \in BOOLEAN
  /\ run \in [Runs -> [status : RunStates, stop : StopReasons, resume : BOOLEAN, next : Nat,
                       last : Nat, started : BOOLEAN, messages : Nat, spent : Nat,
                       reserved : Nat]]
  /\ mail \in Seq(Messages)
  /\ msg \in [Messages -> [state : MessageStates, to : Pixels, round : Nat, body : Nat]]
  /\ \A m \in Messages : \A i \in Calls(m) :
       /\ i <= MaxCalls
       /\ call[m][i].run \in Runs /\ call[m][i].bill \in {"OPEN", "SETTLED", "REFUNDED"}
       /\ call[m][i].outcome \in Outcomes
  /\ effect \in [Messages -> [Indices -> {"none", "PENDING"} \cup Recorded]]
  /\ tool \in [Messages -> [Indices -> {"none", "STARTED", "SUCCESS", "FAILED", "SKIPPED"}]]
  /\ pixel \in [Pixels -> [energy : Nat, active : BOOLEAN, body : Nat,
                           career : {"none", "active", "candidate"}]]
=============================================================================

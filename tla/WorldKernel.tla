---------------------------- MODULE WorldKernel ----------------------------
(***************************************************************************)
(* The kernel of a world: RunService drives runs, RoundScheduler a round,   *)
(* AgentStepRunner a message and EffectRuntime the effects of its reply.    *)
(*                                                                         *)
(* Every database transaction is one action, because the process may die    *)
(* after any of them.  Other handlers of the same process (a stop, a reward *)
(* or an owner's decision) run only where the kernel awaits: for the model,  *)
(* for a tool, or between runs.  A stop can therefore not arrive between    *)
(* the claim of a message and its call, where the code tests for it again.  *)
(* Execution scopes, the detector of read-only loops and the chat inbox are *)
(* left out; every world here keeps bindings (worldMode is off).            *)
(***************************************************************************)
EXTENDS WorldStore

CONSTANTS
  MaxPerRound,  \* messages handled in a round, 100 in the code
  MaxRounds,    \* bound: rounds asked for in a run
  Sleepers,     \* bound: pixels that may be idle long enough to be woken
  MaxFaults     \* bound: what goes wrong: deaths, exceptions, calls without an answer

ASSUME KernelConstants ==
  /\ MaxPerRound \in Nat \ {0} /\ MaxRounds \in Nat /\ MaxFaults \in Nat
  /\ Sleepers \subseteq Pixels

VARIABLES
  proc,     \* the process: where it is and what it keeps in memory
  files,    \* the body whose files each coordinate's directory holds
  faults,   \* how many things went wrong so far
  carried   \* history: how often each effect was carried out

vars == <<store, proc, files, faults, carried>>

Idle == [pc |-> "idle", run |-> 0, round |-> 0, msg |-> <<>>, at |-> 1, count |-> 0,
         toolFailed |-> FALSE, tools |-> FALSE, stop |-> "none", abort |-> FALSE,
         suspend |-> FALSE]
Steps == {"loop", "round", "claim", "step", "reserved", "marked", "refused", "lost", "parse",
          "rejected", "apply", "noBirth", "moving", "birth", "commit", "over", "finish"}
Awaits == {"idle", "calling", "tooling"}

r == proc.run
m == proc.msg
me == msg[m].to
plan == LatestRow(m).plan
At(pc) == proc.pc = pc
Goto(pc) == proc' = [proc EXCEPT !.pc = pc]
RoundOver(reason) == proc' = [proc EXCEPT !.pc = "over", !.stop = reason]
Bare == <<files, faults, carried>>   \* what most steps leave alone
Fault == faults < MaxFaults /\ faults' = faults + 1

Init ==
  /\ StoreInit
  /\ proc = Idle
  /\ files = [p \in Pixels |-> pixel[p].body]
  /\ faults = 0
  /\ carried = [n \in Messages |-> [i \in Indices |-> 0]]

-----------------------------------------------------------------------------
(* RunService.                                                              *)

LoopFrom(id, round) == [Idle EXCEPT !.pc = "loop", !.run = id, !.round = round]

(* start(): a new run takes the place of any that could be resumed. *)
Start(rounds) ==
  /\ At("idle") /\ Latest < MaxRuns /\ ~Unfinalized
  /\ LET id == Latest + 1 IN
     /\ run' = [i \in Runs |-> IF i = id THEN NewRun(rounds) ELSE [run[i] EXCEPT !.resume = FALSE]]
     /\ proc' = LoopFrom(id, WorldRound + 1)
  /\ msg' = WithState(InState({"WAITING_RUN_BUDGET"}), "QUEUED")
  /\ UNCHANGED <<company, mail, call, effect, tool, pixel, Bare>>

(* resumeInterrupted(): what stopped before its request was sent is undone;  *)
(* the run goes on only if nothing uncertain is left, and the company's gate  *)
(* still takes it (gate.resume() throws when it does not).  With the gate OFF *)
(* or no model configured nothing happens at all.                             *)
MayResumeMutant(row) ==     \* the request to stop is not looked at
  row.status = "RUNNING" \/ row.stop \in RecoveryStops \cup {"SERVICE_SHUTDOWN"}
MayResumeKilledMutant(row) ==   \* a killed process left the run RUNNING
  row.resume /\ row.status \in {"FAILED", "STOPPED"} /\ row.stop # "USER_STOPPED"
MayResume(row) ==
  /\ row.resume /\ row.stop # "USER_STOPPED"
  /\ \/ row.status = "RUNNING"
     \/ row.status = "FAILED" /\ row.stop = "INFRASTRUCTURE_FAILURE"
     \/ row.status = "STOPPED" /\ row.stop \in RecoveryStops \cup {"SERVICE_SHUTDOWN"}
Uncertain(n) ==
  \/ \E i \in Indices : effect[n][i] = "PENDING"
  \/ HasRow(n) /\ LatestRow(n).outcome = "CALL_OUTCOME_UNKNOWN"
  \/ Answered(n) /\ LatestRow(n).tokens = -1
Undone == {n \in InState({"PROCESSING", "RESERVED"}) : ~Uncertain(n)}
Released == {b \in OpenBills : b[1] \in Undone /\ call[b[1]][b[2]].run = Latest}
CallsUndone == [n \in Messages |-> [i \in Calls(n) |->
                  IF <<n, i>> \in Released THEN [call[n][i] EXCEPT !.bill = "REFUNDED"]
                  ELSE call[n][i]]]
MessagesUndone == [n \in Messages |->
                     IF n \in Undone
                     THEN [msg[n] EXCEPT !.state = IF Answered(n) THEN "RESPONSE_STORED" ELSE "QUEUED"]
                     ELSE msg[n]]
NothingUncertainMutant ==      \* tools are not looked at
  /\ OpenBills = Released /\ Unknown = {} /\ InState(InFlight) = Undone
  /\ \A i \in Runs : run[i].status = "RUNNING" => i = Latest
NothingUncertainBillMutant ==  \* bills are not looked at
  /\ Unknown = {} /\ StartedTools = {} /\ InState(InFlight) = Undone
  /\ \A i \in Runs : run[i].status = "RUNNING" => i = Latest
NothingUncertain ==
  /\ OpenBills = Released /\ Unknown = {} /\ StartedTools = {} /\ InState(InFlight) = Undone
  /\ \A i \in Runs : run[i].status = "RUNNING" => i = Latest
Resume ==
  /\ At("idle") /\ Latest > 0 /\ MayResume(run[Latest])
  /\ call' = CallsUndone /\ msg' = MessagesUndone
  /\ LET row == [run[Latest] EXCEPT !.reserved = Max({0, @ - Estimate * Cardinality(Released)})] IN
     \/ /\ NothingUncertain
        /\ run' = [run EXCEPT ![Latest] = [row EXCEPT !.status = "RUNNING", !.stop = "none"]]
        /\ proc' = LoopFrom(Latest, row.next)
     \/ run' = [run EXCEPT ![Latest] = row] /\ UNCHANGED proc
  /\ UNCHANGED <<company, mail, effect, tool, pixel, Bare>>

(* requestStop() writes the intent down before it signals; requestSuspend()  *)
(* lets the step in flight finish.                                           *)
RequestStop ==
  /\ proc.pc \in Awaits \ {"idle"} /\ ~proc.abort
  /\ run' = [run EXCEPT ![r].resume = FALSE, ![r].stop = "USER_STOPPED"]
  /\ proc' = [proc EXCEPT !.abort = TRUE, !.suspend = FALSE]
  /\ UNCHANGED <<company, mail, msg, call, effect, tool, pixel, Bare>>
RequestSuspend ==
  /\ proc.pc \in Awaits \ {"idle"} /\ ~proc.abort /\ ~proc.suspend
  /\ proc' = [proc EXCEPT !.suspend = TRUE]
  /\ UNCHANGED <<store, Bare>>

(* The head of the loop in runLoop(). *)
Loop ==
  /\ At("loop")
  /\ proc' = IF proc.round > run[r].last THEN [proc EXCEPT !.pc = "finish"]
             ELSE IF proc.abort THEN [proc EXCEPT !.pc = "finish", !.stop = "USER_STOPPED"]
             ELSE IF proc.suspend THEN [proc EXCEPT !.pc = "finish", !.stop = "SERVICE_SHUTDOWN"]
             ELSE [proc EXCEPT !.pc = "round"]
  /\ UNCHANGED <<store, Bare>>

(* An exception outside a step: the gate or the database refuses. *)
LoopFails ==
  /\ At("round") /\ Fault
  /\ run' = [run EXCEPT ![r] = WithStatus(run[r], "FAILED", "INFRASTRUCTURE_FAILURE")]
  /\ proc' = Idle
  /\ UNCHANGED <<company, mail, msg, call, effect, tool, pixel, files, carried>>

InterruptingMutant == {"CALL_OUTCOME_UNKNOWN", "INFRASTRUCTURE_FAILURE", "SERVICE_SHUTDOWN"}
Interrupting == RecoveryStops \cup {"INFRASTRUCTURE_FAILURE", "SERVICE_SHUTDOWN"}
RunStatusOf(reason) == IF reason \in {"ROUND_LIMIT_REACHED", "MESSAGE_LIMIT_REACHED"}
                       THEN "COMPLETED" ELSE "STOPPED"

(* After a round: it counts unless it was interrupted. *)
Interrupted(reason) == reason \in Interrupting \/ proc.abort
EndRound ==
  /\ At("over")
  /\ IF Interrupted(proc.stop)
     THEN /\ proc' = [proc EXCEPT !.pc = "finish",
                                  !.stop = IF proc.abort THEN "USER_STOPPED" ELSE @]
          /\ UNCHANGED run
     ELSE /\ run' = [run EXCEPT ![r] =
                       LET row == RoundCompleted(run[r], proc.round) IN
                       IF proc.stop = "none" THEN row
                       ELSE [WithStatus(row, RunStatusOf(proc.stop), proc.stop)
                               EXCEPT !.resume = FALSE]]
          /\ proc' = IF proc.stop = "none"
                     THEN [proc EXCEPT !.pc = "loop", !.round = @ + 1, !.count = 0]
                     ELSE [proc EXCEPT !.pc = "finish"]
  /\ UNCHANGED <<company, mail, msg, call, effect, tool, pixel, Bare>>

FinalStatus(reason) ==
  CASE reason = "INFRASTRUCTURE_FAILURE"                      -> "FAILED"
    [] reason \in {"none", "ROUND_LIMIT_REACHED", "MESSAGE_LIMIT_REACHED"} -> "COMPLETED"
    [] OTHER                                                  -> "STOPPED"
Finish ==
  /\ At("finish")
  /\ LET reason == IF proc.stop # "none" THEN proc.stop ELSE "ROUND_LIMIT_REACHED" IN
     run' = [run EXCEPT ![r] = [WithStatus(run[r], FinalStatus(reason), reason) EXCEPT
                                  !.resume = run[r].resume /\ reason \in Interrupting]]
  /\ proc' = Idle
  /\ UNCHANGED <<company, mail, msg, call, effect, tool, pixel, Bare>>

-----------------------------------------------------------------------------
(* RoundScheduler.                                                          *)

(* beginRound(): waiting messages whose money is there again are queued, and *)
(* idle pixels without mail wake up; how long they were idle is left open.   *)
Recovered == IF company THEN InState(Waiting)
             ELSE {n \in InState({"WAITING_PIXEL_BUDGET"}) :
                     pixel[msg[n].to].active /\ pixel[msg[n].to].energy >= Estimate}
MayWake(p) == /\ p \in Sleepers /\ pixel[p].active /\ WorldEligible(p) /\ Pending(p) = {}
              /\ ~InMail(<<p, 0>>)
BeginRound ==
  /\ At("round")
  /\ IF run[r].started THEN UNCHANGED <<run, mail, msg>>
     ELSE /\ run' = [run EXCEPT ![r].started = TRUE]
          /\ \E woken \in SUBSET {p \in Pixels : MayWake(p)} :
               LET ids == {<<p, 0>> : p \in woken} IN
               /\ mail' = mail \o SetToSeq(ids)
               /\ msg' = [n \in Messages |->
                            IF n \in ids THEN NewMessage(n[1], proc.round)
                            ELSE WithState(Recovered, "QUEUED")[n]]
  /\ proc' = [proc EXCEPT !.pc = "claim", !.count = run'[r].messages, !.stop = "none"]
  /\ UNCHANGED <<company, call, effect, tool, pixel, Bare>>

(* A company run wakes pixels that have mail whatever their energy. *)
Woken == IF ~company THEN pixel
         ELSE [p \in Pixels |-> [pixel[p] EXCEPT !.active =
                 @ \/ (pixel[p].energy = 0 /\ \E n \in InState(Claimable) : msg[n].to = p)]]

MayClaimMutant == ~proc.abort /\ ~proc.suspend
MayClaim == proc.count < MaxPerRound /\ ~proc.abort /\ ~proc.suspend
Claim ==
  /\ At("claim") /\ MayClaim
  /\ pixel' = Woken
  /\ LET abandoned == WithState(Outdated(proc.round), "ABANDONED") IN
     IF Ready(proc.round) = {}
     THEN /\ msg' = abandoned
          /\ RoundOver(IF \E n \in Messages : InMail(n) /\ abandoned[n].state \in Claimable
                       THEN "none" ELSE "NO_ACTIVE_MESSAGES")
     ELSE LET n == Claimed(proc.round) IN
          /\ msg' = [abandoned EXCEPT ![n].state = IF @ = "QUEUED" THEN "PROCESSING" ELSE @]
          /\ proc' = [proc EXCEPT !.pc = "step", !.msg = n, !.at = 1,
                                  !.toolFailed = FALSE, !.tools = FALSE]
  /\ UNCHANGED <<company, run, mail, call, effect, tool, Bare>>
StopClaiming ==
  /\ At("claim") /\ ~MayClaim
  /\ RoundOver(IF proc.count >= MaxPerRound THEN "MESSAGE_LIMIT_REACHED"
               ELSE IF proc.abort THEN "USER_STOPPED" ELSE "SERVICE_SHUTDOWN")
  /\ UNCHANGED <<store, Bare>>

(* A message is done: it is committed and the next one is claimed. *)
Done(from) ==
  /\ At(from)
  /\ Committed(r, m)
  /\ proc' = [proc EXCEPT !.pc = "claim", !.count = @ + 1]
  /\ UNCHANGED <<company, mail, call, effect, tool, pixel, Bare>>

-----------------------------------------------------------------------------
(* AgentStepRunner.                                                         *)

(* Mail for an inactive pixel is consumed, before the step or after a call   *)
(* that used up its energy.                                                  *)
StepInactive == \E from \in {"step", "parse"} : At(from) /\ ~pixel[me].active /\ Done(from)

GiveUp ==  \* two invalid replies, and a crash before that was noted
  /\ At("step") /\ pixel[me].active /\ InvalidReplies(m) >= 2
  /\ msg' = WithState({m}, "MODEL_RESPONSE_INVALID")
  /\ RoundOver("MODEL_RESPONSE_INVALID")
  /\ UNCHANGED <<company, run, mail, call, effect, tool, pixel, Bare>>

(* A reply that is stored is used again: the message is not paid for twice. *)
Reuse ==
  /\ At("step") /\ pixel[me].active /\ Answered(m)
  /\ msg' = WithState({m}, "RESPONSE_STORED")
  /\ Goto("parse")
  /\ UNCHANGED <<company, run, mail, call, effect, tool, pixel, Bare>>

Reserving == At("step") /\ pixel[me].active /\ InvalidReplies(m) < 2 /\ ~Answered(m)
EnergyShort == ~company /\ pixel[me].energy < Estimate
BudgetShort == ~company /\ run[r].spent + run[r].reserved + Estimate > RunLimit
Reserve ==
  /\ Reserving /\ ~EnergyShort /\ ~BudgetShort /\ Len(call[m]) < MaxCalls
  /\ call' = [call EXCEPT ![m] = Append(@, NewCall(r))]
  /\ run' = [run EXCEPT ![r].reserved = @ + Estimate]
  /\ Goto("reserved")
  /\ UNCHANGED <<company, mail, msg, effect, tool, pixel, Bare>>
Wait ==
  /\ Reserving /\ (EnergyShort \/ BudgetShort)
  /\ msg' = WithState({m}, IF EnergyShort THEN "WAITING_PIXEL_BUDGET" ELSE "WAITING_RUN_BUDGET")
  /\ IF EnergyShort THEN Goto("claim") ELSE RoundOver("RUN_BUDGET_EXHAUSTED")
  /\ UNCHANGED <<company, run, mail, call, effect, tool, pixel, Bare>>
MarkReserved ==
  /\ At("reserved") /\ msg' = WithState({m}, "RESERVED") /\ Goto("marked")
  /\ UNCHANGED <<company, run, mail, call, effect, tool, pixel, Bare>>
MarkCalling ==
  /\ At("marked") /\ msg' = WithState({m}, "CALLING") /\ Goto("calling")
  /\ UNCHANGED <<company, run, mail, call, effect, tool, pixel, Bare>>

Bill == Len(call[m])   \* the call in flight

(* The reply: settleAndStoreModelResponse() settles the bill, stores the      *)
(* reply and moves the message on in one transaction.  Without a usage the    *)
(* reservation stays.                                                         *)
PlansOf(n) == IF n \in Seeds THEN Replies[n] ELSE {<<>>}
Reply(tokens, decision, valid) ==
  /\ At("calling")
  /\ IF tokens = -1 THEN Fault ELSE UNCHANGED faults
  /\ LET row == call[m][Bill] IN
     call' = [call EXCEPT ![m][Bill] = [row EXCEPT
                !.outcome = "SUCCESS", !.tokens = tokens, !.plan = decision, !.valid = valid,
                !.bill = IF tokens = -1 THEN row.bill ELSE "SETTLED"]]
  /\ run' = IF tokens = -1 THEN run ELSE RunSettled(m, Bill, tokens)
  /\ pixel' = IF tokens = -1 THEN pixel ELSE Spent(me, tokens)
  /\ msg' = WithState({m}, IF tokens = -1 THEN "AWAITING_SETTLEMENT" ELSE "RESPONSE_STORED")
  /\ IF tokens = -1 THEN RoundOver("PAUSED_RECOVERY_REQUIRED") ELSE Goto("parse")
  /\ UNCHANGED <<company, mail, effect, tool, files, carried>>

(* The provider proves that nothing was sent: the bill is refunded, then the *)
(* message is queued again.                                                  *)
Refuse ==
  /\ At("calling") /\ Fault
  /\ call' = CallRefunded(m, Bill) /\ run' = RunRefunded(m, Bill)
  /\ Goto("refused")
  /\ UNCHANGED <<company, mail, msg, effect, tool, pixel, files, carried>>
Requeue ==
  /\ At("refused")
  /\ msg' = WithState({m}, "QUEUED") /\ RoundOver("INFRASTRUCTURE_FAILURE")
  /\ UNCHANGED <<company, run, mail, call, effect, tool, pixel, Bare>>

(* Anything else after dispatch: the outcome is unknown, the bill stays open. *)
LoseTrack ==
  /\ At("calling") /\ Fault
  /\ msg' = WithState({m}, "CALL_OUTCOME_UNKNOWN") /\ Goto("lost")
  /\ UNCHANGED <<company, run, mail, call, effect, tool, pixel, files, carried>>
RecordUnknown ==
  /\ At("lost")
  /\ call' = [call EXCEPT ![m][Bill].outcome = "CALL_OUTCOME_UNKNOWN"]
  /\ RoundOver("CALL_OUTCOME_UNKNOWN")
  /\ UNCHANGED <<company, run, mail, msg, effect, tool, pixel, Bare>>

Parse ==
  /\ At("parse") /\ pixel[me].active /\ LatestRow(m).valid
  /\ Goto("apply")
  /\ UNCHANGED <<store, Bare>>
Reject ==
  /\ At("parse") /\ pixel[me].active /\ ~LatestRow(m).valid
  /\ call' = [call EXCEPT ![m][Max(Rows(m))].outcome = "MODEL_RESPONSE_INVALID"]
  /\ Goto("rejected")
  /\ UNCHANGED <<company, run, mail, msg, effect, tool, pixel, Bare>>
NoteRejected ==
  /\ At("rejected")
  /\ msg' = WithState({m}, IF InvalidReplies(m) >= 2 THEN "MODEL_RESPONSE_INVALID" ELSE "QUEUED")
  /\ RoundOver("MODEL_RESPONSE_INVALID")
  /\ UNCHANGED <<company, run, mail, call, effect, tool, pixel, Bare>>

-----------------------------------------------------------------------------
(* EffectRuntime.  An effect is [kind, to, amount]; its receipt and, but for  *)
(* a tool or a birth, what it does are one transaction.                       *)

i == proc.at
Next1 == [proc EXCEPT !.at = @ + 1]
Last1 == [proc EXCEPT !.at = Len(plan) + 1]   \* the actor is inactive: the rest is dropped
Current(kind) == At("apply") /\ i <= Len(plan) /\ plan[i].kind = kind
FreshMutant == effect[m][i] \notin {"FAILED", "SKIPPED"}
Fresh == effect[m][i] \notin Recorded
May(kind) == Current(kind) /\ Fresh /\ ~proc.suspend
Receipt(s) == effect' = [effect EXCEPT ![m][i] = s]
Carry == carried' = [carried EXCEPT ![m][i] = Min({2, @ + 1})]
Feedback == Enqueue(<<m, i>>, me, proc.round)

(* A recorded effect is passed over, but a tool's result is told again. *)
Skip ==
  /\ At("apply") /\ i <= Len(plan) /\ ~Fresh
  /\ LET isTool == plan[i].kind = "TOOL" /\ effect[m][i] # "SKIPPED" IN
     proc' = [Next1 EXCEPT !.tools = @ \/ isTool,
                           !.toolFailed = @ \/ (isTool /\ effect[m][i] = "FAILED")]
  /\ UNCHANGED <<store, Bare>>
SuspendBatch ==
  /\ At("apply") /\ i <= Len(plan) /\ Fresh /\ proc.suspend
  /\ RoundOver("SERVICE_SHUTDOWN")
  /\ UNCHANGED <<store, Bare>>

(* READ stands for the effects that send one message back to their actor:    *)
(* the environment, an unavailable capability, an answer to the owner.        *)
Read ==
  /\ May("READ")
  /\ Feedback /\ Receipt("APPLIED") /\ Carry /\ proc' = Next1
  /\ UNCHANGED <<company, run, call, tool, pixel, files, faults>>

(* The code also refuses a tool that was started before; no run goes on while *)
(* there is one (NoStartedToolMet), so that branch is never taken.            *)
SkipTool ==
  /\ May("TOOL") /\ proc.toolFailed
  /\ Receipt("SKIPPED") /\ proc' = Next1
  /\ UNCHANGED <<company, run, mail, msg, call, tool, pixel, Bare>>
StartTool ==
  /\ May("TOOL") /\ ~proc.toolFailed
  /\ tool' = [tool EXCEPT ![m][i] = "STARTED"] /\ Carry /\ Goto("tooling")
  /\ UNCHANGED <<company, run, mail, msg, call, effect, pixel, files, faults>>
ToolDone(ok) ==
  /\ At("tooling")
  /\ tool' = [tool EXCEPT ![m][i] = IF ok THEN "SUCCESS" ELSE "FAILED"]
  /\ Receipt(IF ok THEN "APPLIED" ELSE "FAILED")
  /\ proc' = [Next1 EXCEPT !.pc = "apply", !.tools = TRUE, !.toolFailed = ~ok]
  /\ UNCHANGED <<company, run, mail, msg, call, pixel, Bare>>

(* validateEnergyTransfer(); a company run records it and moves nothing. *)
Transferable(e) == e.to # me /\ e.amount > 0 /\ (company \/ pixel[me].energy >= e.amount)
Moved(e) == [p \in Pixels |->
               CASE p = me   -> Charged(me, -e.amount)[me]
                 [] p = e.to -> Charged(e.to, e.amount)[e.to]
                 [] OTHER    -> pixel[p]]
Transfer ==
  /\ May("TRANSFER")
  /\ IF Transferable(plan[i])
     THEN /\ pixel' = IF company THEN pixel ELSE Moved(plan[i])
          /\ Receipt("APPLIED") /\ Carry /\ UNCHANGED <<mail, msg>>
     ELSE Receipt("FAILED") /\ Feedback /\ UNCHANGED <<pixel, carried>>
  /\ proc' = IF pixel'[me].active THEN Next1 ELSE Last1
  /\ UNCHANGED <<company, run, call, tool, files, faults>>

(* applyReproduce(): an interrupted birth is for the owner to judge.  The     *)
(* target must be empty, with no work or bill in flight, and its files must    *)
(* be those of its last body.                                                *)
Birthplace(p, energy) ==
  /\ pixel[p].body \in {0, files[p]}
  /\ energy > 0 /\ (company \/ pixel[me].energy >= energy)
  /\ ~pixel[p].active /\ pixel[p].energy = 0
  /\ ~\E n \in InState(InFlight \cup {"RESPONSE_STORED"}) : msg[n].to = p
  /\ ~\E b \in OpenBills : msg[b[1]].to = p
DoubtBirth ==
  /\ May("REPRODUCE") /\ effect[m][i] = "PENDING"
  /\ RoundOver("PAUSED_RECOVERY_REQUIRED")
  /\ UNCHANGED <<store, Bare>>
RefuseBirth ==
  /\ May("REPRODUCE") /\ effect[m][i] # "PENDING" /\ ~Birthplace(plan[i].to, plan[i].amount)
  /\ Feedback /\ Goto("noBirth")
  /\ UNCHANGED <<company, run, call, effect, tool, pixel, Bare>>
RecordNoBirth ==
  /\ At("noBirth")
  /\ Receipt("FAILED") /\ proc' = [Next1 EXCEPT !.pc = "apply"]
  /\ UNCHANGED <<company, run, mail, msg, call, tool, pixel, Bare>>
AnnounceBirth ==
  /\ May("REPRODUCE") /\ effect[m][i] # "PENDING" /\ Birthplace(plan[i].to, plan[i].amount)
  /\ msg' = WithState({m}, "PROCESSING") /\ Receipt("PENDING") /\ Goto("moving")
  /\ UNCHANGED <<company, run, mail, call, tool, pixel, Bare>>
MoveFiles ==   \* the old directory goes to the archive, a new one takes its place
  /\ At("moving")
  /\ files' = [files EXCEPT ![plan[i].to] = @ + 1] /\ Goto("birth")
  /\ UNCHANGED <<store, faults, carried>>
OrphansMutant(p) == {n \in InState({"QUEUED"}) : msg[n].to = p}
Orphans(p) == {n \in InState(Waiting \cup {"QUEUED"}) : msg[n].to = p}
Birth ==
  /\ At("birth")
  /\ LET p == plan[i].to
         energy == IF company THEN 0 ELSE plan[i].amount
     IN
     /\ pixel' = [q \in Pixels |->
                    CASE q = p  -> [energy |-> energy, active |-> TRUE, body |-> files[p],
                                    career |-> "candidate"]
                      [] q = me -> IF company THEN pixel[me] ELSE Charged(me, -energy)[me]
                      [] OTHER  -> pixel[q]]
     /\ msg' = [n \in Messages |->
                  CASE n = m -> [msg[m] EXCEPT !.state = "RESPONSE_STORED"]
                    [] n \in Orphans(p) -> [msg[n] EXCEPT !.state = "ABANDONED"]
                    [] OTHER -> msg[n]]
  /\ Receipt("APPLIED") /\ Carry
  /\ proc' = [(IF pixel'[me].active THEN Next1 ELSE Last1) EXCEPT !.pc = "apply"]
  /\ UNCHANGED <<company, run, mail, call, tool, files, faults>>
BirthFailsMutant ==   \* the directories stay where they are
  /\ proc.pc \in {"moving", "birth"} /\ Fault
  /\ Receipt("none") /\ msg' = WithState({m}, "RESPONSE_STORED")
  /\ RoundOver("INFRASTRUCTURE_FAILURE")
  /\ UNCHANGED <<company, run, mail, call, tool, pixel, files, carried>>
BirthFails ==   \* an exception: the directories are put back, the mark is removed
  /\ proc.pc \in {"moving", "birth"} /\ Fault
  /\ files' = IF At("birth") THEN [files EXCEPT ![plan[i].to] = @ - 1] ELSE files
  /\ Receipt("none") /\ msg' = WithState({m}, "RESPONSE_STORED")
  /\ RoundOver("INFRASTRUCTURE_FAILURE")
  /\ UNCHANGED <<company, run, mail, call, tool, pixel, carried>>

(* applyRouteMessage(): only to an active neighbour, or to oneself. *)
Routable(p) == p = me \/ pixel[p].active
Route ==
  /\ May("ROUTE")
  /\ IF Routable(plan[i].to)
     THEN Enqueue(<<m, i>>, plan[i].to, proc.round) /\ Receipt("APPLIED") /\ Carry
     ELSE Feedback /\ Receipt("FAILED") /\ UNCHANGED carried
  /\ proc' = Next1
  /\ UNCHANGED <<company, run, call, tool, pixel, files, faults>>

(* After the last effect the results of the tools go back in one message. *)
EndBatch ==
  /\ At("apply") /\ i > Len(plan)
  /\ IF proc.tools THEN Enqueue(<<m, 0>>, me, proc.round) ELSE UNCHANGED <<mail, msg>>
  /\ Goto("commit")
  /\ UNCHANGED <<company, run, call, effect, tool, pixel, Bare>>
Commit == Done("commit")

-----------------------------------------------------------------------------
(* Outside the kernel.                                                       *)

Crash ==
  /\ ~At("idle") /\ Fault
  /\ proc' = Idle
  /\ UNCHANGED <<store, files, carried>>

Send(n) ==
  /\ proc.pc \in Awaits /\ ~InMail(n)
  /\ Enqueue(n, Recipient[n], WorldRound)
  /\ UNCHANGED <<company, run, call, effect, tool, pixel, proc, Bare>>

(* A newborn takes part once it has been recruited. *)
Recruit(p) ==
  /\ proc.pc \in Awaits /\ pixel[p].career = "candidate"
  /\ pixel' = [pixel EXCEPT ![p].career = "active"]
  /\ UNCHANGED <<company, run, mail, msg, call, effect, tool, proc, Bare>>

(* resolveRecoveryOperation(), refused while a run is in progress. *)
Open(n, k) == call[n][k].bill = "OPEN"
Unresolved(n, k) == Open(n, k) \/ call[n][k].outcome = "CALL_OUTCOME_UNKNOWN"
Reconciled(o) == IF o = "CALL_OUTCOME_UNKNOWN" THEN "CALL_OUTCOME_RECONCILED" ELSE o
NotBilled(n, k) ==
  /\ At("idle") /\ Unresolved(n, k)
  /\ call[n][k].outcome \notin {"SUCCESS", "MODEL_RESPONSE_INVALID"}
  /\ run' = RunRefunded(n, k)
  /\ call' = [CallRefunded(n, k) EXCEPT ![n][k].outcome = Reconciled(call[n][k].outcome)]
  /\ msg' = WithState({n}, "QUEUED")
  /\ UNCHANGED <<company, mail, effect, tool, pixel, proc, Bare>>
SettleBill(n, k, tokens, abandon) ==
  /\ At("idle") /\ Open(n, k)
  /\ run' = RunSettled(n, k, tokens) /\ pixel' = Spent(msg[n].to, tokens)
  /\ LET row == call[n][k] IN
     call' = [call EXCEPT ![n][k] = [row EXCEPT
                !.bill = "SETTLED", !.outcome = Reconciled(row.outcome),
                !.tokens = IF abandon \/ row.outcome = "none" THEN row.tokens ELSE tokens]]
  /\ msg' = WithState({n}, IF ~abandon /\ call[n][k].outcome = "SUCCESS"
                           THEN "RESPONSE_STORED" ELSE "ABANDONED")
  /\ UNCHANGED <<company, mail, effect, tool, proc, Bare>>
ResolveTool(n, k) ==
  /\ At("idle") /\ tool[n][k] = "STARTED"
  /\ tool' = [tool EXCEPT ![n][k] = "SKIPPED"] /\ msg' = WithState({n}, "ABANDONED")
  /\ UNCHANGED <<company, run, mail, call, effect, pixel, proc, Bare>>
AcknowledgeRun(id) ==
  /\ At("idle") /\ run[id].status = "RUNNING"
  /\ run' = [run EXCEPT ![id] = [WithStatus(run[id], "STOPPED", "USER_STOPPED") EXCEPT !.resume = FALSE]]
  /\ UNCHANGED <<company, mail, msg, call, effect, tool, pixel, proc, Bare>>
ResolveMessage(n, abandon) ==
  /\ At("idle") /\ n \in InState(InFlight)
  /\ msg[n].state = "AWAITING_SETTLEMENT" => abandon
  /\ msg' = WithState({n}, IF abandon THEN "ABANDONED" ELSE "QUEUED")
  /\ UNCHANGED <<company, run, mail, call, effect, tool, pixel, proc, Bare>>

-----------------------------------------------------------------------------
Kernel ==
  \/ Loop \/ EndRound \/ Finish \/ BeginRound \/ Claim \/ StopClaiming
  \/ StepInactive \/ GiveUp \/ Reuse \/ Reserve \/ Wait \/ MarkReserved \/ MarkCalling
  \/ Requeue \/ RecordUnknown \/ Parse \/ Reject \/ NoteRejected
  \/ Skip \/ SuspendBatch \/ Read \/ SkipTool \/ StartTool
  \/ Transfer \/ DoubtBirth \/ RefuseBirth \/ RecordNoBirth \/ AnnounceBirth
  \/ MoveFiles \/ Birth \/ Route \/ EndBatch \/ Commit
Answers ==
  \/ At("calling") /\ \E tokens \in Costs \cup {-1}, decision \in PlansOf(m) :
                        Reply(tokens, decision, TRUE)
  \/ \E tokens \in Costs : Reply(tokens, <<>>, FALSE)
  \/ Refuse \/ LoseTrack
  \/ \E ok \in BOOLEAN : ToolDone(ok)
Owner ==
  \/ \E rounds \in 1..MaxRounds : Start(rounds)
  \/ RequestStop \/ RequestSuspend
  \/ \E n \in Seeds : Send(n)
  \/ \E p \in Pixels : Recruit(p)
  \/ \E n \in Messages : \E k \in Calls(n) :
       \/ NotBilled(n, k)
       \/ \E tokens \in Costs : SettleBill(n, k, tokens, FALSE)
       \/ SettleBill(n, k, Estimate, TRUE)
  \/ \E n \in Messages, k \in Indices : ResolveTool(n, k)
  \/ \E id \in Runs : AcknowledgeRun(id)
  \/ \E n \in Messages, abandon \in BOOLEAN : ResolveMessage(n, abandon)
Failures == LoopFails \/ BirthFails \/ Crash
Next == Kernel \/ Answers \/ Resume \/ Owner \/ Failures

(* The loop of the process goes on as long as it can, and the provider and the *)
(* tools answer or time out.  Nothing is assumed of owners, of failures and of *)
(* Resume: the company's tick calls it only while its gate is ON.              *)
Fairness == WF_vars(Kernel) /\ WF_vars(Answers)
Spec == Init /\ [][Next]_vars /\ Fairness

-----------------------------------------------------------------------------
(* The types of the store, of the process and of the files. *)
KernelTypeOK ==
  /\ StoreTypeOK
  /\ proc.pc \in Steps \cup Awaits /\ proc.run \in 0..MaxRuns /\ proc.at \in Nat
  /\ proc.msg = <<>> \/ proc.msg \in Messages
  /\ proc.count \in 0..MaxPerRound /\ proc.stop \in StopReasons
  /\ files \in [Pixels -> Nat] /\ faults \in 0..MaxFaults

(* Whatever crashes, resumes and owner's decisions come between, an effect of *)
(* a stored reply is carried out once, and only after those before it have     *)
(* their receipts (applyEffects() finds its place again by the receipts).      *)
EffectsOnceInOrder ==
  \A n \in Messages : \A k \in Indices : carried[n][k] > 0 =>
    carried[n][k] = 1 /\ \A j \in 1..(k - 1) : effect[n][j] \in Recorded

(* A tool that was started and whose end is not known is never met again: the  *)
(* guards of start() and resumeInterrupted() keep every run off until its owner *)
(* has judged it.                                                              *)
NoStartedToolMet ==
  At("apply") => \A k \in i..Len(plan) :
                   plan[k].kind = "TOOL" /\ effect[m][k] = "none" => tool[m][k] = "none"

(* One bill is open in a world at a time: neither a crash nor a lost answer    *)
(* lets a second call be paid before the first is settled, refunded or judged. *)
OneOpenBill == Cardinality(OpenBills) <= 1

(* What a run has reserved is what its open bills reserve (resumeInterrupted(), *)
(* the provider's errors and the owner each release both).                     *)
ReservedMatchesBills ==
  \A id \in Runs : run[id].reserved =
    Estimate * Cardinality({b \in OpenBills : call[b[1]][b[2]].run = id})

(* The files of a coordinate are those of its body, but for a birth that was    *)
(* interrupted, which keeps its mark until an owner has looked at it.           *)
FilesFollowBody ==
  \A p \in Pixels : files[p] # pixel[p].body =>
    \E n \in Messages, k \in Indices :
      effect[n][k] = "PENDING" /\ LatestRow(n).plan[k].to = p

(* No message that may still be handled was written for an earlier body: a      *)
(* newborn never answers, or pays for, the mail of the one it replaced.         *)
NoMailForTheDead ==
  \A n \in InState(Claimable \cup InFlight \cup Waiting) :
    msg[n].body = pixel[msg[n].to].body

(* A round is counted only when none of its messages is left in the middle:     *)
(* what was interrupted belongs to the round in which the run goes on.          *)
RoundsLeaveNoWork ==
  [][\A id \in Runs : run[id].next # 0 /\ run'[id].next # run[id].next =>
       InState(InFlight) = {} /\ OpenBills = {} /\ StartedTools = {}]_vars

(* Once a user has stopped a run, no restart takes it up again, whenever the    *)
(* process dies after the request.                                              *)
UserStopSticks ==
  [][\A id \in Runs : run[id].stop = "USER_STOPPED" /\ proc.run # id => proc'.run # id]_vars

(* A run that goes on ends, or is left in an idle process where it is no dead   *)
(* end: either the owner has something to judge, or resumeInterrupted() would    *)
(* take it up at once.  No loop hangs, however often the process has died.       *)
NeedsOwner == \/ OpenBills # Released \/ Unknown # {} \/ StartedTools # {}
              \/ InState(InFlight) # Undone
Resumable(id) == id = Latest /\ MayResume(run[id]) /\ NothingUncertain
RunsSettle ==
  \A id \in Runs : (run[id].status = "RUNNING" /\ run[id].resume) ~>
                   \/ run[id].status # "RUNNING" \/ ~run[id].resume
                   \/ At("idle") /\ (NeedsOwner \/ Resumable(id))
=============================================================================

--------------------------- MODULE CompanyWorker ---------------------------
(***************************************************************************)
(* One attempt of a company worker.  The worker is a process with a journal *)
(* of its own: it asks the controller over a channel for a permit, calls    *)
(* the model, runs the tool the answer asks for and reports every event; it *)
(* may die anywhere.  The controller may die too, and a worker that waits   *)
(* too long gives up while the controller still answers.  When the process  *)
(* is gone the controller reads the journal, decides what is known of each  *)
(* call and tool, and lets the attempt go on, or blocks it for a review.    *)
(*                                                                         *)
(* An answer asks for at most one tool.  "save" writes a snapshot of its    *)
(* own and may be repeated; "fetch" runs in the worker; "office" runs in    *)
(* the controller.                                                          *)
(***************************************************************************)
EXTENDS Naturals, Sequences

CONSTANTS
  MaxSteps,      \* spec.maxSteps
  Retries,       \* spec.notSentRetries
  MaxMishaps     \* bound: deaths, lost waits and refusals

WorkerConstants ==
  MaxSteps \in Nat \ {0} /\ Retries \in {0, 1} /\ MaxMishaps \in Nat

VARIABLES
  worker,      \* the process: where it is, what follows a flush, its permit, its channel
  journal,     \* journal.sqlite3
  office,      \* the controller's process and tables
  rpc,         \* the request on the channel and its answer
  world,       \* history: permits that reached the provider, answers and effects per step
  mishaps

workerVars == <<worker, journal, office, rpc, world, mishaps>>

Steps == 1..MaxSteps
Tools == {"save", "fetch", "office"}
Replies == Tools \cup {"reply", "nothing", "bad"}
Idle == [method |-> "none", told |-> FALSE, value |-> 0]
Over == {"completed", "blocked", "failed"}

WorkerInit ==
  /\ worker = [pc |-> "off", then |-> "", permit |-> 0, linked |-> FALSE]
  /\ journal = [made |-> FALSE, step |-> 1, end |-> "", events |-> <<>>, acked |-> 0,
                models |-> [s \in Steps |-> [state |-> "none", permit |-> 0, tries |-> 0, reply |-> ""]],
                tools |-> [s \in Steps |-> "none"]]
  /\ office = [up |-> TRUE, attempt |-> "pending", launch |-> "READY", applied |-> 0, running |-> "no",
               permits |-> <<[op |-> 1, state |-> "SENT", granted |-> FALSE, answered |-> FALSE]>>,
               tools |-> [s \in Steps |-> "none"]]
  /\ rpc = Idle /\ mishaps = 0
  /\ world = [reached |-> {}, answers |-> [s \in Steps |-> 0], effects |-> [s \in Steps |-> 0]]

Step == journal.step
Model == journal.models[Step]
Go(pc) == worker' = [worker EXCEPT !.pc = pc]
FlushThen(next) == worker' = [worker EXCEPT !.pc = "flush", !.then = next]
Mishap == mishaps < MaxMishaps /\ mishaps' = mishaps + 1
Noted(j, kind, permit) == [j EXCEPT !.events = Append(@, [kind |-> kind, permit |-> permit])]
Ended(j, kind) == IF j.end # "" THEN j ELSE Noted([j EXCEPT !.end = kind], kind, 0)
WithModel(m) == [journal EXCEPT !.models[Step] = m]
Became(state) == WithModel([Model EXCEPT !.state = state])
\* A journalled end is reported, then the process leaves; after an error it leaves even if
\* the report is lost.
Finishes(j, kind) == journal' = Ended(j, kind) /\ FlushThen("leave")
GivesUp(j, kind) == journal' = Ended(j, kind) /\ FlushThen("give up")

(* ---- the channel -------------------------------------------------------- *)

Waits == {"ack", "grant", "allow", "result", "lookup"}
Ask(method) ==
  /\ Go(method)
  /\ rpc' = IF worker.linked THEN [method |-> method, told |-> FALSE, value |-> 0] ELSE rpc
Told(method) == worker.pc = method /\ worker.linked /\ rpc.method = method /\ rpc.told
\* The answer of a request that nobody waits for any more is dropped.
Tell(value) == rpc' = IF worker.pc = rpc.method THEN [rpc EXCEPT !.told = TRUE, !.value = value] ELSE Idle
Asked(method) == office.up /\ rpc.method = method /\ ~rpc.told

\* A lost controller, a wait of 30 s, or a refusal by the gate: the worker marks the
\* checkpoint and leaves.  While it reports an error the loss is ignored.
Suspends ==
  /\ worker' = [worker EXCEPT !.pc = "off"]
  /\ journal' = IF worker.pc = "ack" /\ worker.then = "give up" THEN journal
                ELSE Noted(journal, "wait", 0)
  /\ UNCHANGED <<office, world>>
Disconnected == worker.pc \in Waits /\ ~worker.linked /\ Suspends /\ UNCHANGED <<rpc, mishaps>>
TimesOut == worker.pc \in Waits /\ worker.linked /\ ~rpc.told /\ Mishap /\ Suspends /\ UNCHANGED rpc
Refused ==
  /\ worker.pc \in {"grant", "allow", "result"} /\ worker.linked /\ Asked(worker.pc)
  /\ office.running = "no" /\ Mishap /\ rpc' = Idle /\ Suspends

(* ---- executeCompanyWorker() -------------------------------------------- *)

Opens ==
  /\ worker.pc = "open" /\ journal' = [journal EXCEPT !.made = TRUE] /\ FlushThen("loop")
  /\ UNCHANGED <<office, rpc, world, mishaps>>
Flush ==
  /\ worker.pc = "flush"
  /\ IF journal.acked < Len(journal.events) THEN Ask("ack") ELSE Go(worker.then) /\ UNCHANGED rpc
  /\ UNCHANGED <<journal, office, world, mishaps>>
Acknowledged ==
  /\ Told("ack") /\ Go("flush") /\ rpc' = Idle /\ journal' = [journal EXCEPT !.acked = @ + 1]
  /\ UNCHANGED <<office, world, mishaps>>
Leaves ==
  /\ worker.pc \in {"leave", "give up"} /\ Go("off") /\ UNCHANGED <<journal, office, rpc, world, mishaps>>

\* The top of the loop: the call of this step has not been made, was, or may have been.
Loops ==
  /\ worker.pc = "loop"
  /\ IF journal.end # "" THEN Go("off") /\ UNCHANGED <<journal, rpc>>
     ELSE IF Step > MaxSteps THEN Finishes(journal, "blocked") /\ UNCHANGED rpc
     ELSE IF Model.state \in {"SENT", "UNKNOWN"}
     THEN /\ GivesUp(IF Model.state = "UNKNOWN" THEN journal
                     ELSE Noted(Became("UNKNOWN"), "unknown", Model.permit), "blocked")
          /\ UNCHANGED rpc
     ELSE IF Model.state = "RESPONSE" THEN Go("decide") /\ UNCHANGED <<journal, rpc>>
     ELSE IF Model.state = "NOT_SENT" /\ Model.tries > Retries
     THEN GivesUp(journal, "blocked") /\ UNCHANGED rpc
     ELSE journal' = Became("PREPARED") /\ Ask("grant")
  /\ UNCHANGED <<office, world, mishaps>>
Granted ==
  /\ Told("grant") /\ worker' = [worker EXCEPT !.pc = "send", !.permit = rpc.value] /\ rpc' = Idle
  /\ UNCHANGED <<journal, office, world, mishaps>>
\* modelSent() is durable before the request leaves.
Sends ==
  /\ worker.pc = "send" /\ Go("call")
  /\ journal' = WithModel([Model EXCEPT !.state = "SENT", !.permit = worker.permit, !.tries = @ + 1])
  /\ UNCHANGED <<office, rpc, world, mishaps>>
\* The request reaches the provider, which may or may not answer it.
Reaches(answers) ==
  /\ worker.pc = "call" /\ Go(IF answers THEN "answer" ELSE "silence")
  /\ world' = [world EXCEPT !.reached = @ \cup {worker.permit}, !.answers[Step] = @ + (IF answers THEN 1 ELSE 0)]
  /\ UNCHANGED <<journal, office, rpc, mishaps>>
NotSent ==
  /\ worker.pc = "call" /\ Mishap /\ FlushThen("loop")
  /\ journal' = Noted(Became("NOT_SENT"), "notSent", Model.permit)
  /\ UNCHANGED <<office, rpc, world>>
Unanswered ==
  /\ worker.pc = "silence" /\ GivesUp(Noted(Became("UNKNOWN"), "unknown", Model.permit), "blocked")
  /\ UNCHANGED <<office, rpc, world, mishaps>>
Answers(reply) ==
  /\ worker.pc = "answer" /\ FlushThen("decide")
  /\ journal' = Noted(WithModel([Model EXCEPT !.state = "RESPONSE", !.reply = reply]), "answer", Model.permit)
  /\ UNCHANGED <<office, rpc, world, mishaps>>

Corrected == \E i \in DOMAIN journal.events : journal.events[i].kind = "correction"
Advanced == Noted([journal EXCEPT !.step = @ + 1], "step", 0)
\* decision(): the stored answer is read again after a restart.
Decides ==
  /\ worker.pc = "decide"
  /\ CASE Model.reply = "reply" -> Finishes(journal, "completed")
       [] Model.reply = "nothing" -> journal' = Advanced /\ FlushThen("idle")
       [] Model.reply \in Tools -> Go("tool") /\ UNCHANGED journal
       [] OTHER -> IF ~Corrected /\ Step < MaxSteps THEN journal' = Advanced /\ Go("correct")
                   ELSE GivesUp(journal, "failed")
  /\ UNCHANGED <<office, rpc, world, mishaps>>
\* The correction is marked in a transaction of its own.
Corrects ==
  /\ worker.pc = "correct" /\ journal' = Noted(journal, "correction", 0) /\ FlushThen("loop")
  /\ UNCHANGED <<office, rpc, world, mishaps>>
NoReply ==
  /\ worker.pc = "idle" /\ Finishes(journal, "blocked") /\ UNCHANGED <<office, rpc, world, mishaps>>

Tool == journal.tools[Step]
WithTool(state) == [journal EXCEPT !.tools[Step] = state]
\* A tool that was started is run again only when it is "save"; of the others the
\* controller is asked for a receipt.
UsesTool ==
  /\ worker.pc = "tool"
  /\ IF Tool = "DONE" THEN journal' = Advanced /\ FlushThen("loop") /\ UNCHANGED rpc
     ELSE IF Tool = "STARTED" /\ Model.reply # "save" THEN Ask("lookup") /\ UNCHANGED journal
     ELSE Ask("allow") /\ UNCHANGED journal
  /\ UNCHANGED <<office, world, mishaps>>
LooksUp ==
  /\ Told("lookup") /\ rpc' = Idle
  /\ IF rpc.value = 1 THEN journal' = Noted(WithTool("DONE"), "tool", 0) /\ FlushThen("tool")
     ELSE GivesUp(journal, "blocked")
  /\ UNCHANGED <<office, world, mishaps>>
Allowed ==
  /\ Told("allow")
  /\ journal' = WithTool("STARTED")
  /\ IF Model.reply = "office" THEN Ask("result") ELSE Go("run") /\ rpc' = Idle
  /\ UNCHANGED <<office, world, mishaps>>
Runs ==
  /\ worker.pc = "run" /\ Go("ran")
  /\ world' = IF Model.reply = "save" THEN world ELSE [world EXCEPT !.effects[Step] = @ + 1]
  /\ UNCHANGED <<journal, office, rpc, mishaps>>
Receipted ==
  /\ worker.pc = "ran" \/ Told("result")
  /\ rpc' = Idle
  /\ IF worker.pc = "result" /\ rpc.value = 0 THEN GivesUp(journal, "blocked")
     ELSE journal' = Noted(WithTool("DONE"), "tool", 0) /\ FlushThen("tool")
  /\ UNCHANGED <<office, world, mishaps>>
WorkerDies ==
  /\ worker.pc # "off" /\ Mishap /\ Go("off") /\ rpc' = (IF rpc.told THEN Idle ELSE rpc)
  /\ UNCHANGED <<journal, office, world>>

(* ---- the controller ----------------------------------------------------- *)

\* models.failure(): never takes back an answer.
Answered(permit) == [permit EXCEPT !.answered = TRUE, !.state = "SETTLED"]
Failed(permit, notSent) ==
  IF permit.state \in {"SENT", "UNKNOWN"} /\ ~permit.answered
  THEN [permit EXCEPT !.state = IF notSent THEN "NOT_SENT" ELSE "UNKNOWN"] ELSE permit
PermitSet == DOMAIN office.permits
\* The receipts from the first one that was not applied up to event "last", and what apply()
\* makes of them: an answer stands, and so does an end, of which a journal has one.
Caught(last) ==
  LET new == (office.applied + 1)..last
      told(kind, p) == \E n \in new : journal.events[n].kind = kind /\ journal.events[n].permit = p
      ends == {k \in Over : \E n \in new : journal.events[n].kind = k}
      after(p) == IF told("answer", p) THEN Answered(office.permits[p])
                  ELSE IF told("notSent", p) THEN Failed(office.permits[p], TRUE)
                  ELSE IF told("unknown", p) THEN Failed(office.permits[p], FALSE)
                  ELSE office.permits[p]
  IN [office EXCEPT !.permits = [p \in PermitSet |-> after(p)],
                    !.attempt = IF @ \in Over \/ ends = {} THEN @ ELSE CHOOSE k \in ends : TRUE,
                    !.applied = IF last > @ THEN last ELSE @]

TakesReceipt ==
  /\ Asked("ack") /\ office' = Caught(journal.acked + 1) /\ Tell(1)
  /\ UNCHANGED <<worker, journal, world, mishaps>>
\* authorizeModel(): the permit of the launch if nobody was given it, otherwise a new one.
GrantsModel ==
  LET first == office.permits[1]
      launched == Step = 1 /\ first.state \in {"SENT", "UNKNOWN"} /\ ~first.granted
      new == [op |-> Step, state |-> "SENT", granted |-> TRUE, answered |-> FALSE]
  IN /\ Asked("grant") /\ office.attempt \notin Over
     /\ IF launched THEN office' = [office EXCEPT !.permits[1] = new] /\ Tell(1)
        ELSE office' = [office EXCEPT !.permits = Append(@, new)] /\ Tell(Len(office.permits) + 1)
     /\ UNCHANGED <<worker, journal, world, mishaps>>
AllowsTool ==
  /\ Asked("allow") /\ office.attempt \notin Over /\ Tell(1)
  /\ UNCHANGED <<worker, journal, office, world, mishaps>>
FindsReceipt ==
  /\ Asked("lookup") /\ Tell(IF office.tools[Step] = "DONE" THEN 1 ELSE 0)
  /\ UNCHANGED <<worker, journal, office, world, mishaps>>
\* CompanyToolService.execute(): the row, then the handler, then its receipt.
TakesTool ==
  /\ Asked("result") /\ office.running = "no"
  /\ CASE office.tools[Step] = "DONE" -> Tell(1) /\ UNCHANGED office
       [] office.tools[Step] = "STARTED" -> Tell(0) /\ UNCHANGED office
       [] OTHER -> /\ office' = [office EXCEPT !.tools[Step] = "STARTED", !.running = "yes"] /\ UNCHANGED rpc
  /\ UNCHANGED <<worker, journal, world, mishaps>>
\* A handler that answers at once commits its receipt with its effect.
HandlesTool(atOnce) ==
  /\ office.up /\ office.running = "yes"
  /\ world' = [world EXCEPT !.effects[Step] = @ + 1]
  /\ IF atOnce THEN office' = [office EXCEPT !.tools[Step] = "DONE", !.running = "no"] /\ Tell(1)
     ELSE office' = [office EXCEPT !.running = "done"] /\ UNCHANGED rpc
  /\ UNCHANGED <<worker, journal, mishaps>>
FilesReceipt ==
  /\ office.up /\ office.running = "done"
  /\ office' = [office EXCEPT !.tools[Step] = "DONE", !.running = "no"] /\ Tell(1)
  /\ UNCHANGED <<worker, journal, world, mishaps>>

Launches ==
  /\ office.up /\ worker.pc = "off" /\ office.launch \in {"READY", "SUSPENDED"} /\ office.attempt \notin Over
  /\ office' = [office EXCEPT !.launch = "RUNNING", !.attempt = "running"]
  /\ worker' = [pc |-> "open", then |-> "", permit |-> 0, linked |-> TRUE]
  /\ UNCHANGED <<journal, rpc, world, mishaps>>

\* recover(): the events, then what the journal knows of each call.
LeftMutant(m) == m.state \in {"NOT_SENT", "SENT"}
Left(m) == m.state = "NOT_SENT"     \* the call is known not to have left
Released(o) ==
  LET open == {s \in Steps : journal.models[s].permit # 0 /\ journal.models[s].state # "RESPONSE"}
      known(p) == \E s \in open : journal.models[s].permit = p
      notSent(p) == \E s \in open : journal.models[s].permit = p /\ Left(journal.models[s])
      ungranted(p) == journal.models[o.permits[p].op].state = "PREPARED"
                        /\ journal.models[o.permits[p].op].permit = 0 /\ o.permits[p].granted
      first == ~o.permits[1].granted
      after(p) == IF known(p) THEN Failed(o.permits[p], notSent(p))
                  ELSE IF ungranted(p) \/ (p = 1 /\ first) THEN Failed(o.permits[p], TRUE)
                  ELSE o.permits[p]
  IN [o EXCEPT !.permits = [p \in PermitSet |-> after(p)]]
ToolUnknown == \E s \in Steps :
  journal.tools[s] = "STARTED" /\ journal.models[s].reply # "save" /\ office.tools[s] # "DONE"
CallUnknown(o) == \E p \in PermitSet : o.permits[p].state \in {"SENT", "UNKNOWN"} /\ ~o.permits[p].answered
Recovers ==
  LET told == Released(Caught(Len(journal.events)))
      unstarted == ~journal.made /\ ~office.permits[1].granted
      found == IF told.attempt \in Over THEN told.attempt
               ELSE IF unstarted /\ ~CallUnknown(told) THEN "failed"
               ELSE IF CallUnknown(told) \/ ToolUnknown \/ journal.end # "" THEN "blocked"
               ELSE "suspended"
  IN /\ office.up /\ worker.pc = "off" /\ office.launch = "RUNNING" /\ rpc = Idle /\ office.running = "no"
     /\ office' = [told EXCEPT !.attempt = found, !.launch = IF found = "suspended" THEN "SUSPENDED" ELSE "EXITED"]
     /\ UNCHANGED <<worker, journal, rpc, world, mishaps>>

\* The channel and what the controller was doing are gone; its tables are not.
OfficeDies ==
  /\ office.up /\ Mishap /\ office' = [office EXCEPT !.up = FALSE, !.running = "no"]
  /\ worker' = [worker EXCEPT !.linked = FALSE] /\ rpc' = Idle /\ UNCHANGED <<journal, world>>
OfficeStarts ==
  /\ ~office.up /\ office' = [office EXCEPT !.up = TRUE] /\ UNCHANGED <<worker, journal, rpc, world, mishaps>>

WorkerNext ==
  \/ Opens \/ Flush \/ Acknowledged \/ Leaves \/ Loops \/ Granted \/ Sends \/ NotSent \/ Unanswered
  \/ \E answers \in BOOLEAN : Reaches(answers)
  \/ \E reply \in Replies : Answers(reply)
  \/ Decides \/ Corrects \/ NoReply \/ UsesTool \/ LooksUp \/ Allowed \/ Runs \/ Receipted
  \/ Disconnected \/ TimesOut \/ Refused \/ WorkerDies
  \/ TakesReceipt \/ GrantsModel \/ AllowsTool \/ FindsReceipt \/ TakesTool \/ FilesReceipt
  \/ \E atOnce \in BOOLEAN : HandlesTool(atOnce)
  \/ Launches \/ Recovers \/ OfficeDies \/ OfficeStarts
WorkerSpec == WorkerInit /\ [][WorkerNext]_workerVars

(* ---- property ------------------------------------------------------------ *)

\* However the worker and the controller die, time out and come back, a call is answered at
\* most once, a tool other than "save" acts at most once, and the money of a call is given
\* back only if the call never reached the provider (executeCompanyWorker(), recover()).
NothingDoneTwice ==
  /\ \A s \in Steps : world.answers[s] <= 1 /\ world.effects[s] <= 1
  /\ \A p \in DOMAIN office.permits : office.permits[p].state = "NOT_SENT" => p \notin world.reached
=============================================================================

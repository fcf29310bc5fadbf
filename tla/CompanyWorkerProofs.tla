------------------------ MODULE CompanyWorkerProofs ------------------------
(***************************************************************************)
(* Nothing is done twice by one attempt, for any number of steps, retries,  *)
(* deaths and lost waits.                                                   *)
(*                                                                         *)
(* Not inductive alone.  That a call is answered once and its money stays    *)
(* needs that a permit is of one step, is given to one call, and that the    *)
(* journal says of a call that reached the provider that it was sent         *)
(* (PermitsKnown); that a tool acts once needs that it is started before it   *)
(* acts, in the journal and for the controller's tools in its tables too     *)
(* (ActedOnce).  Channel says that at most one request is open, and nobody    *)
(* but the process that asked can take its answer.                           *)
(***************************************************************************)
EXTENDS CompanyWorker, TLAPS

Pcs == Waits \cup {"off", "open", "flush", "loop", "leave", "give up", "send", "call", "answer",
                   "silence", "decide", "correct", "idle", "tool", "run", "ran"}
Thens == {"", "loop", "leave", "give up", "decide", "idle", "tool"}
Workers == [pc : Pcs, then : Thens, permit : Nat, linked : BOOLEAN]
Kinds == {"wait", "unknown", "notSent", "answer", "step", "correction", "tool"} \cup Over
Models == [state : {"none", "PREPARED", "SENT", "NOT_SENT", "UNKNOWN", "RESPONSE"}, permit : Nat,
           tries : Nat, reply : Replies \cup {""}]
Progress == {"none", "STARTED", "DONE"}
Journals == [made : BOOLEAN, step : Nat \ {0}, end : Over \cup {""},
             events : Seq([kind : Kinds, permit : Nat]), acked : Nat,
             models : [Steps -> Models], tools : [Steps -> Progress]]
Permits == [op : Nat, state : {"SENT", "UNKNOWN", "NOT_SENT", "SETTLED"}, granted : BOOLEAN,
            answered : BOOLEAN]
Offices == [up : BOOLEAN, attempt : {"pending", "running", "suspended"} \cup Over,
            launch : {"READY", "RUNNING", "SUSPENDED", "EXITED"}, applied : Nat,
            running : {"no", "yes", "done"}, permits : Seq(Permits), tools : [Steps -> Progress]]
Requests == [method : Waits \cup {"none"}, told : BOOLEAN, value : Nat]

Typed ==
  /\ worker \in Workers /\ journal \in Journals /\ office \in Offices /\ rpc \in Requests
  /\ world \in [reached : SUBSET Nat, answers : [Steps -> Nat], effects : [Steps -> Nat]]
  /\ 1 \in DOMAIN office.permits

\* What the process does, or will once its events are reported.
Acting == {"tool", "allow", "lookup", "run", "ran", "result"}
Doing == IF worker.pc \in {"flush", "ack"} THEN worker.then ELSE worker.pc
Where ==
  /\ worker.pc \in {"flush", "ack"} => worker.then # ""
  /\ Doing \in Acting \cup {"decide"} => Step \in Steps /\ Model.state = "RESPONSE"
  /\ Doing \in Acting => Model.reply \in Tools
  /\ worker.pc \in {"call", "silence", "answer"} => Step \in Steps /\ Model.state = "SENT"
  /\ worker.pc \in {"grant", "send"} \/ rpc.method = "grant" => Step \in Steps /\ Model.state = "PREPARED"
  /\ rpc.method \in {"allow", "lookup", "result"} => Step \in Steps

Channel ==
  /\ office.launch # "RUNNING" => worker.pc = "off" /\ rpc = Idle /\ office.running = "no"
  /\ worker.pc = "off" \/ rpc = Idle \/ (rpc.method = worker.pc /\ worker.linked)
  /\ rpc.told => worker.pc = rpc.method
  /\ office.running # "no" => rpc.method = "result" /\ ~rpc.told
  /\ rpc.method = "ack" => journal.acked < Len(journal.events)

\* A permit that is given and not used yet.
Pending(p) ==
  \/ rpc.told /\ rpc.method = "grant" /\ rpc.value = p
  \/ worker.pc \in {"send", "call"} /\ worker.permit = p
SaidIn(j, p) == \E n \in DOMAIN j.events : j.events[n].kind = "notSent" /\ j.events[n].permit = p
Given(p) == p \in PermitSet /\ office.permits[p].granted
OfItsStep == \A s \in Steps : journal.models[s].permit # 0 =>
  Given(journal.models[s].permit) /\ office.permits[journal.models[s].permit].op = s
SaidTruly == \A p \in Nat : SaidIn(journal, p) => Given(p) /\ p \notin world.reached /\ ~Pending(p)
GivenOnce == \A p \in Nat : Pending(p) =>
  /\ Given(p) /\ p \notin world.reached
  /\ office.permits[p].op = Step /\ office.permits[p].state = "SENT"
  /\ worker.pc = "call" => Model.permit = p
ReachedSent == \A p \in world.reached :
  /\ Given(p) /\ office.permits[p].state # "NOT_SENT" /\ office.permits[p].op \in Steps
  /\ journal.models[office.permits[p].op].permit = p
  /\ journal.models[office.permits[p].op].state \in {"SENT", "UNKNOWN", "RESPONSE"}
PermitsKnown == OfItsStep /\ SaidTruly /\ GivenOnce /\ ReachedSent

AnsweredOnce ==
  /\ \A s \in Steps : /\ world.answers[s] <= 1
                      /\ journal.models[s].state \in {"none", "PREPARED", "NOT_SENT"} => world.answers[s] = 0
  /\ worker.pc = "call" => world.answers[Step] = 0

ToolOnce(s) ==
  /\ world.effects[s] <= 1
  /\ journal.tools[s] = "none" => world.effects[s] = 0 /\ office.tools[s] = "none"
  /\ journal.models[s].state # "RESPONSE" => journal.tools[s] = "none"
  /\ journal.models[s].state = "RESPONSE" =>
       /\ journal.models[s].reply = "office" /\ office.tools[s] = "none" => world.effects[s] = 0
       /\ journal.models[s].reply = "save" => world.effects[s] = 0
ActedOnce ==
  /\ \A s \in Steps : ToolOnce(s)
  /\ worker.pc = "allow" => Model.reply = "save" \/ journal.tools[Step] = "none"
  /\ worker.pc \in {"run", "ran", "result"} \/ rpc.method = "result" => journal.tools[Step] = "STARTED"
  /\ worker.pc = "run" => Model.reply # "office" /\ world.effects[Step] = 0
  /\ rpc.method = "result" => Model.state = "RESPONSE" /\ Model.reply = "office"
  /\ office.running = "yes" => office.tools[Step] = "STARTED" /\ world.effects[Step] = 0

IInv == Typed /\ Where /\ Channel /\ PermitsKnown /\ AnsweredOnce /\ ActedOnce

-----------------------------------------------------------------------------
(* The pieces of the steps.                                                 *)
LEMMA GoMoves ==
  ASSUME Typed, NEW pc \in Pcs, Go(pc)
  PROVE  worker' \in Workers /\ worker'.pc = pc /\ worker'.then = worker.then
         /\ worker'.permit = worker.permit /\ worker'.linked = worker.linked
<1>1. worker \in Workers /\ worker' = [worker EXCEPT !.pc = pc]
  BY DEF Typed, Go
<1> QED
  BY <1>1 DEF Workers

LEMMA FlushMoves ==
  ASSUME Typed, NEW next \in Thens, FlushThen(next)
  PROVE  worker' \in Workers /\ worker'.pc = "flush" /\ worker'.then = next
         /\ worker'.permit = worker.permit /\ worker'.linked = worker.linked
<1>1. worker \in Workers /\ worker' = [worker EXCEPT !.pc = "flush", !.then = next]
  BY DEF Typed, FlushThen
<1>2. "flush" \in Pcs
  BY DEF Pcs
<1> QED
  BY <1>1, <1>2 DEF Workers

LEMMA IdleTyped == Idle \in Requests /\ Idle.method = "none" /\ Idle.told = FALSE
  BY DEF Idle, Requests

LEMMA AskMoves ==
  ASSUME Typed, NEW method \in Waits, Ask(method), rpc = Idle
  PROVE  /\ worker' \in Workers /\ worker'.pc = method /\ worker'.then = worker.then
         /\ rpc' \in Requests /\ ~rpc'.told /\ (rpc' = Idle \/ rpc'.method = method)
<1>1. Go(method) /\ method \in Pcs
  BY DEF Ask, Pcs
<1> DEFINE request == [method |-> method, told |-> FALSE, value |-> 0]
<1>2. rpc' = Idle \/ rpc' = request
  BY DEF Ask
<1>3. request \in Requests /\ request.method = method /\ request.told = FALSE
  BY DEF Requests
<1> HIDE DEF request
<1>4. worker' \in Workers /\ worker'.pc = method /\ worker'.then = worker.then
  BY <1>1, GoMoves
<1>5. rpc' \in Requests /\ ~rpc'.told /\ (rpc' = Idle \/ rpc'.method = method)
  BY <1>2, <1>3, IdleTyped
<1> QED
  BY <1>4, <1>5

LEMMA TellMoves ==
  ASSUME Typed, NEW value \in Nat, Tell(value)
  PROVE  /\ rpc' \in Requests
         /\ worker.pc = rpc.method => rpc'.method = rpc.method /\ rpc'.told /\ rpc'.value = value
         /\ worker.pc # rpc.method => rpc' = Idle
<1>1. rpc \in Requests
  BY DEF Typed
<1>2. rpc' = IF worker.pc = rpc.method THEN [rpc EXCEPT !.told = TRUE, !.value = value] ELSE Idle
  BY DEF Tell
<1> QED
  BY <1>1, <1>2, IdleTyped DEF Requests

LEMMA NotedIs ==
  ASSUME NEW j \in Journals, NEW kind \in Kinds, NEW permit \in Nat, NEW n, n = Noted(j, kind, permit)
  PROVE  /\ n \in Journals /\ n.step = j.step /\ n.models = j.models /\ n.tools = j.tools /\ n.end = j.end
         /\ \A p : SaidIn(n, p) <=> SaidIn(j, p) \/ (kind = "notSent" /\ permit = p)
<1> DEFINE e == [kind |-> kind, permit |-> permit]
<1>1. j.events \in Seq([kind : Kinds, permit : Nat]) /\ e \in [kind : Kinds, permit : Nat]
  BY DEF Journals
<1>2. n = [j EXCEPT !.events = Append(j.events, e)]
  BY DEF Noted
<1> HIDE DEF e
<1>3. Append(j.events, e) \in Seq([kind : Kinds, permit : Nat])
  BY <1>1
<1>4. n \in Journals /\ n.step = j.step /\ n.models = j.models /\ n.tools = j.tools /\ n.end = j.end
      /\ n.events = Append(j.events, e)
  BY <1>2, <1>3 DEF Journals
<1>5. /\ DOMAIN n.events = DOMAIN j.events \cup {Len(j.events) + 1}
      /\ n.events[Len(j.events) + 1] = e
      /\ \A i \in DOMAIN j.events : n.events[i] = j.events[i]
  BY <1>1, <1>4
<1> QED
  BY <1>4, <1>5 DEF SaidIn, e

\* An event that is not of a call that was not sent.
LEMMA OtherNoted ==
  ASSUME NEW j \in Journals, NEW kind \in Kinds \ {"notSent"}, NEW permit \in Nat, NEW n,
         n = Noted(j, kind, permit)
  PROVE  /\ n \in Journals /\ n.step = j.step /\ n.models = j.models /\ n.tools = j.tools /\ n.end = j.end
         /\ \A p : SaidIn(n, p) <=> SaidIn(j, p)
<1>1. kind \in Kinds /\ kind # "notSent"
  OBVIOUS
<1> QED
  BY <1>1, NotedIs

LEMMA EndedIs ==
  ASSUME NEW j \in Journals, NEW kind \in Over, NEW n, n = Ended(j, kind)
  PROVE  /\ n \in Journals /\ n.step = j.step /\ n.models = j.models /\ n.tools = j.tools
         /\ \A p : SaidIn(n, p) <=> SaidIn(j, p)
<1> DEFINE k == [j EXCEPT !.end = kind]
<1>1. k \in Journals /\ k.step = j.step /\ k.models = j.models /\ k.tools = j.tools /\ k.events = j.events
  BY DEF Journals
<1> HIDE DEF k
<1>2. kind \in Kinds /\ kind # "notSent"
  BY DEF Kinds, Over
<1>3. n = j \/ n = Noted(k, kind, 0)
  BY DEF Ended, k
<1>4. \A p : SaidIn(k, p) <=> SaidIn(j, p)
  BY <1>1 DEF SaidIn
<1> QED
  BY <1>1, <1>2, <1>3, <1>4, NotedIs

LEMMA ModelIs ==
  ASSUME Typed, Step \in Steps, NEW m \in Models, NEW n, n = WithModel(m)
  PROVE  /\ n \in Journals /\ n.step = journal.step /\ n.tools = journal.tools
         /\ n.models[Step] = m /\ \A s \in Steps \ {Step} : n.models[s] = journal.models[s]
         /\ \A p : SaidIn(n, p) <=> SaidIn(journal, p)
<1>1. journal \in Journals /\ journal.models \in [Steps -> Models]
  BY DEF Typed, Journals
<1>2. n = [journal EXCEPT !.models = [journal.models EXCEPT ![Step] = m]]
  BY DEF WithModel
<1> DEFINE ms == [journal.models EXCEPT ![Step] = m]
<1>3. ms \in [Steps -> Models] /\ ms[Step] = m /\ \A s \in Steps \ {Step} : ms[s] = journal.models[s]
  BY <1>1
<1> HIDE DEF ms
<1>4. n \in Journals /\ n.step = journal.step /\ n.tools = journal.tools /\ n.models = ms
      /\ n.events = journal.events
  BY <1>1, <1>2, <1>3 DEF Journals, ms
<1> QED
  BY <1>3, <1>4 DEF SaidIn

LEMMA ToolIs ==
  ASSUME Typed, Step \in Steps, NEW state \in Progress, NEW n, n = WithTool(state)
  PROVE  /\ n \in Journals /\ n.step = journal.step /\ n.models = journal.models
         /\ n.tools[Step] = state /\ \A s \in Steps \ {Step} : n.tools[s] = journal.tools[s]
         /\ \A p : SaidIn(n, p) <=> SaidIn(journal, p)
<1>1. journal \in Journals /\ journal.tools \in [Steps -> Progress]
  BY DEF Typed, Journals
<1>2. n = [journal EXCEPT !.tools = [journal.tools EXCEPT ![Step] = state]]
  BY DEF WithTool
<1> DEFINE ts == [journal.tools EXCEPT ![Step] = state]
<1>3. ts \in [Steps -> Progress] /\ ts[Step] = state /\ \A s \in Steps \ {Step} : ts[s] = journal.tools[s]
  BY <1>1
<1> HIDE DEF ts
<1>4. n \in Journals /\ n.step = journal.step /\ n.models = journal.models /\ n.tools = ts
      /\ n.events = journal.events
  BY <1>1, <1>2, <1>3 DEF Journals, ts
<1> QED
  BY <1>3, <1>4 DEF SaidIn

LEMMA AdvancedIs ==
  ASSUME Typed, NEW n, n = Advanced
  PROVE  /\ n \in Journals /\ n.models = journal.models /\ n.tools = journal.tools
         /\ \A p : SaidIn(n, p) <=> SaidIn(journal, p)
<1> DEFINE k == [journal EXCEPT !.step = journal.step + 1]
<1>1. journal \in Journals /\ journal.step \in Nat /\ journal.step + 1 \in Nat \ {0}
  <2>1. journal \in Journals
    BY DEF Typed
  <2>2. journal.step \in Nat
    BY <2>1 DEF Journals
  <2> QED
    BY <2>1, <2>2
<1>2. k \in Journals /\ k.models = journal.models /\ k.tools = journal.tools /\ k.events = journal.events
  BY <1>1 DEF Journals
<1>3. n = Noted(k, "step", 0)
  BY DEF Advanced
<1> HIDE DEF k
<1>4. "step" \in Kinds /\ \A p : SaidIn(k, p) <=> SaidIn(journal, p)
  BY <1>2 DEF Kinds, SaidIn
<1> QED
  BY <1>2, <1>3, <1>4, NotedIs

-----------------------------------------------------------------------------
(* The steps of the process that neither give a permit, call, nor start a     *)
(* tool: what the journal says of a call or a tool goes forward only.         *)
Forward ==
  /\ \A s \in Steps :
       LET m == journal.models[s]
           n == journal'.models[s]
       IN  /\ n.permit = m.permit /\ n.reply = m.reply
           /\ \/ n.state = m.state
              \/ m.state \in {"none", "PREPARED", "NOT_SENT"} /\ n.state = "PREPARED"
              \/ m.state = "SENT" /\ n.state = "UNKNOWN"
           /\ journal'.tools[s] = journal.tools[s] \/ (m.state = "RESPONSE" /\ journal'.tools[s] = "DONE")
  /\ \A p : SaidIn(journal', p) => SaidIn(journal, p)
  /\ UNCHANGED <<office, world>>

LEMMA CalmKeeps ==
  ASSUME IInv, Typed', Where', Channel', Forward, ~rpc'.told,
         worker'.pc \notin {"send", "call", "run", "ran", "result"},
         worker'.pc = "allow" =>
           Model'.reply = "save" \/ journal'.tools[journal'.step] = "none",
         rpc'.method = "result" =>
           rpc.method = "result" /\ journal'.step = journal.step /\ journal'.tools = journal.tools
  PROVE  IInv'
<1>1. \A p : ~Pending(p)'
  BY DEF Pending
<1>2. UNCHANGED <<office, world>>
  BY DEF Forward
<1>3. PermitsKnown'
  <2>1. OfItsStep'
    BY <1>2 DEF IInv, PermitsKnown, OfItsStep, Given, PermitSet, Forward
  <2>2. SaidTruly'
    BY <1>1, <1>2 DEF IInv, PermitsKnown, SaidTruly, Given, PermitSet, Forward
  <2>3. ReachedSent'
    BY <1>2 DEF IInv, PermitsKnown, ReachedSent, Given, PermitSet, Forward
  <2> QED
    BY <1>1, <2>1, <2>2, <2>3 DEF PermitsKnown, GivenOnce
<1>4. AnsweredOnce'
  BY <1>2 DEF IInv, AnsweredOnce, Forward, Step
<1>5. ActedOnce'
  <2>1. \A s \in Steps : ToolOnce(s)'
    BY <1>2 DEF IInv, ActedOnce, ToolOnce, Forward
  <2>2. rpc'.method = "result" => /\ journal'.tools[journal'.step] = "STARTED"
                                  /\ journal'.models[journal'.step].state = "RESPONSE"
                                  /\ journal'.models[journal'.step].reply = "office"
    <3>1. CASE rpc'.method = "result"
      <4>1. rpc.method = "result" /\ journal'.step = journal.step /\ journal'.tools = journal.tools
        BY <3>1
      <4>2. /\ journal.tools[journal.step] = "STARTED" /\ journal.models[journal.step].state = "RESPONSE"
            /\ journal.models[journal.step].reply = "office" /\ journal.step \in Steps
        BY <4>1 DEF IInv, ActedOnce, Where, Model, Step
      <4> QED
        BY <4>1, <4>2 DEF Forward
    <3> QED
      BY <3>1
  <2>3. office.running = "yes" => office.tools[Step] = "STARTED" /\ world.effects[Step] = 0
    BY DEF IInv, ActedOnce
  <2>4. office'.running = "yes" => rpc'.method = "result" /\ journal'.step = journal.step
    BY DEF Channel
  <2> QED
    BY <1>2, <2>1, <2>2, <2>3, <2>4 DEF ActedOnce, Model, Step
<1> QED
  BY <1>3, <1>4, <1>5 DEF IInv

\* A journal with the same calls and tools, and no new call that was not sent.
LEMMA SameForward ==
  ASSUME \A s \in Steps : journal'.models[s] = journal.models[s] /\ journal'.tools[s] = journal.tools[s],
         \A p : SaidIn(journal', p) => SaidIn(journal, p), UNCHANGED <<office, world>>
  PROVE  Forward
  BY DEF Forward

LEMMA Free ==
  ASSUME IInv, worker.pc \notin Waits \cup {"off"}
  PROVE  rpc = Idle /\ office.running = "no" /\ office.launch = "RUNNING"
<1>1. worker.pc \in Pcs /\ rpc.method \in Waits \cup {"none"}
  BY DEF IInv, Typed, Workers, Requests
<1>2. rpc.method # worker.pc
  BY <1>1 DEF Pcs, Waits
<1> QED
  BY <1>2, IdleTyped DEF IInv, Channel

LEMMA ToldIs ==
  ASSUME IInv, NEW method \in Waits, Told(method)
  PROVE  worker.pc = method /\ rpc.method = method /\ rpc.told
         /\ office.running = "no" /\ office.launch = "RUNNING"
  BY DEF IInv, Channel, Told, Waits

\* A process that comes to rest, or to a point where it decides nothing: the channel is free.
LEMMA RestKeeps ==
  ASSUME IInv, worker' \in Workers, journal' \in Journals, Forward, office.running = "no", rpc' = Idle,
         worker.pc # "off",
         worker'.pc \in {"off", "flush", "loop", "leave", "give up", "decide", "correct", "idle", "tool"},
         worker'.pc = "flush" => worker'.then # "",
         (IF worker'.pc = "flush" THEN worker'.then ELSE worker'.pc) \in {"decide", "tool"} =>
           journal'.step \in Steps /\ journal'.models[journal'.step].state = "RESPONSE",
         (IF worker'.pc = "flush" THEN worker'.then ELSE worker'.pc) = "tool" =>
           journal'.models[journal'.step].reply \in Tools
  PROVE  IInv'
<1>1. UNCHANGED <<office, world>> /\ office.launch = "RUNNING"
  BY DEF Forward, IInv, Channel
<1>2. Typed' /\ Channel'
  BY <1>1, IdleTyped DEF IInv, Typed, Channel
<1>3. Where'
  BY IdleTyped DEF Where, Doing, Acting, Step, Model, Workers, Thens
<1> QED
  BY <1>1, <1>2, <1>3, CalmKeeps, IdleTyped

LEMMA OpensKeeps == ASSUME IInv, Opens PROVE IInv'
<1>1. worker' \in Workers /\ worker'.pc = "flush" /\ worker'.then = "loop"
  BY FlushMoves DEF Opens, IInv, Thens
<1>2. journal' \in Journals /\ journal'.models = journal.models /\ journal'.tools = journal.tools
      /\ journal'.events = journal.events
  BY DEF Opens, IInv, Typed, Journals
<1>3. Forward
  BY <1>2, SameForward DEF Opens, SaidIn
<1>4. office.running = "no" /\ rpc' = Idle
  BY Free DEF Opens, Waits
<1> QED
  BY <1>1, <1>2, <1>3, <1>4, RestKeeps DEF Opens

\* A journal that is left as it is.
LEMMA SameJournal ==
  ASSUME IInv, UNCHANGED <<journal, office, world>>
  PROVE  journal' \in Journals /\ Forward
  BY SameForward DEF IInv, Typed

LEMMA FlushKeeps == ASSUME IInv, Flush PROVE IInv'
<1>1. journal' \in Journals /\ Forward /\ worker.pc = "flush" /\ worker \in Workers
      /\ UNCHANGED <<journal, office, world>>
  BY SameJournal DEF Flush, IInv, Typed
<1>2. rpc = Idle /\ office.running = "no" /\ office.launch = "RUNNING"
  BY <1>1, Free DEF Waits
<1>3. CASE Ask("ack") /\ journal.acked < Len(journal.events)
  <2>1. /\ worker' \in Workers /\ worker'.pc = "ack" /\ worker'.then = worker.then
        /\ rpc' \in Requests /\ ~rpc'.told /\ (rpc' = Idle \/ rpc'.method = "ack")
    BY <1>2, <1>3, AskMoves DEF IInv, Waits
  <2>2. worker'.linked = worker.linked /\ (worker.linked \/ rpc' = Idle)
    BY <1>1, <1>2, <1>3 DEF Ask, Go, Workers
  <2>5. journal'.acked < Len(journal'.events)
    BY <1>1, <1>3
  <2>6. Typed'
    BY <1>1, <2>1 DEF IInv, Typed
  <2>3. Typed' /\ Channel'
    BY <1>1, <1>2, <2>1, <2>2, <2>5, <2>6, IdleTyped DEF Channel
  <2>4. Where'
    BY <1>1, <2>1, IdleTyped DEF IInv, Where, Doing, Acting, Step, Model
  <2> QED
    BY <1>1, <2>1, <2>3, <2>4, CalmKeeps, IdleTyped
<1>4. CASE Go(worker.then) /\ UNCHANGED rpc
  <2>1. worker.then \in {"loop", "leave", "give up", "decide", "idle", "tool"}
    BY <1>1 DEF IInv, Where, Workers, Thens
  <2>2. worker' \in Workers /\ worker'.pc = worker.then
    <3>1. worker.then \in Pcs
      BY <2>1 DEF Pcs
    <3> QED
      BY <1>4, <3>1, GoMoves DEF IInv
  <2>3. /\ worker.then \in {"decide", "tool"} => Step \in Steps /\ Model.state = "RESPONSE"
        /\ worker.then = "tool" => Model.reply \in Tools
    BY <1>1 DEF IInv, Where, Doing, Acting
  <2> QED
    BY <1>1, <1>2, <1>4, <2>1, <2>2, <2>3, RestKeeps DEF Step, Model
<1> QED
  BY <1>3, <1>4 DEF Flush

LEMMA AcknowledgedKeeps == ASSUME IInv, Acknowledged PROVE IInv'
<1>1. worker.pc = "ack" /\ office.running = "no" /\ rpc' = Idle /\ worker \in Workers
  BY ToldIs DEF Acknowledged, IInv, Typed, Waits
<1>2. worker' \in Workers /\ worker'.pc = "flush" /\ worker'.then = worker.then
  BY GoMoves DEF Acknowledged, IInv, Pcs
<1>3. journal' \in Journals /\ journal'.models = journal.models /\ journal'.tools = journal.tools
      /\ journal'.events = journal.events /\ journal'.step = journal.step
  <2>1. journal \in Journals /\ journal.acked \in Nat /\ journal.acked + 1 \in Nat
    <3>1. journal \in Journals
      BY DEF IInv, Typed
    <3>2. journal.acked \in Nat
      BY <3>1 DEF Journals
    <3> QED
      BY <3>1, <3>2
  <2> QED
    BY <2>1 DEF Acknowledged, Journals
<1>4. Forward
  BY <1>3, SameForward DEF Acknowledged, SaidIn
<1>5. /\ worker.then # ""
      /\ worker.then \in {"decide", "tool"} => Step \in Steps /\ Model.state = "RESPONSE"
      /\ worker.then = "tool" => Model.reply \in Tools
  BY <1>1 DEF IInv, Where, Doing, Acting
<1> QED
  BY <1>1, <1>2, <1>3, <1>4, <1>5, RestKeeps DEF Step, Model

LEMMA LeavesKeeps == ASSUME IInv, Leaves PROVE IInv'
<1>1. worker' \in Workers /\ worker'.pc = "off"
  BY GoMoves DEF Leaves, IInv, Pcs
<1>2. journal' \in Journals /\ Forward /\ office.running = "no" /\ rpc' = Idle
  BY Free, SameJournal DEF Leaves, Waits
<1> QED
  BY <1>1, <1>2, RestKeeps DEF Leaves

\* A journal that ends is reported, then the process leaves.
LEMMA FinishKeeps ==
  ASSUME IInv, worker.pc # "off", office.running = "no", rpc' = Idle, UNCHANGED <<office, world>>,
         NEW j \in Journals, NEW kind \in Over, journal' = Ended(j, kind),
         FlushThen("leave") \/ FlushThen("give up"),
         \A s \in Steps : \/ j.models[s] = journal.models[s]
                          \/ /\ journal.models[s].state = "SENT"
                             /\ j.models[s].state = "UNKNOWN" /\ j.models[s].permit = journal.models[s].permit
                             /\ j.models[s].reply = journal.models[s].reply,
         j.tools = journal.tools, \A p : SaidIn(j, p) => SaidIn(journal, p)
  PROVE  IInv'
<1>1. worker' \in Workers /\ worker'.pc = "flush" /\ worker'.then \in {"leave", "give up"}
  BY FlushMoves DEF IInv, Thens
<1>2. journal' \in Journals /\ journal'.models = j.models /\ journal'.tools = j.tools
      /\ \A p : SaidIn(journal', p) <=> SaidIn(j, p)
  BY EndedIs
<1>3. Forward
  <2>1. \A s \in Steps : \/ journal'.models[s] = journal.models[s]
                          \/ /\ journal.models[s].state = "SENT" /\ journal'.models[s].state = "UNKNOWN"
                             /\ journal'.models[s].permit = journal.models[s].permit
                             /\ journal'.models[s].reply = journal.models[s].reply
    BY <1>2
  <2>2. \A s \in Steps : journal'.tools[s] = journal.tools[s]
    BY <1>2
  <2>3. \A p : SaidIn(journal', p) => SaidIn(journal, p)
    BY <1>2
  <2> QED
    BY <2>1, <2>2, <2>3 DEF Forward
<1> QED
  BY <1>1, <1>2, <1>3, RestKeeps

\* A call becomes known to be in another state; its permit and its answer stay.
LEMMA BecameIs ==
  ASSUME Typed, Step \in Steps, NEW state \in {"PREPARED", "NOT_SENT", "UNKNOWN"}, NEW n, n = Became(state)
  PROVE  /\ n \in Journals /\ n.step = journal.step /\ n.tools = journal.tools
         /\ n.models[Step].state = state /\ n.models[Step].permit = Model.permit
         /\ n.models[Step].reply = Model.reply
         /\ \A s \in Steps \ {Step} : n.models[s] = journal.models[s]
         /\ \A p : SaidIn(n, p) <=> SaidIn(journal, p)
<1>1. Model \in Models
  BY DEF Typed, Journals, Model
<1> DEFINE m == [Model EXCEPT !.state = state]
<1>2. m \in Models /\ m.state = state /\ m.permit = Model.permit /\ m.reply = Model.reply
  BY <1>1 DEF Models
<1>3. n = WithModel(m)
  BY DEF Became
<1> HIDE DEF m
<1>4. /\ n \in Journals /\ n.step = journal.step /\ n.tools = journal.tools
      /\ n.models[Step] = m /\ \A s \in Steps \ {Step} : n.models[s] = journal.models[s]
      /\ \A p : SaidIn(n, p) <=> SaidIn(journal, p)
  BY <1>2, <1>3, ModelIs
<1> QED
  BY <1>2, <1>4

LEMMA UnknownIs ==
  ASSUME Typed, Step \in Steps, Model.state = "SENT", NEW n, n = Noted(Became("UNKNOWN"), "unknown", Model.permit)
  PROVE  /\ n \in Journals /\ n.tools = journal.tools /\ \A p : SaidIn(n, p) <=> SaidIn(journal, p)
         /\ n.models[Step].state = "UNKNOWN" /\ n.models[Step].permit = Model.permit
         /\ n.models[Step].reply = Model.reply
         /\ \A s \in Steps \ {Step} : n.models[s] = journal.models[s]
<1> PICK b : b = Became("UNKNOWN")
  OBVIOUS
<1> PICK permit \in Nat : permit = Model.permit
  BY DEF Typed, Journals, Models, Model
<1>1. /\ b \in Journals /\ b.step = journal.step /\ b.tools = journal.tools
      /\ b.models[Step].state = "UNKNOWN" /\ b.models[Step].permit = Model.permit
      /\ b.models[Step].reply = Model.reply
      /\ \A s \in Steps \ {Step} : b.models[s] = journal.models[s]
      /\ \A p : SaidIn(b, p) <=> SaidIn(journal, p)
  BY BecameIs
<1>2. "unknown" \in Kinds \ {"notSent"}
  BY DEF Kinds
<1>3. n = Noted(b, "unknown", permit)
  OBVIOUS
<1>4. n \in Journals /\ n.models = b.models /\ n.tools = b.tools /\ \A p : SaidIn(n, p) <=> SaidIn(b, p)
  BY ONLY <1>1, <1>2, <1>3, permit \in Nat, OtherNoted
<1> QED
  BY <1>1, <1>4

\* A call that may have left: nobody knows whether it was answered.
LEMMA UnknownKeeps ==
  ASSUME IInv, worker.pc \notin Waits \cup {"off"}, rpc' = rpc, UNCHANGED <<office, world>>, Step \in Steps,
         Model.state = "SENT", NEW j, j = Noted(Became("UNKNOWN"), "unknown", Model.permit),
         journal' = Ended(j, "blocked"), FlushThen("give up")
  PROVE  IInv'
<1>1. /\ j \in Journals /\ j.tools = journal.tools
      /\ \A p : SaidIn(j, p) <=> SaidIn(journal, p)
      /\ j.models[Step].state = "UNKNOWN" /\ j.models[Step].permit = Model.permit
      /\ j.models[Step].reply = Model.reply
      /\ \A s \in Steps \ {Step} : j.models[s] = journal.models[s]
  BY UnknownIs DEF IInv
<1>2. "blocked" \in Over
  BY DEF Over
<1>3. \A s \in Steps : \/ j.models[s] = journal.models[s]
                       \/ /\ journal.models[s].state = "SENT"
                          /\ j.models[s].state = "UNKNOWN" /\ j.models[s].permit = journal.models[s].permit
                          /\ j.models[s].reply = journal.models[s].reply
  <2>1. \A s \in Steps : s = Step \/ j.models[s] = journal.models[s]
    BY ONLY <1>1
  <2>2. /\ journal.models[Step].state = "SENT" /\ j.models[Step].state = "UNKNOWN"
        /\ j.models[Step].permit = journal.models[Step].permit
        /\ j.models[Step].reply = journal.models[Step].reply
    BY ONLY <1>1, Model.state = "SENT" DEF Model
  <2> QED
    BY ONLY <2>1, <2>2
<1>4. rpc' = Idle /\ office.running = "no"
  BY Free
<1> QED
  BY <1>1, <1>2, <1>3, <1>4, FinishKeeps

LEMMA EndsKeeps ==
  ASSUME IInv, worker.pc # "off", office.running = "no", rpc' = Idle, UNCHANGED <<office, world>>,
         NEW kind \in Over, journal' = Ended(journal, kind), FlushThen("leave") \/ FlushThen("give up")
  PROVE  IInv'
  BY FinishKeeps DEF IInv, Typed

LEMMA LoopsKeeps == ASSUME WorkerConstants, IInv, Loops PROVE IInv'
<1>1. worker.pc = "loop" /\ UNCHANGED <<office, world>> /\ worker.pc \notin Waits \cup {"off"}
      /\ Over = {"completed", "blocked", "failed"}
  BY DEF Loops, Waits, Over
<1>2. rpc = Idle /\ office.running = "no" /\ office.launch = "RUNNING"
  BY <1>1, Free
<1>4. CASE Go("off") /\ UNCHANGED <<journal, rpc>>
  <2>1. worker' \in Workers /\ worker'.pc = "off"
    BY <1>4, GoMoves DEF IInv, Pcs
  <2> QED
    BY <1>1, <1>2, <1>4, <2>1, SameJournal, RestKeeps
<1>5. CASE Finishes(journal, "blocked") /\ UNCHANGED rpc
  BY <1>1, <1>2, <1>5, EndsKeeps DEF Finishes
<1>6. CASE GivesUp(journal, "blocked") /\ UNCHANGED rpc
  BY <1>1, <1>2, <1>6, EndsKeeps DEF GivesUp
<1>7. CASE /\ Step \in Steps /\ Model.state = "SENT" /\ UNCHANGED rpc
           /\ GivesUp(Noted(Became("UNKNOWN"), "unknown", Model.permit), "blocked")
  BY <1>1, <1>7, UnknownKeeps DEF GivesUp
<1>8. CASE Step \in Steps /\ Model.state = "RESPONSE" /\ Go("decide") /\ UNCHANGED <<journal, rpc>>
  <2>1. worker' \in Workers /\ worker'.pc = "decide"
    BY <1>8, GoMoves DEF IInv, Pcs
  <2> QED
    BY <1>1, <1>2, <1>8, <2>1, SameJournal, RestKeeps DEF Step, Model
<1>9. CASE /\ Step \in Steps /\ Model.state \in {"none", "PREPARED", "NOT_SENT"}
           /\ journal' = Became("PREPARED") /\ Ask("grant")
  <2>1. /\ journal' \in Journals /\ journal'.step = journal.step /\ journal'.tools = journal.tools
        /\ journal'.models[Step].state = "PREPARED" /\ journal'.models[Step].permit = Model.permit
        /\ journal'.models[Step].reply = Model.reply
        /\ \A s \in Steps \ {Step} : journal'.models[s] = journal.models[s]
        /\ \A p : SaidIn(journal', p) <=> SaidIn(journal, p)
    BY <1>9, BecameIs DEF IInv
  <2>2. Forward
    BY <1>1, <1>9, <2>1 DEF Forward, Model
  <2>3. /\ worker' \in Workers /\ worker'.pc = "grant" /\ worker'.then = worker.then
        /\ rpc' \in Requests /\ ~rpc'.told /\ (rpc' = Idle \/ rpc'.method = "grant")
    BY <1>2, <1>9, AskMoves DEF IInv, Waits
  <2>4. worker'.linked = worker.linked /\ (worker.linked \/ rpc' = Idle)
    BY <1>2, <1>9 DEF Ask, Go, Workers, IInv, Typed
  <2>5. Typed' /\ Channel'
    BY <1>1, <1>2, <2>1, <2>3, <2>4, IdleTyped DEF IInv, Typed, Channel
  <2>6. Where'
    BY <1>9, <2>1, <2>3, IdleTyped DEF Where, Doing, Acting, Step, Model
  <2> QED
    BY <2>2, <2>3, <2>5, <2>6, CalmKeeps, IdleTyped
<1> QED
  <2>1. Step > MaxSteps \/ Step \in Steps
    <3>1. journal \in Journals /\ MaxSteps \in Nat
      BY DEF IInv, Typed, WorkerConstants
    <3>2. journal.step \in Nat \ {0}
      BY <3>1 DEF Journals
    <3> QED
      BY <3>1, <3>2 DEF Steps, Step
  <2>2. Step \in Steps => Model.state \in {"none", "PREPARED", "SENT", "NOT_SENT", "UNKNOWN", "RESPONSE"}
    BY DEF IInv, Typed, Journals, Models, Model
  <2> QED
    BY <1>4, <1>5, <1>6, <1>7, <1>8, <1>9, <2>1, <2>2 DEF Loops, GivesUp

LEMMA UnansweredKeeps == ASSUME IInv, Unanswered PROVE IInv'
<1>1. worker.pc = "silence" /\ rpc' = rpc /\ UNCHANGED <<office, world>> /\ worker.pc \notin Waits \cup {"off"}
  BY DEF Unanswered, Waits
<1>2. Step \in Steps /\ Model.state = "SENT"
  BY <1>1 DEF IInv, Where
<1> QED
  BY <1>1, <1>2, UnknownKeeps DEF Unanswered, GivesUp

\* A step forward, after which the next call is the process's first business.
LEMMA AdvanceKeeps ==
  ASSUME IInv, worker.pc \notin Waits \cup {"off"}, journal' = Advanced, rpc' = rpc, UNCHANGED <<office, world>>,
         worker' \in Workers, worker'.pc \in {"flush", "correct"},
         worker'.pc = "flush" => worker'.then \in {"loop", "idle"}
  PROVE  IInv'
<1>1. journal' \in Journals /\ Forward
  BY AdvancedIs, SameForward DEF IInv
<1>2. office.running = "no" /\ rpc' = Idle
  BY Free
<1> QED
  BY <1>1, <1>2, RestKeeps

LEMMA DecidesKeeps == ASSUME IInv, Decides PROVE IInv'
<1>1. worker.pc = "decide" /\ worker.pc \notin Waits \cup {"off"} /\ UNCHANGED <<office, rpc, world>>
  BY DEF Decides, Waits
<1>2. rpc' = Idle /\ office.running = "no" /\ Step \in Steps /\ Model.state = "RESPONSE"
  BY <1>1, Free DEF IInv, Where, Doing
<1>3. Over = {"completed", "blocked", "failed"}
  BY DEF Over
<1>4. CASE Finishes(journal, "completed")
  BY <1>1, <1>2, <1>3, <1>4, EndsKeeps DEF Finishes
<1>5. CASE GivesUp(journal, "failed")
  BY <1>1, <1>2, <1>3, <1>5, EndsKeeps DEF GivesUp
<1>6. CASE journal' = Advanced /\ (FlushThen("idle") \/ Go("correct"))
  <2>1. /\ worker' \in Workers /\ worker'.pc \in {"flush", "correct"}
        /\ worker'.pc = "flush" => worker'.then = "idle"
    <3>1. Typed /\ "correct" \in Pcs /\ "idle" \in Thens
      BY DEF IInv, Thens, Pcs
    <3>2. CASE FlushThen("idle")
      BY <3>1, <3>2, FlushMoves
    <3>3. CASE Go("correct")
      BY <3>1, <3>3, GoMoves
    <3> QED
      BY <1>6, <3>2, <3>3
  <2> QED
    BY <1>1, <1>6, <2>1, AdvanceKeeps
<1>7. CASE Model.reply \in Tools /\ Go("tool") /\ UNCHANGED journal
  <2>1. worker' \in Workers /\ worker'.pc = "tool"
    BY <1>7, GoMoves DEF IInv, Pcs
  <2> QED
    BY <1>1, <1>2, <1>7, <2>1, SameJournal, RestKeeps DEF Step, Model
<1> QED
  <2>1. \/ Finishes(journal, "completed") \/ GivesUp(journal, "failed")
        \/ journal' = Advanced /\ (FlushThen("idle") \/ Go("correct"))
        \/ Model.reply \in Tools /\ Go("tool") /\ UNCHANGED journal
    BY DEF Decides, Tools
  <2> QED
    BY <1>4, <1>5, <1>6, <1>7, <2>1

LEMMA CorrectsKeeps == ASSUME IInv, Corrects PROVE IInv'
<1>1. worker.pc = "correct" /\ worker.pc \notin Waits \cup {"off"} /\ UNCHANGED <<office, rpc, world>>
  BY DEF Corrects, Waits
<1>2. worker' \in Workers /\ worker'.pc = "flush" /\ worker'.then = "loop"
  BY FlushMoves DEF Corrects, IInv, Thens
<1>3. journal' \in Journals /\ Forward
  <2>1. "correction" \in Kinds \ {"notSent"} /\ journal \in Journals /\ journal' = Noted(journal, "correction", 0)
    BY DEF Kinds, IInv, Typed, Corrects
  <2>2. /\ journal' \in Journals /\ journal'.models = journal.models /\ journal'.tools = journal.tools
        /\ \A p : SaidIn(journal', p) <=> SaidIn(journal, p)
    BY <2>1, OtherNoted
  <2> QED
    BY <1>1, <2>2, SameForward
<1> QED
  BY <1>1, <1>2, <1>3, Free, RestKeeps

LEMMA NoReplyKeeps == ASSUME IInv, NoReply PROVE IInv'
<1>1. worker.pc = "idle" /\ worker.pc \notin Waits \cup {"off"} /\ UNCHANGED <<office, rpc, world>>
  BY DEF NoReply, Waits
<1>2. "blocked" \in Over
  BY DEF Over
<1> QED
  BY <1>1, <1>2, Free, EndsKeeps DEF NoReply, Finishes

LEMMA UsesToolKeeps == ASSUME IInv, UsesTool PROVE IInv'
<1>1. worker.pc = "tool" /\ worker.pc \notin Waits \cup {"off"} /\ UNCHANGED <<office, world>>
  BY DEF UsesTool, Waits
<1>2. rpc = Idle /\ office.running = "no" /\ office.launch = "RUNNING"
  BY <1>1, Free
<1>3. Step \in Steps /\ Model.state = "RESPONSE" /\ Model.reply \in Tools /\ Tool \in Progress
  BY <1>1 DEF IInv, Where, Doing, Acting, Tool, Typed, Journals
<1>4. CASE journal' = Advanced /\ FlushThen("loop") /\ UNCHANGED rpc
  <2>1. worker' \in Workers /\ worker'.pc = "flush" /\ worker'.then = "loop"
    BY <1>4, FlushMoves DEF IInv, Thens
  <2> QED
    BY <1>1, <1>4, <2>1, AdvanceKeeps
<1>5. ASSUME NEW method \in {"lookup", "allow"}, Ask(method), UNCHANGED journal,
             method = "allow" => Model.reply = "save" \/ Tool = "none"
      PROVE  IInv'
  <2>1. /\ worker' \in Workers /\ worker'.pc = method /\ worker'.then = worker.then
        /\ rpc' \in Requests /\ ~rpc'.told /\ (rpc' = Idle \/ rpc'.method = method)
    BY <1>2, <1>5, AskMoves DEF IInv, Waits
  <2>2. worker'.linked = worker.linked /\ (worker.linked \/ rpc' = Idle)
    BY <1>2, <1>5 DEF Ask, Go, Workers, IInv, Typed
  <2>3. journal' \in Journals /\ Forward
    BY <1>1, <1>5, SameJournal
  <2>4. Typed' /\ Channel'
    BY <1>1, <1>2, <1>5, <2>1, <2>2, IdleTyped DEF IInv, Typed, Channel
  <2>5. Where'
    BY <1>3, <1>5, <2>1, IdleTyped DEF Where, Doing, Acting, Step, Model
  <2> QED
    BY <1>5, <2>1, <2>3, <2>4, <2>5, CalmKeeps, IdleTyped DEF Model, Tool, Step
<1> QED
  BY <1>1, <1>3, <1>4, <1>5 DEF UsesTool, Progress

\* A tool's receipt is in the journal.
LEMMA ReceiptKeeps ==
  ASSUME IInv, worker.pc # "off", office.running = "no", rpc' = Idle, UNCHANGED <<office, world>>,
         Step \in Steps, Model.state = "RESPONSE", Model.reply \in Tools,
         journal' = Noted(WithTool("DONE"), "tool", 0), FlushThen("tool")
  PROVE  IInv'
<1>1. worker' \in Workers /\ worker'.pc = "flush" /\ worker'.then = "tool"
  BY FlushMoves DEF IInv, Thens
<1> PICK j : j = WithTool("DONE")
  OBVIOUS
<1>2. /\ j \in Journals /\ j.step = journal.step /\ j.models = journal.models
      /\ j.tools[Step] = "DONE" /\ \A s \in Steps \ {Step} : j.tools[s] = journal.tools[s]
      /\ \A p : SaidIn(j, p) <=> SaidIn(journal, p)
  BY ToolIs DEF IInv, Progress
<1>3. "tool" \in Kinds \ {"notSent"} /\ journal' = Noted(j, "tool", 0)
  BY DEF Kinds
<1>4. journal' \in Journals /\ journal'.step = j.step /\ journal'.models = j.models /\ journal'.tools = j.tools
      /\ \A p : SaidIn(journal', p) <=> SaidIn(j, p)
  BY <1>2, <1>3, OtherNoted
<1>5. Forward
  BY <1>2, <1>4 DEF Forward, Model
<1> QED
  BY <1>1, <1>2, <1>4, <1>5, RestKeeps DEF Step, Model

LEMMA LooksUpKeeps == ASSUME IInv, LooksUp PROVE IInv'
<1>1. worker.pc = "lookup" /\ worker.pc # "off" /\ UNCHANGED <<office, world>> /\ rpc' = Idle
      /\ office.running = "no"
  BY ToldIs DEF LooksUp, Waits
<1>2. Step \in Steps /\ Model.state = "RESPONSE" /\ Model.reply \in Tools
  BY <1>1 DEF IInv, Where, Doing, Acting
<1>3. CASE GivesUp(journal, "blocked")
  BY <1>1, <1>3, EndsKeeps DEF GivesUp, Over
<1>4. CASE journal' = Noted(WithTool("DONE"), "tool", 0) /\ FlushThen("tool")
  BY <1>1, <1>2, <1>4, ReceiptKeeps
<1> QED
  BY <1>3, <1>4 DEF LooksUp

\* The process is gone; what it asked may still be answered, to nobody.
LEMMA DownKeeps ==
  ASSUME IInv, worker.pc # "off", worker' = [worker EXCEPT !.pc = "off"], journal' \in Journals,
         journal' = journal \/ journal' = Noted(journal, "wait", 0), UNCHANGED <<office, world>>,
         rpc' \in {rpc, Idle}, ~rpc'.told, rpc' = rpc \/ office.running = "no"
  PROVE  IInv'
<1>1. worker' \in Workers /\ worker'.pc = "off"
  BY DEF IInv, Typed, Workers, Pcs
<1>2. /\ journal'.step = journal.step /\ journal'.models = journal.models /\ journal'.tools = journal.tools
      /\ \A p : SaidIn(journal', p) <=> SaidIn(journal, p)
  <2>1. "wait" \in Kinds \ {"notSent"} /\ journal \in Journals
    BY DEF Kinds, IInv, Typed
  <2> QED
    BY <2>1, OtherNoted
<1>3. Forward
  BY <1>2, SameForward
<1>4. office.launch = "RUNNING"
  BY DEF IInv, Channel
<1>7. journal.acked < Len(journal.events) => journal'.acked < Len(journal'.events)
  <2>1. CASE journal' = journal
    BY <2>1
  <2>2. CASE journal' = Noted(journal, "wait", 0)
    <3> DEFINE e == [kind |-> "wait", permit |-> 0]
    <3>1. journal \in Journals
      BY DEF IInv, Typed
    <3>2. journal.acked \in Nat /\ journal.events \in Seq([kind : Kinds, permit : Nat])
      BY <3>1 DEF Journals
    <3>3. journal'.acked = journal.acked /\ journal'.events = Append(journal.events, e)
      BY <2>2, <3>1 DEF Noted, Journals
    <3> HIDE DEF e
    <3>4. Len(journal'.events) = Len(journal.events) + 1 /\ Len(journal.events) \in Nat
      BY <3>2, <3>3
    <3> QED
      BY ONLY <3>2, <3>3, <3>4
  <2> QED
    BY <2>1, <2>2
<1>5. Typed' /\ Channel'
  BY <1>1, <1>4, <1>7, IdleTyped DEF IInv, Typed, Channel
<1>6. Where'
  BY <1>1, <1>2, IdleTyped DEF IInv, Where, Doing, Acting, Step, Model
<1> QED
  BY <1>1, <1>2, <1>3, <1>5, <1>6, CalmKeeps, IdleTyped

LEMMA SuspendsIs ==
  ASSUME IInv, Suspends
  PROVE  /\ worker' = [worker EXCEPT !.pc = "off"] /\ journal' \in Journals
         /\ journal' = journal \/ journal' = Noted(journal, "wait", 0)
         /\ UNCHANGED <<office, world>>
<1>1. "wait" \in Kinds \ {"notSent"} /\ journal \in Journals
  BY DEF Kinds, IInv, Typed
<1>2. journal' = journal \/ journal' = Noted(journal, "wait", 0)
  BY DEF Suspends
<1>3. journal' \in Journals
  BY <1>1, <1>2, OtherNoted
<1> QED
  BY <1>2, <1>3 DEF Suspends

LEMMA LostKeeps == ASSUME IInv, Disconnected \/ TimesOut \/ Refused PROVE IInv'
<1>1. worker.pc # "off" /\ Suspends
  BY DEF Disconnected, TimesOut, Refused, Waits
<1>2. /\ rpc' \in {rpc, Idle} /\ ~rpc'.told
      /\ rpc' = rpc \/ office.running = "no"
  <2>1. CASE Disconnected
    BY <1>1, <2>1, IdleTyped DEF Disconnected, IInv, Channel
  <2>2. CASE TimesOut
    BY <2>2 DEF TimesOut
  <2>3. CASE Refused
    BY <2>3, IdleTyped DEF Refused
  <2> QED
    BY <2>1, <2>2, <2>3
<1> QED
  BY <1>1, <1>2, SuspendsIs, DownKeeps

LEMMA WorkerDiesKeeps == ASSUME IInv, WorkerDies PROVE IInv'
<1>1. worker.pc # "off" /\ worker' = [worker EXCEPT !.pc = "off"] /\ UNCHANGED <<journal, office, world>>
  BY DEF WorkerDies, Go
<1>2. journal' \in Journals
  BY <1>1 DEF IInv, Typed
<1>3. /\ rpc' \in {rpc, Idle} /\ ~rpc'.told
      /\ rpc' = rpc \/ office.running = "no"
  BY IdleTyped DEF WorkerDies, IInv, Channel, Typed, Requests
<1> QED
  BY <1>1, <1>2, <1>3, DownKeeps

LEMMA ReceiptedKeeps == ASSUME IInv, Receipted PROVE IInv'
<1>1. worker.pc \in {"ran", "result"} /\ worker.pc # "off" /\ UNCHANGED <<office, world>> /\ rpc' = Idle
      /\ office.running = "no"
  BY ToldIs, Free DEF Receipted, Waits
<1>2. Step \in Steps /\ Model.state = "RESPONSE" /\ Model.reply \in Tools
  BY <1>1 DEF IInv, Where, Doing, Acting
<1>3. CASE GivesUp(journal, "blocked")
  BY <1>1, <1>3, EndsKeeps DEF GivesUp, Over
<1>4. CASE journal' = Noted(WithTool("DONE"), "tool", 0) /\ FlushThen("tool")
  BY <1>1, <1>2, <1>4, ReceiptKeeps
<1> QED
  BY <1>3, <1>4 DEF Receipted

-----------------------------------------------------------------------------
(* A call: the permit is taken, the journal says that it is sent, the request *)
(* leaves, and it is answered or not.                                        *)
LEMMA GrantedKeeps == ASSUME IInv, Granted PROVE IInv'
<1>1. /\ worker.pc = "grant" /\ rpc.method = "grant" /\ rpc.told /\ office.running = "no"
      /\ office.launch = "RUNNING" /\ rpc' = Idle /\ UNCHANGED <<journal, office, world>>
  BY ToldIs DEF Granted, Waits
<1>2. worker' \in Workers /\ worker'.pc = "send" /\ worker'.permit = rpc.value
  <2>1. worker \in Workers /\ rpc.value \in Nat /\ "send" \in Pcs
    BY DEF IInv, Typed, Requests, Pcs
  <2> QED
    BY <2>1 DEF Granted, Workers
<1>3. Typed' /\ Channel'
  BY <1>1, <1>2, IdleTyped DEF IInv, Typed, Channel
<1>4. Where'
  BY <1>1, <1>2, IdleTyped DEF IInv, Where, Doing, Acting, Step, Model
<1>5. \A p : Pending(p)' <=> Pending(p)
  BY <1>1, <1>2, IdleTyped DEF Pending
<1>6. PermitsKnown'
  BY <1>1, <1>2, <1>5 DEF IInv, PermitsKnown, OfItsStep, SaidTruly, GivenOnce, ReachedSent, Given, PermitSet,
    Step, Model
<1>7. AnsweredOnce' /\ ActedOnce'
  BY <1>1, <1>2, IdleTyped DEF IInv, AnsweredOnce, ActedOnce, ToolOnce, Step, Model
<1> QED
  BY <1>3, <1>4, <1>6, <1>7 DEF IInv

\* The tools, while a call is made.
LEMMA ToolsRest ==
  ASSUME IInv, UNCHANGED <<office, world>>, rpc' = Idle, office.running = "no",
         worker'.pc \notin {"allow", "run", "ran", "result"},
         journal'.tools = journal.tools,
         \A s \in Steps : journal'.models[s].state = journal.models[s].state \/ journal.models[s].state # "RESPONSE",
         \A s \in Steps : journal.models[s].state = "RESPONSE" => journal'.models[s].reply = journal.models[s].reply
  PROVE  ActedOnce'
<1>1. \A s \in Steps : ToolOnce(s)'
  BY DEF IInv, ActedOnce, ToolOnce
<1> QED
  BY <1>1, IdleTyped DEF ActedOnce

LEMMA SendsKeeps == ASSUME IInv, Sends PROVE IInv'
<1>1. /\ worker.pc = "send" /\ worker.pc \notin Waits \cup {"off"} /\ UNCHANGED <<office, rpc, world>>
  BY DEF Sends, Waits
<1>2. rpc = Idle /\ rpc' = Idle /\ office.running = "no" /\ office.launch = "RUNNING"
  BY <1>1, Free
<1>3. Step \in Steps /\ Model.state = "PREPARED" /\ worker.permit \in Nat /\ Model \in Models
  BY <1>1 DEF IInv, Where, Typed, Workers, Journals, Model
<1>4. worker' \in Workers /\ worker'.pc = "call" /\ worker'.permit = worker.permit
  BY GoMoves DEF Sends, IInv, Pcs
<1> DEFINE m == [Model EXCEPT !.state = "SENT", !.permit = worker.permit, !.tries = @ + 1]
<1>5. m \in Models /\ m.state = "SENT" /\ m.permit = worker.permit
  <2>1. Model.tries \in Nat
    BY <1>3 DEF Models
  <2>2. Model.tries + 1 \in Nat
    BY ONLY <2>1
  <2> QED
    BY <1>3, <2>2 DEF Models
<1>6. journal' = WithModel(m)
  BY DEF Sends
<1> HIDE DEF m
<1>7. /\ journal' \in Journals /\ journal'.step = journal.step /\ journal'.tools = journal.tools
      /\ journal'.models[Step] = m /\ \A s \in Steps \ {Step} : journal'.models[s] = journal.models[s]
  BY <1>3, <1>5, <1>6, ModelIs DEF IInv
<1>8. \A p : SaidIn(journal', p) <=> SaidIn(journal, p)
  BY <1>3, <1>5, <1>6, ModelIs DEF IInv
<1>9. Typed' /\ Channel'
  BY <1>1, <1>2, <1>4, <1>7, IdleTyped DEF IInv, Typed, Channel
<1>10. Where'
  BY <1>2, <1>3, <1>4, <1>5, <1>7, IdleTyped DEF Where, Doing, Acting, Step, Model
<1>11. (\A p : Pending(p)' <=> p = worker.permit) /\ Pending(worker.permit)
  BY <1>1, <1>2, <1>4, IdleTyped DEF Pending
<1>12. PermitsKnown'
  <2>1. /\ Given(worker.permit) /\ worker.permit \notin world.reached
        /\ office.permits[worker.permit].op = Step /\ office.permits[worker.permit].state = "SENT"
    BY <1>3, <1>11 DEF IInv, PermitsKnown, GivenOnce
  <2>2. OfItsStep'
    BY <1>1, <1>5, <1>7, <2>1 DEF IInv, PermitsKnown, OfItsStep, Given, PermitSet
  <2>3. SaidTruly'
    BY <1>1, <1>8, <1>11, <1>3 DEF IInv, PermitsKnown, SaidTruly, Given, PermitSet
  <2>4. GivenOnce'
    BY <1>1, <1>5, <1>7, <1>11, <2>1 DEF GivenOnce, Given, PermitSet, Step, Model
  <2>5. ReachedSent'
    BY <1>1, <1>3, <1>5, <1>7 DEF IInv, PermitsKnown, ReachedSent, Given, PermitSet, Model
  <2> QED
    BY <2>2, <2>3, <2>4, <2>5 DEF PermitsKnown
<1>13. AnsweredOnce'
  BY <1>1, <1>3, <1>5, <1>7 DEF IInv, AnsweredOnce, Step, Model
<1>14. ActedOnce'
  BY <1>1, <1>2, <1>3, <1>4, <1>7, ToolsRest DEF Model
<1> QED
  BY <1>9, <1>10, <1>12, <1>13, <1>14 DEF IInv

LEMMA ReachesKeeps == ASSUME IInv, NEW answers \in BOOLEAN, Reaches(answers) PROVE IInv'
<1>1. /\ worker.pc = "call" /\ worker.pc \notin Waits \cup {"off"} /\ UNCHANGED <<journal, office, rpc>>
  BY DEF Reaches, Waits
<1>2. rpc = Idle /\ rpc' = Idle /\ office.running = "no" /\ office.launch = "RUNNING"
  BY <1>1, Free
<1>3. /\ worker' \in Workers /\ worker'.pc \in {"answer", "silence"}
      /\ worker.permit \in Nat
  <2>1. worker.permit \in Nat /\ "answer" \in Pcs /\ "silence" \in Pcs
    BY DEF IInv, Typed, Workers, Pcs
  <2> QED
    BY <2>1, GoMoves DEF Reaches, IInv
<1>4. Step \in Steps /\ Model.state = "SENT" /\ world.answers[Step] = 0 /\ Pending(worker.permit)
  BY <1>1 DEF IInv, Where, AnsweredOnce, Pending
<1>5. /\ Given(worker.permit) /\ worker.permit \notin world.reached
      /\ office.permits[worker.permit].op = Step /\ office.permits[worker.permit].state = "SENT"
      /\ Model.permit = worker.permit
  BY <1>1, <1>3, <1>4 DEF IInv, PermitsKnown, GivenOnce
<1>6. /\ world' \in [reached : SUBSET Nat, answers : [Steps -> Nat], effects : [Steps -> Nat]]
      /\ world'.reached = world.reached \cup {worker.permit} /\ world'.effects = world.effects
      /\ world'.answers[Step] <= 1 /\ \A s \in Steps \ {Step} : world'.answers[s] = world.answers[s]
  <2> DEFINE one == IF answers THEN 1 ELSE 0
             as == [world.answers EXCEPT ![Step] = world.answers[Step] + one]
  <2>1. world \in [reached : SUBSET Nat, answers : [Steps -> Nat], effects : [Steps -> Nat]]
    BY DEF IInv, Typed
  <2>2. one \in {0, 1}
    OBVIOUS
  <2>3. world' = [world EXCEPT !.reached = world.reached \cup {worker.permit}, !.answers = as]
    BY DEF Reaches
  <2> HIDE DEF one
  <2>4. as \in [Steps -> Nat] /\ as[Step] <= 1 /\ \A s \in Steps \ {Step} : as[s] = world.answers[s]
    BY <1>4, <2>1, <2>2
  <2> HIDE DEF as
  <2> QED
    BY <1>3, <2>1, <2>3, <2>4
<1>7. Typed' /\ Channel'
  BY <1>1, <1>2, <1>3, <1>6, IdleTyped DEF IInv, Typed, Channel
<1>8. Where'
  BY <1>1, <1>2, <1>3, <1>4, IdleTyped DEF Where, Doing, Acting, Step, Model
<1>9. \A p : ~Pending(p)'
  BY <1>2, <1>3, IdleTyped DEF Pending
<1>10. PermitsKnown'
  <2>1. OfItsStep'
    BY <1>1 DEF IInv, PermitsKnown, OfItsStep, Given, PermitSet
  <2>2. SaidTruly'
    BY <1>1, <1>4, <1>6, <1>9 DEF IInv, PermitsKnown, SaidTruly, Given, PermitSet
  <2>3. GivenOnce'
    BY <1>9 DEF GivenOnce
  <2>4. ReachedSent'
    BY <1>1, <1>4, <1>5, <1>6 DEF IInv, PermitsKnown, ReachedSent, Given, PermitSet, Model
  <2> QED
    BY <2>1, <2>2, <2>3, <2>4 DEF PermitsKnown
<1>11. AnsweredOnce'
  BY <1>1, <1>3, <1>4, <1>6 DEF IInv, AnsweredOnce, Step, Model
<1>12. ActedOnce'
  BY <1>1, <1>2, <1>3, <1>6, IdleTyped DEF IInv, ActedOnce, ToolOnce, Step, Model
<1> QED
  BY <1>7, <1>8, <1>10, <1>11, <1>12 DEF IInv

LEMMA NotSentKeeps == ASSUME IInv, NotSent PROVE IInv'
<1>1. worker.pc = "call" /\ worker.pc \notin Waits \cup {"off"} /\ UNCHANGED <<office, rpc, world>>
  BY DEF NotSent, Waits
<1>2. rpc = Idle /\ rpc' = Idle /\ office.running = "no" /\ office.launch = "RUNNING"
  BY <1>1, Free
<1>3. worker' \in Workers /\ worker'.pc = "flush" /\ worker'.then = "loop"
  BY FlushMoves DEF NotSent, IInv, Thens
<1>4. Step \in Steps /\ Model.state = "SENT" /\ world.answers[Step] = 0 /\ Pending(worker.permit)
      /\ worker.permit \in Nat
  BY <1>1 DEF IInv, Where, AnsweredOnce, Pending, Typed, Workers
<1>5. Given(worker.permit) /\ worker.permit \notin world.reached /\ Model.permit = worker.permit
  BY <1>1, <1>4 DEF IInv, PermitsKnown, GivenOnce
<1> PICK b : b = Became("NOT_SENT")
  OBVIOUS
<1>6. /\ b \in Journals /\ b.step = journal.step /\ b.tools = journal.tools
      /\ b.models[Step].state = "NOT_SENT" /\ b.models[Step].permit = worker.permit
      /\ \A s \in Steps \ {Step} : b.models[s] = journal.models[s]
      /\ \A p : SaidIn(b, p) <=> SaidIn(journal, p)
  BY <1>4, <1>5, BecameIs DEF IInv
<1>7. "notSent" \in Kinds /\ journal' = Noted(b, "notSent", worker.permit)
  BY <1>5 DEF Kinds, NotSent
<1>8. /\ journal' \in Journals /\ journal'.step = b.step /\ journal'.models = b.models /\ journal'.tools = b.tools
      /\ \A p : SaidIn(journal', p) <=> SaidIn(b, p) \/ p = worker.permit
  BY <1>4, <1>6, <1>7, NotedIs
<1>9. /\ journal'.models[Step].state = "NOT_SENT" /\ journal'.models[Step].permit = worker.permit
      /\ \A s \in Steps \ {Step} : journal'.models[s] = journal.models[s]
      /\ \A p : SaidIn(journal', p) <=> SaidIn(journal, p) \/ p = worker.permit
      /\ journal'.step = journal.step /\ journal'.tools = journal.tools
  BY ONLY <1>6, <1>8
<1>10. Typed' /\ Channel'
  BY <1>1, <1>2, <1>3, <1>8, IdleTyped DEF IInv, Typed, Channel
<1>11. Where'
  BY <1>2, <1>3, IdleTyped DEF Where, Doing, Acting
<1>12. \A p : ~Pending(p)'
  BY <1>2, <1>3, IdleTyped DEF Pending
<1>13. PermitsKnown'
  <2>1. OfItsStep'
    BY <1>1, <1>5, <1>9 DEF IInv, PermitsKnown, OfItsStep, Given, PermitSet, Model
  <2>2. SaidTruly'
    BY <1>1, <1>5, <1>9, <1>12 DEF IInv, PermitsKnown, SaidTruly, Given, PermitSet
  <2>3. GivenOnce'
    BY <1>12 DEF GivenOnce
  <2>4. ReachedSent'
    BY <1>1, <1>5, <1>9 DEF IInv, PermitsKnown, ReachedSent, Given, PermitSet, Model
  <2> QED
    BY <2>1, <2>2, <2>3, <2>4 DEF PermitsKnown
<1>14. AnsweredOnce'
  BY <1>1, <1>3, <1>4, <1>9 DEF IInv, AnsweredOnce
<1>15. ActedOnce'
  BY <1>1, <1>2, <1>3, <1>4, <1>9, ToolsRest DEF Model
<1> QED
  BY <1>10, <1>11, <1>13, <1>14, <1>15 DEF IInv

LEMMA AnswersKeeps == ASSUME IInv, NEW reply \in Replies, Answers(reply) PROVE IInv'
<1>1. worker.pc = "answer" /\ worker.pc \notin Waits \cup {"off"} /\ UNCHANGED <<office, rpc, world>>
  BY DEF Answers, Waits
<1>2. rpc = Idle /\ rpc' = Idle /\ office.running = "no" /\ office.launch = "RUNNING"
  BY <1>1, Free
<1>3. worker' \in Workers /\ worker'.pc = "flush" /\ worker'.then = "decide"
  BY FlushMoves DEF Answers, IInv, Thens
<1>4. Step \in Steps /\ Model.state = "SENT" /\ Model \in Models
  BY <1>1 DEF IInv, Where, Typed, Journals, Model
<1> DEFINE m == [Model EXCEPT !.state = "RESPONSE", !.reply = reply]
<1>5. m \in Models /\ m.state = "RESPONSE" /\ m.permit = Model.permit /\ Model.permit \in Nat
  BY <1>4 DEF Models
<1> PICK b : b = WithModel(m)
  OBVIOUS
<1>6. "answer" \in Kinds \ {"notSent"} /\ journal' = Noted(b, "answer", Model.permit)
  BY DEF Kinds, Answers
<1> HIDE DEF m
<1>7. /\ b \in Journals /\ b.step = journal.step /\ b.tools = journal.tools
      /\ b.models[Step] = m /\ \A s \in Steps \ {Step} : b.models[s] = journal.models[s]
      /\ \A p : SaidIn(b, p) <=> SaidIn(journal, p)
  BY <1>4, <1>5, ModelIs DEF IInv
<1>8. /\ journal' \in Journals /\ journal'.step = b.step /\ journal'.models = b.models /\ journal'.tools = b.tools
      /\ \A p : SaidIn(journal', p) <=> SaidIn(b, p)
  BY <1>5, <1>6, <1>7, OtherNoted
<1>9. /\ journal'.models[Step].state = "RESPONSE" /\ journal'.models[Step].permit = Model.permit
      /\ \A s \in Steps \ {Step} : journal'.models[s] = journal.models[s]
      /\ \A p : SaidIn(journal', p) <=> SaidIn(journal, p)
      /\ journal'.step = journal.step /\ journal'.tools = journal.tools
  BY ONLY <1>5, <1>7, <1>8
<1>10. Typed' /\ Channel'
  BY <1>1, <1>2, <1>3, <1>8, IdleTyped DEF IInv, Typed, Channel
<1>11. Where'
  BY <1>2, <1>3, <1>4, <1>9, IdleTyped DEF Where, Doing, Acting, Step, Model
<1>12. \A p : ~Pending(p)'
  BY <1>2, <1>3, IdleTyped DEF Pending
<1>13. PermitsKnown'
  <2>1. OfItsStep'
    BY <1>1, <1>9 DEF IInv, PermitsKnown, OfItsStep, Given, PermitSet, Model
  <2>2. SaidTruly'
    BY <1>1, <1>9, <1>12 DEF IInv, PermitsKnown, SaidTruly, Given, PermitSet
  <2>3. GivenOnce'
    BY <1>12 DEF GivenOnce
  <2>4. ReachedSent'
    BY <1>1, <1>9 DEF IInv, PermitsKnown, ReachedSent, Given, PermitSet, Model
  <2> QED
    BY <2>1, <2>2, <2>3, <2>4 DEF PermitsKnown
<1>14. AnsweredOnce'
  BY <1>1, <1>3, <1>4, <1>9 DEF IInv, AnsweredOnce
<1>15. ActedOnce'
  BY <1>1, <1>2, <1>3, <1>4, <1>9, ToolsRest DEF Model
<1> QED
  BY <1>10, <1>11, <1>13, <1>14, <1>15 DEF IInv

-----------------------------------------------------------------------------
(* A tool: it is started in the journal, then it acts.                       *)

\* The permits, while no call is made and nobody is given one.
LEMMA PermitsRest ==
  ASSUME IInv, UNCHANGED office, world'.reached = world.reached, journal'.models = journal.models,
         \A p : SaidIn(journal', p) => SaidIn(journal, p), \A p : ~Pending(p)'
  PROVE  PermitsKnown'
<1>1. OfItsStep'
  BY DEF IInv, PermitsKnown, OfItsStep, Given, PermitSet
<1>2. SaidTruly' /\ GivenOnce'
  BY DEF IInv, PermitsKnown, SaidTruly, GivenOnce, Given, PermitSet
<1>3. ReachedSent'
  BY DEF IInv, PermitsKnown, ReachedSent, Given, PermitSet
<1> QED
  BY <1>1, <1>2, <1>3 DEF PermitsKnown

LEMMA AllowedKeeps == ASSUME IInv, Allowed PROVE IInv'
<1>1. /\ worker.pc = "allow" /\ rpc.method = "allow" /\ office.running = "no" /\ office.launch = "RUNNING"
      /\ worker.linked /\ UNCHANGED <<office, world>>
  BY ToldIs DEF Allowed, Told, Waits
<1>2. Step \in Steps /\ Model.state = "RESPONSE" /\ Model.reply \in Tools
      /\ (Model.reply = "save" \/ journal.tools[Step] = "none")
  BY <1>1 DEF IInv, Where, Doing, Acting, ActedOnce
<1>3. /\ journal' \in Journals /\ journal'.step = journal.step /\ journal'.models = journal.models
      /\ journal'.tools[Step] = "STARTED" /\ \A s \in Steps \ {Step} : journal'.tools[s] = journal.tools[s]
      /\ \A p : SaidIn(journal', p) <=> SaidIn(journal, p)
  BY <1>2, ToolIs DEF Allowed, IInv, Progress
<1>4. /\ worker' \in Workers /\ rpc' \in Requests /\ ~rpc'.told
      /\ \/ Model.reply = "office" /\ worker'.pc = "result" /\ worker'.linked /\ rpc'.method = "result"
         \/ Model.reply # "office" /\ worker'.pc = "run" /\ rpc' = Idle
  <2>1. CASE Model.reply = "office"
    <3> DEFINE request == [method |-> "result", told |-> FALSE, value |-> 0]
    <3>1. Go("result") /\ "result" \in Pcs /\ rpc' = request
      BY <1>1, <2>1 DEF Allowed, Ask, Pcs, Waits
    <3>2. request \in Requests /\ request.method = "result" /\ request.told = FALSE
      BY DEF Requests, Waits
    <3> HIDE DEF request
    <3> QED
      BY <1>1, <2>1, <3>1, <3>2, GoMoves DEF IInv
  <2>2. CASE Model.reply # "office"
    <3>1. Go("run") /\ "run" \in Pcs /\ rpc' = Idle
      BY <2>2 DEF Allowed, Pcs
    <3> QED
      BY <2>2, <3>1, GoMoves, IdleTyped DEF IInv
  <2> QED
    BY <2>1, <2>2
<1>5. Typed'
  BY <1>1, <1>3, <1>4 DEF IInv, Typed
<1>6. Channel'
  BY <1>1, <1>4, IdleTyped DEF IInv, Channel
<1>7. Where'
  BY <1>2, <1>3, <1>4, IdleTyped DEF Where, Doing, Acting, Step, Model
<1>8. \A p : ~Pending(p)'
  BY <1>4 DEF Pending
<1>9. PermitsKnown'
  BY <1>1, <1>3, <1>8, PermitsRest
<1>10. AnsweredOnce'
  BY <1>1, <1>3, <1>4 DEF IInv, AnsweredOnce
<1>11. ActedOnce'
  <2>1. \A s \in Steps : ToolOnce(s)'
    BY <1>1, <1>2, <1>3 DEF IInv, ActedOnce, ToolOnce, Model
  <2>2. Model.reply # "office" => world.effects[Step] = 0
    BY <1>2 DEF IInv, ActedOnce, ToolOnce, Model
  <2> QED
    BY <1>1, <1>2, <1>3, <1>4, <2>1, <2>2, IdleTyped DEF ActedOnce, Step, Model
<1> QED
  BY <1>5, <1>6, <1>7, <1>9, <1>10, <1>11 DEF IInv

LEMMA RunsKeeps == ASSUME IInv, Runs PROVE IInv'
<1>1. worker.pc = "run" /\ worker.pc \notin Waits \cup {"off"} /\ UNCHANGED <<journal, office, rpc>>
  BY DEF Runs, Waits
<1>2. rpc = Idle /\ rpc' = Idle /\ office.running = "no" /\ office.launch = "RUNNING"
  BY <1>1, Free
<1>3. worker' \in Workers /\ worker'.pc = "ran"
  BY GoMoves DEF Runs, IInv, Pcs
<1>4. /\ Step \in Steps /\ Model.state = "RESPONSE" /\ Model.reply \in Tools /\ Model.reply # "office"
      /\ journal.tools[Step] = "STARTED" /\ world.effects[Step] = 0
  BY <1>1 DEF IInv, Where, Doing, Acting, ActedOnce
<1>5. /\ world' \in [reached : SUBSET Nat, answers : [Steps -> Nat], effects : [Steps -> Nat]]
      /\ world'.reached = world.reached /\ world'.answers = world.answers
      /\ world'.effects[Step] <= 1 /\ (Model.reply = "save" => world'.effects[Step] = 0)
      /\ \A s \in Steps \ {Step} : world'.effects[s] = world.effects[s]
  <2>1. world \in [reached : SUBSET Nat, answers : [Steps -> Nat], effects : [Steps -> Nat]]
    BY DEF IInv, Typed
  <2>2. CASE Model.reply = "save"
    BY <1>4, <2>1, <2>2 DEF Runs
  <2>3. CASE Model.reply # "save"
    <3> DEFINE es == [world.effects EXCEPT ![Step] = world.effects[Step] + 1]
    <3>1. world' = [world EXCEPT !.effects = es]
      BY <2>3 DEF Runs
    <3>2. es \in [Steps -> Nat] /\ es[Step] <= 1 /\ \A s \in Steps \ {Step} : es[s] = world.effects[s]
      BY <1>4, <2>1
    <3> HIDE DEF es
    <3> QED
      BY <2>1, <2>3, <3>1, <3>2
  <2> QED
    BY <2>2, <2>3
<1>6. Typed' /\ Channel'
  BY <1>1, <1>2, <1>3, <1>5, IdleTyped DEF IInv, Typed, Channel
<1>7. Where'
  BY <1>1, <1>2, <1>3, <1>4, IdleTyped DEF Where, Doing, Acting, Step, Model
<1>8. \A p : ~Pending(p)'
  BY <1>2, <1>3, IdleTyped DEF Pending
<1>9. PermitsKnown'
  BY <1>1, <1>5, <1>8, PermitsRest
<1>10. AnsweredOnce'
  BY <1>1, <1>3, <1>5 DEF IInv, AnsweredOnce
<1>11. ActedOnce'
  <2>1. \A s \in Steps : ToolOnce(s)'
    BY <1>1, <1>4, <1>5 DEF IInv, ActedOnce, ToolOnce, Model
  <2> QED
    BY <1>1, <1>2, <1>3, <1>4, <2>1, IdleTyped DEF ActedOnce, Step, Model
<1> QED
  BY <1>6, <1>7, <1>9, <1>10, <1>11 DEF IInv

-----------------------------------------------------------------------------
(* The controller: what it is asked, and what its tables say of the permits.   *)

\* An answer that changes no table.
LEMMA TellKeeps ==
  ASSUME IInv, UNCHANGED <<worker, journal, office, world>>, NEW method \in {"allow", "lookup", "result"},
         Asked(method), office.running = "no", NEW value \in Nat, Tell(value)
  PROVE  IInv'
<1>1. rpc.method = method /\ ~rpc.told /\ worker.pc \in {"off", method}
  BY IdleTyped DEF Asked, IInv, Channel
<1>2. rpc' \in Requests /\ (rpc' = Idle \/ (worker.pc = method /\ rpc'.method = method /\ rpc'.told))
  BY <1>1, TellMoves DEF IInv
<1>3. Typed'
  BY <1>2 DEF IInv, Typed
<1>4. Channel'
  BY <1>1, <1>2, IdleTyped DEF IInv, Channel
<1>5. Where'
  BY <1>1, <1>2, IdleTyped DEF IInv, Where, Doing, Step, Model
<1>6. \A p : ~Pending(p)'
  BY <1>1, <1>2, IdleTyped DEF Pending
<1>7. PermitsKnown'
  BY <1>6, PermitsRest
<1>8. AnsweredOnce'
  BY DEF IInv, AnsweredOnce, Step
<1>9. ActedOnce'
  BY <1>1, <1>2, IdleTyped DEF IInv, ActedOnce, ToolOnce, Step, Model
<1> QED
  BY <1>3, <1>4, <1>5, <1>7, <1>8, <1>9 DEF IInv

LEMMA AllowsToolKeeps == ASSUME IInv, AllowsTool PROVE IInv'
<1>1. Asked("allow") /\ Tell(1) /\ UNCHANGED <<worker, journal, office, world>> /\ 1 \in Nat
  BY DEF AllowsTool
<1>2. office.running = "no"
  BY <1>1 DEF IInv, Channel, Asked
<1> QED
  BY <1>1, <1>2, TellKeeps

LEMMA FindsReceiptKeeps == ASSUME IInv, FindsReceipt PROVE IInv'
<1> PICK found \in {0, 1} : found = (IF office.tools[Step] = "DONE" THEN 1 ELSE 0)
  OBVIOUS
<1>1. Asked("lookup") /\ Tell(found) /\ UNCHANGED <<worker, journal, office, world>> /\ found \in Nat
  BY DEF FindsReceipt
<1>2. office.running = "no"
  BY <1>1 DEF IInv, Channel, Asked
<1> QED
  BY <1>1, <1>2, TellKeeps

\* The permits and the calls, while the controller is busy with a tool.
LEMMA BusyKeeps ==
  ASSUME IInv, UNCHANGED <<worker, journal>>, Typed', Channel', rpc.method = "result",
         rpc'.method \in {"result", "none"}, office'.permits = office.permits,
         world'.reached = world.reached, world'.answers = world.answers,
         \A s \in Steps \ {Step} : office'.tools[s] = office.tools[s] /\ world'.effects[s] = world.effects[s],
         office'.tools[Step] # "none", world'.effects[Step] <= 1,
         office'.running = "yes" => office'.tools[Step] = "STARTED" /\ world'.effects[Step] = 0
  PROVE  IInv'
<1>1. worker.pc \in {"off", "result"} /\ Step \in Steps
  BY IdleTyped DEF IInv, Channel, Where
<1>2. Where'
  BY <1>1 DEF IInv, Where, Doing, Step, Model
<1>3. (\A p : ~Pending(p)') /\ \A p : ~Pending(p)
  BY <1>1 DEF Pending
<1>4. \A p : Given(p)' <=> Given(p)
  BY DEF Given, PermitSet
<1>5. PermitsKnown'
  <2>1. OfItsStep'
    BY <1>4 DEF IInv, PermitsKnown, OfItsStep
  <2>2. SaidTruly' /\ GivenOnce'
    BY <1>3, <1>4 DEF IInv, PermitsKnown, SaidTruly, GivenOnce
  <2>3. ReachedSent'
    BY <1>4 DEF IInv, PermitsKnown, ReachedSent
  <2> QED
    BY <2>1, <2>2, <2>3 DEF PermitsKnown
<1>6. AnsweredOnce'
  BY DEF IInv, AnsweredOnce, Step
<1>7. ActedOnce'
  <2>1. journal.tools[Step] = "STARTED" /\ Model.state = "RESPONSE" /\ Model.reply = "office"
    BY DEF IInv, ActedOnce
  <2>2. ToolOnce(Step)'
    BY <2>1 DEF ToolOnce, Model, Step
  <2>3. \A s \in Steps \ {Step} : ToolOnce(s)'
    BY DEF IInv, ActedOnce, ToolOnce
  <2>4. \A s \in Steps : ToolOnce(s)'
    BY <2>2, <2>3 DEF Step
  <2> QED
    BY <1>1, <2>1, <2>4 DEF ActedOnce, Step, Model
<1> QED
  BY <1>2, <1>5, <1>6, <1>7 DEF IInv

LEMMA OfficeTools ==
  ASSUME Typed, Step \in Steps, NEW tool \in Progress, NEW running \in {"no", "yes", "done"},
         office' = [office EXCEPT !.tools[Step] = tool, !.running = running]
  PROVE  /\ office' \in Offices /\ office'.tools[Step] = tool /\ office'.running = running
         /\ \A s \in Steps \ {Step} : office'.tools[s] = office.tools[s]
         /\ office'.permits = office.permits /\ office'.launch = office.launch
<1>1. office \in Offices /\ office.tools \in [Steps -> Progress]
  BY DEF Typed, Offices
<1> DEFINE ts == [office.tools EXCEPT ![Step] = tool]
<1>2. ts \in [Steps -> Progress] /\ ts[Step] = tool /\ \A s \in Steps \ {Step} : ts[s] = office.tools[s]
  BY <1>1
<1>3. office' = [office EXCEPT !.tools = ts, !.running = running]
  OBVIOUS
<1> HIDE DEF ts
<1> QED
  BY <1>1, <1>2, <1>3 DEF Offices

LEMMA TakesToolKeeps == ASSUME IInv, TakesTool PROVE IInv'
<1>1. /\ rpc.method = "result" /\ ~rpc.told /\ office.up /\ office.running = "no" /\ Asked("result")
      /\ UNCHANGED <<worker, journal, world>> /\ 0 \in Nat /\ 1 \in Nat
  BY DEF TakesTool, Asked
<1>2. CASE UNCHANGED office /\ (Tell(0) \/ Tell(1))
  BY <1>1, <1>2, TellKeeps
<1>3. CASE /\ office.tools[Step] \notin {"DONE", "STARTED"} /\ UNCHANGED rpc
           /\ office' = [office EXCEPT !.tools[Step] = "STARTED", !.running = "yes"]
  <2>1. Step \in Steps /\ Model.state = "RESPONSE" /\ Model.reply = "office" /\ office.tools[Step] = "none"
    BY <1>1, <1>3 DEF IInv, Where, ActedOnce, Typed, Offices, Progress
  <2>2. world.effects[Step] = 0
    BY <2>1 DEF IInv, ActedOnce, ToolOnce, Model
  <2>3. /\ office' \in Offices /\ office'.tools[Step] = "STARTED" /\ office'.running = "yes"
        /\ \A s \in Steps \ {Step} : office'.tools[s] = office.tools[s]
        /\ office'.permits = office.permits /\ office'.launch = office.launch
    BY <1>3, <2>1, OfficeTools DEF IInv, Progress
  <2>4. Typed' /\ Channel'
    BY <1>1, <1>3, <2>3, IdleTyped DEF IInv, Typed, Channel
  <2> QED
    BY <1>1, <1>3, <2>2, <2>3, <2>4, BusyKeeps
<1> QED
  BY <1>1, <1>2, <1>3 DEF TakesTool

LEMMA HandlesToolKeeps == ASSUME IInv, NEW atOnce \in BOOLEAN, HandlesTool(atOnce) PROVE IInv'
<1>1. /\ office.running = "yes" /\ rpc.method = "result" /\ ~rpc.told /\ UNCHANGED <<worker, journal>>
      /\ office.tools[Step] = "STARTED" /\ world.effects[Step] = 0 /\ Step \in Steps
      /\ office.launch = "RUNNING"
  BY DEF HandlesTool, IInv, Channel, ActedOnce, Where
<1>2. /\ world' \in [reached : SUBSET Nat, answers : [Steps -> Nat], effects : [Steps -> Nat]]
      /\ world'.reached = world.reached /\ world'.answers = world.answers
      /\ world'.effects[Step] <= 1 /\ \A s \in Steps \ {Step} : world'.effects[s] = world.effects[s]
  <2> DEFINE es == [world.effects EXCEPT ![Step] = world.effects[Step] + 1]
  <2>1. world \in [reached : SUBSET Nat, answers : [Steps -> Nat], effects : [Steps -> Nat]]
    BY DEF IInv, Typed
  <2>2. world' = [world EXCEPT !.effects = es]
    BY DEF HandlesTool
  <2>3. es \in [Steps -> Nat] /\ es[Step] <= 1 /\ \A s \in Steps \ {Step} : es[s] = world.effects[s]
    BY <1>1, <2>1
  <2> HIDE DEF es
  <2> QED
    BY <2>1, <2>2, <2>3
<1>3. /\ office' \in Offices /\ office'.tools[Step] # "none" /\ office'.running # "yes"
      /\ \A s \in Steps \ {Step} : office'.tools[s] = office.tools[s]
      /\ office'.permits = office.permits /\ office'.launch = office.launch
      /\ \/ office'.running = "no" /\ Tell(1)
         \/ office'.running = "done" /\ rpc' = rpc
  <2>1. CASE atOnce
    <3>1. office' = [office EXCEPT !.tools[Step] = "DONE", !.running = "no"] /\ Tell(1)
      BY <2>1 DEF HandlesTool
    <3> QED
      BY <1>1, <3>1, OfficeTools DEF IInv, Progress
  <2>2. CASE ~atOnce
    <3>1. office' = [office EXCEPT !.running = "done"] /\ rpc' = rpc /\ office \in Offices
      BY <2>2 DEF HandlesTool, IInv, Typed
    <3> QED
      BY <1>1, <3>1 DEF Offices
  <2> QED
    BY <2>1, <2>2
<1>4. rpc' \in Requests /\ rpc'.method \in {"result", "none"} /\ (office'.running = "done" => ~rpc'.told)
      /\ (rpc' = rpc \/ rpc' = Idle \/ rpc'.method = worker.pc) /\ (office'.running = "done" => rpc' = rpc)
  BY <1>1, <1>3, TellMoves, IdleTyped DEF IInv, Typed
<1>5. Typed'
  BY <1>1, <1>2, <1>3, <1>4 DEF IInv, Typed
<1>6. Channel'
  <2>1. CASE rpc' = rpc /\ office'.running = "done"
    BY <1>1, <1>3, <2>1, IdleTyped DEF IInv, Channel
  <2>2. CASE Tell(1) /\ office'.running = "no"
    <3>1. rpc' = Idle \/ (rpc'.method = "result" /\ worker.pc = "result")
      BY <1>1, <2>2, TellMoves, IdleTyped DEF IInv
    <3>2. worker.pc = "result" => worker.linked
      BY <1>1, IdleTyped DEF IInv, Channel
    <3> QED
      BY <1>1, <1>3, <2>2, <3>1, <3>2, IdleTyped DEF Channel
  <2> QED
    BY <1>3, <2>1, <2>2
<1> QED
  BY <1>1, <1>2, <1>3, <1>4, <1>5, <1>6, BusyKeeps

LEMMA FilesReceiptKeeps == ASSUME IInv, FilesReceipt PROVE IInv'
<1>1. /\ office.running = "done" /\ rpc.method = "result" /\ ~rpc.told /\ UNCHANGED <<worker, journal, world>>
      /\ Step \in Steps /\ office.launch = "RUNNING" /\ Tell(1)
  BY DEF FilesReceipt, IInv, Channel, Where
<1>2. /\ office' \in Offices /\ office'.tools[Step] = "DONE" /\ office'.running = "no"
      /\ \A s \in Steps \ {Step} : office'.tools[s] = office.tools[s]
      /\ office'.permits = office.permits /\ office'.launch = office.launch
  BY <1>1, OfficeTools DEF FilesReceipt, IInv, Progress
<1>3. rpc' \in Requests /\ (rpc' = Idle \/ (rpc'.method = "result" /\ worker.pc = "result"))
  BY <1>1, TellMoves DEF IInv
<1>4. worker.pc = "result" => worker.linked
  BY <1>1, IdleTyped DEF IInv, Channel
<1>5. Typed'
  BY <1>1, <1>2, <1>3 DEF IInv, Typed
<1>6. Channel'
  BY <1>1, <1>2, <1>3, <1>4, IdleTyped DEF Channel
<1>7. world.effects[Step] <= 1
  BY <1>1 DEF IInv, ActedOnce, ToolOnce
<1> QED
  BY <1>1, <1>2, <1>3, <1>5, <1>6, <1>7, IdleTyped, BusyKeeps

\* The tables that say of permits and tools what they said before.
LEMMA TablesKeep ==
  ASSUME IInv, UNCHANGED <<journal, world>>, Typed', Channel', office'.permits = office.permits,
         office'.tools = office.tools, office'.running \in {office.running, "no"}, rpc' \in {rpc, Idle},
         \/ worker'.pc = worker.pc /\ worker'.then = worker.then /\ worker'.permit = worker.permit
         \/ worker'.pc = "open"
  PROVE  IInv'
<1>1. Where'
  BY IdleTyped DEF IInv, Where, Doing, Acting, Step, Model
<1>2. \A p : Pending(p)' => Pending(p)
  BY IdleTyped DEF Pending
<1>3. \A p : Given(p)' <=> Given(p)
  BY DEF Given, PermitSet
<1>4. PermitsKnown'
  <2>1. OfItsStep' /\ ReachedSent'
    BY <1>3 DEF IInv, PermitsKnown, OfItsStep, ReachedSent
  <2>2. SaidTruly'
    BY <1>2, <1>3 DEF IInv, PermitsKnown, SaidTruly
  <2>3. GivenOnce'
    BY <1>2, <1>3 DEF IInv, PermitsKnown, GivenOnce, Step, Model
  <2> QED
    BY <2>1, <2>2, <2>3 DEF PermitsKnown
<1>5. AnsweredOnce'
  BY DEF IInv, AnsweredOnce, Step
<1>6. ActedOnce'
  BY IdleTyped DEF IInv, ActedOnce, ToolOnce, Step, Model
<1> QED
  BY <1>1, <1>4, <1>5, <1>6 DEF IInv

LEMMA LaunchesKeeps == ASSUME IInv, Launches PROVE IInv'
<1>1. /\ worker.pc = "off" /\ office.launch # "RUNNING" /\ UNCHANGED <<journal, rpc, world>>
      /\ office' = [office EXCEPT !.launch = "RUNNING", !.attempt = "running"]
      /\ worker' = [pc |-> "open", then |-> "", permit |-> 0, linked |-> TRUE] /\ office \in Offices
  BY DEF Launches, IInv, Typed
<1>2. rpc = Idle /\ office.running = "no"
  BY <1>1 DEF IInv, Channel
<1>3. /\ office' \in Offices /\ office'.permits = office.permits /\ office'.tools = office.tools
      /\ office'.running = office.running /\ office'.launch = "RUNNING"
  BY <1>1 DEF Offices
<1>4. worker' \in Workers /\ worker'.pc = "open"
  BY <1>1 DEF Workers, Pcs, Thens
<1>5. Typed'
  BY <1>1, <1>3, <1>4 DEF IInv, Typed
<1>6. Channel'
  BY <1>1, <1>2, <1>3, <1>4, IdleTyped DEF Channel
<1> QED
  BY <1>1, <1>3, <1>4, <1>5, <1>6, TablesKeep

LEMMA OfficeDiesKeeps == ASSUME IInv, OfficeDies PROVE IInv'
<1>1. /\ office' = [office EXCEPT !.up = FALSE, !.running = "no"] /\ rpc' = Idle
      /\ worker' = [worker EXCEPT !.linked = FALSE] /\ UNCHANGED <<journal, world>>
      /\ office \in Offices /\ worker \in Workers
  BY DEF OfficeDies, IInv, Typed
<1>2. /\ office' \in Offices /\ office'.permits = office.permits /\ office'.tools = office.tools
      /\ office'.running = "no" /\ office'.launch = office.launch
  BY <1>1 DEF Offices
<1>3. /\ worker' \in Workers /\ worker'.pc = worker.pc /\ worker'.then = worker.then
      /\ worker'.permit = worker.permit
  BY <1>1 DEF Workers
<1>4. Typed'
  BY <1>1, <1>2, <1>3, IdleTyped DEF IInv, Typed
<1>5. Channel'
  BY <1>1, <1>2, <1>3, IdleTyped DEF IInv, Channel
<1> QED
  BY <1>1, <1>2, <1>3, <1>4, <1>5, TablesKeep

LEMMA OfficeStartsKeeps == ASSUME IInv, OfficeStarts PROVE IInv'
<1>1. office' = [office EXCEPT !.up = TRUE] /\ UNCHANGED <<worker, journal, rpc, world>> /\ office \in Offices
  BY DEF OfficeStarts, IInv, Typed
<1>2. /\ office' \in Offices /\ office'.permits = office.permits /\ office'.tools = office.tools
      /\ office'.running = office.running /\ office'.launch = office.launch
  BY <1>1 DEF Offices
<1>3. Typed'
  BY <1>1, <1>2 DEF IInv, Typed
<1>4. Channel'
  BY <1>1, <1>2 DEF IInv, Channel
<1> QED
  BY <1>1, <1>2, <1>3, <1>4, TablesKeep

\* Tables that differ from the controller's only in what they say of the state of a permit,
\* and of the attempt.
Kept(o) ==
  /\ o \in Offices /\ o.up = office.up /\ o.launch = office.launch /\ o.running = office.running
  /\ o.tools = office.tools /\ DOMAIN o.permits = PermitSet
  /\ \A p \in PermitSet : o.permits[p].op = office.permits[p].op /\ o.permits[p].granted = office.permits[p].granted

LEMMA FailedIs ==
  ASSUME NEW permit \in Permits, NEW notSent \in BOOLEAN, NEW q, q = Failed(permit, notSent)
  PROVE  /\ q \in Permits /\ q.op = permit.op /\ q.granted = permit.granted
         /\ q.state = "NOT_SENT" => permit.state = "NOT_SENT" \/ notSent
  BY DEF Failed, Permits

LEMMA AnsweredIs ==
  ASSUME NEW permit \in Permits, NEW q, q = Answered(permit)
  PROVE  q \in Permits /\ q.op = permit.op /\ q.granted = permit.granted /\ q.state # "NOT_SENT"
  BY DEF Answered, Permits

\* New states for the permits.
LEMMA SequenceOf ==
  ASSUME NEW S, NEW q \in Seq(S), NEW f, f = [p \in DOMAIN q |-> f[p]], \A p \in DOMAIN q : f[p] \in S
  PROVE  f \in Seq(S)
<1>1. DOMAIN q = 1..Len(q) /\ Len(q) \in Nat
  OBVIOUS
<1>2. f \in [1..Len(q) -> S]
  BY <1>1
<1> QED
  BY <1>1, <1>2

LEMMA CaughtIs ==
  ASSUME Typed, NEW last \in Nat, last <= Len(journal.events), NEW o, o = Caught(last)
  PROVE  Kept(o) /\ \A p \in PermitSet : o.permits[p].state = "NOT_SENT" =>
           office.permits[p].state = "NOT_SENT" \/ SaidIn(journal, p)
<1> DEFINE new == (office.applied + 1)..last
           told(kind, p) == \E n \in new : journal.events[n].kind = kind /\ journal.events[n].permit = p
           ends == {k \in Over : \E n \in new : journal.events[n].kind = k}
           after(p) == IF told("answer", p) THEN Answered(office.permits[p])
                       ELSE IF told("notSent", p) THEN Failed(office.permits[p], TRUE)
                       ELSE IF told("unknown", p) THEN Failed(office.permits[p], FALSE)
                       ELSE office.permits[p]
           permits == [p \in PermitSet |-> after(p)]
           attempt == IF office.attempt \in Over \/ ends = {} THEN office.attempt ELSE CHOOSE k \in ends : TRUE
           applied == IF last > office.applied THEN last ELSE office.applied
<1>1. o = [office EXCEPT !.permits = permits, !.attempt = attempt, !.applied = applied]
  BY DEF Caught
<1>2. office \in Offices /\ office.permits \in Seq(Permits) /\ office.applied \in Nat
      /\ office.attempt \in {"pending", "running", "suspended"} \cup Over
  BY DEF Typed, Offices
<1>3. journal.events \in Seq([kind : Kinds, permit : Nat]) /\ DOMAIN journal.events = 1..Len(journal.events)
      /\ Len(journal.events) \in Nat
  <2>1. journal.events \in Seq([kind : Kinds, permit : Nat])
    BY DEF Typed, Journals
  <2> QED
    BY ONLY <2>1
<1>4. new \subseteq DOMAIN journal.events
  BY <1>2, <1>3
<1>5. \A p \in PermitSet : office.permits[p] \in Permits
  BY <1>2 DEF PermitSet
<1>6. \A p \in PermitSet : /\ after(p) \in Permits /\ after(p).op = office.permits[p].op
                           /\ after(p).granted = office.permits[p].granted
                           /\ after(p).state = "NOT_SENT" =>
                                office.permits[p].state = "NOT_SENT" \/ told("notSent", p)
  <2> HIDE DEF new
  <2> TAKE p \in PermitSet
  <2>1. /\ Answered(office.permits[p]) \in Permits /\ Answered(office.permits[p]).op = office.permits[p].op
        /\ Answered(office.permits[p]).granted = office.permits[p].granted
        /\ Answered(office.permits[p]).state # "NOT_SENT"
    BY <1>5, AnsweredIs
  <2>2. \A b \in BOOLEAN :
          /\ Failed(office.permits[p], b) \in Permits /\ Failed(office.permits[p], b).op = office.permits[p].op
          /\ Failed(office.permits[p], b).granted = office.permits[p].granted
          /\ Failed(office.permits[p], b).state = "NOT_SENT" => office.permits[p].state = "NOT_SENT" \/ b
    BY <1>5, FailedIs
  <2> HIDE DEF told
  <2> QED
    BY <1>5, <2>1, <2>2
<1>7. \A p \in PermitSet : told("notSent", p) => SaidIn(journal, p)
  BY <1>4 DEF SaidIn
<1>8. attempt \in {"pending", "running", "suspended"} \cup Over /\ applied \in Nat
  BY <1>2
<1> HIDE DEF after, told, new, attempt, applied, ends
<1>9. permits \in Seq(Permits) /\ DOMAIN permits = PermitSet /\ \A p \in PermitSet : permits[p] = after(p)
  <2>1. permits = [p \in DOMAIN office.permits |-> permits[p]] /\ \A p \in DOMAIN office.permits : permits[p] \in Permits
    BY <1>6 DEF PermitSet
  <2>2. permits \in Seq(Permits)
    <3> HIDE DEF permits
    <3> QED
      BY <1>2, <2>1, SequenceOf
  <2> QED
    BY <2>2
<1> HIDE DEF permits
<1>10. /\ o \in Offices /\ o.permits = permits /\ o.up = office.up /\ o.launch = office.launch
       /\ o.running = office.running /\ o.tools = office.tools
  BY <1>1, <1>2, <1>8, <1>9 DEF Offices
<1> QED
  BY <1>6, <1>7, <1>9, <1>10 DEF Kept

\* What recover() knows of a call that may be given back.
GivesBack(o, p) ==
  \/ \E s \in Steps : journal.models[s].permit = p /\ journal.models[s].permit # 0
                       /\ journal.models[s].state = "NOT_SENT"
  \/ journal.models[o.permits[p].op].permit = 0 /\ o.permits[p].granted
  \/ p = 1 /\ ~o.permits[1].granted

LEMMA ReleasedIs ==
  ASSUME Typed, NEW o, Kept(o), NEW r, r = Released(o)
  PROVE  Kept(r) /\ r.attempt = o.attempt /\ \A p \in PermitSet :
           r.permits[p].state = "NOT_SENT" => o.permits[p].state = "NOT_SENT" \/ GivesBack(o, p)
<1> DEFINE open == {s \in Steps : journal.models[s].permit # 0 /\ journal.models[s].state # "RESPONSE"}
           known(p) == \E s \in open : journal.models[s].permit = p
           notSent(p) == \E s \in open : journal.models[s].permit = p /\ Left(journal.models[s])
           ungranted(p) == journal.models[o.permits[p].op].state = "PREPARED"
                             /\ journal.models[o.permits[p].op].permit = 0 /\ o.permits[p].granted
           first == ~o.permits[1].granted
           after(p) == IF known(p) THEN Failed(o.permits[p], notSent(p))
                       ELSE IF ungranted(p) \/ (p = 1 /\ first) THEN Failed(o.permits[p], TRUE)
                       ELSE o.permits[p]
           permits == [p \in PermitSet |-> after(p)]
<1>1. r = [o EXCEPT !.permits = permits]
  BY DEF Released
<1>2. o \in Offices /\ o.permits \in Seq(Permits) /\ DOMAIN o.permits = PermitSet
  BY DEF Kept, Offices
<1>3. \A p \in PermitSet : o.permits[p] \in Permits
  BY <1>2
<1>4. \A p \in PermitSet : /\ after(p) \in Permits /\ after(p).op = o.permits[p].op
                           /\ after(p).granted = o.permits[p].granted
                           /\ after(p).state = "NOT_SENT" =>
                                o.permits[p].state = "NOT_SENT" \/ notSent(p) \/ ungranted(p) \/ (p = 1 /\ first)
  <2> TAKE p \in PermitSet
  <2>1. \A b \in BOOLEAN :
          /\ Failed(o.permits[p], b) \in Permits /\ Failed(o.permits[p], b).op = o.permits[p].op
          /\ Failed(o.permits[p], b).granted = o.permits[p].granted
          /\ Failed(o.permits[p], b).state = "NOT_SENT" => o.permits[p].state = "NOT_SENT" \/ b
    BY <1>3, FailedIs
  <2>2. notSent(p) \in BOOLEAN
    OBVIOUS
  <2> HIDE DEF known, notSent, ungranted, first
  <2> QED
    BY <1>3, <2>1, <2>2
<1>5. \A p \in PermitSet : notSent(p) \/ ungranted(p) \/ (p = 1 /\ first) => GivesBack(o, p)
  BY DEF GivesBack, Left
<1> HIDE DEF known, notSent, ungranted, first, open, after
<1>6. permits \in Seq(Permits) /\ DOMAIN permits = PermitSet /\ \A p \in PermitSet : permits[p] = after(p)
  <2>1. permits = [p \in DOMAIN o.permits |-> permits[p]] /\ \A p \in DOMAIN o.permits : permits[p] \in Permits
    BY <1>2, <1>4
  <2>2. permits \in Seq(Permits)
    <3> HIDE DEF permits
    <3> QED
      BY <1>2, <2>1, SequenceOf
  <2> QED
    BY <2>2
<1> HIDE DEF permits
<1>7. /\ r \in Offices /\ r.permits = permits /\ r.up = o.up /\ r.launch = o.launch
      /\ r.running = o.running /\ r.tools = o.tools /\ r.attempt = o.attempt
  BY <1>1, <1>2, <1>6 DEF Offices
<1> QED
  BY <1>4, <1>5, <1>6, <1>7 DEF Kept

\* Nobody is given a permit, and no money of a call that reached the provider is given back.
LEMMA PermitsMove ==
  ASSUME IInv, UNCHANGED <<journal, world>>, office' \in Offices, DOMAIN office'.permits = PermitSet,
         \A p \in PermitSet : /\ office'.permits[p].op = office.permits[p].op
                             /\ office'.permits[p].granted = office.permits[p].granted,
         \A p \in world.reached : office'.permits[p].state # "NOT_SENT",
         \A p : ~Pending(p)'
  PROVE  PermitsKnown'
<1>1. \A p : Given(p)' <=> Given(p)
  BY DEF Given, PermitSet
<1>2. OfItsStep'
  BY <1>1 DEF IInv, PermitsKnown, OfItsStep, Given
<1>3. SaidTruly' /\ GivenOnce'
  BY <1>1 DEF IInv, PermitsKnown, SaidTruly, GivenOnce
<1>4. ReachedSent'
  BY <1>1 DEF IInv, PermitsKnown, ReachedSent, Given
<1> QED
  BY <1>2, <1>3, <1>4 DEF PermitsKnown

LEMMA TakesReceiptKeeps == ASSUME IInv, TakesReceipt PROVE IInv'
<1>1. /\ rpc.method = "ack" /\ ~rpc.told /\ UNCHANGED <<worker, journal, world>> /\ Tell(1)
      /\ worker.pc \in {"off", "ack"} /\ office.running = "no" /\ journal.acked < Len(journal.events)
  BY IdleTyped DEF TakesReceipt, Asked, IInv, Channel
<1>2. journal.acked + 1 \in Nat /\ journal.acked + 1 <= Len(journal.events)
  <2>1. journal \in Journals
    BY DEF IInv, Typed
  <2>2. journal.acked \in Nat /\ journal.events \in Seq([kind : Kinds, permit : Nat])
    BY <2>1 DEF Journals
  <2>3. Len(journal.events) \in Nat
    BY ONLY <2>2
  <2> QED
    BY ONLY <1>1, <2>2, <2>3
<1>3. Kept(office') /\ \A p \in PermitSet : office'.permits[p].state = "NOT_SENT" =>
        office.permits[p].state = "NOT_SENT" \/ SaidIn(journal, p)
  <2>1. office' = Caught(journal.acked + 1)
    BY DEF TakesReceipt
  <2> QED
    BY <1>2, <2>1, CaughtIs DEF IInv
<1>4. rpc' \in Requests /\ (rpc' = Idle \/ (rpc'.method = "ack" /\ worker.pc = "ack"))
  BY <1>1, TellMoves DEF IInv
<1>5. worker.pc = "ack" => worker.linked
  BY <1>1, IdleTyped DEF IInv, Channel
<1>6. Typed'
  BY <1>1, <1>3, <1>4 DEF IInv, Typed, Kept, PermitSet
<1>7. Channel'
  BY <1>1, <1>3, <1>4, <1>5, IdleTyped DEF IInv, Channel, Kept
<1>8. Where'
  BY <1>1, <1>4, IdleTyped DEF IInv, Where, Doing, Acting, Step, Model
<1>9. \A p : ~Pending(p)'
  BY <1>1, <1>4, IdleTyped DEF Pending
<1>10. \A p \in world.reached : office'.permits[p].state # "NOT_SENT"
  BY <1>3 DEF IInv, Typed, PermitsKnown, SaidTruly, ReachedSent, Given
<1>11. PermitsKnown'
  BY <1>1, <1>3, <1>9, <1>10, PermitsMove DEF Kept
<1>12. AnsweredOnce'
  BY <1>1 DEF IInv, AnsweredOnce, Step
<1>13. ActedOnce'
  BY <1>1, <1>3, <1>4, IdleTyped DEF IInv, ActedOnce, ToolOnce, Step, Model, Kept
<1> QED
  BY <1>6, <1>7, <1>8, <1>11, <1>12, <1>13 DEF IInv

LEMMA GrantsModelKeeps == ASSUME WorkerConstants, IInv, GrantsModel PROVE IInv'
<1> DEFINE new == [op |-> Step, state |-> "SENT", granted |-> TRUE, answered |-> FALSE]
<1>1. /\ rpc.method = "grant" /\ ~rpc.told /\ UNCHANGED <<worker, journal, world>>
      /\ worker.pc \in {"off", "grant"} /\ office.running = "no"
      /\ Step \in Steps /\ Model.state = "PREPARED"
  BY IdleTyped DEF GrantsModel, Asked, IInv, Channel, Where
<1>2. office \in Offices /\ office.permits \in Seq(Permits) /\ 1 \in PermitSet
      /\ PermitSet = 1..Len(office.permits) /\ Len(office.permits) \in Nat
  <2>1. office \in Offices /\ 1 \in PermitSet
    BY DEF IInv, Typed, PermitSet
  <2>2. office.permits \in Seq(Permits)
    BY <2>1 DEF Offices
  <2> QED
    BY <2>1, <2>2 DEF PermitSet
<1>3. /\ new \in Permits /\ new.op = Step /\ new.state = "SENT" /\ new.granted = TRUE
  <2>1. Step \in Nat
    BY <1>1 DEF Steps, WorkerConstants
  <2> QED
    BY <2>1 DEF Permits
<1> HIDE DEF new
\* The permit p is new, or was of the launch and given to nobody.
<1>4. PICK p \in Nat :
        /\ ~Given(p) /\ Tell(p) /\ office' \in Offices /\ p \in DOMAIN office'.permits
        /\ office'.permits[p] = new /\ DOMAIN office'.permits = PermitSet \cup {p}
        /\ \A q \in PermitSet \ {p} : office'.permits[q] = office.permits[q]
        /\ office'.running = office.running /\ office'.launch = office.launch /\ office'.tools = office.tools
  <2>1. CASE /\ ~office.permits[1].granted /\ Tell(1)
             /\ office' = [office EXCEPT !.permits[1] = new]
    <3> DEFINE ps == [office.permits EXCEPT ![1] = new]
    <3>1. office' = [office EXCEPT !.permits = ps]
      BY <2>1
    <3>2. /\ ps \in Seq(Permits) /\ DOMAIN ps = PermitSet /\ ps[1] = new
          /\ \A q \in PermitSet \ {1} : ps[q] = office.permits[q]
      BY <1>2, <1>3
    <3> HIDE DEF ps
    <3>3. /\ office' \in Offices /\ office'.permits = ps /\ office'.running = office.running
          /\ office'.launch = office.launch /\ office'.tools = office.tools
      BY <1>2, <3>1, <3>2 DEF Offices
    <3>4. 1 \in Nat /\ ~Given(1) /\ PermitSet = PermitSet \cup {1}
      BY <1>2, <2>1 DEF Given
    <3> QED
      BY <1>2, <2>1, <3>2, <3>3, <3>4
  <2>2. CASE /\ Tell(Len(office.permits) + 1)
             /\ office' = [office EXCEPT !.permits = Append(office.permits, new)]
    <3> DEFINE ps == Append(office.permits, new)
               p == Len(office.permits) + 1
    <3>1. /\ ps \in Seq(Permits) /\ DOMAIN ps = PermitSet \cup {p} /\ ps[p] = new
          /\ \A q \in PermitSet \ {p} : ps[q] = office.permits[q]
      BY <1>2, <1>3
    <3>2. p \in Nat /\ p \notin PermitSet
      BY <1>2
    <3> HIDE DEF ps
    <3>3. /\ office' \in Offices /\ office'.permits = ps /\ office'.running = office.running
          /\ office'.launch = office.launch /\ office'.tools = office.tools
      BY <1>2, <2>2, <3>1 DEF Offices, ps
    <3>4. ~Given(p)
      BY <3>2 DEF Given
    <3> QED
      BY <2>2, <3>1, <3>2, <3>3, <3>4
  <2> QED
    BY <2>1, <2>2 DEF GrantsModel, new
<1>5. /\ rpc' \in Requests
      /\ rpc' = Idle \/ (rpc'.method = "grant" /\ rpc'.value = p /\ worker.pc = "grant")
  BY <1>1, <1>4, TellMoves DEF IInv
<1>6. worker.pc = "grant" => worker.linked
  BY <1>1, IdleTyped DEF IInv, Channel
<1>7. Typed'
  <2>1. 1 \in DOMAIN office'.permits
    BY <1>2, <1>4
  <2> QED
    BY <1>1, <1>4, <1>5, <2>1 DEF IInv, Typed
<1>8. Channel'
  BY <1>1, <1>4, <1>5, <1>6, IdleTyped DEF IInv, Channel
<1>9. Where'
  BY <1>1, <1>5, IdleTyped DEF IInv, Where, Doing, Acting, Step, Model
<1>10. \A q : Pending(q)' => q = p
  BY <1>1, <1>5, IdleTyped DEF Pending
<1>11. (\A q : Given(q)' <=> Given(q) \/ q = p) /\ \A q : Given(q) => office'.permits[q] = office.permits[q]
  BY <1>3, <1>4 DEF Given, PermitSet
<1>12. PermitsKnown'
  <2>1. OfItsStep'
    BY <1>1, <1>11 DEF IInv, PermitsKnown, OfItsStep
  <2>2. SaidTruly'
    BY <1>1, <1>4, <1>10, <1>11 DEF IInv, PermitsKnown, SaidTruly
  <2>3. GivenOnce'
    BY <1>1, <1>3, <1>4, <1>10, <1>11 DEF IInv, PermitsKnown, GivenOnce, ReachedSent, Step, Model
  <2>4. ReachedSent'
    BY <1>1, <1>11 DEF IInv, PermitsKnown, ReachedSent
  <2> QED
    BY <2>1, <2>2, <2>3, <2>4 DEF PermitsKnown
<1>13. AnsweredOnce'
  BY <1>1 DEF IInv, AnsweredOnce, Step
<1>14. ActedOnce'
  BY <1>1, <1>4, <1>5, IdleTyped DEF IInv, ActedOnce, ToolOnce, Step, Model
<1> QED
  BY <1>7, <1>8, <1>9, <1>12, <1>13, <1>14 DEF IInv

LEMMA RecoversKeeps == ASSUME IInv, Recovers PROVE IInv'
<1> PICK caught : caught = Caught(Len(journal.events))
  OBVIOUS
<1> PICK told : told = Released(caught)
  OBVIOUS
<1>1. /\ worker.pc = "off" /\ rpc = Idle /\ office.running = "no" /\ UNCHANGED <<worker, journal, rpc, world>>
  BY DEF Recovers
<1>2. PICK found \in {"suspended", "blocked", "failed"} \cup Over, launch \in {"SUSPENDED", "EXITED"} :
        office' = [told EXCEPT !.attempt = found, !.launch = launch]
  BY DEF Recovers
<1>3. Len(journal.events) \in Nat /\ Len(journal.events) <= Len(journal.events)
  <2>1. journal \in Journals
    BY DEF IInv, Typed
  <2>2. journal.events \in Seq([kind : Kinds, permit : Nat])
    BY <2>1 DEF Journals
  <2>3. Len(journal.events) \in Nat
    BY ONLY <2>2
  <2> QED
    BY ONLY <2>3
<1>4. Kept(caught) /\ \A p \in PermitSet : caught.permits[p].state = "NOT_SENT" =>
        office.permits[p].state = "NOT_SENT" \/ SaidIn(journal, p)
  BY <1>3, CaughtIs DEF IInv
<1>5. Kept(told) /\ \A p \in PermitSet : told.permits[p].state = "NOT_SENT" =>
        caught.permits[p].state = "NOT_SENT" \/ GivesBack(caught, p)
  BY <1>4, ReleasedIs DEF IInv
<1>6. /\ office' \in Offices /\ office'.permits = told.permits /\ office'.running = "no"
      /\ office'.tools = office.tools
  <2>1. told \in Offices /\ told.running = office.running /\ told.tools = office.tools
    BY <1>5 DEF Kept
  <2> QED
    BY <1>1, <1>2, <2>1 DEF Offices, Over
<1>7. \A p \in world.reached : office'.permits[p].state # "NOT_SENT"
  <2> SUFFICES ASSUME NEW p \in world.reached PROVE told.permits[p].state # "NOT_SENT"
    BY <1>6
  <2>1. /\ p \in PermitSet /\ office.permits[p].granted /\ office.permits[p].state # "NOT_SENT"
        /\ office.permits[p].op \in Steps /\ journal.models[office.permits[p].op].permit = p
        /\ journal.models[office.permits[p].op].state # "NOT_SENT"
    BY DEF IInv, PermitsKnown, ReachedSent, Given
  <2>2. p \in Nat /\ p # 0
    <3>1. office.permits \in Seq(Permits)
      BY DEF IInv, Typed, Offices
    <3> QED
      BY <2>1, <3>1 DEF PermitSet
  <2>3. caught.permits[p].state # "NOT_SENT"
    BY <1>4, <2>1, <2>2 DEF IInv, PermitsKnown, SaidTruly
  <2>4. ~GivesBack(caught, p)
    <3>1. caught.permits[p].op = office.permits[p].op /\ caught.permits[p].granted
      BY <1>4, <2>1 DEF Kept
    <3>2. \A s \in Steps : journal.models[s].permit = p => s = office.permits[p].op
      BY <2>2 DEF IInv, PermitsKnown, OfItsStep
    <3> QED
      BY <2>1, <2>2, <3>1, <3>2 DEF GivesBack
  <2> QED
    BY <1>5, <2>1, <2>3, <2>4
<1>8. Typed'
  BY <1>1, <1>5, <1>6 DEF IInv, Typed, Kept, PermitSet
<1>9. Channel'
  BY <1>1, <1>6, IdleTyped DEF IInv, Channel
<1>10. Where'
  BY <1>1, IdleTyped DEF IInv, Where, Doing, Step, Model
<1>11. \A p : ~Pending(p)'
  BY <1>1, IdleTyped DEF Pending
<1>12. PermitsKnown'
  BY <1>1, <1>5, <1>6, <1>7, <1>11, PermitsMove DEF Kept
<1>13. AnsweredOnce'
  BY <1>1 DEF IInv, AnsweredOnce, Step
<1>14. ActedOnce'
  BY <1>1, <1>6, IdleTyped DEF IInv, ActedOnce, ToolOnce, Step, Model
<1> QED
  BY <1>8, <1>9, <1>10, <1>12, <1>13, <1>14 DEF IInv

-----------------------------------------------------------------------------
(* The attempt as a whole.                                                   *)
LEMMA Start == ASSUME WorkerConstants, WorkerInit PROVE IInv
<1> DEFINE models == [s \in Steps |-> [state |-> "none", permit |-> 0, tries |-> 0, reply |-> ""]]
           tools == [s \in Steps |-> "none"]
           zeros == [s \in Steps |-> 0]
           first == [op |-> 1, state |-> "SENT", granted |-> FALSE, answered |-> FALSE]
<1>1. /\ worker = [pc |-> "off", then |-> "", permit |-> 0, linked |-> FALSE]
      /\ journal = [made |-> FALSE, step |-> 1, end |-> "", events |-> <<>>, acked |-> 0,
                    models |-> models, tools |-> tools]
      /\ office = [up |-> TRUE, attempt |-> "pending", launch |-> "READY", applied |-> 0, running |-> "no",
                   permits |-> <<first>>, tools |-> tools]
      /\ rpc = Idle /\ world = [reached |-> {}, answers |-> zeros, effects |-> zeros]
  BY DEF WorkerInit
<1>2. models \in [Steps -> Models] /\ tools \in [Steps -> Progress] /\ zeros \in [Steps -> Nat]
      /\ first \in Permits
  BY DEF Models, Progress, Permits
<1>4. \A s \in Steps : models[s].permit = 0 /\ models[s].state = "none" /\ tools[s] = "none" /\ zeros[s] = 0
  OBVIOUS
<1> HIDE DEF models, tools, zeros, first
<1>3. <<first>> \in Seq(Permits) /\ 1 \in DOMAIN <<first>>
  BY ONLY <1>2
<1>13. <<>> \in Seq([kind : Kinds, permit : Nat]) /\ DOMAIN <<>> = {}
  BY ONLY TRUE
<1>5. journal \in Journals /\ DOMAIN journal.events = {} /\ journal.tools = tools /\ journal.models = models
  <2>1. journal.events = <<>> /\ journal.tools = tools /\ journal.models = models
    BY <1>1
  <2> PICK nothing : nothing = <<>>
    OBVIOUS
  <2>2. nothing \in Seq([kind : Kinds, permit : Nat])
    BY <1>13
  <2>3. journal = [made |-> FALSE, step |-> 1, end |-> "", events |-> nothing, acked |-> 0,
                   models |-> models, tools |-> tools]
    BY <1>1
  <2>5. 1 \in Nat \ {0} /\ 0 \in Nat /\ "" \in Over \cup {""} /\ FALSE \in BOOLEAN
    OBVIOUS
  <2>6. models \in [Steps -> Models] /\ tools \in [Steps -> Progress]
    BY <1>2
  <2> HIDE <1>1
  <2>4. journal \in Journals
    BY <2>2, <2>3, <2>5, <2>6 DEF Journals
  <2> QED
    BY <1>13, <2>1, <2>4
<1>6. office \in Offices
  BY <1>1, <1>2, <1>3 DEF Offices
<1>7. worker \in Workers
  BY <1>1 DEF Workers, Pcs, Thens
<1>8. world \in [reached : SUBSET Nat, answers : [Steps -> Nat], effects : [Steps -> Nat]]
  BY <1>1, <1>2
<1>9. Typed
  BY <1>1, <1>3, <1>5, <1>6, <1>7, <1>8, IdleTyped DEF Typed
<1>10. Where /\ Channel
  BY <1>1, IdleTyped DEF Where, Channel, Doing, Acting
<1>11. PermitsKnown
  <2>1. \A p : ~Pending(p)
    BY <1>1, IdleTyped DEF Pending
  <2>2. \A p : ~SaidIn(journal, p)
    BY <1>5 DEF SaidIn
  <2> QED
    BY <1>1, <1>4, <2>1, <2>2 DEF PermitsKnown, OfItsStep, SaidTruly, GivenOnce, ReachedSent
<1>12. AnsweredOnce /\ ActedOnce
  <2>1. world.answers = zeros /\ world.effects = zeros /\ office.tools = tools /\ office.running = "no"
        /\ worker.pc = "off" /\ rpc.method = "none"
    BY <1>1, IdleTyped
  <2>2. \A s \in Steps : ToolOnce(s)
    BY <1>4, <1>5, <2>1 DEF ToolOnce
  <2> QED
    BY <1>4, <1>5, <2>1, <2>2 DEF AnsweredOnce, ActedOnce
<1> QED
  BY <1>9, <1>10, <1>11, <1>12 DEF IInv

LEMMA StepKeeps == ASSUME WorkerConstants, IInv, [WorkerNext]_workerVars PROVE IInv'
<1>1. CASE Opens BY <1>1, OpensKeeps
<1>2. CASE Flush BY <1>2, FlushKeeps
<1>3. CASE Acknowledged BY <1>3, AcknowledgedKeeps
<1>4. CASE Leaves BY <1>4, LeavesKeeps
<1>5. CASE Loops BY <1>5, LoopsKeeps
<1>6. CASE Granted BY <1>6, GrantedKeeps
<1>7. CASE Sends BY <1>7, SendsKeeps
<1>8. CASE NotSent BY <1>8, NotSentKeeps
<1>9. CASE Unanswered BY <1>9, UnansweredKeeps
<1>10. CASE \E answers \in BOOLEAN : Reaches(answers) BY <1>10, ReachesKeeps
<1>11. CASE \E reply \in Replies : Answers(reply) BY <1>11, AnswersKeeps
<1>12. CASE Decides BY <1>12, DecidesKeeps
<1>13. CASE Corrects BY <1>13, CorrectsKeeps
<1>14. CASE NoReply BY <1>14, NoReplyKeeps
<1>15. CASE UsesTool BY <1>15, UsesToolKeeps
<1>16. CASE LooksUp BY <1>16, LooksUpKeeps
<1>17. CASE Allowed BY <1>17, AllowedKeeps
<1>18. CASE Runs BY <1>18, RunsKeeps
<1>19. CASE Receipted BY <1>19, ReceiptedKeeps
<1>20. CASE Disconnected \/ TimesOut \/ Refused BY <1>20, LostKeeps
<1>21. CASE WorkerDies BY <1>21, WorkerDiesKeeps
<1>22. CASE TakesReceipt BY <1>22, TakesReceiptKeeps
<1>23. CASE GrantsModel BY <1>23, GrantsModelKeeps
<1>24. CASE AllowsTool BY <1>24, AllowsToolKeeps
<1>25. CASE FindsReceipt BY <1>25, FindsReceiptKeeps
<1>26. CASE TakesTool BY <1>26, TakesToolKeeps
<1>27. CASE FilesReceipt BY <1>27, FilesReceiptKeeps
<1>28. CASE \E atOnce \in BOOLEAN : HandlesTool(atOnce) BY <1>28, HandlesToolKeeps
<1>29. CASE Launches BY <1>29, LaunchesKeeps
<1>30. CASE Recovers BY <1>30, RecoversKeeps
<1>31. CASE OfficeDies BY <1>31, OfficeDiesKeeps
<1>32. CASE OfficeStarts BY <1>32, OfficeStartsKeeps
<1>33. CASE UNCHANGED workerVars
  <2>1. UNCHANGED <<worker, journal, office, rpc, world>>
    BY <1>33 DEF workerVars
  <2>2. Typed' /\ Channel'
    BY <2>1 DEF IInv, Typed, Channel
  <2> QED
    BY <2>1, <2>2, TablesKeep
<1> QED
  BY <1>1, <1>2, <1>3, <1>4, <1>5, <1>6, <1>7, <1>8, <1>9, <1>10, <1>11, <1>12, <1>13, <1>14, <1>15, <1>16,
    <1>17, <1>18, <1>19, <1>20, <1>21, <1>22, <1>23, <1>24, <1>25, <1>26, <1>27, <1>28, <1>29, <1>30, <1>31,
    <1>32, <1>33 DEF WorkerNext

LEMMA IInvSays == ASSUME IInv PROVE NothingDoneTwice
<1>1. \A s \in Steps : world.answers[s] <= 1 /\ world.effects[s] <= 1
  BY DEF IInv, AnsweredOnce, ActedOnce, ToolOnce
<1>2. \A p \in world.reached : office.permits[p].state # "NOT_SENT"
  BY DEF IInv, PermitsKnown, ReachedSent
<1> QED
  BY <1>1, <1>2 DEF NothingDoneTwice

\* However often the worker and the controller die, time out and come back, a call is answered
\* at most once, a tool other than "save" acts at most once, and the money of a call is given
\* back only if the call never reached the provider (executeCompanyWorker(), recover()).
THEOREM NothingTwice == ASSUME WorkerConstants PROVE WorkerSpec => []NothingDoneTwice
<1>1. WorkerInit => IInv
  BY Start
<1>2. IInv /\ [WorkerNext]_workerVars => IInv'
  BY StepKeeps
<1>3. IInv => NothingDoneTwice
  BY IInvSays
<1> QED
  BY <1>1, <1>2, <1>3, PTL DEF WorkerSpec
=============================================================================

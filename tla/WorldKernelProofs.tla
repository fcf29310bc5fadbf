------------------------- MODULE WorldKernelProofs -------------------------
(***************************************************************************)
(* What the kernel of a world keeps, for any pixels, seeds, replies, limits *)
(* and numbers of runs, rounds and faults.                                  *)
(*                                                                         *)
(* One invariant, IInv, is shown to be inductive.  Its heart is Clean: as    *)
(* long as a round goes on, the only message in flight, the only unsettled  *)
(* call and the only started tool are those of the step the process is at;   *)
(* start() and resumeInterrupted() let a run begin only when there are none. *)
(* Resuming and Recording say how far a batch of effects came, which is all  *)
(* that applyEffects() goes by after a restart.                             *)
(*                                                                         *)
(* There is a lemma for each action, XKeeps, and one for what each property  *)
(* takes from the invariant; the theorems are at the end.                    *)
(***************************************************************************)
EXTENDS WorldKernel, FiniteSetTheorems, SequenceTheorems, WellFoundedInduction, TLAPS

Plans == {d \in Seq(Effects) : Len(d) <= MaxEffects}
CallRow == [run : Runs, bill : {"OPEN", "SETTLED", "REFUNDED"}, outcome : Outcomes,
            tokens : Int, plan : Plans, valid : BOOLEAN]
Process == [pc : Steps \cup Awaits, run : 0..MaxRuns, round : Nat, msg : Messages \cup {<<>>},
            at : Nat \ {0}, count : 0..MaxPerRound, toolFailed : BOOLEAN, tools : BOOLEAN,
            stop : StopReasons, abort : BOOLEAN, suspend : BOOLEAN]

RunRow == [status : RunStates, stop : StopReasons, resume : BOOLEAN, next : Nat, last : Nat,
           started : BOOLEAN, messages : Nat, spent : Nat, reserved : Nat]
MessageRow == [state : MessageStates, to : Pixels, round : Nat, body : Nat]
PixelRow == [energy : Nat, active : BOOLEAN, body : Nat, career : {"none", "active", "candidate"}]
Receipts == {"none", "PENDING"} \cup Recorded
Executions == {"none", "STARTED", "SUCCESS", "FAILED", "SKIPPED"}

(* The types, and that only a seed's reply has effects. *)
CallsTyped ==
  /\ call \in [Messages -> Seq(CallRow)]
  /\ \A n \in Messages : Len(call[n]) <= MaxCalls
  /\ \A n \in Messages \ Seeds : \A k \in Calls(n) : call[n][k].plan = <<>>
Typed ==
  /\ company \in BOOLEAN /\ run \in [Runs -> RunRow] /\ CallsTyped
  /\ mail \in Seq(Messages) /\ msg \in [Messages -> MessageRow]
  /\ effect \in [Messages -> [Indices -> Receipts]] /\ tool \in [Messages -> [Indices -> Executions]]
  /\ pixel \in [Pixels -> PixelRow]
  /\ proc \in Process /\ files \in [Pixels -> Nat] /\ faults \in 0..MaxFaults
  /\ carried \in [Messages -> [Indices -> 0..1]]

-----------------------------------------------------------------------------
(* Where the process is.                                                    *)
Paying == {"reserved", "marked", "calling", "lost"}
Bearing == {"moving", "birth"}
AtEffect == {"tooling", "noBirth"} \cup Bearing
Applying == {"apply"} \cup AtEffect
Stepping == {"step", "refused", "parse", "rejected", "commit"} \cup Paying \cup Applying

StateAt(pc) ==
  CASE pc \in {"step", "reserved"}    -> {"PROCESSING", "RESPONSE_STORED"}
    [] pc = "marked"                  -> {"RESERVED"}
    [] pc \in {"calling", "refused"}  -> {"CALLING"}
    [] pc = "lost"                    -> {"CALL_OUTCOME_UNKNOWN"}
    [] pc \in Bearing                 -> {"PROCESSING"}
    [] OTHER                          -> {"RESPONSE_STORED"}

(* The run in progress was created, the message that is handled has the      *)
(* state its step gave it, and the round has room for it.                    *)
Placed ==
  /\ ~At("idle") => r \in Created
  /\ proc.pc \in {"claim"} \cup Stepping => run[r].messages <= proc.count
  /\ proc.pc \in Stepping =>
       /\ m \in Messages /\ InMail(m) /\ msg[m].state \in StateAt(proc.pc)
       /\ proc.count < MaxPerRound

(* In a round, only the message that is handled is in flight, only its last   *)
(* call is unsettled, and only its current tool has been started.             *)
Clean ==
  /\ \A n \in InState(InFlight) :
       At("idle") \/ At("finish") \/ (At("over") /\ proc.stop \in Interrupting)
         \/ (proc.pc \in Stepping /\ n = m)
  /\ \A n \in Messages : \A k \in Calls(n) : Unresolved(n, k) =>
       At("idle") \/ At("finish") \/ (At("over") /\ proc.stop \in RecoveryStops)
         \/ (proc.pc \in Paying /\ n = m /\ k = Bill)
  /\ \A n \in Messages, k \in Indices : tool[n][k] = "STARTED" =>
       At("idle") \/ (At("tooling") /\ n = m /\ k = proc.at)
  /\ proc.pc \in Paying =>
       Bill # 0 /\ call[m][Bill].outcome = "none" /\ Open(m, Bill) /\ call[m][Bill].run = r

(* Where a batch of effects is: those before it have their receipts, the      *)
(* actor is active, and a birth has its own place.                            *)
Resuming ==
  /\ proc.pc \in {"step", "parse"} \cup Paying => proc.at = 1
  /\ proc.pc \in Paying => ~Answered(m)
  /\ At("parse") => Answered(m)
  /\ proc.pc \in Applying =>
       /\ Answered(m) /\ LatestRow(m).valid
       /\ proc.at <= Len(plan) =>
            pixel[me].active /\ \A k \in 1..(proc.at - 1) : effect[m][k] \in Recorded
  /\ proc.pc \in AtEffect => proc.at <= Len(plan) /\ effect[m][proc.at] \notin Recorded
  /\ proc.pc \in {"tooling", "noBirth"} => effect[m][proc.at] = "none"
  /\ proc.pc \in Stepping /\ proc.tools => m \in Seeds
  /\ proc.pc \in Bearing =>
       LET p == plan[proc.at].to IN
       /\ effect[m][proc.at] = "PENDING" /\ plan[proc.at].amount > 0
       /\ p # me
       /\ \A n \in InState(InFlight \cup {"RESPONSE_STORED"}) : n = m \/ msg[n].to # p
  /\ At("birth") => files[plan[proc.at].to] > 0

-----------------------------------------------------------------------------
(* Runs are created in order, and no round counts more than it may.          *)
Counted ==
  /\ \E n \in 0..MaxRuns : Created = 1..n
  /\ \A id \in Runs \ Created : run[id].stop = "none"
  /\ \A id \in Runs : run[id].messages <= MaxPerRound

(* One bill is open, and its run has reserved it.                            *)
Billed ==
  /\ \A n1, n2 \in Messages : \A k1 \in Calls(n1), k2 \in Calls(n2) :
       Open(n1, k1) /\ Open(n2, k2) => n1 = n2 /\ k1 = k2
  /\ \A id \in Runs :
       run[id].reserved = IF \E n \in Messages : \E k \in Calls(n) : Open(n, k) /\ call[n][k].run = id
                          THEN Estimate ELSE 0

(* What a message has done.                                                  *)
Touched(n) == \E k \in Indices : effect[n][k] # "none" \/ tool[n][k] # "none" \/ carried[n][k] # 0
Resolved(n) == \A k \in Calls(n) : ~Unresolved(n, k)
Recording ==
  \A n \in Messages :
    /\ ~InMail(n) => call[n] = <<>>
    /\ Touched(n) => Answered(n) /\ LatestRow(n).valid /\ Resolved(n)
    /\ \A k \in Indices :
         /\ tool[n][k] \in {"SUCCESS", "FAILED"} => effect[n][k] \in Recorded
         /\ tool[n][k] = "SKIPPED" => msg[n].state = "ABANDONED"
         /\ effect[n][k] = "PENDING" =>
              k <= Len(LatestRow(n).plan) /\ LatestRow(n).plan[k].kind = "REPRODUCE"
         /\ carried[n][k] # 0 => effect[n][k] \in Recorded \/ tool[n][k] \in {"STARTED", "SKIPPED"}
         /\ carried[n][k] # 0 => \A j \in 1..(k - 1) : effect[n][j] \in Recorded

(* What may still be handled, or paid, was written for the present body.     *)
Live(n) == InMail(n) /\ msg[n].state \in Claimable \cup InFlight \cup Waiting
Addressed == \A n \in Messages : Live(n) \/ ~Resolved(n) => msg[n].body = pixel[msg[n].to].body

(* The files of a coordinate, but for the birth in progress.                  *)
Marked(p) == \E n \in Messages, k \in Indices :
  /\ effect[n][k] = "PENDING" /\ LatestRow(n).plan[k].to = p
  /\ ~(proc.pc \in Bearing /\ n = m /\ k = proc.at)
Expected(p) == IF At("birth") /\ p = plan[proc.at].to THEN files[p] - 1 ELSE files[p]
Housed == \A p \in Pixels : Expected(p) # pixel[p].body => Marked(p)

IInv == Typed /\ Placed /\ Clean /\ Resuming /\ Counted /\ Billed /\ Recording /\ Addressed /\ Housed

-----------------------------------------------------------------------------
(* Numbers, finite sets and sequences.                                      *)
LEMMA Least == ASSUME NEW T \in SUBSET Nat, T # {} PROVE \E k \in T : \A j \in T : k <= j
<1> DEFINE R == {p \in Nat \X Nat : p[1] < p[2]}
<1>1. IsWellFoundedOn(R, Nat)
  BY NatLessThanWellFounded DEF OpToRel
<1> HIDE DEF R
<1>2. PICK k \in T : \A j \in T : ~(<<j, k>> \in R)
  BY <1>1, WFMin
<1>3. ASSUME NEW j \in T PROVE k <= j
  <2>1. ~(j < k)
    BY <1>2 DEF R
  <2> QED
    BY <2>1
<1> QED
  BY <1>3

\* The successor in the set is an injection that misses the least element.
LEMMA Greatest ==
  ASSUME NEW S \in SUBSET Nat, IsFiniteSet(S), S # {}
  PROVE  Max(S) \in S /\ \A k \in S : Max(S) >= k
<1> SUFFICES ASSUME \A k \in S : \E j \in S : ~(k >= j) PROVE FALSE
  BY DEF Max
<1> DEFINE Above(k) == {j \in S : k < j}
<1>1. \A k \in S : \E j \in Above(k) : \A l \in Above(k) : j <= l
  <2> TAKE k \in S
  <2>1. PICK j \in S : ~(k >= j)
    OBVIOUS
  <2>2. j \in Above(k) /\ Above(k) \in SUBSET Nat
    <3>1. j \in Nat /\ k \in Nat
      OBVIOUS
    <3>2. k < j
      BY <2>1, <3>1
    <3> QED
      BY <3>2
  <2> HIDE DEF Above
  <2> QED
    BY <2>2, Least
<1> DEFINE next == [k \in S |-> CHOOSE j \in Above(k) : \A l \in Above(k) : j <= l]
<1>2. \A k \in S : next[k] \in Above(k) /\ \A l \in Above(k) : next[k] <= l
  BY <1>1
<1> HIDE DEF next
<1>3. PICK low \in S : \A k \in S : low <= k
  BY Least
<1>4. next \in [S -> S \ {low}]
  <2>1. \A k \in S : next[k] \in S /\ k < next[k]
    BY <1>2
  <2>2. \A k \in S : next[k] # low
    BY <1>3, <2>1
  <2> QED
    BY <2>1, <2>2 DEF next
<1>5. ASSUME NEW j \in S, NEW k \in S, next[j] = next[k] PROVE j = k
  <2>1. next[j] \in Nat /\ j < next[j] /\ k < next[k]
    BY <1>2
  <2>2. ~(j < k)
    BY <1>2, <1>5, <2>1
  <2>3. ~(k < j)
    BY <1>2, <1>5, <2>1
  <2> QED
    BY <2>2, <2>3
<1>6. next \in Injection(S, S \ {low})
  BY <1>4, <1>5 DEF Injection, IsInjective
<1>7. IsFiniteSet(S \ {low}) /\ Cardinality(S \ {low}) = Cardinality(S) - 1 /\ Cardinality(S) \in Nat
  BY FS_RemoveElement, FS_CardinalityType
<1>8. Cardinality(S) <= Cardinality(S \ {low})
  BY <1>6, <1>7, FS_Injection
<1> QED
  BY <1>7, <1>8

LEMMA PairMax == ASSUME NEW a \in Int, NEW b \in Int PROVE Max({a, b}) = IF a >= b THEN a ELSE b
  BY DEF Max
LEMMA Listed == ASSUME NEW S, IsFiniteSet(S) PROVE SetToSeq(S) \in Seq(S)
<1>1. PICK f \in Bijection(1..Cardinality(S), S) : TRUE
  BY FS_CardinalityType, FS_CountingElements DEF ExistsBijection
<1>2. f \in [1..Cardinality(S) -> S] /\ IsInjective(f)
  BY <1>1 DEF Bijection, Injection
<1>3. SetToSeq(S) \in [1..Cardinality(S) -> S]
  BY <1>2 DEF SetToSeq
<1>4. Cardinality(S) \in Nat
  BY FS_CardinalityType
<1> QED
  BY <1>3, <1>4, SeqDef

-----------------------------------------------------------------------------
(* What the definitions of the store say of typed state.                    *)
LEMMA Facts ==
  /\ MaxEffects \in Nat /\ MaxCalls \in Nat /\ MaxRuns \in Nat /\ MaxPerRound \in Nat
  /\ MaxPerRound > 0 /\ Estimate \in Nat /\ Estimate > 0 /\ MaxFaults \in Nat
  BY StoreConstants, KernelConstants

LEMMA Ids ==
  /\ \A n \in Seeds, k \in 0..MaxEffects : <<n, k>> \in Messages
  /\ \A p \in Pixels : <<p, 0>> \in Messages
  /\ Seeds \subseteq Messages
  BY DEF Messages

LEMMA CallIn ==
  ASSUME CallsTyped, NEW n \in Messages
  PROVE  /\ call[n] \in Seq(CallRow) /\ Len(call[n]) \in Nat /\ Calls(n) = 1..Len(call[n])
         /\ \A k \in Calls(n) : k \in 1..MaxCalls /\ call[n][k] \in CallRow
<1>1. call[n] \in Seq(CallRow) /\ Len(call[n]) <= MaxCalls
  BY DEF CallsTyped
<1>2. Len(call[n]) \in Nat /\ DOMAIN call[n] = 1..Len(call[n])
  BY <1>1
<1>3. \A k \in Calls(n) : call[n][k] \in CallRow
  BY <1>1, <1>2 DEF Calls
<1> QED
  BY <1>1, <1>2, <1>3, Facts DEF Calls

LEMMA NewestIn ==
  ASSUME CallsTyped, NEW n \in Messages, HasRow(n)
  PROVE  /\ Max(Rows(n)) \in Rows(n) /\ Max(Rows(n)) \in Calls(n)
         /\ \A k \in Rows(n) : k <= Max(Rows(n))
         /\ LatestRow(n) \in CallRow
<1>1. Calls(n) = 1..Len(call[n]) /\ Len(call[n]) \in Nat /\ \A k \in Calls(n) : call[n][k] \in CallRow
  BY CallIn
<1>2. Rows(n) \subseteq 1..Len(call[n]) /\ Rows(n) # {}
  BY <1>1 DEF Rows, HasRow
<1>3. IsFiniteSet(Rows(n)) /\ Rows(n) \in SUBSET Nat
  <2>1. IsFiniteSet(1..Len(call[n]))
    BY <1>1, FS_Interval
  <2> QED
    BY <1>1, <1>2, <2>1, FS_Subset
<1>4. Max(Rows(n)) \in Rows(n) /\ \A k \in Rows(n) : Max(Rows(n)) >= k
  BY <1>2, <1>3, Greatest
<1> QED
  BY <1>1, <1>2, <1>4 DEF LatestRow

LEMMA AnsweredHas ==
  ASSUME CallsTyped, NEW n \in Messages, Answered(n)
  PROVE  HasRow(n) /\ call[n] # <<>> /\ LatestRow(n) \in CallRow
<1>1. HasRow(n) /\ LatestRow(n) \in CallRow
  BY NewestIn DEF Answered
<1>2. Calls(n) # {}
  BY <1>1 DEF HasRow, Rows
<1> QED
  BY <1>1, <1>2 DEF Calls

LEMMA Sets ==
  ASSUME CallsTyped
  PROVE  /\ OpenBills = {} <=> \A n \in Messages : \A k \in Calls(n) : ~Open(n, k)
         /\ Unknown = {} <=> \A n \in Messages : \A k \in Calls(n) :
                               call[n][k].outcome # "CALL_OUTCOME_UNKNOWN"
         /\ StartedTools = {} <=> \A n \in Messages, k \in Indices : tool[n][k] # "STARTED"
         /\ \A n \in Messages : \A k \in Calls(n) : Open(n, k) <=> <<n, k>> \in OpenBills
<1>1. \A n \in Messages : \A k \in Calls(n) : k \in 1..MaxCalls
  BY CallIn
<1>2. \A n \in Messages : \A k \in Calls(n) : Open(n, k) <=> <<n, k>> \in OpenBills
  BY <1>1 DEF OpenBills, Open
<1>3. \A b \in OpenBills : b[1] \in Messages /\ b[2] \in Calls(b[1]) /\ Open(b[1], b[2])
  BY DEF OpenBills, Open
<1>4. Unknown = {} <=> \A n \in Messages : \A k \in Calls(n) :
                         call[n][k].outcome # "CALL_OUTCOME_UNKNOWN"
  <2>1. \A n \in Messages : \A k \in Calls(n) :
          call[n][k].outcome = "CALL_OUTCOME_UNKNOWN" => <<n, k>> \in Unknown
    BY <1>1 DEF Unknown
  <2>2. \A b \in Unknown : b[1] \in Messages /\ b[2] \in Calls(b[1])
                            /\ call[b[1]][b[2]].outcome = "CALL_OUTCOME_UNKNOWN"
    BY DEF Unknown
  <2> QED
    BY <2>1, <2>2
<1>5. StartedTools = {} <=> \A n \in Messages, k \in Indices : tool[n][k] # "STARTED"
  <2>1. \A n \in Messages, k \in Indices : tool[n][k] = "STARTED" => <<n, k>> \in StartedTools
    BY DEF StartedTools
  <2>2. \A b \in StartedTools : b[1] \in Messages /\ b[2] \in Indices /\ tool[b[1]][b[2]] = "STARTED"
    BY DEF StartedTools
  <2> QED
    BY <2>1, <2>2
<1> QED
  BY <1>2, <1>3, <1>4, <1>5

(* claimNext() finds a message whenever one is ready: of the least rank, the *)
(* one that came first.                                                      *)
LEMMA ClaimedIn ==
  ASSUME mail \in Seq(Messages), NEW round, Ready(round) # {}
  PROVE  Claimed(round) \in Ready(round)
<1> DEFINE S == Ready(round)
           Ranks == {Rank(n) : n \in S}
<1>1. S \subseteq {n \in Messages : InMail(n)}
  BY DEF Ready, InState
<1>2. \A n \in S : Position(n) \in Nat /\ mail[Position(n)] = n
  <2> TAKE n \in S
  <2>1. DOMAIN mail \subseteq Nat
    OBVIOUS
  <2>2. \E k \in DOMAIN mail : mail[k] = n
    BY <1>1 DEF InMail
  <2> QED
    BY <2>1, <2>2 DEF Position
<1>3. \A n \in S : Rank(n) \in Nat
  BY DEF Rank
<1> HIDE DEF S
<1>4. PICK low \in S : \A n \in S : Rank(low) <= Rank(n)
  <2>1. Ranks \in SUBSET Nat /\ Ranks # {}
    BY <1>3 DEF S
  <2>2. PICK rank \in Ranks : \A other \in Ranks : rank <= other
    BY <2>1, Least
  <2> QED
    BY <2>2
<1> DEFINE T == {n \in S : Rank(n) = Rank(low)}
           Places == {Position(n) : n \in T}
<1>5. PICK first \in T : \A n \in T : Position(first) <= Position(n)
  <2>1. Places \in SUBSET Nat /\ Places # {}
    BY <1>2
  <2>2. PICK place \in Places : \A other \in Places : place <= other
    BY <2>1, Least
  <2> QED
    BY <2>2
<1>6. ASSUME NEW n \in S \ {first} PROVE Before(first, n)
  <2>1. CASE n \in T
    <3>1. Position(first) <= Position(n) /\ Position(first) # Position(n)
      BY <1>2, <1>5, <2>1
    <3>2. Position(first) < Position(n)
      BY <1>2, <2>1, <3>1
    <3> QED
      BY <2>1, <3>2 DEF Before
  <2>2. CASE n \notin T
    <3>1. Rank(first) <= Rank(n) /\ Rank(first) # Rank(n) /\ Rank(first) \in Nat /\ Rank(n) \in Nat
      BY <1>3, <1>4, <2>2
    <3> QED
      BY <3>1 DEF Before
  <2> QED
    BY <2>1, <2>2
<1>7. \E n \in Ready(round) : \A o \in Ready(round) \ {n} : Before(n, o)
  BY <1>6 DEF S
<1> QED
  BY <1>7 DEF Claimed

-----------------------------------------------------------------------------
(* What a step keeps that leaves some of the state alone.                    *)
LEMMA TypesHold == ASSUME Typed PROVE KernelTypeOK
<1>1. \A n \in Messages : \A k \in Calls(n) : k \in 1..MaxCalls /\ call[n][k] \in CallRow
  BY CallIn DEF Typed
<1>2. company \in BOOLEAN /\ run \in [Runs -> RunRow] /\ mail \in Seq(Messages)
  BY DEF Typed
<1>3. /\ msg \in [Messages -> MessageRow] /\ pixel \in [Pixels -> PixelRow]
      /\ effect \in [Messages -> [Indices -> Receipts]]
      /\ tool \in [Messages -> [Indices -> Executions]]
  BY DEF Typed
<1>4. \A n \in Messages : \A k \in Calls(n) :
        /\ k <= MaxCalls
        /\ call[n][k].run \in Runs /\ call[n][k].bill \in {"OPEN", "SETTLED", "REFUNDED"}
        /\ call[n][k].outcome \in Outcomes
  BY <1>1, Facts DEF CallRow
<1>5. StoreTypeOK
  BY <1>2, <1>3, <1>4 DEF StoreTypeOK, RunRow, MessageRow, PixelRow, Receipts, Executions
<1> QED
  BY <1>5, Facts DEF Typed, Process, KernelTypeOK

LEMMA CallsStay ==
  ASSUME call' = call, NEW n
  PROVE  /\ Calls(n)' = Calls(n) /\ HasRow(n)' = HasRow(n) /\ Rows(n)' = Rows(n)
         /\ LatestRow(n)' = LatestRow(n) /\ Answered(n)' = Answered(n)
         /\ Resolved(n)' = Resolved(n)
<1>1. Calls(n)' = Calls(n) /\ Rows(n)' = Rows(n)
  BY DEF Calls, Rows
<1>2. HasRow(n)' = HasRow(n) /\ LatestRow(n)' = LatestRow(n)
  BY <1>1 DEF HasRow, LatestRow
<1>3. Resolved(n)' = Resolved(n)
  BY <1>1 DEF Resolved, Unresolved, Open
<1> QED
  BY <1>1, <1>2, <1>3 DEF Answered

LEMMA RowsTyped == ASSUME CallsTyped, call' = call PROVE CallsTyped'
  BY DEF CallsTyped, Calls

LEMMA TouchedIn ==
  ASSUME Typed, Recording, NEW n \in Messages, Touched(n) PROVE InMail(n)
<1>1. Answered(n)
  BY DEF Recording
<1> QED
  BY <1>1, AnsweredHas DEF Recording, Typed

LEMMA RecordingStays ==
  ASSUME Typed, Recording, UNCHANGED <<call, effect, tool, carried>>,
         \A n \in Messages : InMail(n) => InMail(n)',
         \A n \in Messages : InMail(n) /\ msg[n].state = "ABANDONED" => msg'[n].state = "ABANDONED"
  PROVE  Recording'
<1> SUFFICES ASSUME NEW n \in Messages
             PROVE  /\ ~InMail(n)' => call'[n] = <<>>
                    /\ Touched(n)' => Answered(n)' /\ LatestRow(n)'.valid /\ Resolved(n)'
                    /\ \A k \in Indices :
                         /\ tool'[n][k] \in {"SUCCESS", "FAILED"} => effect'[n][k] \in Recorded
                         /\ tool'[n][k] = "SKIPPED" => msg'[n].state = "ABANDONED"
                         /\ effect'[n][k] = "PENDING" =>
                              k <= Len(LatestRow(n)'.plan) /\ LatestRow(n)'.plan[k].kind = "REPRODUCE"
                         /\ carried'[n][k] # 0 =>
                              effect'[n][k] \in Recorded \/ tool'[n][k] \in {"STARTED", "SKIPPED"}
                         /\ carried'[n][k] # 0 => \A j \in 1..(k - 1) : effect'[n][j] \in Recorded
  BY DEF Recording
<1>1. Touched(n)' = Touched(n)
  BY DEF Touched
<1>2. Answered(n)' = Answered(n) /\ LatestRow(n)' = LatestRow(n) /\ Resolved(n)' = Resolved(n)
  BY CallsStay
<1>3. \A k \in Indices : tool[n][k] = "SKIPPED" => InMail(n)
  BY TouchedIn DEF Touched
<1>4. ~InMail(n)' => call'[n] = <<>>
  BY DEF Recording
<1>5. Touched(n)' => Answered(n)' /\ LatestRow(n)'.valid /\ Resolved(n)'
  BY <1>1, <1>2 DEF Recording
<1> QED
  BY <1>2, <1>3, <1>4, <1>5 DEF Recording

LEMMA AddressedStays ==
  ASSUME Addressed, \A p \in Pixels : pixel'[p].body = pixel[p].body, msg' \in [Messages -> MessageRow],
         \A n \in Messages : (Live(n) \/ ~Resolved(n))' =>
           \/ msg'[n].body = pixel[msg'[n].to].body
           \/ /\ Live(n) \/ ~Resolved(n)
              /\ msg'[n].to = msg[n].to /\ msg'[n].body = msg[n].body
  PROVE  Addressed'
<1> SUFFICES ASSUME NEW n \in Messages, (Live(n) \/ ~Resolved(n))'
             PROVE  msg'[n].body = pixel'[msg'[n].to].body
  BY DEF Addressed
<1>1. msg'[n].to \in Pixels
  BY DEF MessageRow
<1>2. msg'[n].body = pixel[msg'[n].to].body
  BY DEF Addressed
<1> QED
  BY <1>1, <1>2

LEMMA BilledStays ==
  ASSUME Billed, \A id \in Runs : run'[id].reserved = run[id].reserved,
         \A n \in Messages : Calls(n)' = Calls(n),
         \A n \in Messages : \A k \in Calls(n) :
           (Open(n, k)' <=> Open(n, k)) /\ call'[n][k].run = call[n][k].run
  PROVE  Billed'
  BY DEF Billed

LEMMA HousedStays ==
  ASSUME Housed, proc.pc \notin Bearing, proc'.pc \notin Bearing, files' = files,
         \A p \in Pixels : pixel'[p].body = pixel[p].body,
         \A n \in Messages : \A k \in Indices : effect[n][k] = "PENDING" =>
           effect'[n][k] = "PENDING" /\ LatestRow(n)'.plan[k] = LatestRow(n).plan[k]
  PROVE  Housed'
<1>1. \A p : Expected(p)' = files'[p] /\ Expected(p) = files[p]
  BY DEF Expected, At, Bearing
<1>2. \A p : Marked(p) => Marked(p)'
  BY DEF Marked
<1> QED
  BY <1>1, <1>2 DEF Housed

LEMMA StatesMove ==
  ASSUME Typed, NEW ms, NEW s \in MessageStates, msg' = WithState(ms, s)
  PROVE  /\ msg' \in [Messages -> MessageRow]
         /\ \A n \in Messages :
              /\ msg'[n].to = msg[n].to /\ msg'[n].body = msg[n].body /\ msg'[n].round = msg[n].round
              /\ msg'[n].state = IF n \in ms THEN s ELSE msg[n].state
<1>1. msg \in [Messages -> MessageRow]
  BY DEF Typed
<1> QED
  BY <1>1 DEF WithState, MessageRow

LEMMA OneMoves ==
  ASSUME IInv, NEW q \in Messages, NEW s \in MessageStates, msg' = WithState({q}, s)
  PROVE  /\ msg' \in [Messages -> MessageRow]
         /\ \A n \in Messages :
              /\ msg'[n].to = msg[n].to /\ msg'[n].body = msg[n].body
              /\ msg'[n].state = IF n = q THEN s ELSE msg[n].state
<1>1. msg \in [Messages -> MessageRow]
  BY DEF IInv, Typed
<1> QED
  BY <1>1 DEF WithState, MessageRow

(* A step of the process, or of its owner, that stores nothing new.          *)
LEMMA StoreStays ==
  ASSUME IInv, UNCHANGED <<store, carried>>, files' \in [Pixels -> Nat], proc' \in Process,
         faults' \in 0..MaxFaults
  PROVE  Typed' /\ Counted' /\ Billed' /\ Recording' /\ Addressed'
<1>1. Typed'
  BY DEF IInv, Typed, CallsTyped, store, Calls
<1>2. Counted' /\ Billed'
  BY BilledStays, CallsStay DEF IInv, Counted, Created, store, Open
<1>3. Recording'
  <2>1. \A n \in Messages : InMail(n)' = InMail(n)
    BY DEF store, InMail
  <2> QED
    BY <2>1, RecordingStays DEF IInv, store
<1>4. Addressed'
  <2>1. \A n \in Messages : Live(n)' = Live(n) /\ Resolved(n)' = Resolved(n)
    BY CallsStay DEF Live, InMail, store
  <2> QED
    BY <2>1, AddressedStays DEF IInv, Typed, store
<1> QED
  BY <1>1, <1>2, <1>3, <1>4

(* A step that changes the state of messages.                                *)
LEMMA MessagesMove ==
  ASSUME IInv, NEW ms, NEW s \in MessageStates, msg' = WithState(ms, s),
         UNCHANGED <<company, run, mail, call, effect, tool, pixel, files, carried>>,
         proc' \in Process, faults' \in 0..MaxFaults,
         \A n \in Messages : InMail(n) /\ n \in ms /\ msg[n].state = "ABANDONED" => s = "ABANDONED",
         \A n \in Messages : InMail(n) /\ n \in ms /\ s \in Claimable \cup InFlight \cup Waiting =>
           Live(n) \/ ~Resolved(n)
  PROVE  Typed' /\ Counted' /\ Billed' /\ Recording' /\ Addressed'
<1>1. /\ msg' \in [Messages -> MessageRow]
      /\ \A n \in Messages : /\ msg'[n].to = msg[n].to /\ msg'[n].body = msg[n].body
                             /\ msg'[n].state = IF n \in ms THEN s ELSE msg[n].state
  BY StatesMove DEF IInv
<1>2. Typed'
  BY <1>1 DEF IInv, Typed, CallsTyped, Calls
<1>3. Counted' /\ Billed'
  BY BilledStays, CallsStay DEF IInv, Counted, Created, Open
<1>4. \A n \in Messages : InMail(n)' = InMail(n)
  BY DEF InMail
<1>5. Recording'
  BY <1>1, <1>4, RecordingStays DEF IInv
<1>6. Addressed'
  <2>1. \A n \in Messages : Resolved(n)' = Resolved(n)
    BY CallsStay
  <2>2. \A n \in Messages : Live(n)' => Live(n) \/ ~Resolved(n)
    BY <1>1, <1>4 DEF Live
  <2> QED
    BY <1>1, <2>1, <2>2, AddressedStays DEF IInv
<1> QED
  BY <1>2, <1>3, <1>5, <1>6

-----------------------------------------------------------------------------
(* Where the process is, in typed terms.                                    *)
LEMMA Here ==
  ASSUME IInv, proc.pc \in Stepping
  PROVE  /\ m \in Messages /\ InMail(m) /\ msg[m] \in MessageRow /\ me \in Pixels
         /\ msg[m].state \in StateAt(proc.pc) /\ msg[m].state # "ABANDONED"
         /\ r \in Runs /\ r \in Created /\ run[r].messages <= proc.count
         /\ proc \in Process /\ proc.count \in Nat /\ proc.count < MaxPerRound
         /\ call[m] \in Seq(CallRow) /\ Live(m)
<1>1. ~At("idle")
  BY DEF At, Stepping, Paying, Applying, AtEffect, Bearing
<1>2. /\ m \in Messages /\ InMail(m) /\ msg[m].state \in StateAt(proc.pc)
      /\ r \in Created /\ run[r].messages <= proc.count /\ proc.count < MaxPerRound
  BY <1>1 DEF IInv, Placed
<1>3. StateAt(proc.pc) \subseteq Claimable \cup InFlight
  BY DEF StateAt, Claimable, InFlight, Bearing
<1>4. "ABANDONED" \notin Claimable \cup InFlight
  BY DEF Claimable, InFlight
<1>5. msg[m] \in MessageRow /\ call[m] \in Seq(CallRow) /\ proc \in Process
  BY <1>2 DEF IInv, Typed, CallsTyped
<1>6. me \in Pixels
  BY <1>5 DEF me, MessageRow
<1>7. r \in Runs /\ proc.count \in Nat
  BY <1>2, <1>5, Facts DEF Created, Process
<1>8. Live(m)
  BY <1>2, <1>3 DEF Live
<1> QED
  BY <1>2, <1>3, <1>4, <1>5, <1>6, <1>7, <1>8

\* The reply whose effects are applied.
LEMMA Batch ==
  ASSUME IInv, proc.pc \in Applying
  PROVE  /\ Answered(m) /\ LatestRow(m) \in CallRow /\ LatestRow(m).valid
         /\ plan \in Seq(Effects) /\ Len(plan) \in Nat /\ Len(plan) <= MaxEffects
         /\ proc.at \in Nat /\ proc.at > 0
         /\ proc.at <= Len(plan) =>
              /\ m \in Seeds /\ proc.at \in Indices /\ plan[proc.at] \in Effects
              /\ pixel[me].active /\ \A k \in 1..(proc.at - 1) : effect[m][k] \in Recorded
<1>1. proc.pc \in Stepping
  BY DEF Stepping
<1>2. /\ Answered(m) /\ LatestRow(m).valid
      /\ proc.at <= Len(plan) =>
           pixel[me].active /\ \A k \in 1..(proc.at - 1) : effect[m][k] \in Recorded
  BY DEF IInv, Resuming
<1>3. HasRow(m) /\ LatestRow(m) \in CallRow /\ Max(Rows(m)) \in Calls(m)
  BY <1>1, <1>2, Here, AnsweredHas, NewestIn DEF IInv, Typed
<1>4. plan \in Seq(Effects) /\ Len(plan) <= MaxEffects
  BY <1>3 DEF plan, CallRow, Plans
<1>5. Len(plan) \in Nat
  BY <1>4
<1>6. m \notin Seeds => plan = <<>>
  BY <1>1, <1>3, Here DEF IInv, Typed, CallsTyped, plan, LatestRow
<1>7. proc.at \in Nat /\ proc.at > 0
  BY <1>1, Here DEF Process
<1>8. proc.at <= Len(plan) => m \in Seeds /\ proc.at \in Indices /\ plan[proc.at] \in Effects
  BY <1>4, <1>5, <1>6, <1>7, Facts DEF Indices
<1> QED
  BY <1>2, <1>3, <1>4, <1>5, <1>7, <1>8

LEMMA Quiet ==
  ASSUME IInv, proc.pc \notin {"idle", "finish", "over"} \cup Paying
  PROVE  \A n \in Messages : Resolved(n)
  BY DEF IInv, Clean, At, Resolved

LEMMA Alone ==
  ASSUME IInv, proc.pc \notin {"idle", "finish", "over"}
  PROVE  \A n \in InState(InFlight) : proc.pc \in Stepping /\ n = m
  BY DEF IInv, Clean, At

LEMMA Steady ==
  ASSUME IInv, proc.pc \in {"loop", "round", "claim", "parse", "rejected", "apply", "tooling",
                            "noBirth", "commit"}
  PROVE  InState(InFlight) = {}
<1>1. \A n \in InState(InFlight) : proc.pc \in Stepping /\ n = m
  BY Alone
<1>2. proc.pc \in Stepping => msg[m].state = "RESPONSE_STORED"
  BY Here DEF StateAt, Stepping, Applying, AtEffect, Bearing, Paying
<1>3. "RESPONSE_STORED" \notin InFlight
  BY DEF InFlight
<1> QED
  BY <1>1, <1>2, <1>3 DEF InState

LEMMA ToolsRest ==
  ASSUME IInv, proc.pc \notin {"idle", "tooling"}
  PROVE  \A n \in Messages, k \in Indices : tool[n][k] # "STARTED"
  BY DEF IInv, Clean, At

LEMMA NoneReserved ==
  ASSUME IInv, \A n \in Messages : Resolved(n) PROVE \A id \in Runs : run[id].reserved = 0
  BY DEF IInv, Billed, Resolved, Unresolved

-----------------------------------------------------------------------------
(* Where a step leads.                                                      *)
LEMMA Rests ==
  ASSUME proc'.pc = "idle" PROVE Placed' /\ Clean' /\ Resuming'
  BY DEF Placed, Clean, Resuming, At, Stepping, Paying, Applying, AtEffect, Bearing

\* The round is over.
LEMMA Over ==
  ASSUME IInv, NEW reason \in StopReasons, RoundOver(reason), proc.pc \notin {"idle", "tooling"},
         \A id \in Runs : run[id].status # "none" => run'[id].status # "none",
         \A n \in Messages, k \in Indices : tool'[n][k] = "STARTED" => tool[n][k] = "STARTED",
         reason \in RecoveryStops \/ \A n \in Messages : Resolved(n)',
         reason \in Interrupting \/ InState(InFlight)' = {}
  PROVE  Placed' /\ Clean' /\ Resuming' /\ proc' \in Process
<1>1. proc \in Process /\ proc' \in Process /\ proc'.pc = "over" /\ r' = r /\ proc'.stop = reason
  BY DEF IInv, Typed, Process, RoundOver, Steps, r
<1>2. r \in Created'
  BY <1>1 DEF IInv, Placed, At, Created
<1>3. Placed' /\ Resuming'
  BY <1>1, <1>2 DEF Placed, Resuming, At, Stepping, Paying, Applying, AtEffect, Bearing
<1>4. \A n \in Messages, k \in Indices : tool'[n][k] # "STARTED"
  BY ToolsRest
<1>5. Clean'
  BY <1>1, <1>4 DEF Clean, At, Resolved, Paying
<1> QED
  BY <1>1, <1>3, <1>5

\* The process goes on with the same message, and no call is in progress.
LEMMA StepMoves ==
  ASSUME IInv, proc.pc \in Stepping \ Paying, proc'.pc \in Stepping \ Paying,
         m' = m, r' = r, proc'.count = proc.count, call' = call,
         run'[r].status = run[r].status, run'[r].messages = run[r].messages,
         InMail(m)', msg'[m].state \in StateAt(proc'.pc),
         \A n \in Messages : n # m /\ InMail(n)' /\ msg'[n].state \in InFlight =>
           n \in InState(InFlight),
         \A n \in Messages, k \in Indices : tool'[n][k] = "STARTED" =>
           proc'.pc = "tooling" /\ n = m /\ k = proc'.at
  PROVE  Placed' /\ Clean'
<1>1. Placed'
  BY Here DEF Placed, At, Stepping, Paying, Applying, AtEffect, Bearing, Created, m, r
<1>2. proc.pc \notin {"idle", "finish", "over"}
  BY DEF Stepping, Paying, Applying, AtEffect, Bearing
<1>3. \A n \in InState(InFlight)' : n = m
  BY <1>2, Alone DEF InState
<1>4. \A n \in Messages : Resolved(n)'
  BY <1>2, Quiet, CallsStay
<1> QED
  BY <1>1, <1>3, <1>4 DEF Clean, Resolved, At

LEMMA StepOn ==
  ASSUME IInv, proc.pc \in Stepping, proc'.pc \in Stepping \ (Paying \cup {"tooling"}),
         proc.pc # "tooling",
         m' = m, r' = r, proc'.count = proc.count, UNCHANGED <<call, tool>>,
         run'[r].status = run[r].status, run'[r].messages = run[r].messages,
         proc.pc \notin Paying,
         InMail(m)', msg'[m].state \in StateAt(proc'.pc),
         \A n \in Messages : n # m /\ InMail(n)' /\ msg'[n].state \in InFlight =>
           n \in InState(InFlight)
  PROVE  Placed' /\ Clean'
<1>1. \A n \in Messages, k \in Indices : tool[n][k] # "STARTED"
  BY ToolsRest DEF Stepping, Paying, Applying, AtEffect, Bearing
<1> QED
  BY <1>1, StepMoves

\* Between two messages, or two rounds, nothing is left in the middle.
LEMMA Between ==
  ASSUME proc'.pc \in {"loop", "round", "claim", "finish", "over"}, (r \in Created)',
         proc'.pc = "claim" => (run[r].messages <= proc.count)',
         \A n \in Messages, k \in Indices : tool'[n][k] # "STARTED",
         \A n \in Messages : Resolved(n)', InState(InFlight)' = {}
  PROVE  Placed' /\ Clean' /\ Resuming'
  BY DEF Placed, Clean, Resuming, Resolved, At, Stepping, Paying, Applying, AtEffect, Bearing

LEMMA HousedKeeps ==
  ASSUME IInv, proc.pc \notin Bearing, proc'.pc \notin Bearing, UNCHANGED <<files, call, effect>>,
         \A p \in Pixels : pixel'[p].body = pixel[p].body
  PROVE  Housed'
<1>1. \A n : LatestRow(n)' = LatestRow(n)
  BY CallsStay
<1> QED
  BY <1>1, HousedStays DEF IInv

-----------------------------------------------------------------------------
(* The steps of the process that store nothing.                             *)
LEMMA LoopKeeps == ASSUME IInv, Loop PROVE IInv'
<1>1. /\ UNCHANGED <<store, files, carried, faults>> /\ proc.pc = "loop"
      /\ proc' \in Process /\ proc'.pc \in {"finish", "round"} /\ r' = r
  BY DEF IInv, Typed, Process, Loop, At, Steps, StopReasons, Bare, r
<1>2. Typed' /\ Counted' /\ Billed' /\ Recording' /\ Addressed'
  BY <1>1, StoreStays DEF IInv, Typed
<1>3. \A n \in Messages : Resolved(n)'
  BY <1>1, Quiet, CallsStay DEF Paying, store
<1>4. InState(InFlight)' = {}
  BY <1>1, Steady DEF InState, InMail, store
<1>5. \A n \in Messages, k \in Indices : tool'[n][k] # "STARTED"
  BY <1>1, ToolsRest DEF store
<1>6. (r \in Created)'
  BY <1>1 DEF IInv, Placed, At, Created, store
<1>7. Placed' /\ Clean' /\ Resuming'
  BY <1>1, <1>3, <1>4, <1>5, <1>6, Between
<1>8. Housed'
  BY <1>1, HousedKeeps DEF Bearing, store
<1> QED
  BY <1>2, <1>7, <1>8 DEF IInv

LEMMA StopClaimingKeeps == ASSUME IInv, StopClaiming PROVE IInv'
<1>1. PICK reason \in {"MESSAGE_LIMIT_REACHED", "USER_STOPPED", "SERVICE_SHUTDOWN"} :
        RoundOver(reason)
  BY DEF StopClaiming
<1>2. UNCHANGED <<store, files, carried, faults>> /\ proc.pc = "claim" /\ reason \in StopReasons
  BY DEF StopClaiming, At, Bare, StopReasons
<1>3. \A n \in Messages : Resolved(n)'
  BY <1>2, Quiet, CallsStay DEF Paying, store
<1>4. InState(InFlight)' = {}
  BY <1>2, Steady DEF InState, InMail, store
<1>5. Placed' /\ Clean' /\ Resuming' /\ proc' \in Process
  BY <1>1, <1>2, <1>3, <1>4, Over DEF store
<1>6. Typed' /\ Counted' /\ Billed' /\ Recording' /\ Addressed'
  BY <1>2, <1>5, StoreStays DEF IInv, Typed
<1>7. Housed'
  BY <1>1, <1>2, HousedKeeps DEF Bearing, store, RoundOver, IInv, Typed, Process
<1> QED
  BY <1>5, <1>6, <1>7 DEF IInv

\* An effect that waits: the round is over before it.
LEMMA BatchStops ==
  ASSUME IInv, proc.pc = "apply", UNCHANGED <<store, Bare>>,
         NEW reason \in RecoveryStops \cup {"SERVICE_SHUTDOWN"}, RoundOver(reason)
  PROVE  IInv'
<1>1. UNCHANGED <<store, files, carried, faults>> /\ reason \in StopReasons /\ reason \in Interrupting
  BY DEF Bare, StopReasons, RecoveryStops, Interrupting
<1>2. \A n \in Messages : Resolved(n)'
  BY <1>1, Quiet, CallsStay DEF Paying, store
<1>3. Placed' /\ Clean' /\ Resuming' /\ proc' \in Process
  BY <1>1, <1>2, Over DEF store
<1>4. Typed' /\ Counted' /\ Billed' /\ Recording' /\ Addressed'
  BY <1>1, <1>3, StoreStays DEF IInv, Typed
<1>5. Housed'
  BY <1>1, HousedKeeps DEF Bearing, store, RoundOver, IInv, Typed, Process
<1> QED
  BY <1>3, <1>4, <1>5 DEF IInv

LEMMA SuspendBatchKeeps == ASSUME IInv, SuspendBatch PROVE IInv'
  BY BatchStops DEF SuspendBatch, At

LEMMA DoubtBirthKeeps == ASSUME IInv, DoubtBirth PROVE IInv'
<1>1. "PAUSED_RECOVERY_REQUIRED" \in RecoveryStops
  BY DEF RecoveryStops
<1> QED
  BY <1>1, BatchStops DEF DoubtBirth, May, Current, At

LEMMA RequestSuspendKeeps == ASSUME IInv, RequestSuspend PROVE IInv'
<1>1. /\ UNCHANGED <<store, files, carried, faults>> /\ proc' \in Process
      /\ \E s \in BOOLEAN : proc' = [proc EXCEPT !.suspend = s]
  BY DEF IInv, Typed, Process, RequestSuspend, Bare
<1>2. /\ proc'.pc = proc.pc /\ proc'.run = proc.run /\ proc'.msg = proc.msg /\ proc'.at = proc.at
      /\ proc'.count = proc.count /\ proc'.tools = proc.tools /\ proc'.stop = proc.stop
  BY <1>1 DEF IInv, Typed, Process
<1>3. Typed' /\ Counted' /\ Billed' /\ Recording' /\ Addressed'
  BY <1>1, StoreStays DEF IInv, Typed
<1>4. r' = r /\ m' = m /\ me' = me /\ plan' = plan /\ Bill' = Bill
  BY <1>1, <1>2, CallsStay DEF r, m, me, plan, Bill, store
<1>5. /\ \A pc : At(pc)' = At(pc)
      /\ \A n : Calls(n)' = Calls(n) /\ Answered(n)' = Answered(n) /\ LatestRow(n)' = LatestRow(n)
      /\ \A n, k : Unresolved(n, k)' = Unresolved(n, k) /\ Open(n, k)' = Open(n, k)
      /\ \A s : InState(s)' = InState(s)
      /\ \A n : InMail(n)' = InMail(n)
      /\ Created' = Created
  BY <1>1, <1>2, CallsStay DEF At, Unresolved, Open, InState, InMail, Created, store
<1>6. Placed'
  BY <1>1, <1>2, <1>4, <1>5 DEF IInv, Placed, store
<1>7. Clean'
  BY <1>1, <1>2, <1>4, <1>5 DEF IInv, Clean, store
<1>8. Resuming'
  BY <1>1, <1>2, <1>4, <1>5 DEF IInv, Resuming, store
<1>9. Housed'
  BY <1>1, <1>2, <1>4, <1>5 DEF IInv, Housed, Expected, Marked, store
<1> QED
  BY <1>3, <1>6, <1>7, <1>8, <1>9 DEF IInv

LEMMA ParseKeeps == ASSUME IInv, Parse PROVE IInv'
<1>1. /\ UNCHANGED <<store, files, carried, faults>> /\ proc' = [proc EXCEPT !.pc = "apply"]
      /\ proc.pc = "parse" /\ pixel[me].active /\ LatestRow(m).valid
  BY DEF Parse, Bare, Goto, At
<1>2. /\ proc' \in Process /\ proc'.pc = "apply" /\ r' = r /\ m' = m /\ proc'.count = proc.count
      /\ proc'.at = proc.at /\ proc'.tools = proc.tools
  BY <1>1 DEF IInv, Typed, Process, Steps, r, m
<1>3. Typed' /\ Counted' /\ Billed' /\ Recording' /\ Addressed'
  BY <1>1, <1>2, StoreStays DEF IInv, Typed
<1>4. Placed' /\ Clean'
  <2>1. msg[m].state = "RESPONSE_STORED" /\ InMail(m)
    BY <1>1, Here DEF StateAt, Stepping, Bearing
  <2>2. InMail(m)' /\ msg'[m].state \in StateAt(proc'.pc)
    BY <1>1, <1>2, <2>1 DEF StateAt, Bearing, InMail, store
  <2> QED
    BY <1>1, <1>2, <2>2, StepOn DEF Stepping, Applying, AtEffect, Bearing, Paying, InMail, InState, store
<1>5. Resuming'
  <2>1. Answered(m) /\ proc.at = 1
    BY <1>1 DEF IInv, Resuming, At
  <2>2. Answered(m)' /\ LatestRow(m)' = LatestRow(m) /\ me' = me
    BY <1>1, <1>2, <2>1, CallsStay DEF store, me
  <2> QED
    BY <1>1, <1>2, <2>1, <2>2 DEF IInv, Resuming, At, Stepping, Paying, Applying, AtEffect, Bearing, store, m
<1>6. Housed'
  BY <1>1, <1>2, HousedKeeps DEF Bearing, store
<1> QED
  BY <1>3, <1>4, <1>5, <1>6 DEF IInv

-----------------------------------------------------------------------------
(* Effects.                                                                 *)

\* New mail is for the present bodies, and no other message changes.
Mails ==
  /\ mail' \in Seq(Messages) /\ msg' \in [Messages -> MessageRow]
  /\ \A n \in Messages :
       /\ InMail(n) => InMail(n)' /\ msg'[n] = msg[n]
       /\ InMail(n)' => \/ InMail(n)
                        \/ msg'[n].state = "QUEUED" /\ msg'[n].body = pixel[msg'[n].to].body

LEMMA NoMail == ASSUME IInv, UNCHANGED <<mail, msg>> PROVE Mails
  BY DEF Mails, IInv, Typed, InMail

LEMMA OneMail ==
  ASSUME IInv, NEW n \in Messages, NEW p \in Pixels, NEW round \in Nat, Enqueue(n, p, round)
  PROVE  Mails
<1>1. CASE InMail(n)
  BY <1>1, NoMail DEF Enqueue
<1>2. CASE ~InMail(n)
  <2>1. mail' = Append(mail, n) /\ msg' = [msg EXCEPT ![n] = NewMessage(p, round)]
    BY <1>2 DEF Enqueue
  <2>2. mail \in Seq(Messages) /\ msg \in [Messages -> MessageRow] /\ pixel \in [Pixels -> PixelRow]
    BY DEF IInv, Typed
  <2>3. mail' \in Seq(Messages)
    BY <2>1, <2>2
  <2>4. NewMessage(p, round) \in MessageRow
    BY <2>2 DEF NewMessage, MessageRow, PixelRow, MessageStates, Claimable
  <2>5. msg' \in [Messages -> MessageRow] /\ msg'[n] = NewMessage(p, round)
        /\ \A q \in Messages : q # n => msg'[q] = msg[q]
    BY <2>1, <2>2, <2>4
  <2>6. \A k \in DOMAIN mail : k \in DOMAIN mail' /\ mail'[k] = mail[k]
    BY <2>1, <2>2
  <2>7. \A k \in DOMAIN mail' : k \in DOMAIN mail \/ mail'[k] = n
    BY <2>1, <2>2
  <2>8. \A q \in Messages : /\ InMail(q) => InMail(q)'
                            /\ InMail(q)' => InMail(q) \/ q = n
    BY <2>6, <2>7 DEF InMail
  <2> QED
    BY <1>2, <2>3, <2>5, <2>8 DEF Mails, NewMessage
<1> QED
  BY <1>1, <1>2

LEMMA MailsAddressed ==
  ASSUME IInv, Mails, call' = call, \A p \in Pixels : pixel'[p].body = pixel[p].body
  PROVE  Addressed'
<1>1. \A n \in Messages : ~InMail(n) => Resolved(n)
  BY DEF IInv, Recording, Resolved, Calls
<1>2. ASSUME NEW n \in Messages, (Live(n) \/ ~Resolved(n))'
      PROVE  \/ msg'[n].body = pixel[msg'[n].to].body
             \/ (Live(n) \/ ~Resolved(n)) /\ msg'[n].to = msg[n].to /\ msg'[n].body = msg[n].body
  <2>1. Resolved(n)' = Resolved(n)
    BY CallsStay
  <2>2. CASE InMail(n)
    BY <1>2, <2>1, <2>2 DEF Mails, Live
  <2>3. CASE ~InMail(n)
    BY <1>1, <1>2, <2>1, <2>3 DEF Mails, Live
  <2> QED
    BY <2>2, <2>3
<1> QED
  BY <1>2, AddressedStays DEF IInv, Mails

LEMMA MailsFlight == ASSUME IInv, Mails PROVE InState(InFlight)' = InState(InFlight)
<1>1. "QUEUED" \notin InFlight
  BY DEF InFlight
<1> QED
  BY <1>1 DEF Mails, InState

\* Before an effect is carried out, nothing of it was.
LEMMA NotCarried ==
  ASSUME IInv, proc.pc \in Applying \ {"tooling"}, proc.at <= Len(plan), effect[m][proc.at] \notin Recorded
  PROVE  carried[m][proc.at] = 0 /\ tool[m][proc.at] = "none"
<1>1. m \in Messages /\ proc.at \in Indices /\ msg[m].state # "ABANDONED"
  BY Here, Batch DEF Stepping
<1>2. tool[m][proc.at] # "STARTED"
  BY <1>1, ToolsRest DEF Applying, AtEffect, Bearing
<1>3. tool[m][proc.at] \in Executions
  BY <1>1 DEF IInv, Typed
<1> QED
  BY <1>1, <1>2, <1>3 DEF IInv, Recording, Executions

LEMMA RecordingAt ==
  ASSUME IInv, proc.pc \in Applying, proc.at <= Len(plan), effect[m][proc.at] \notin Recorded, call' = call,
         \A n \in Messages : InMail(n) => InMail(n)',
         \A n \in Messages : InMail(n) /\ msg[n].state = "ABANDONED" => msg'[n].state = "ABANDONED",
         \A n \in Messages, k \in Indices : n # m \/ k # proc.at =>
           effect'[n][k] = effect[n][k] /\ tool'[n][k] = tool[n][k] /\ carried'[n][k] = carried[n][k],
         effect'[m][proc.at] = "PENDING" => plan[proc.at].kind = "REPRODUCE",
         tool'[m][proc.at] \in {"SUCCESS", "FAILED"} => effect'[m][proc.at] \in Recorded,
         tool'[m][proc.at] # "SKIPPED",
         carried'[m][proc.at] # 0 => effect'[m][proc.at] \in Recorded \/ tool'[m][proc.at] = "STARTED"
  PROVE  Recording'
<1>1. /\ m \in Messages /\ proc.at \in Indices /\ Answered(m) /\ LatestRow(m).valid
      /\ \A k \in 1..(proc.at - 1) : effect[m][k] \in Recorded
  BY Here, Batch DEF Stepping
<1>2. Resolved(m)
  BY Quiet, <1>1 DEF Applying, AtEffect, Bearing, Paying
<1> SUFFICES ASSUME NEW n \in Messages
             PROVE  /\ ~InMail(n)' => call'[n] = <<>>
                    /\ Touched(n)' => Answered(n)' /\ LatestRow(n)'.valid /\ Resolved(n)'
                    /\ \A k \in Indices :
                         /\ tool'[n][k] \in {"SUCCESS", "FAILED"} => effect'[n][k] \in Recorded
                         /\ tool'[n][k] = "SKIPPED" => msg'[n].state = "ABANDONED"
                         /\ effect'[n][k] = "PENDING" =>
                              k <= Len(LatestRow(n)'.plan) /\ LatestRow(n)'.plan[k].kind = "REPRODUCE"
                         /\ carried'[n][k] # 0 =>
                              effect'[n][k] \in Recorded \/ tool'[n][k] \in {"STARTED", "SKIPPED"}
                         /\ carried'[n][k] # 0 => \A j \in 1..(k - 1) : effect'[n][j] \in Recorded
  BY DEF Recording
<1>3. Answered(n)' = Answered(n) /\ LatestRow(n)' = LatestRow(n) /\ Resolved(n)' = Resolved(n)
  BY CallsStay
<1>4. ~InMail(n)' => call'[n] = <<>>
  BY DEF IInv, Recording
<1>5. Touched(n)' => Answered(n)' /\ LatestRow(n)'.valid /\ Resolved(n)'
  <2>1. CASE n = m
    BY <1>1, <1>2, <1>3, <2>1
  <2>2. CASE n # m
    BY <1>3, <2>2 DEF IInv, Recording, Touched
  <2> QED
    BY <2>1, <2>2
<1>6. ASSUME NEW k \in Indices
      PROVE  /\ tool'[n][k] \in {"SUCCESS", "FAILED"} => effect'[n][k] \in Recorded
             /\ tool'[n][k] = "SKIPPED" => msg'[n].state = "ABANDONED"
             /\ effect'[n][k] = "PENDING" =>
                  k <= Len(LatestRow(n)'.plan) /\ LatestRow(n)'.plan[k].kind = "REPRODUCE"
             /\ carried'[n][k] # 0 =>
                  effect'[n][k] \in Recorded \/ tool'[n][k] \in {"STARTED", "SKIPPED"}
  <2>1. CASE n = m /\ k = proc.at
    BY <1>1, <1>3, <2>1 DEF plan
  <2>2. CASE ~(n = m /\ k = proc.at)
    <3>1. tool[n][k] = "SKIPPED" => InMail(n)
      BY TouchedIn DEF IInv, Touched
    <3> QED
      BY <1>3, <2>2, <3>1 DEF IInv, Recording
  <2> QED
    BY <2>1, <2>2
<1>7. ASSUME NEW k \in Indices, carried'[n][k] # 0, NEW j \in 1..(k - 1)
      PROVE  effect'[n][j] \in Recorded
  <2>1. j \in Indices
    BY Facts DEF Indices
  <2>2. CASE n = m /\ k = proc.at
    <3>1. j # proc.at
      BY <1>1, <2>2 DEF Indices
    <3> QED
      BY <1>1, <2>1, <2>2, <3>1
  <2>3. CASE ~(n = m /\ k = proc.at)
    <3>1. effect[n][j] \in Recorded
      BY <1>7, <2>3 DEF IInv, Recording
    <3> QED
      BY <2>1, <3>1
  <2> QED
    BY <2>2, <2>3
<1> QED
  BY <1>4, <1>5, <1>6, <1>7

LEMMA BatchOn ==
  ASSUME IInv, proc.pc \in Applying, proc.at <= Len(plan), call' = call, msg'[m].to = me,
         proc'.pc = "apply", m' = m,
         \/ proc'.at = proc.at + 1 /\ pixel'[me].active
         \/ proc'.at = Len(plan) + 1,
         effect'[m][proc.at] \in Recorded,
         \A k \in 1..(proc.at - 1) : effect'[m][k] = effect[m][k]
  PROVE  Resuming'
<1>1. /\ m \in Seeds /\ Answered(m) /\ LatestRow(m).valid /\ proc.at \in Nat /\ proc.at > 0
      /\ Len(plan) \in Nat /\ \A k \in 1..(proc.at - 1) : effect[m][k] \in Recorded
  BY Batch
<1>2. Answered(m)' /\ LatestRow(m)' = LatestRow(m) /\ plan' = plan /\ me' = me
  <2>1. Answered(m)' /\ LatestRow(m)' = LatestRow(m)
    BY <1>1, CallsStay
  <2> QED
    BY <2>1 DEF plan, me
<1>3. proc'.at <= Len(plan) => pixel'[me].active /\ \A k \in 1..(proc'.at - 1) : effect'[m][k] \in Recorded
  BY <1>1
<1> QED
  BY <1>1, <1>2, <1>3 DEF Resuming, At, Paying, Applying, AtEffect, Bearing

\* An effect gets its receipt.
LEMMA EffectKeeps ==
  ASSUME IInv, proc.pc \in {"apply", "noBirth"}, proc.at <= Len(plan), Mails,
         effect[m][proc.at] \notin Recorded \cup {"PENDING"},
         UNCHANGED <<company, run, call, tool, files, faults>>,
         NEW s \in Recorded, Receipt(s), Carry \/ UNCHANGED carried,
         pixel' \in [Pixels -> PixelRow], \A p \in Pixels : pixel'[p].body = pixel[p].body,
         proc' \in Process, proc'.pc = "apply", proc'.run = r, proc'.msg = m, proc'.count = proc.count,
         \/ proc'.at = proc.at + 1 /\ pixel'[me].active
         \/ proc'.at = Len(plan) + 1
  PROVE  IInv'
<1>1. /\ proc.pc \in Stepping /\ proc.pc \in Applying /\ proc.pc \notin Paying \cup Bearing
      /\ proc.pc \in Applying \ {"tooling"} /\ proc.pc # "tooling"
  BY DEF Stepping, Applying, AtEffect, Bearing, Paying
<1>2. m \in Messages /\ proc.at \in Indices /\ InMail(m) /\ msg[m].state = "RESPONSE_STORED" /\ r \in Runs
  BY <1>1, Here, Batch DEF StateAt, Bearing
<1>3. carried[m][proc.at] = 0 /\ tool[m][proc.at] = "none"
  BY <1>1, NotCarried
<1>4. m' = m /\ r' = r
  BY DEF m, r
<1>5. /\ effect' \in [Messages -> [Indices -> Receipts]] /\ effect'[m][proc.at] = s
      /\ \A n \in Messages, k \in Indices : n # m \/ k # proc.at => effect'[n][k] = effect[n][k]
  BY <1>2 DEF Receipt, IInv, Typed, i, Receipts
<1>6. /\ carried' \in [Messages -> [Indices -> 0..1]]
      /\ \A n \in Messages, k \in Indices : n # m \/ k # proc.at => carried'[n][k] = carried[n][k]
  <2>1. CASE UNCHANGED carried
    BY <2>1 DEF IInv, Typed
  <2>2. CASE Carry
    <3>1. Min({2, carried[m][proc.at] + 1}) = 1
      <4>1. Min({2, 1}) = 1
        BY DEF Min
      <4>2. carried[m][proc.at] + 1 = 1
        BY <1>3
      <4> QED
        BY <4>1, <4>2
    <3>2. carried' = [carried EXCEPT ![m][proc.at] = 1]
      BY <2>2, <3>1 DEF Carry, i
    <3> QED
      BY <1>2, <3>2 DEF IInv, Typed
  <2> QED
    BY <2>1, <2>2
<1>7. Typed'
  BY <1>5, <1>6 DEF IInv, Typed, CallsTyped, Calls, Mails
<1>8. Counted' /\ Billed'
  BY BilledStays, CallsStay DEF IInv, Counted, Created, Open
<1>9. Addressed'
  BY MailsAddressed
<1>10. Recording'
  BY <1>1, <1>2, <1>3, <1>5, <1>6, RecordingAt DEF Mails, Recorded
<1>11. InMail(m)' /\ msg'[m] = msg[m]
  BY <1>2, <1>4 DEF Mails
<1>12. Placed' /\ Clean'
  <2>1. proc'.pc \in Stepping \ (Paying \cup {"tooling"})
    BY DEF Stepping, Applying, Paying
  <2>2. msg'[m].state \in StateAt(proc'.pc)
    BY <1>2, <1>11 DEF StateAt, Bearing
  <2>3. \A n \in Messages : n # m /\ InMail(n)' /\ msg'[n].state \in InFlight => n \in InState(InFlight)
    BY MailsFlight DEF InState
  <2> QED
    BY <1>1, <1>4, <1>11, <2>1, <2>2, <2>3, StepOn
<1>13. Resuming'
  <2>1. \A k \in 1..(proc.at - 1) : effect'[m][k] = effect[m][k]
    BY <1>2, <1>5, Facts DEF Indices
  <2>2. msg'[m].to = me /\ effect'[m][proc.at] \in Recorded
    BY <1>5, <1>11 DEF me
  <2> QED
    BY <1>1, <1>4, <2>1, <2>2, BatchOn
<1>14. Housed'
  <2>1. \A n \in Messages : \A k \in Indices : effect[n][k] = "PENDING" => effect'[n][k] = "PENDING"
    BY <1>2, <1>5
  <2>2. \A n : LatestRow(n)' = LatestRow(n)
    BY CallsStay
  <2> QED
    BY <1>1, <2>1, <2>2, HousedStays DEF IInv, Bearing
<1> QED
  BY <1>7, <1>8, <1>9, <1>10, <1>12, <1>13, <1>14 DEF IInv

LEMMA Performing ==
  ASSUME IInv, NEW kind, May(kind)
  PROVE  /\ proc.pc = "apply" /\ proc.at <= Len(plan) /\ m \in Messages /\ proc.at \in Indices
         /\ plan[proc.at] \in Effects /\ plan[proc.at].kind = kind
         /\ effect[m][proc.at] \notin Recorded
         /\ kind # "REPRODUCE" => effect[m][proc.at] \notin Recorded \cup {"PENDING"}
         /\ m \in Seeds /\ <<m, proc.at>> \in Messages /\ <<m, 0>> \in Messages
         /\ pixel[me].active /\ me \in Pixels /\ proc \in Process /\ proc.round \in Nat
         /\ proc.at + 1 \in Nat \ {0} /\ Len(plan) + 1 \in Nat \ {0}
<1>1. /\ proc.pc = "apply" /\ proc.at <= Len(plan) /\ plan[proc.at].kind = kind
      /\ effect[m][proc.at] \notin Recorded
  BY DEF May, Current, At, i, Fresh
<1>2. proc.pc \in Stepping /\ proc.pc \in Applying
  BY <1>1 DEF Stepping, Applying
<1>3. /\ m \in Seeds /\ m \in Messages /\ proc.at \in Indices /\ plan[proc.at] \in Effects
      /\ pixel[me].active /\ me \in Pixels /\ proc \in Process /\ Len(plan) \in Nat
  BY <1>1, <1>2, Here, Batch
<1>4. effect[m][proc.at] = "PENDING" => plan[proc.at].kind = "REPRODUCE"
  BY <1>3 DEF IInv, Recording, plan
<1>5. <<m, proc.at>> \in Messages /\ <<m, 0>> \in Messages
  BY <1>3, Ids, Facts DEF Indices
<1>6. proc.round \in Nat /\ proc.at + 1 \in Nat \ {0} /\ Len(plan) + 1 \in Nat \ {0}
  BY <1>3 DEF Process
<1> QED
  BY <1>1, <1>3, <1>4, <1>5, <1>6

LEMMA ChargedIn ==
  ASSUME IInv, NEW p \in Pixels, NEW delta \in Int
  PROVE  /\ Charged(p, delta) \in [Pixels -> PixelRow]
         /\ \A q \in Pixels : /\ Charged(p, delta)[q].body = pixel[q].body
                              /\ Charged(p, delta)[q].career = pixel[q].career
<1>1. pixel \in [Pixels -> PixelRow]
  BY DEF IInv, Typed
<1>2. pixel[p].energy + delta \in Int
  BY <1>1 DEF PixelRow
<1>3. Max({0, pixel[p].energy + delta}) \in Nat
  BY <1>2, PairMax
<1>4. (pixel[p].energy + delta > 0) \in BOOLEAN
  OBVIOUS
<1> DEFINE row == [pixel[p] EXCEPT !.energy = Max({0, pixel[p].energy + delta}),
                                   !.active = pixel[p].energy + delta > 0]
<1>5. row \in PixelRow /\ row.body = pixel[p].body /\ row.career = pixel[p].career
  BY <1>1, <1>3, <1>4 DEF PixelRow
<1>6. Charged(p, delta) = [pixel EXCEPT ![p] = row]
  BY <1>1 DEF Charged, PixelRow
<1> HIDE DEF row
<1> QED
  BY <1>1, <1>5, <1>6

LEMMA SpentIn ==
  ASSUME IInv, NEW p \in Pixels, NEW tokens \in Nat
  PROVE  /\ Spent(p, tokens) \in [Pixels -> PixelRow]
         /\ \A q \in Pixels : Spent(p, tokens)[q].body = pixel[q].body
<1>1. pixel \in [Pixels -> PixelRow]
  BY DEF IInv, Typed
<1>2. pixel[p].energy - tokens \in Int
  BY <1>1 DEF PixelRow
<1>3. Max({0, pixel[p].energy - tokens}) \in Nat
  BY <1>2, PairMax
<1> QED
  BY <1>1, <1>3 DEF Spent, PixelRow

LEMMA ReadKeeps == ASSUME IInv, Read PROVE IInv'
<1>1. /\ May("READ") /\ Enqueue(<<m, proc.at>>, me, proc.round) /\ Receipt("APPLIED") /\ Carry
      /\ proc' = [proc EXCEPT !.at = @ + 1]
      /\ UNCHANGED <<company, run, call, tool, pixel, files, faults>>
  BY DEF Read, Feedback, i, Next1
<1>2. Mails
  BY <1>1, Performing, OneMail
<1>3. /\ proc' \in Process /\ proc'.pc = "apply" /\ proc'.run = r /\ proc'.msg = m
      /\ proc'.count = proc.count /\ proc'.at = proc.at + 1
  BY <1>1, Performing DEF Process, r, m
<1> QED
  BY <1>1, <1>2, <1>3, Performing, EffectKeeps DEF IInv, Typed, Recorded

LEMMA SkipToolKeeps == ASSUME IInv, SkipTool PROVE IInv'
<1>1. /\ May("TOOL") /\ Receipt("SKIPPED") /\ proc' = [proc EXCEPT !.at = @ + 1]
      /\ UNCHANGED <<company, run, mail, msg, call, tool, pixel, files, faults, carried>>
  BY DEF SkipTool, Next1, Bare
<1>2. /\ proc' \in Process /\ proc'.pc = "apply" /\ proc'.run = r /\ proc'.msg = m
      /\ proc'.count = proc.count /\ proc'.at = proc.at + 1
  BY <1>1, Performing DEF Process, r, m
<1> QED
  BY <1>1, <1>2, NoMail, Performing, EffectKeeps DEF IInv, Typed, Recorded

LEMMA RouteKeeps == ASSUME IInv, Route PROVE IInv'
<1>1. /\ May("ROUTE") /\ proc' = [proc EXCEPT !.at = @ + 1]
      /\ UNCHANGED <<company, run, call, tool, pixel, files, faults>>
  BY DEF Route, Next1
<1>2. \E p \in Pixels : Enqueue(<<m, proc.at>>, p, proc.round)
  BY <1>1, Performing DEF Route, Feedback, i, Effects
<1>3. Mails
  BY <1>1, <1>2, Performing, OneMail
<1>4. \E s \in Recorded : Receipt(s) /\ (Carry \/ UNCHANGED carried)
  BY DEF Route, Recorded
<1>5. /\ proc' \in Process /\ proc'.pc = "apply" /\ proc'.run = r /\ proc'.msg = m
      /\ proc'.count = proc.count /\ proc'.at = proc.at + 1
  BY <1>1, Performing DEF Process, r, m
<1>6. /\ pixel' \in [Pixels -> PixelRow] /\ \A p \in Pixels : pixel'[p].body = pixel[p].body
      /\ proc.at <= Len(plan) /\ effect[m][proc.at] \notin Recorded \cup {"PENDING"}
      /\ proc.pc = "apply" /\ pixel'[me].active
  BY <1>1, Performing DEF IInv, Typed
<1> QED
  BY <1>1, <1>3, <1>4, <1>5, <1>6, EffectKeeps

LEMMA TransferKeeps == ASSUME IInv, Transfer PROVE IInv'
<1>1. /\ May("TRANSFER") /\ proc' = IF pixel'[me].active THEN Next1 ELSE Last1
      /\ UNCHANGED <<company, run, call, tool, files, faults>>
  BY DEF Transfer
<1>2. \E s \in Recorded : Receipt(s) /\ (Carry \/ UNCHANGED carried)
  BY DEF Transfer, Recorded
<1>3. Mails
  <2>1. UNCHANGED <<mail, msg>> \/ Enqueue(<<m, proc.at>>, me, proc.round)
    BY DEF Transfer, Feedback, i
  <2> QED
    BY <1>1, <2>1, Performing, NoMail, OneMail
<1>4. pixel' \in [Pixels -> PixelRow] /\ \A p \in Pixels : pixel'[p].body = pixel[p].body
  <2> DEFINE e == plan[proc.at]
  <2>1. e \in Effects /\ me \in Pixels /\ pixel \in [Pixels -> PixelRow]
    BY <1>1, Performing DEF IInv, Typed
  <2>2. e.to \in Pixels /\ e.amount \in Int /\ -e.amount \in Int
    BY <2>1 DEF Effects
  <2> HIDE DEF e
  <2>3. Moved(e) \in [Pixels -> PixelRow] /\ \A p \in Pixels : Moved(e)[p].body = pixel[p].body
    BY <2>1, <2>2, ChargedIn DEF Moved
  <2>4. pixel' \in {pixel, Moved(e)}
    BY DEF Transfer, i, e
  <2> QED
    BY <2>1, <2>3, <2>4
<1>5. /\ proc' \in Process /\ proc'.pc = "apply" /\ proc'.run = r /\ proc'.msg = m
      /\ proc'.count = proc.count
      /\ (proc'.at = proc.at + 1 /\ pixel'[me].active) \/ proc'.at = Len(plan) + 1
  <2>1. \/ proc' = [proc EXCEPT !.at = @ + 1] /\ pixel'[me].active
        \/ proc' = [proc EXCEPT !.at = Len(plan) + 1]
    BY <1>1 DEF Next1, Last1
  <2> QED
    BY <1>1, <2>1, Performing DEF Process, r, m
<1> QED
  BY <1>1, <1>2, <1>3, <1>4, <1>5, Performing, EffectKeeps

LEMMA RecordNoBirthKeeps == ASSUME IInv, RecordNoBirth PROVE IInv'
<1>1. /\ proc.pc = "noBirth" /\ Receipt("FAILED") /\ proc' = [proc EXCEPT !.at = @ + 1, !.pc = "apply"]
      /\ UNCHANGED <<company, run, mail, msg, call, tool, pixel, files, faults, carried>>
  BY DEF RecordNoBirth, At, Next1, Bare
<1>2. proc.pc \in Stepping /\ proc.pc \in Applying /\ proc.pc \in AtEffect
  BY <1>1 DEF Stepping, Applying, AtEffect
<1>3. proc.at <= Len(plan) /\ effect[m][proc.at] = "none" /\ pixel[me].active
  BY <1>1, <1>2, Batch DEF IInv, Resuming
<1>4. /\ proc' \in Process /\ proc'.pc = "apply" /\ proc'.run = r /\ proc'.msg = m
      /\ proc'.count = proc.count /\ proc'.at = proc.at + 1
  <2>1. proc \in Process /\ proc.at + 1 \in Nat \ {0}
    BY <1>2, Batch, Here
  <2> QED
    BY <1>1, <2>1 DEF Process, r, m, Steps
<1>5. effect[m][proc.at] \notin Recorded \cup {"PENDING"} /\ "FAILED" \in Recorded
  BY <1>3 DEF Recorded
<1> QED
  BY <1>1, <1>3, <1>4, <1>5, NoMail, EffectKeeps DEF IInv, Typed

LEMMA SkipKeeps == ASSUME IInv, Skip PROVE IInv'
<1>1. /\ proc.pc = "apply" /\ proc.at <= Len(plan) /\ effect[m][proc.at] \in Recorded
      /\ UNCHANGED <<store, files, faults, carried>>
      /\ \E told, failed \in BOOLEAN :
           proc' = [proc EXCEPT !.at = @ + 1, !.tools = told, !.toolFailed = failed]
  <2> DEFINE isTool == plan[proc.at].kind = "TOOL" /\ effect[m][proc.at] # "SKIPPED"
  <2>1. /\ (proc.tools \/ isTool) \in BOOLEAN
        /\ (proc.toolFailed \/ (isTool /\ effect[m][proc.at] = "FAILED")) \in BOOLEAN
    OBVIOUS
  <2>2. proc' = [proc EXCEPT !.at = @ + 1, !.tools = proc.tools \/ isTool,
                             !.toolFailed = proc.toolFailed \/ (isTool /\ effect[m][proc.at] = "FAILED")]
    BY DEF Skip, Next1, i, IInv, Typed, Process
  <2> HIDE DEF isTool
  <2> QED
    BY <2>1, <2>2 DEF Skip, At, i, Fresh, Bare
<1>2. proc.pc \in Stepping /\ proc.pc \in Applying /\ proc.pc \notin Paying \cup Bearing
  BY <1>1 DEF Stepping, Applying, Paying, Bearing
<1>3. /\ proc' \in Process /\ proc'.pc = "apply" /\ m' = m /\ r' = r /\ proc'.count = proc.count
      /\ proc'.at = proc.at + 1
  <2>1. proc \in Process /\ proc.at + 1 \in Nat \ {0}
    BY <1>2, Batch, Here
  <2> QED
    BY <1>1, <2>1 DEF Process, m, r
<1>4. Typed' /\ Counted' /\ Billed' /\ Recording' /\ Addressed'
  BY <1>1, <1>3, StoreStays DEF IInv, Typed
<1>5. /\ m \in Messages /\ InMail(m)' /\ msg'[m].state = "RESPONSE_STORED" /\ pixel'[me].active
      /\ msg'[m].to = me
  BY <1>1, <1>2, <1>3, Here, Batch DEF StateAt, Bearing, InMail, store, me
<1>6. Placed' /\ Clean'
  <2>1. proc'.pc \in Stepping \ (Paying \cup {"tooling"}) /\ msg'[m].state \in StateAt(proc'.pc)
    BY <1>3, <1>5 DEF Stepping, Applying, Paying, StateAt, Bearing
  <2> QED
    BY <1>1, <1>2, <1>3, <1>5, <2>1, StepOn DEF InState, InMail, store
<1>7. Resuming'
  BY <1>1, <1>2, <1>3, <1>5, BatchOn DEF store
<1>8. Housed'
  BY <1>1, <1>2, <1>3, HousedKeeps DEF store, Bearing
<1> QED
  BY <1>4, <1>6, <1>7, <1>8 DEF IInv

\* The process stays at an effect.
LEMMA BatchHere ==
  ASSUME IInv, proc.pc \in Applying, proc'.pc \in Applying, proc.at <= Len(plan), call' = call,
         msg'[m].to = me, m' = m, proc'.at = proc.at, pixel'[me].active = pixel[me].active,
         \A k \in 1..(proc.at - 1) : effect'[m][k] = effect[m][k],
         proc'.pc \in {"tooling", "noBirth"} => effect'[m][proc.at] = "none",
         proc'.pc \in AtEffect => effect'[m][proc.at] \notin Recorded,
         proc'.pc \in Bearing =>
           LET p == plan[proc.at].to IN
           /\ effect'[m][proc.at] = "PENDING" /\ plan[proc.at].amount > 0 /\ p # me
           /\ \A n \in InState(InFlight \cup {"RESPONSE_STORED"})' : n = m \/ msg'[n].to # p,
         proc'.pc = "birth" => files'[plan[proc.at].to] > 0
  PROVE  Resuming' /\ plan' = plan /\ me' = me
<1>1. /\ m \in Seeds /\ Answered(m) /\ LatestRow(m).valid /\ pixel[me].active
      /\ \A k \in 1..(proc.at - 1) : effect[m][k] \in Recorded
  BY Batch
<1>2. Answered(m)' /\ LatestRow(m)' = LatestRow(m)
  BY <1>1, CallsStay
<1>3. plan' = plan /\ me' = me
  BY <1>2 DEF plan, me
<1>4. ~(proc'.pc \in Paying \cup {"step", "parse"})
  BY DEF Paying, Applying, AtEffect, Bearing
<1> QED
  BY <1>1, <1>2, <1>3, <1>4 DEF Resuming, At

LEMMA RefuseBirthKeeps == ASSUME IInv, RefuseBirth PROVE IInv'
<1>1. /\ May("REPRODUCE") /\ effect[m][proc.at] # "PENDING"
      /\ Enqueue(<<m, proc.at>>, me, proc.round) /\ proc' = [proc EXCEPT !.pc = "noBirth"]
      /\ UNCHANGED <<company, run, call, effect, tool, pixel, files, faults, carried>>
  BY DEF RefuseBirth, Feedback, Goto, i, Bare
<1>2. /\ proc.pc = "apply" /\ proc.at <= Len(plan) /\ m \in Messages /\ proc.at \in Indices
      /\ effect[m][proc.at] \notin Recorded /\ proc \in Process
  BY <1>1, Performing
<1>3. proc.pc \in Stepping /\ proc.pc \in Applying /\ proc.pc \notin Paying \cup Bearing
  BY <1>2 DEF Stepping, Applying, Paying, Bearing
<1>4. /\ proc' \in Process /\ proc'.pc = "noBirth" /\ m' = m /\ r' = r /\ proc'.count = proc.count
      /\ proc'.at = proc.at
  BY <1>1, <1>2 DEF Process, Steps, m, r
<1>5. Mails
  BY <1>1, Performing, OneMail
<1>6. Typed'
  BY <1>1, <1>4, <1>5 DEF IInv, Typed, CallsTyped, Calls, Mails
<1>7. Counted' /\ Billed'
  BY <1>1, BilledStays, CallsStay DEF IInv, Counted, Created, Open
<1>8. Addressed'
  BY <1>1, <1>5, MailsAddressed
<1>9. Recording'
  BY <1>1, <1>5, RecordingStays DEF IInv, Mails
<1>10. InMail(m)' /\ msg'[m] = msg[m] /\ msg[m].state = "RESPONSE_STORED"
  BY <1>2, <1>3, <1>4, <1>5, Here DEF Mails, StateAt, Bearing
<1>11. Placed' /\ Clean'
  <2>1. proc'.pc \in Stepping \ (Paying \cup {"tooling"}) /\ msg'[m].state \in StateAt(proc'.pc)
    BY <1>4, <1>10 DEF Stepping, Applying, AtEffect, Paying, StateAt, Bearing
  <2>2. \A n \in Messages : n # m /\ InMail(n)' /\ msg'[n].state \in InFlight => n \in InState(InFlight)
    BY <1>5, MailsFlight DEF InState
  <2> QED
    BY <1>1, <1>2, <1>3, <1>4, <1>10, <2>1, <2>2, StepOn
<1>12. Resuming'
  <2>1. effect[m][proc.at] = "none"
    BY <1>1, <1>2 DEF IInv, Typed, Receipts
  <2>2. proc'.pc \in Applying /\ proc'.pc \notin Bearing /\ msg'[m].to = me
    BY <1>4, <1>10 DEF Applying, AtEffect, Bearing, me
  <2> QED
    BY <1>1, <1>2, <1>3, <1>4, <2>1, <2>2, BatchHere DEF Recorded
<1>13. Housed'
  BY <1>1, <1>3, <1>4, HousedKeeps DEF Bearing
<1> QED
  BY <1>6, <1>7, <1>8, <1>9, <1>11, <1>12, <1>13 DEF IInv

LEMMA StartToolKeeps == ASSUME IInv, StartTool PROVE IInv'
<1>1. /\ May("TOOL") /\ tool' = [tool EXCEPT ![m][proc.at] = "STARTED"] /\ Carry
      /\ proc' = [proc EXCEPT !.pc = "tooling"]
      /\ UNCHANGED <<company, run, mail, msg, call, effect, pixel, files, faults>>
  BY DEF StartTool, Goto, i
<1>2. /\ proc.pc = "apply" /\ proc.at <= Len(plan) /\ m \in Messages /\ proc.at \in Indices
      /\ effect[m][proc.at] \notin Recorded \cup {"PENDING"} /\ proc \in Process
  BY <1>1, Performing
<1>3. /\ proc.pc \in Stepping /\ proc.pc \in Applying /\ proc.pc \notin Paying \cup Bearing
      /\ proc.pc \in Applying \ {"tooling"}
  BY <1>2 DEF Stepping, Applying, Paying, Bearing
<1>4. /\ proc' \in Process /\ proc'.pc = "tooling" /\ m' = m /\ r' = r /\ proc'.count = proc.count
      /\ proc'.at = proc.at
  BY <1>1, <1>2 DEF Process, Steps, Awaits, m, r
<1>5. carried[m][proc.at] = 0
  BY <1>2, <1>3, NotCarried
<1>6. carried' = [carried EXCEPT ![m][proc.at] = 1]
  <2>1. Min({2, 1}) = 1
    BY DEF Min
  <2>2. carried[m][proc.at] + 1 = 1
    BY <1>5
  <2> QED
    BY <1>1, <2>1, <2>2 DEF Carry, i
<1>7. /\ tool' \in [Messages -> [Indices -> Executions]] /\ tool'[m][proc.at] = "STARTED"
      /\ carried' \in [Messages -> [Indices -> 0..1]]
      /\ \A n \in Messages, k \in Indices : n # m \/ k # proc.at =>
           tool'[n][k] = tool[n][k] /\ carried'[n][k] = carried[n][k]
  BY <1>1, <1>2, <1>6 DEF IInv, Typed, Executions
<1>8. Typed'
  BY <1>1, <1>4, <1>7 DEF IInv, Typed, CallsTyped, Calls
<1>9. Counted' /\ Billed'
  BY <1>1, BilledStays, CallsStay DEF IInv, Counted, Created, Open
<1>10. Mails
  BY <1>1, NoMail
<1>11. Addressed'
  BY <1>1, <1>10, MailsAddressed
<1>12. Recording'
  BY <1>1, <1>2, <1>3, <1>7, RecordingAt DEF InMail
<1>13. InMail(m)' /\ msg'[m].state = "RESPONSE_STORED" /\ msg'[m].to = me
  BY <1>1, <1>2, <1>3, <1>4, Here DEF InMail, StateAt, Bearing, me
<1>14. Placed' /\ Clean'
  <2>1. proc'.pc \in Stepping \ Paying /\ proc.pc \in Stepping \ Paying
        /\ msg'[m].state \in StateAt(proc'.pc)
    BY <1>3, <1>4, <1>13 DEF Stepping, Applying, AtEffect, Paying, StateAt, Bearing
  <2>2. \A n \in Messages, k \in Indices : tool[n][k] # "STARTED"
    BY <1>2, ToolsRest
  <2> QED
    BY <1>1, <1>2, <1>4, <1>7, <1>13, <2>1, <2>2, StepMoves DEF InState, InMail
<1>15. Resuming'
  <2>1. effect[m][proc.at] = "none"
    BY <1>2 DEF IInv, Typed, Receipts
  <2>2. proc'.pc \in Applying /\ proc'.pc \notin Bearing
    BY <1>4 DEF Applying, AtEffect, Bearing
  <2> QED
    BY <1>1, <1>2, <1>3, <1>4, <1>13, <2>1, <2>2, BatchHere DEF Recorded
<1>16. Housed'
  BY <1>1, <1>3, <1>4, HousedKeeps DEF Bearing
<1> QED
  BY <1>8, <1>9, <1>11, <1>12, <1>14, <1>15, <1>16 DEF IInv

LEMMA ToolDoneKeeps == ASSUME IInv, NEW ok \in BOOLEAN, ToolDone(ok) PROVE IInv'
<1>1. PICK s \in {"SUCCESS", "FAILED"}, e \in {"APPLIED", "FAILED"} :
        /\ tool' = [tool EXCEPT ![m][proc.at] = s] /\ effect' = [effect EXCEPT ![m][proc.at] = e]
  BY DEF ToolDone, Receipt, i
<1>2. /\ proc.pc = "tooling"
      /\ proc' = [proc EXCEPT !.at = @ + 1, !.pc = "apply", !.tools = TRUE, !.toolFailed = ~ok]
      /\ UNCHANGED <<company, run, mail, msg, call, pixel, files, faults, carried>>
  BY DEF ToolDone, Bare, At, Next1
<1>3. /\ proc.pc \in Stepping /\ proc.pc \in Applying /\ proc.pc \notin Paying \cup Bearing
      /\ proc.pc \in AtEffect
  BY <1>2 DEF Stepping, Applying, AtEffect, Paying, Bearing
<1>4. proc.at <= Len(plan) /\ effect[m][proc.at] = "none"
  BY <1>2, <1>3 DEF IInv, Resuming
<1>5. /\ m \in Messages /\ proc.at \in Indices /\ InMail(m) /\ msg[m].state = "RESPONSE_STORED"
      /\ pixel[me].active /\ proc \in Process /\ proc.at + 1 \in Nat \ {0}
  BY <1>2, <1>3, <1>4, Here, Batch DEF StateAt, Bearing
<1>6. /\ proc' \in Process /\ proc'.pc = "apply" /\ m' = m /\ r' = r /\ proc'.count = proc.count
      /\ proc'.at = proc.at + 1
  BY <1>2, <1>5 DEF Process, Steps, m, r
<1>7. /\ tool' \in [Messages -> [Indices -> Executions]] /\ tool'[m][proc.at] = s
      /\ effect' \in [Messages -> [Indices -> Receipts]] /\ effect'[m][proc.at] = e
      /\ \A n \in Messages, k \in Indices : n # m \/ k # proc.at =>
           tool'[n][k] = tool[n][k] /\ effect'[n][k] = effect[n][k]
  BY <1>1, <1>5 DEF IInv, Typed, Executions, Receipts, Recorded
<1>8. Typed'
  BY <1>2, <1>6, <1>7 DEF IInv, Typed, CallsTyped, Calls
<1>9. Counted' /\ Billed'
  BY <1>2, BilledStays, CallsStay DEF IInv, Counted, Created, Open
<1>10. Mails
  BY <1>2, NoMail
<1>11. Addressed'
  BY <1>2, <1>10, MailsAddressed
<1>12. e \in Recorded /\ effect[m][proc.at] \notin Recorded
  BY <1>1, <1>4 DEF Recorded
<1>13. Recording'
  BY <1>1, <1>2, <1>3, <1>4, <1>7, <1>12, RecordingAt DEF InMail, Recorded
<1>14. InMail(m)' /\ msg'[m].state = "RESPONSE_STORED" /\ msg'[m].to = me /\ pixel'[me].active
  <2>1. InMail(m)' /\ msg'[m].state = "RESPONSE_STORED"
    BY <1>2, <1>5, <1>6 DEF InMail
  <2>2. msg'[m].to = me
    BY <1>2 DEF me
  <2> QED
    BY <1>2, <1>5, <2>1, <2>2
<1>15. Placed' /\ Clean'
  <2>1. proc'.pc \in Stepping \ Paying /\ proc.pc \in Stepping \ Paying
        /\ msg'[m].state \in StateAt(proc'.pc)
    BY <1>3, <1>6, <1>14 DEF Stepping, Applying, Paying, StateAt, Bearing
  <2>2. \A n \in Messages, k \in Indices : tool'[n][k] # "STARTED"
    BY <1>1, <1>2, <1>7 DEF IInv, Clean, At
  <2> QED
    BY <1>2, <1>6, <1>14, <2>1, <2>2, StepMoves DEF InState, InMail
<1>16. Resuming'
  <2>1. \A k \in 1..(proc.at - 1) : effect'[m][k] = effect[m][k]
    BY <1>5, <1>7, Facts DEF Indices
  <2> QED
    BY <1>2, <1>3, <1>4, <1>6, <1>7, <1>12, <1>14, <2>1, BatchOn
<1>17. Housed'
  <2>1. \A n \in Messages : \A k \in Indices : effect[n][k] = "PENDING" => effect'[n][k] = "PENDING"
    BY <1>4, <1>7
  <2>2. \A n : LatestRow(n)' = LatestRow(n)
    BY <1>2, CallsStay
  <2> QED
    BY <1>2, <1>6, <2>1, <2>2, HousedStays DEF IInv, Bearing
<1> QED
  BY <1>8, <1>9, <1>11, <1>13, <1>15, <1>16, <1>17 DEF IInv

-----------------------------------------------------------------------------
(* Births.                                                                  *)
LEMMA Target ==
  ASSUME IInv, proc.pc \in Bearing
  PROVE  LET p == plan[proc.at].to IN
         /\ proc.at <= Len(plan) /\ p \in Pixels /\ p # me /\ effect[m][proc.at] = "PENDING"
         /\ plan[proc.at].amount \in Nat /\ plan[proc.at].kind = "REPRODUCE"
         /\ m \in Messages /\ proc.at \in Indices /\ msg[m].state = "PROCESSING"
         /\ \A n \in InState(InFlight \cup {"RESPONSE_STORED"}) : n = m \/ msg[n].to # p
         /\ proc.pc = "birth" => files[p] > 0
         /\ proc.pc \in Stepping /\ proc.pc \in Applying
         /\ proc.pc \notin Paying \cup {"tooling", "idle", "finish", "over"}
<1>1. /\ proc.pc \in Stepping /\ proc.pc \in Applying /\ proc.pc \in AtEffect
      /\ proc.pc \notin Paying \cup {"tooling", "idle", "finish", "over"}
  BY DEF Stepping, Applying, AtEffect, Paying, Bearing
<1>2. /\ proc.at <= Len(plan) /\ effect[m][proc.at] = "PENDING" /\ plan[proc.at].amount > 0
      /\ plan[proc.at].to # me
      /\ \A n \in InState(InFlight \cup {"RESPONSE_STORED"}) : n = m \/ msg[n].to # plan[proc.at].to
      /\ proc.pc = "birth" => files[plan[proc.at].to] > 0
  BY <1>1 DEF IInv, Resuming, At
<1>3. plan[proc.at] \in Effects /\ m \in Messages /\ proc.at \in Indices
  BY <1>1, <1>2, Batch, Here
<1>4. plan[proc.at].to \in Pixels /\ plan[proc.at].amount \in Nat
  BY <1>2, <1>3 DEF Effects
<1>5. plan[proc.at].kind = "REPRODUCE"
  BY <1>2, <1>3 DEF IInv, Recording, plan
<1>6. msg[m].state = "PROCESSING"
  BY <1>1, Here DEF StateAt, Bearing
<1> QED
  BY <1>1, <1>2, <1>3, <1>4, <1>5, <1>6

LEMMA AnnounceBirthKeeps == ASSUME IInv, AnnounceBirth PROVE IInv'
<1> DEFINE p == plan[proc.at].to
<1>1. /\ May("REPRODUCE") /\ effect[m][proc.at] # "PENDING" /\ Birthplace(p, plan[proc.at].amount)
      /\ msg' = WithState({m}, "PROCESSING") /\ effect' = [effect EXCEPT ![m][proc.at] = "PENDING"]
      /\ proc' = [proc EXCEPT !.pc = "moving"]
      /\ UNCHANGED <<company, run, mail, call, tool, pixel, files, faults, carried>>
  BY DEF AnnounceBirth, Receipt, Goto, i, Bare
<1>2. /\ proc.pc = "apply" /\ proc.at <= Len(plan) /\ m \in Messages /\ proc.at \in Indices
      /\ effect[m][proc.at] \notin Recorded /\ proc \in Process /\ pixel[me].active
      /\ plan[proc.at].kind = "REPRODUCE" /\ me \in Pixels
  BY <1>1, Performing
<1>3. /\ proc.pc \in Stepping /\ proc.pc \in Applying /\ proc.pc \notin Paying \cup Bearing
      /\ proc.pc \in Applying \ {"tooling"}
  BY <1>2 DEF Stepping, Applying, Paying, Bearing
<1>4. /\ proc' \in Process /\ proc'.pc = "moving" /\ m' = m /\ r' = r /\ proc'.count = proc.count
      /\ proc'.at = proc.at
  BY <1>1, <1>2 DEF Process, Steps, m, r
<1>5. /\ effect[m][proc.at] = "none" /\ carried[m][proc.at] = 0 /\ tool[m][proc.at] = "none"
  BY <1>1, <1>2, <1>3, NotCarried DEF IInv, Typed, Receipts
<1>6. /\ effect' \in [Messages -> [Indices -> Receipts]] /\ effect'[m][proc.at] = "PENDING"
      /\ \A n \in Messages, k \in Indices : n # m \/ k # proc.at => effect'[n][k] = effect[n][k]
  BY <1>1, <1>2 DEF IInv, Typed, Receipts
<1>7. /\ msg' \in [Messages -> MessageRow]
      /\ \A n \in Messages : /\ msg'[n].to = msg[n].to /\ msg'[n].body = msg[n].body
                             /\ msg'[n].state = IF n = m THEN "PROCESSING" ELSE msg[n].state
  <2>1. "PROCESSING" \in MessageStates
    BY DEF MessageStates, InFlight
  <2> QED
    BY <1>1, <1>2, <2>1, OneMoves
<1>8. InMail(m) /\ msg[m].state = "RESPONSE_STORED" /\ Live(m)
  BY <1>2, <1>3, Here DEF StateAt, Bearing
<1>9. Typed'
  BY <1>1, <1>4, <1>6, <1>7, RowsTyped DEF IInv, Typed
<1>10. Counted' /\ Billed'
  BY <1>1, BilledStays, CallsStay DEF IInv, Counted, Created, Open
<1>11. Recording'
  <2>1. /\ \A n \in Messages : InMail(n) => InMail(n)'
        /\ \A n \in Messages : InMail(n) /\ msg[n].state = "ABANDONED" => msg'[n].state = "ABANDONED"
    BY <1>1, <1>7, <1>8 DEF InMail
  <2>2. \A n \in Messages, k \in Indices : n # m \/ k # proc.at =>
          effect'[n][k] = effect[n][k] /\ tool'[n][k] = tool[n][k] /\ carried'[n][k] = carried[n][k]
    BY <1>1, <1>6
  <2>3. tool'[m][proc.at] = "none" /\ carried'[m][proc.at] = 0
    BY <1>1, <1>5
  <2> QED
    BY <1>1, <1>2, <1>3, <1>6, <2>1, <2>2, <2>3, RecordingAt
<1>12. Addressed'
  <2>1. \A n \in Messages : Resolved(n)' = Resolved(n)
    BY <1>1, CallsStay
  <2>2. \A n \in Messages : Live(n)' => Live(n)
    BY <1>1, <1>7, <1>8 DEF Live, InMail
  <2> QED
    BY <1>1, <1>7, <2>1, <2>2, AddressedStays DEF IInv
<1>13. InMail(m)' /\ msg'[m].state = "PROCESSING"
  BY <1>1, <1>2, <1>4, <1>7, <1>8 DEF InMail
<1>14. Placed' /\ Clean'
  <2>1. proc'.pc \in Stepping \ (Paying \cup {"tooling"}) /\ msg'[m].state \in StateAt(proc'.pc)
    BY <1>4, <1>13 DEF Stepping, Applying, AtEffect, Paying, StateAt, Bearing
  <2>2. \A n \in Messages : n # m /\ InMail(n)' /\ msg'[n].state \in InFlight => n \in InState(InFlight)
    BY <1>1, <1>7 DEF InState, InMail
  <2> QED
    BY <1>1, <1>2, <1>3, <1>4, <1>13, <2>1, <2>2, StepOn
<1>15. Resuming'
  <2>1. /\ plan[proc.at].amount > 0 /\ ~pixel[p].active
        /\ \A n \in InState(InFlight \cup {"RESPONSE_STORED"}) : msg[n].to # p
    BY <1>1 DEF Birthplace
  <2>2. p # me
    BY <1>2, <2>1
  <2>3. \A n \in InState(InFlight \cup {"RESPONSE_STORED"})' : n = m \/ msg'[n].to # p
    BY <1>1, <1>7, <2>1 DEF InState, InMail
  <2>4. \A k \in 1..(proc.at - 1) : effect'[m][k] = effect[m][k]
    BY <1>2, <1>6, Facts DEF Indices
  <2>5. /\ proc'.pc \in Applying /\ proc'.pc \notin {"tooling", "noBirth", "birth"} /\ proc'.pc \in Bearing
        /\ msg'[m].to = me /\ effect'[m][proc.at] \notin Recorded
    BY <1>2, <1>4, <1>6, <1>7 DEF Applying, AtEffect, Bearing, me, Recorded
  <2> QED
    BY <1>1, <1>2, <1>3, <1>4, <1>6, <2>1, <2>2, <2>3, <2>4, <2>5, BatchHere
<1>16. Housed'
  <2>1. \A q : Expected(q)' = Expected(q)
    BY <1>1, <1>2, <1>4 DEF Expected, At
  <2>2. \A n : LatestRow(n)' = LatestRow(n)
    BY <1>1, CallsStay
  <2>3. \A q : Marked(q) => Marked(q)'
    BY <1>2, <1>3, <1>4, <1>5, <1>6, <2>2 DEF Marked
  <2> QED
    BY <1>1, <2>1, <2>3 DEF IInv, Housed
<1> QED
  BY <1>9, <1>10, <1>11, <1>12, <1>14, <1>15, <1>16 DEF IInv

LEMMA MoveFilesKeeps == ASSUME IInv, MoveFiles PROVE IInv'
<1> DEFINE p == plan[proc.at].to
<1>1. /\ proc.pc = "moving" /\ files' = [files EXCEPT ![p] = @ + 1]
      /\ proc' = [proc EXCEPT !.pc = "birth"] /\ UNCHANGED <<store, faults, carried>>
  BY DEF MoveFiles, At, Goto, i
<1>2. proc.pc \in Bearing
  BY <1>1 DEF Bearing
<1>3. p \in Pixels /\ files \in [Pixels -> Nat] /\ proc \in Process
  BY <1>2, Target, Here DEF IInv, Typed
<1>4. /\ files' \in [Pixels -> Nat] /\ files'[p] = files[p] + 1 /\ files'[p] > 0
      /\ \A q \in Pixels \ {p} : files'[q] = files[q]
  BY <1>1, <1>3
<1>5. /\ proc' \in Process /\ proc'.pc = "birth" /\ m' = m /\ r' = r /\ proc'.count = proc.count
      /\ proc'.at = proc.at
  BY <1>1, <1>3 DEF Process, Steps, m, r
<1>6. Typed' /\ Counted' /\ Billed' /\ Recording' /\ Addressed'
  BY <1>1, <1>4, <1>5, StoreStays DEF IInv, Typed
<1>7. InMail(m)' /\ msg'[m].state = "PROCESSING" /\ msg'[m].to = me
  BY <1>1, <1>2, <1>5, Target, Here DEF InMail, store, me
<1>8. Placed' /\ Clean'
  <2>1. proc'.pc \in Stepping \ (Paying \cup {"tooling"}) /\ msg'[m].state \in StateAt(proc'.pc)
    BY <1>5, <1>7 DEF Stepping, Applying, AtEffect, Paying, StateAt, Bearing
  <2> QED
    BY <1>1, <1>2, <1>5, <1>7, <2>1, Target, StepOn DEF InState, InMail, store
<1>9. Resuming' /\ plan' = plan
  <2>1. proc'.pc \in Applying /\ proc'.pc \notin {"tooling", "noBirth"} /\ proc'.pc \in Bearing
    BY <1>5 DEF Applying, AtEffect, Bearing
  <2>2. plan[proc.at].amount > 0 /\ effect[m][proc.at] \notin Recorded
    BY <1>2 DEF IInv, Resuming, AtEffect
  <2>3. \A n \in InState(InFlight \cup {"RESPONSE_STORED"})' : n = m \/ msg'[n].to # p
    BY <1>1, <1>2, Target DEF InState, InMail, store
  <2> QED
    BY <1>1, <1>2, <1>4, <1>5, <1>7, <2>1, <2>2, <2>3, Target, BatchHere DEF store
<1>10. Housed'
  <2>1. \A q \in Pixels : Expected(q)' = Expected(q)
    BY <1>1, <1>3, <1>4, <1>5, <1>9 DEF Expected, At
  <2>2. \A n : LatestRow(n)' = LatestRow(n)
    BY <1>1, CallsStay DEF store
  <2>3. \A q : Marked(q) => Marked(q)'
    BY <1>1, <1>2, <1>5, <2>2 DEF Marked, Bearing, store
  <2> QED
    BY <1>1, <2>1, <2>3 DEF IInv, Housed, store
<1> QED
  BY <1>6, <1>8, <1>9, <1>10 DEF IInv

LEMMA BirthFailsKeeps == ASSUME IInv, BirthFails PROVE IInv'
<1> DEFINE p == plan[proc.at].to
<1>1. /\ proc.pc \in Bearing /\ faults < MaxFaults /\ faults' = faults + 1
      /\ files' = IF proc.pc = "birth" THEN [files EXCEPT ![p] = @ - 1] ELSE files
      /\ effect' = [effect EXCEPT ![m][proc.at] = "none"] /\ msg' = WithState({m}, "RESPONSE_STORED")
      /\ RoundOver("INFRASTRUCTURE_FAILURE")
      /\ UNCHANGED <<company, run, mail, call, tool, pixel, carried>>
  BY DEF BirthFails, Bearing, At, Receipt, Fault, i
<1>2. /\ p \in Pixels /\ files \in [Pixels -> Nat] /\ m \in Messages /\ proc.at \in Indices
      /\ proc.at <= Len(plan)
      /\ proc.pc = "birth" => files[p] > 0
  BY <1>1, Target DEF IInv, Typed
<1>3. /\ files' \in [Pixels -> Nat]
      /\ \A q \in Pixels : files'[q] = IF proc.pc = "birth" /\ q = p THEN files[q] - 1 ELSE files[q]
  <2> HIDE DEF p
  <2>1. CASE proc.pc = "birth"
    <3>1. files' = [files EXCEPT ![p] = @ - 1] /\ files[p] - 1 \in Nat
      BY <1>1, <1>2, <2>1
    <3> QED
      BY <1>2, <2>1, <3>1
  <2>2. CASE proc.pc # "birth"
    BY <1>1, <1>2, <2>2
  <2> QED
    BY <2>1, <2>2
<1>4. faults' \in 0..MaxFaults
  BY <1>1, Facts DEF IInv, Typed
<1>5. effect[m][proc.at] \notin Recorded /\ carried[m][proc.at] = 0 /\ tool[m][proc.at] = "none"
  BY <1>1, Target, NotCarried DEF Recorded
<1>6. /\ effect' \in [Messages -> [Indices -> Receipts]] /\ effect'[m][proc.at] = "none"
      /\ \A n \in Messages, k \in Indices : n # m \/ k # proc.at => effect'[n][k] = effect[n][k]
  BY <1>1, <1>2 DEF IInv, Typed, Receipts
<1>7. /\ msg' \in [Messages -> MessageRow]
      /\ \A n \in Messages : /\ msg'[n].to = msg[n].to /\ msg'[n].body = msg[n].body
                             /\ msg'[n].state = IF n = m THEN "RESPONSE_STORED" ELSE msg[n].state
  <2>1. "RESPONSE_STORED" \in MessageStates
    BY DEF MessageStates, Claimable
  <2> QED
    BY <1>1, <1>2, <2>1, OneMoves
<1>8. InMail(m) /\ msg[m].state = "PROCESSING" /\ Live(m)
  BY <1>1, Target, Here
<1>9. Placed' /\ Clean' /\ Resuming' /\ proc' \in Process
  <2>1. "INFRASTRUCTURE_FAILURE" \in StopReasons /\ "INFRASTRUCTURE_FAILURE" \in Interrupting
    BY DEF StopReasons, Interrupting
  <2>2. \A n \in Messages : Resolved(n)'
    BY <1>1, Target, Quiet, CallsStay
  <2>3. proc.pc \notin {"idle", "tooling"}
    BY <1>1 DEF Bearing
  <2> QED
    BY <1>1, <2>1, <2>2, <2>3, Over
<1>10. Typed'
  BY <1>1, <1>3, <1>4, <1>6, <1>7, <1>9, RowsTyped DEF IInv, Typed
<1>11. Counted' /\ Billed'
  BY <1>1, BilledStays, CallsStay DEF IInv, Counted, Created, Open
<1>12. Recording'
  <2>1. /\ \A n \in Messages : InMail(n) => InMail(n)'
        /\ \A n \in Messages : InMail(n) /\ msg[n].state = "ABANDONED" => msg'[n].state = "ABANDONED"
    BY <1>1, <1>7, <1>8 DEF InMail
  <2>2. \A n \in Messages, k \in Indices : n # m \/ k # proc.at =>
          effect'[n][k] = effect[n][k] /\ tool'[n][k] = tool[n][k] /\ carried'[n][k] = carried[n][k]
    BY <1>1, <1>6
  <2>3. tool'[m][proc.at] = "none" /\ carried'[m][proc.at] = 0
    BY <1>1, <1>5
  <2> QED
    BY <1>1, <1>2, <1>5, <1>6, <2>1, <2>2, <2>3, Target, RecordingAt
<1>13. Addressed'
  <2>1. \A n \in Messages : Resolved(n)' = Resolved(n)
    BY <1>1, CallsStay
  <2>2. \A n \in Messages : Live(n)' => Live(n)
    BY <1>1, <1>7, <1>8 DEF Live, InMail
  <2> QED
    BY <1>1, <1>7, <2>1, <2>2, AddressedStays DEF IInv
<1>14. Housed'
  <2>1. proc'.pc = "over"
    BY <1>1 DEF RoundOver, IInv, Typed, Process
  <2>2. \A q \in Pixels : Expected(q)' = Expected(q)
    BY <1>3, <2>1 DEF Expected, At
  <2>3. \A n : LatestRow(n)' = LatestRow(n)
    BY <1>1, CallsStay
  <2>4. \A q : Marked(q) => Marked(q)'
    BY <1>1, <1>6, <2>1, <2>3 DEF Marked, Bearing
  <2> QED
    BY <1>1, <2>2, <2>4 DEF IInv, Housed
<1> QED
  BY <1>9, <1>10, <1>11, <1>12, <1>13, <1>14 DEF IInv

LEMMA BirthKeeps == ASSUME IInv, Birth PROVE IInv'
<1> DEFINE p == plan[proc.at].to
           energy == IF company THEN 0 ELSE plan[proc.at].amount
           newborn == [energy |-> energy, active |-> TRUE, body |-> files[p], career |-> "candidate"]
<1>1. /\ proc.pc = "birth" /\ proc.pc \in Bearing
      /\ effect' = [effect EXCEPT ![m][proc.at] = "APPLIED"] /\ Carry
      /\ UNCHANGED <<company, run, mail, call, tool, files, faults>>
  BY DEF Birth, At, Receipt, i, Bearing
<1>2. /\ p \in Pixels /\ p # me /\ files \in [Pixels -> Nat] /\ m \in Messages /\ proc.at \in Indices
      /\ proc.at <= Len(plan) /\ plan[proc.at].amount \in Nat /\ proc.pc \in Applying
      /\ effect[m][proc.at] \notin Recorded /\ proc.pc \in Stepping /\ proc.pc \in Applying \ {"tooling"}
      /\ \A n \in InState(InFlight \cup {"RESPONSE_STORED"}) : n = m \/ msg[n].to # p
      /\ proc.pc \notin Paying /\ proc.pc # "tooling"
  BY <1>1, Target DEF IInv, Typed, Recorded
<1>3. me \in Pixels /\ proc \in Process /\ InMail(m) /\ Live(m) /\ msg[m].state = "PROCESSING"
  BY <1>1, <1>2, Here, Target
<1>4. carried[m][proc.at] = 0 /\ tool[m][proc.at] = "none"
  BY <1>2, NotCarried
<1>5. /\ pixel' \in [Pixels -> PixelRow] /\ pixel'[p].body = files[p]
      /\ \A q \in Pixels \ {p} : pixel'[q].body = pixel[q].body
  <2>1. energy \in Nat /\ -energy \in Int
    BY <1>2
  <2> HIDE DEF energy
  <2>2. newborn \in PixelRow /\ newborn.body = files[p]
    BY <1>2, <2>1 DEF PixelRow
  <2>3. Charged(me, -energy)[me] \in PixelRow /\ Charged(me, -energy)[me].body = pixel[me].body
    BY <1>3, <2>1, ChargedIn
  <2>4. pixel \in [Pixels -> PixelRow]
    BY DEF IInv, Typed
  <2>5. pixel' = [q \in Pixels |->
                    CASE q = p  -> newborn
                      [] q = me -> IF company THEN pixel[me] ELSE Charged(me, -energy)[me]
                      [] OTHER  -> pixel[q]]
    BY DEF Birth, i, energy
  <2> HIDE DEF newborn, p
  <2> QED
    BY <1>2, <1>3, <2>2, <2>3, <2>4, <2>5
<1>6. /\ msg' \in [Messages -> MessageRow]
      /\ \A n \in Messages :
           /\ msg'[n].to = msg[n].to /\ msg'[n].body = msg[n].body
           /\ msg'[n].state = IF n = m THEN "RESPONSE_STORED"
                              ELSE IF n \in Orphans(p) THEN "ABANDONED" ELSE msg[n].state
  <2>1. {"RESPONSE_STORED", "ABANDONED"} \subseteq MessageStates /\ msg \in [Messages -> MessageRow]
    BY DEF MessageStates, Claimable, IInv, Typed
  <2>2. msg' = [n \in Messages |->
                  CASE n = m -> [msg[m] EXCEPT !.state = "RESPONSE_STORED"]
                    [] n \in Orphans(p) -> [msg[n] EXCEPT !.state = "ABANDONED"]
                    [] OTHER -> msg[n]]
    BY DEF Birth, i
  <2> HIDE DEF p
  <2>3. ASSUME NEW n \in Messages
        PROVE  /\ msg'[n] \in MessageRow /\ msg'[n].to = msg[n].to /\ msg'[n].body = msg[n].body
               /\ msg'[n].state = IF n = m THEN "RESPONSE_STORED"
                                  ELSE IF n \in Orphans(p) THEN "ABANDONED" ELSE msg[n].state
    <3>1. msg[n] \in MessageRow
      BY <2>1
    <3>2. CASE n = m
      <4>1. n \notin Orphans(p)
        BY <1>3, <3>2 DEF Orphans, InState, Waiting
      <4>2. msg'[n] = [msg[n] EXCEPT !.state = "RESPONSE_STORED"]
        BY <2>2, <3>2, <4>1
      <4> QED
        BY <2>1, <3>1, <3>2, <4>2 DEF MessageRow
    <3>3. CASE n # m /\ n \in Orphans(p)
      BY <2>1, <2>2, <3>1, <3>3 DEF MessageRow
    <3>4. CASE n # m /\ n \notin Orphans(p)
      BY <2>1, <2>2, <3>1, <3>4 DEF MessageRow
    <3> QED
      BY <3>2, <3>3, <3>4
  <2>4. msg' \in [Messages -> MessageRow]
    BY <2>2, <2>3
  <2> QED
    BY <2>3, <2>4
<1>7. /\ effect' \in [Messages -> [Indices -> Receipts]] /\ effect'[m][proc.at] = "APPLIED"
      /\ \A n \in Messages, k \in Indices : n # m \/ k # proc.at => effect'[n][k] = effect[n][k]
  BY <1>1, <1>2 DEF IInv, Typed, Receipts, Recorded
<1>8. carried' = [carried EXCEPT ![m][proc.at] = 1]
  <2>1. Min({2, 1}) = 1
    BY DEF Min
  <2>2. carried[m][proc.at] + 1 = 1
    BY <1>4
  <2> QED
    BY <1>1, <2>1, <2>2 DEF Carry, i
<1>9. /\ carried' \in [Messages -> [Indices -> 0..1]]
      /\ \A n \in Messages, k \in Indices : n # m \/ k # proc.at => carried'[n][k] = carried[n][k]
  BY <1>2, <1>8 DEF IInv, Typed
<1>10. /\ proc' \in Process /\ proc'.pc = "apply" /\ m' = m /\ r' = r /\ proc'.count = proc.count
       /\ (proc'.at = proc.at + 1 /\ pixel'[me].active) \/ proc'.at = Len(plan) + 1
  <2>1. \/ proc' = [proc EXCEPT !.at = @ + 1, !.pc = "apply"] /\ pixel'[me].active
        \/ proc' = [proc EXCEPT !.at = Len(plan) + 1, !.pc = "apply"]
    BY DEF Birth, Next1, Last1
  <2>2. proc.at + 1 \in Nat \ {0} /\ Len(plan) + 1 \in Nat \ {0}
    BY <1>2, Batch
  <2>3. CASE proc' = [proc EXCEPT !.at = @ + 1, !.pc = "apply"] /\ pixel'[me].active
    BY <1>3, <2>2, <2>3 DEF Process, Steps, m, r
  <2>4. CASE proc' = [proc EXCEPT !.at = Len(plan) + 1, !.pc = "apply"]
    BY <1>3, <2>2, <2>4 DEF Process, Steps, m, r
  <2> QED
    BY <2>1, <2>3, <2>4
<1>11. Typed'
  BY <1>1, <1>5, <1>6, <1>7, <1>9, <1>10 DEF IInv, Typed, CallsTyped, Calls
<1>12. Counted' /\ Billed'
  BY <1>1, BilledStays, CallsStay DEF IInv, Counted, Created, Open
<1>13. Recording'
  <2>1. /\ \A n \in Messages : InMail(n) => InMail(n)'
        /\ \A n \in Messages : InMail(n) /\ msg[n].state = "ABANDONED" => msg'[n].state = "ABANDONED"
    BY <1>1, <1>3, <1>6 DEF InMail
  <2>2. \A n \in Messages, k \in Indices : n # m \/ k # proc.at =>
          effect'[n][k] = effect[n][k] /\ tool'[n][k] = tool[n][k] /\ carried'[n][k] = carried[n][k]
    BY <1>1, <1>7, <1>9
  <2>3. tool'[m][proc.at] = "none" /\ effect'[m][proc.at] \in Recorded
    BY <1>1, <1>4, <1>7 DEF Recorded
  <2> QED
    BY <1>1, <1>2, <1>7, <2>1, <2>2, <2>3, RecordingAt
<1>14. Addressed'
  <2>1. \A n \in Messages : Resolved(n)'
    BY <1>1, <1>2, Quiet, CallsStay DEF Bearing
  <2>2. ASSUME NEW n \in Messages, Live(n)' PROVE Live(n) /\ msg[n].to # p
    <3>1. CASE n = m
      BY <1>2, <1>3, <3>1 DEF me
    <3>2. CASE n # m
      <4>1. InMail(n) /\ n \notin Orphans(p) /\ msg[n].state \in Claimable \cup InFlight \cup Waiting
        <5>1. "ABANDONED" \notin Claimable \cup InFlight \cup Waiting
          BY DEF Claimable, InFlight, Waiting
        <5>2. InMail(n)' <=> InMail(n)
          BY <1>1 DEF InMail
        <5> QED
          BY <1>6, <2>2, <3>2, <5>1, <5>2 DEF Live
      <4>2. msg[n].state \notin Waiting \cup {"QUEUED"} \/ msg[n].to # p
        BY <4>1 DEF Orphans, InState
      <4>3. msg[n].to = p => msg[n].state \in InFlight \cup {"RESPONSE_STORED"}
        BY <4>1, <4>2 DEF Claimable
      <4> QED
        BY <1>2, <3>2, <4>1, <4>3 DEF InState, Live
    <3> QED
      BY <3>1, <3>2
  <2> SUFFICES ASSUME NEW n \in Messages, Live(n)' PROVE msg'[n].body = pixel'[msg'[n].to].body
    BY <2>1 DEF Addressed
  <2>3. Live(n) /\ msg[n].to # p /\ msg[n].to \in Pixels
    BY <2>2 DEF IInv, Typed, MessageRow
  <2> QED
    BY <1>5, <1>6, <2>3 DEF IInv, Addressed
<1>15. InMail(m)' /\ msg'[m].state = "RESPONSE_STORED" /\ msg'[m].to = me
  BY <1>1, <1>2, <1>3, <1>6, <1>10 DEF InMail, me
<1>16. Placed' /\ Clean'
  <2>1. proc'.pc \in Stepping \ (Paying \cup {"tooling"}) /\ msg'[m].state \in StateAt(proc'.pc)
    BY <1>10, <1>15 DEF Stepping, Applying, Paying, StateAt, Bearing
  <2>2. \A n \in Messages : n # m /\ InMail(n)' /\ msg'[n].state \in InFlight => n \in InState(InFlight)
    <3>1. "ABANDONED" \notin InFlight
      BY DEF InFlight
    <3> QED
      BY <1>1, <1>6, <3>1 DEF InState, InMail
  <2> QED
    BY <1>1, <1>2, <1>10, <1>15, <2>1, <2>2, StepOn
<1>17. Resuming'
  <2>1. \A k \in 1..(proc.at - 1) : effect'[m][k] = effect[m][k]
    BY <1>2, <1>7, Facts DEF Indices
  <2>2. effect'[m][proc.at] \in Recorded
    BY <1>7 DEF Recorded
  <2> QED
    BY <1>1, <1>2, <1>10, <1>15, <2>1, <2>2, BatchOn
<1>18. Housed'
  <2>1. \A q \in Pixels : Expected(q)' = files[q]
    BY <1>1, <1>10 DEF Expected, At
  <2>2. \A q \in Pixels \ {p} : Expected(q) = files[q]
    BY <1>1 DEF Expected
  <2>3. \A n : LatestRow(n)' = LatestRow(n)
    BY <1>1, CallsStay
  <2>4. \A q : Marked(q) => Marked(q)'
    BY <1>1, <1>7, <1>10, <2>3 DEF Marked, Bearing
  <2> QED
    BY <1>5, <2>1, <2>2, <2>4 DEF IInv, Housed
<1> QED
  BY <1>11, <1>12, <1>13, <1>14, <1>16, <1>17, <1>18 DEF IInv

-----------------------------------------------------------------------------
(* A message is done.                                                       *)
LEMMA EndBatchKeeps == ASSUME IInv, EndBatch PROVE IInv'
<1>1. /\ proc.pc = "apply" /\ proc' = [proc EXCEPT !.pc = "commit"]
      /\ UNCHANGED <<company, run, call, effect, tool, pixel, files, faults, carried>>
  BY DEF EndBatch, At, Goto, Bare
<1>2. proc.pc \in Stepping /\ proc.pc \in Applying /\ proc.pc \notin Paying \cup Bearing
  BY <1>1 DEF Stepping, Applying, Paying, Bearing
<1>3. /\ m \in Messages /\ me \in Pixels /\ InMail(m) /\ msg[m].state = "RESPONSE_STORED"
      /\ proc \in Process /\ proc.round \in Nat
  BY <1>1, <1>2, Here DEF StateAt, Bearing, Process
<1>4. Mails
  <2>1. CASE proc.tools
    <3>1. m \in Seeds /\ <<m, 0>> \in Messages
      BY <1>2, <2>1, Ids, Facts DEF IInv, Resuming
    <3> QED
      BY <1>3, <2>1, <3>1, OneMail DEF EndBatch
  <2>2. CASE ~proc.tools
    BY <2>2, NoMail DEF EndBatch
  <2> QED
    BY <2>1, <2>2
<1>5. /\ proc' \in Process /\ proc'.pc = "commit" /\ m' = m /\ r' = r /\ proc'.count = proc.count
      /\ proc'.tools = proc.tools
  BY <1>1, <1>3 DEF Process, Steps, m, r
<1>6. Typed'
  BY <1>1, <1>4, <1>5 DEF IInv, Typed, CallsTyped, Calls, Mails
<1>7. Counted' /\ Billed'
  BY <1>1, BilledStays, CallsStay DEF IInv, Counted, Created, Open
<1>8. Addressed'
  BY <1>1, <1>4, MailsAddressed
<1>9. Recording'
  BY <1>1, <1>4, RecordingStays DEF IInv, Mails
<1>10. InMail(m)' /\ msg'[m] = msg[m]
  BY <1>3, <1>4, <1>5 DEF Mails
<1>11. Placed' /\ Clean'
  <2>1. proc'.pc \in Stepping \ (Paying \cup {"tooling"}) /\ msg'[m].state \in StateAt(proc'.pc)
    BY <1>3, <1>5, <1>10 DEF Stepping, Paying, StateAt, Bearing
  <2>2. \A n \in Messages : n # m /\ InMail(n)' /\ msg'[n].state \in InFlight => n \in InState(InFlight)
    BY <1>4, MailsFlight DEF InState
  <2> QED
    BY <1>1, <1>2, <1>5, <1>10, <2>1, <2>2, StepOn
<1>12. Resuming'
  BY <1>2, <1>5 DEF IInv, Resuming, At, Stepping, Paying, Applying, AtEffect, Bearing
<1>13. Housed'
  BY <1>1, <1>2, <1>5, HousedKeeps DEF Bearing
<1> QED
  BY <1>6, <1>7, <1>8, <1>9, <1>11, <1>12, <1>13 DEF IInv

LEMMA DoneKeeps ==
  ASSUME IInv, NEW from \in {"step", "parse", "commit"}, Done(from) PROVE IInv'
<1>1. /\ proc.pc = from /\ CountCommit(r, m) /\ msg' = WithState({m}, "COMMITTED")
      /\ proc' = [proc EXCEPT !.pc = "claim", !.count = @ + 1]
      /\ UNCHANGED <<company, mail, call, effect, tool, pixel, files, faults, carried>>
  BY DEF Done, At, Committed, Bare
<1>2. /\ proc.pc \in Stepping /\ proc.pc \notin Paying \cup Bearing
      /\ proc.pc \notin {"idle", "finish", "over", "tooling"}
  BY <1>1 DEF Stepping, Paying, Bearing
<1>3. /\ m \in Messages /\ InMail(m) /\ r \in Runs /\ r \in Created /\ run[r].messages <= proc.count
      /\ proc.count \in Nat /\ proc.count < MaxPerRound /\ proc \in Process
      /\ msg[m].state # "ABANDONED" /\ Live(m)
  BY <1>2, Here
<1>4. /\ run' \in [Runs -> RunRow] /\ run'[r].messages <= proc.count + 1
      /\ \A id \in Runs : /\ run'[id].status = run[id].status /\ run'[id].reserved = run[id].reserved
                          /\ run'[id].stop = run[id].stop
                          /\ run'[id].messages = run[id].messages \/ id = r
  <2>1. run \in [Runs -> RunRow]
    BY DEF IInv, Typed
  <2>2. CASE run' = [run EXCEPT ![r].messages = @ + 1]
    BY <1>3, <2>1, <2>2 DEF RunRow
  <2>3. CASE run' = run
    BY <1>3, <2>1, <2>3 DEF RunRow
  <2> QED
    BY <1>1, <2>2, <2>3 DEF CountCommit
<1>5. /\ msg' \in [Messages -> MessageRow]
      /\ \A n \in Messages : /\ msg'[n].to = msg[n].to /\ msg'[n].body = msg[n].body
                             /\ msg'[n].state = IF n = m THEN "COMMITTED" ELSE msg[n].state
  <2>1. "COMMITTED" \in MessageStates
    BY DEF MessageStates
  <2> QED
    BY <1>1, <1>3, <2>1, OneMoves
<1>6. proc' \in Process /\ proc'.pc = "claim" /\ r' = r /\ proc'.count = proc.count + 1
  <2>1. proc.count + 1 \in 0..MaxPerRound
    BY <1>3, Facts
  <2> QED
    BY <1>1, <1>3, <2>1 DEF Process, Steps, r
<1>7. Typed'
  BY <1>1, <1>4, <1>5, <1>6 DEF IInv, Typed, CallsTyped, Calls
<1>8. Created' = Created
  BY <1>4 DEF Created
<1>9. Counted'
  <2>1. run'[r].messages <= MaxPerRound
    BY <1>3, <1>4, Facts DEF RunRow
  <2> QED
    BY <1>4, <1>8, <2>1 DEF IInv, Counted
<1>10. Billed'
  BY <1>1, <1>4, BilledStays, CallsStay DEF IInv, Open
<1>11. Recording'
  BY <1>1, <1>3, <1>5, RecordingStays DEF IInv, InMail
<1>12. Addressed'
  <2>1. \A n \in Messages : Resolved(n)' = Resolved(n)
    BY <1>1, CallsStay
  <2>2. \A n \in Messages : Live(n)' => Live(n)
    BY <1>1, <1>3, <1>5 DEF Live, InMail
  <2> QED
    BY <1>1, <1>5, <2>1, <2>2, AddressedStays DEF IInv
<1>13. Placed' /\ Clean' /\ Resuming'
  <2>1. (r \in Created)' /\ (run[r].messages <= proc.count)'
    BY <1>3, <1>4, <1>6, <1>8
  <2>2. \A n \in Messages, k \in Indices : tool'[n][k] # "STARTED"
    BY <1>1, <1>2, ToolsRest
  <2>3. \A n \in Messages : Resolved(n)'
    BY <1>1, <1>2, Quiet, CallsStay
  <2>4. InState(InFlight)' = {}
    <3>1. "COMMITTED" \notin InFlight
      BY DEF InFlight
    <3>2. \A n \in InState(InFlight) : n = m
      BY <1>2, Alone
    <3> QED
      BY <1>1, <1>5, <3>1, <3>2 DEF InState, InMail
  <2> QED
    BY <1>6, <2>1, <2>2, <2>3, <2>4, Between
<1>14. Housed'
  BY <1>1, <1>2, <1>6, HousedKeeps DEF Bearing
<1> QED
  BY <1>7, <1>9, <1>10, <1>11, <1>12, <1>13, <1>14 DEF IInv

LEMMA StepInactiveKeeps == ASSUME IInv, StepInactive PROVE IInv'
  BY DoneKeeps DEF StepInactive

LEMMA CommitKeeps == ASSUME IInv, Commit PROVE IInv'
  BY DoneKeeps DEF Commit

-----------------------------------------------------------------------------
(* Messages on the way to their call.                                       *)
LEMMA MessageMoves ==
  ASSUME IInv, proc.pc \in Stepping \ Bearing, NEW s \in MessageStates, msg' = WithState({m}, s),
         UNCHANGED <<company, run, mail, call, effect, tool, pixel, files, carried>>,
         proc' \in Process, proc'.pc \notin Bearing, faults' \in 0..MaxFaults
  PROVE  /\ Typed' /\ Counted' /\ Billed' /\ Recording' /\ Addressed' /\ Housed'
         /\ \A n \in Messages : /\ InMail(n)' <=> InMail(n)
                                /\ msg'[n].to = msg[n].to
                                /\ msg'[n].state = IF n = m THEN s ELSE msg[n].state
<1>1. m \in Messages /\ Live(m) /\ msg[m].state # "ABANDONED"
  BY Here
<1>2. \A n \in Messages : /\ msg'[n].to = msg[n].to
                          /\ msg'[n].state = IF n = m THEN s ELSE msg[n].state
  BY <1>1, OneMoves
<1>3. Typed' /\ Counted' /\ Billed' /\ Recording' /\ Addressed'
  <2> DEFINE ms == {m}
  <2>1. \A n \in Messages : n \in ms => n = m
    OBVIOUS
  <2>2. msg' = WithState(ms, s)
    OBVIOUS
  <2> HIDE DEF ms
  <2> QED
    BY <1>1, <2>1, <2>2, MessagesMove
<1>4. Housed'
  BY HousedKeeps
<1>5. \A n \in Messages : InMail(n)' <=> InMail(n)
  BY DEF InMail
<1> QED
  BY <1>2, <1>3, <1>4, <1>5

LEMMA RoundStops ==
  ASSUME IInv, proc.pc \in {"step", "refused", "rejected"}, NEW s \in MessageStates \ InFlight,
         NEW reason \in StopReasons, RoundOver(reason), msg' = WithState({m}, s),
         UNCHANGED <<company, run, mail, call, effect, tool, pixel, Bare>>
  PROVE  IInv'
<1>1. /\ proc.pc \in Stepping \ Bearing /\ proc.pc \notin {"idle", "finish", "over", "tooling"}
      /\ proc.pc \notin Paying /\ UNCHANGED <<files, carried, faults>>
  BY DEF Stepping, Bearing, Paying, Bare
<1>2. proc' \in Process /\ proc'.pc = "over" /\ faults' \in 0..MaxFaults
  BY <1>1 DEF IInv, Typed, Process, RoundOver, Steps
<1>3. /\ Typed' /\ Counted' /\ Billed' /\ Recording' /\ Addressed' /\ Housed'
      /\ \A n \in Messages : /\ InMail(n)' <=> InMail(n)
                             /\ msg'[n].state = IF n = m THEN s ELSE msg[n].state
  BY <1>1, <1>2, MessageMoves DEF Bearing
<1>4. \A n \in Messages : Resolved(n)'
  BY <1>1, Quiet, CallsStay
<1>5. InState(InFlight)' = {}
  BY <1>1, <1>3, Alone DEF InState
<1>6. Placed' /\ Clean' /\ Resuming'
  BY <1>1, <1>4, <1>5, Over
<1> QED
  BY <1>3, <1>6 DEF IInv

LEMMA GiveUpKeeps == ASSUME IInv, GiveUp PROVE IInv'
<1>1. /\ "MODEL_RESPONSE_INVALID" \in MessageStates \ InFlight
      /\ "MODEL_RESPONSE_INVALID" \in StopReasons
  BY DEF MessageStates, InFlight, StopReasons
<1> QED
  BY <1>1, RoundStops DEF GiveUp, At

LEMMA RequeueKeeps == ASSUME IInv, Requeue PROVE IInv'
<1>1. "QUEUED" \in MessageStates \ InFlight /\ "INFRASTRUCTURE_FAILURE" \in StopReasons
  BY DEF MessageStates, Claimable, InFlight, StopReasons
<1> QED
  BY <1>1, RoundStops DEF Requeue, At

LEMMA NoteRejectedKeeps == ASSUME IInv, NoteRejected PROVE IInv'
<1> DEFINE s == IF InvalidReplies(m) >= 2 THEN "MODEL_RESPONSE_INVALID" ELSE "QUEUED"
<1>1. /\ {"MODEL_RESPONSE_INVALID", "QUEUED"} \subseteq MessageStates \ InFlight
      /\ "MODEL_RESPONSE_INVALID" \in StopReasons
  BY DEF MessageStates, Claimable, InFlight, StopReasons
<1>2. s \in MessageStates \ InFlight
  BY <1>1
<1>3. msg' = WithState({m}, s)
  BY DEF NoteRejected
<1> HIDE DEF s
<1> QED
  BY <1>1, <1>2, <1>3, RoundStops DEF NoteRejected, At

LEMMA ReuseKeeps == ASSUME IInv, Reuse PROVE IInv'
<1>1. /\ proc.pc = "step" /\ pixel[me].active /\ Answered(m) /\ msg' = WithState({m}, "RESPONSE_STORED")
      /\ proc' = [proc EXCEPT !.pc = "parse"]
      /\ UNCHANGED <<company, run, mail, call, effect, tool, pixel, files, faults, carried>>
  BY DEF Reuse, At, Goto, Bare
<1>2. /\ proc.pc \in Stepping \ Bearing /\ proc.pc \notin Paying /\ proc.pc # "tooling"
      /\ "RESPONSE_STORED" \in MessageStates
  BY <1>1 DEF Stepping, Bearing, Paying, MessageStates, Claimable
<1>3. proc \in Process /\ m \in Messages /\ InMail(m) /\ faults \in 0..MaxFaults
  BY <1>2, Here DEF IInv, Typed
<1>4. /\ proc' \in Process /\ proc'.pc = "parse" /\ m' = m /\ r' = r /\ proc'.count = proc.count
      /\ proc'.at = proc.at /\ proc'.tools = proc.tools
  BY <1>1, <1>3 DEF Process, Steps, m, r
<1>5. /\ Typed' /\ Counted' /\ Billed' /\ Recording' /\ Addressed' /\ Housed'
      /\ \A n \in Messages : /\ InMail(n)' <=> InMail(n)
                             /\ msg'[n].to = msg[n].to
                             /\ msg'[n].state = IF n = m THEN "RESPONSE_STORED" ELSE msg[n].state
  BY <1>1, <1>2, <1>3, <1>4, MessageMoves DEF Bearing
<1>6. Placed' /\ Clean'
  <2>1. proc'.pc \in Stepping \ (Paying \cup {"tooling"}) /\ msg'[m].state \in StateAt(proc'.pc)
        /\ InMail(m)'
    BY <1>3, <1>4, <1>5 DEF Stepping, Paying, StateAt, Bearing
  <2> QED
    BY <1>1, <1>2, <1>4, <1>5, <2>1, StepOn DEF InState
<1>7. Resuming'
  <2>1. proc.at = 1 /\ (proc.tools => m \in Seeds)
    BY <1>1, <1>2 DEF IInv, Resuming
  <2>2. Answered(m)'
    BY <1>1, <1>4, CallsStay
  <2> QED
    BY <1>4, <2>1, <2>2 DEF Resuming, At, Paying, Applying, AtEffect, Bearing
<1> QED
  BY <1>5, <1>6, <1>7 DEF IInv

LEMMA WaitKeeps == ASSUME IInv, Wait PROVE IInv'
<1>1. /\ proc.pc = "step"
      /\ UNCHANGED <<company, run, mail, call, effect, tool, pixel, files, faults, carried, Bare>>
  BY DEF Wait, Reserving, At, Bare
<1>2. /\ {"WAITING_PIXEL_BUDGET", "WAITING_RUN_BUDGET"} \subseteq MessageStates \ InFlight
      /\ "RUN_BUDGET_EXHAUSTED" \in StopReasons
  BY DEF MessageStates, Waiting, InFlight, StopReasons
<1>3. CASE ~EnergyShort
  BY <1>1, <1>2, <1>3, RoundStops DEF Wait
<1>4. CASE EnergyShort
  <2>1. msg' = WithState({m}, "WAITING_PIXEL_BUDGET") /\ proc' = [proc EXCEPT !.pc = "claim"]
    BY <1>4 DEF Wait, Goto
  <2>2. /\ proc.pc \in Stepping \ Bearing /\ proc.pc \notin Paying
        /\ proc.pc \notin {"idle", "finish", "over", "tooling"}
    BY <1>1 DEF Stepping, Bearing, Paying
  <2>3. /\ proc \in Process /\ m \in Messages /\ InMail(m) /\ faults \in 0..MaxFaults
        /\ r \in Created /\ run[r].messages <= proc.count
    BY <2>2, Here DEF IInv, Typed
  <2>4. proc' \in Process /\ proc'.pc = "claim" /\ r' = r /\ proc'.count = proc.count
    BY <2>1, <2>3 DEF Process, Steps, r
  <2>5. /\ Typed' /\ Counted' /\ Billed' /\ Recording' /\ Addressed' /\ Housed'
        /\ \A n \in Messages : /\ InMail(n)' <=> InMail(n)
                               /\ msg'[n].state = IF n = m THEN "WAITING_PIXEL_BUDGET" ELSE msg[n].state
    BY <1>1, <1>2, <2>1, <2>2, <2>3, <2>4, MessageMoves DEF Bearing
  <2>6. Placed' /\ Clean' /\ Resuming'
    <3>1. (r \in Created)' /\ (run[r].messages <= proc.count)'
      BY <1>1, <2>3, <2>4 DEF Created
    <3>2. \A n \in Messages, k \in Indices : tool'[n][k] # "STARTED"
      BY <1>1, <2>2, ToolsRest
    <3>3. \A n \in Messages : Resolved(n)'
      BY <1>1, <2>2, Quiet, CallsStay
    <3>4. InState(InFlight)' = {}
      BY <1>2, <2>2, <2>5, Alone DEF InState
    <3> QED
      BY <2>4, <3>1, <3>2, <3>3, <3>4, Between
  <2> QED
    BY <2>5, <2>6 DEF IInv
<1> QED
  BY <1>3, <1>4

-----------------------------------------------------------------------------
(* Calls.                                                                   *)
LEMMA CallStays ==
  ASSUME NEW n, call'[n] = call[n]
  PROVE  /\ Calls(n)' = Calls(n) /\ Answered(n)' = Answered(n) /\ LatestRow(n)' = LatestRow(n)
         /\ Resolved(n)' = Resolved(n)
<1>1. Calls(n)' = Calls(n) /\ Rows(n)' = Rows(n)
  BY DEF Calls, Rows
<1>2. HasRow(n)' = HasRow(n) /\ LatestRow(n)' = LatestRow(n)
  BY <1>1 DEF HasRow, LatestRow
<1>3. Resolved(n)' = Resolved(n)
  BY <1>1 DEF Resolved, Unresolved, Open
<1> QED
  BY <1>1, <1>2, <1>3 DEF Answered

\* Calls change only of messages that have done nothing yet.
LEMMA CallsChange ==
  ASSUME IInv, UNCHANGED <<mail, effect, tool, carried, files>>,
         proc.pc \notin Bearing, proc'.pc \notin Bearing,
         \A p \in Pixels : pixel'[p].body = pixel[p].body,
         msg' \in [Messages -> MessageRow],
         \A n \in Messages : msg'[n].to = msg[n].to /\ msg'[n].body = msg[n].body,
         \A n \in Messages : Touched(n) => call'[n] = call[n],
         \A n \in Messages : Touched(n) /\ msg[n].state = "ABANDONED" => msg'[n].state = "ABANDONED",
         \A n \in Messages : ~InMail(n) => call'[n] = call[n],
         \A n \in Messages : (Live(n) \/ ~Resolved(n))' => Live(n) \/ ~Resolved(n)
  PROVE  Recording' /\ Addressed' /\ Housed'
<1>1. \A n \in Messages : InMail(n)' <=> InMail(n)
  BY DEF InMail
<1>2. ASSUME NEW n \in Messages, Touched(n)
      PROVE  /\ Answered(n)' = Answered(n) /\ LatestRow(n)' = LatestRow(n)
             /\ Resolved(n)' = Resolved(n)
  BY <1>2, CallStays
<1>3. Recording'
  <2> SUFFICES ASSUME NEW n \in Messages
               PROVE  /\ ~InMail(n)' => call'[n] = <<>>
                      /\ Touched(n)' => Answered(n)' /\ LatestRow(n)'.valid /\ Resolved(n)'
                      /\ \A k \in Indices :
                           /\ tool'[n][k] \in {"SUCCESS", "FAILED"} => effect'[n][k] \in Recorded
                           /\ tool'[n][k] = "SKIPPED" => msg'[n].state = "ABANDONED"
                           /\ effect'[n][k] = "PENDING" =>
                                k <= Len(LatestRow(n)'.plan) /\ LatestRow(n)'.plan[k].kind = "REPRODUCE"
                           /\ carried'[n][k] # 0 =>
                                effect'[n][k] \in Recorded \/ tool'[n][k] \in {"STARTED", "SKIPPED"}
                           /\ carried'[n][k] # 0 => \A j \in 1..(k - 1) : effect'[n][j] \in Recorded
    BY DEF Recording
  <2>1. Touched(n)' = Touched(n)
    BY DEF Touched
  <2>2. ~InMail(n)' => call'[n] = <<>>
    BY <1>1 DEF IInv, Recording
  <2>3. Touched(n)' => Answered(n)' /\ LatestRow(n)'.valid /\ Resolved(n)'
    BY <1>2, <2>1 DEF IInv, Recording
  <2>4. ASSUME NEW k \in Indices
        PROVE  /\ tool'[n][k] \in {"SUCCESS", "FAILED"} => effect'[n][k] \in Recorded
               /\ tool'[n][k] = "SKIPPED" => msg'[n].state = "ABANDONED"
               /\ carried'[n][k] # 0 =>
                    effect'[n][k] \in Recorded \/ tool'[n][k] \in {"STARTED", "SKIPPED"}
               /\ carried'[n][k] # 0 => \A j \in 1..(k - 1) : effect'[n][j] \in Recorded
    <3>1. tool[n][k] = "SKIPPED" => Touched(n)
      BY DEF Touched
    <3> QED
      BY <3>1 DEF IInv, Recording
  <2>5. ASSUME NEW k \in Indices, effect'[n][k] = "PENDING"
        PROVE  k <= Len(LatestRow(n)'.plan) /\ LatestRow(n)'.plan[k].kind = "REPRODUCE"
    <3>1. Touched(n)
      BY <2>5 DEF Touched
    <3> QED
      BY <1>2, <2>5, <3>1 DEF IInv, Recording
  <2> QED
    BY <2>2, <2>3, <2>4, <2>5
<1>4. Addressed'
  BY AddressedStays DEF IInv
<1>5. Housed'
  <2>1. \A n \in Messages : \A k \in Indices : effect[n][k] = "PENDING" => LatestRow(n)' = LatestRow(n)
    BY <1>2 DEF Touched
  <2> QED
    BY <2>1, HousedStays DEF IInv
<1> QED
  BY <1>3, <1>4, <1>5

LEMMA BilledNone ==
  ASSUME \A n \in Messages : \A k \in Calls(n)' : ~Open(n, k)', \A id \in Runs : run'[id].reserved = 0
  PROVE  Billed'
  BY DEF Billed

LEMMA BilledOne ==
  ASSUME NEW n \in Messages, NEW k \in Calls(n)', Open(n, k)',
         \A q \in Messages : \A j \in Calls(q)' : Open(q, j)' => q = n /\ j = k,
         \A id \in Runs : run'[id].reserved = IF id = call'[n][k].run THEN Estimate ELSE 0
  PROVE  Billed'
<1>1. \A id \in Runs : (\E q \in Messages : \E j \in Calls(q)' : Open(q, j)' /\ call'[q][j].run = id)
                         <=> id = call'[n][k].run
  OBVIOUS
<1> QED
  BY <1>1 DEF Billed

\* One row of a call changes.
RowBecomes(n, k, row) == call' = [call EXCEPT ![n][k] = row]
LEMMA RowChanges ==
  ASSUME IInv, NEW n \in Messages, NEW k \in Calls(n), NEW row \in CallRow,
         RowBecomes(n, k, row), n \in Seeds \/ row.plan = <<>>
  PROVE  /\ CallsTyped' /\ call'[n][k] = row
         /\ \A q \in Messages : Calls(q)' = Calls(q)
         /\ \A q \in Messages : q # n => call'[q] = call[q]
         /\ \A q \in Messages : \A j \in Calls(q) : q # n \/ j # k => call'[q][j] = call[q][j]
<1>1. /\ call \in [Messages -> Seq(CallRow)] /\ Calls(n) = 1..Len(call[n]) /\ Len(call[n]) \in Nat
      /\ \A q \in Messages : Len(call[q]) <= MaxCalls
      /\ \A q \in Messages \ Seeds : \A j \in Calls(q) : call[q][j].plan = <<>>
  BY CallIn DEF IInv, Typed, CallsTyped
<1>2. call'[n] = [call[n] EXCEPT ![k] = row] /\ \A q \in Messages : q # n => call'[q] = call[q]
  BY <1>1 DEF RowBecomes
<1>3. call'[n] \in Seq(CallRow) /\ Len(call'[n]) = Len(call[n])
  BY <1>1, <1>2
<1>4. \A q \in Messages : Calls(q)' = Calls(q)
  BY <1>1, <1>2 DEF Calls
<1>5. call'[n][k] = row /\ \A j \in Calls(n) : j # k => call'[n][j] = call[n][j]
  BY <1>1, <1>2
<1>6. call' \in [Messages -> Seq(CallRow)]
  BY <1>1, <1>2, <1>3 DEF RowBecomes
<1>7. CallsTyped'
  <2>1. \A q \in Messages : Len(call'[q]) <= MaxCalls
    BY <1>1, <1>2, <1>3
  <2>2. \A q \in Messages \ Seeds : \A j \in Calls(q)' : call'[q][j].plan = <<>>
    <3> TAKE q \in Messages \ Seeds
    <3>1. Calls(q)' = Calls(q) /\ \A j \in Calls(q) : call[q][j].plan = <<>>
      BY <1>1, <1>4
    <3>2. CASE q = n
      BY <1>5, <3>1, <3>2
    <3>3. CASE q # n
      BY <1>2, <3>1, <3>3
    <3> QED
      BY <3>2, <3>3
  <2> QED
    BY <1>6, <2>1, <2>2 DEF CallsTyped
<1> QED
  BY <1>2, <1>4, <1>5, <1>7

LEMMA Paid ==
  ASSUME IInv, proc.pc \in Paying
  PROVE  /\ m \in Messages /\ Bill \in Calls(m) /\ call[m][Bill] \in CallRow
         /\ call[m][Bill].outcome = "none" /\ Open(m, Bill) /\ call[m][Bill].run = r /\ r \in Runs
         /\ ~Touched(m) /\ ~Answered(m) /\ InMail(m) /\ Live(m)
         /\ \A n \in Messages : \A k \in Calls(n) : Unresolved(n, k) => n = m /\ k = Bill
         /\ \A id \in Runs : run[id].reserved = IF id = r THEN Estimate ELSE 0
         /\ proc.pc \in Stepping /\ proc.pc \notin {"idle", "finish", "over", "tooling"} \cup Bearing
<1>1. proc.pc \in Stepping /\ proc.pc \notin {"idle", "finish", "over", "tooling"} \cup Bearing
  BY DEF Stepping, Paying, Bearing
<1>2. m \in Messages /\ r \in Runs /\ InMail(m) /\ Live(m) /\ call[m] \in Seq(CallRow)
  BY <1>1, Here
<1>3. Bill # 0 /\ call[m][Bill].outcome = "none" /\ Open(m, Bill) /\ call[m][Bill].run = r
  BY DEF IInv, Clean
<1>4. Bill \in Calls(m) /\ call[m][Bill] \in CallRow
  BY <1>2, <1>3 DEF Bill, Calls
<1>5. ~Touched(m)
  BY <1>2, <1>3, <1>4 DEF IInv, Recording, Resolved, Unresolved
<1>6. ~Answered(m)
  BY DEF IInv, Resuming
<1>7. \A n \in Messages : \A k \in Calls(n) : Unresolved(n, k) => n = m /\ k = Bill
  BY <1>1 DEF IInv, Clean, At
<1>8. \A id \in Runs : run[id].reserved = IF id = r THEN Estimate ELSE 0
  BY <1>2, <1>3, <1>4, <1>7 DEF IInv, Billed, Unresolved
<1> QED
  BY <1>1, <1>2, <1>3, <1>4, <1>5, <1>6, <1>7, <1>8

LEMMA PayOn ==
  ASSUME IInv, proc.pc \in Paying, NEW s \in InFlight, NEW to \in Paying, s \in StateAt(to),
         msg' = WithState({m}, s), proc' = [proc EXCEPT !.pc = to],
         UNCHANGED <<company, run, mail, call, effect, tool, pixel, files, carried>>,
         faults' \in 0..MaxFaults
  PROVE  IInv'
<1>1. /\ m \in Messages /\ InMail(m) /\ ~Answered(m) /\ proc.pc \in Stepping \ Bearing
      /\ proc.pc \notin {"idle", "finish", "over", "tooling"}
      /\ Bill # 0 /\ call[m][Bill].outcome = "none" /\ Open(m, Bill) /\ call[m][Bill].run = r
      /\ \A n \in Messages : \A k \in Calls(n) : Unresolved(n, k) => n = m /\ k = Bill
  BY Paid DEF IInv, Clean
<1>2. /\ proc \in Process /\ proc.count < MaxPerRound /\ r \in Created /\ run[r].messages <= proc.count
      /\ proc.at = 1 /\ (proc.tools => m \in Seeds)
  BY <1>1, Here DEF IInv, Resuming
<1>3. to \in Steps \cup Awaits /\ to \in Stepping /\ to \notin Bearing
      /\ to \notin {"idle", "finish", "over", "tooling", "claim", "step", "parse", "birth", "noBirth"}
      /\ to \notin Applying /\ to \notin AtEffect
  BY DEF Paying, Steps, Awaits, Stepping, Bearing, Applying, AtEffect
<1>4. /\ proc' \in Process /\ proc'.pc = to /\ m' = m /\ r' = r /\ proc'.count = proc.count
      /\ proc'.at = proc.at /\ proc'.tools = proc.tools
  BY <1>2, <1>3 DEF Process, m, r
<1>5. s \in MessageStates
  BY DEF MessageStates
<1>6. /\ Typed' /\ Counted' /\ Billed' /\ Recording' /\ Addressed' /\ Housed'
      /\ \A n \in Messages : /\ InMail(n)' <=> InMail(n)
                             /\ msg'[n].state = IF n = m THEN s ELSE msg[n].state
  BY <1>1, <1>3, <1>4, <1>5, MessageMoves
<1>7. Placed'
  <2>1. r' \in Created' /\ run'[r].messages <= proc'.count /\ proc'.count < MaxPerRound
    BY <1>2, <1>4 DEF Created
  <2>2. m' \in Messages /\ InMail(m)' /\ msg'[m].state \in StateAt(proc'.pc)
    BY <1>1, <1>4, <1>6
  <2> QED
    BY <1>3, <1>4, <2>1, <2>2 DEF Placed, At
<1>8. Clean'
  <2>1. \A n \in InState(InFlight)' : n = m
    BY <1>1, <1>6, Alone DEF InState
  <2>2. \A n \in Messages, k \in Indices : tool'[n][k] # "STARTED"
    BY <1>1, ToolsRest
  <2>3. /\ Bill' = Bill /\ \A n : Calls(n)' = Calls(n)
        /\ \A n, k : (Unresolved(n, k)' <=> Unresolved(n, k)) /\ (Open(n, k)' <=> Open(n, k))
    BY <1>4, CallsStay DEF Bill, Unresolved, Open
  <2>4. \A n \in Messages : \A k \in Calls(n)' : Unresolved(n, k)' => n = m' /\ k = Bill'
    BY <1>1, <1>4, <2>3
  <2>5. Bill' # 0 /\ call'[m][Bill].outcome = "none" /\ Open(m, Bill)' /\ call'[m][Bill].run = r'
    BY <1>1, <1>4, <2>3
  <2> QED
    BY <1>3, <1>4, <2>1, <2>2, <2>3, <2>4, <2>5 DEF Clean, At
<1>9. Resuming'
  <2>1. ~Answered(m)'
    BY <1>1, <1>4, CallsStay
  <2> QED
    BY <1>2, <1>3, <1>4, <2>1 DEF Resuming, At
<1> QED
  BY <1>6, <1>7, <1>8, <1>9 DEF IInv

LEMMA MarkReservedKeeps == ASSUME IInv, MarkReserved PROVE IInv'
<1>1. /\ proc.pc \in Paying /\ msg' = WithState({m}, "RESERVED") /\ proc' = [proc EXCEPT !.pc = "marked"]
      /\ UNCHANGED <<company, run, mail, call, effect, tool, pixel, files, carried, faults>>
  BY DEF MarkReserved, At, Goto, Bare, Paying
<1>2. "RESERVED" \in InFlight /\ "marked" \in Paying /\ "RESERVED" \in StateAt("marked")
  BY DEF InFlight, Paying, StateAt, Bearing
<1> QED
  BY <1>1, <1>2, PayOn DEF IInv, Typed

LEMMA MarkCallingKeeps == ASSUME IInv, MarkCalling PROVE IInv'
<1>1. /\ proc.pc \in Paying /\ msg' = WithState({m}, "CALLING") /\ proc' = [proc EXCEPT !.pc = "calling"]
      /\ UNCHANGED <<company, run, mail, call, effect, tool, pixel, files, carried, faults>>
  BY DEF MarkCalling, At, Goto, Bare, Paying
<1>2. "CALLING" \in InFlight /\ "calling" \in Paying /\ "CALLING" \in StateAt("calling")
  BY DEF InFlight, Paying, StateAt, Bearing
<1> QED
  BY <1>1, <1>2, PayOn DEF IInv, Typed

LEMMA FaultIn == ASSUME IInv, Fault PROVE faults' \in 0..MaxFaults
  BY Facts DEF IInv, Typed, Fault

LEMMA LoseTrackKeeps == ASSUME IInv, LoseTrack PROVE IInv'
<1>1. /\ proc.pc \in Paying /\ msg' = WithState({m}, "CALL_OUTCOME_UNKNOWN")
      /\ proc' = [proc EXCEPT !.pc = "lost"] /\ Fault
      /\ UNCHANGED <<company, run, mail, call, effect, tool, pixel, files, carried>>
  BY DEF LoseTrack, At, Goto, Paying
<1>2. /\ "CALL_OUTCOME_UNKNOWN" \in InFlight /\ "lost" \in Paying
      /\ "CALL_OUTCOME_UNKNOWN" \in StateAt("lost")
  BY DEF InFlight, Paying, StateAt, Bearing
<1> QED
  BY <1>1, <1>2, FaultIn, PayOn

LEMMA RecordUnknownKeeps == ASSUME IInv, RecordUnknown PROVE IInv'
<1>1. /\ proc.pc \in Paying /\ RoundOver("CALL_OUTCOME_UNKNOWN")
      /\ UNCHANGED <<company, run, mail, msg, effect, tool, pixel, files, carried, faults>>
  BY DEF RecordUnknown, At, Bare, Paying
<1>2. PICK n, k : n = m /\ k = Bill /\ n \in Messages /\ k \in Calls(n)
  BY <1>1, Paid
<1>3. /\ call[n][k] \in CallRow /\ Open(n, k) /\ ~Touched(n) /\ InMail(n) /\ Live(n)
      /\ call[n][k].run = r /\ proc.pc \notin {"idle", "tooling"} \cup Bearing
      /\ \A q \in Messages : \A j \in Calls(q) : Unresolved(q, j) => q = n /\ j = k
      /\ \A id \in Runs : run[id].reserved = IF id = r THEN Estimate ELSE 0
  BY <1>1, <1>2, Paid
<1>4. PICK row \in CallRow : /\ RowBecomes(n, k, row)
                             /\ row.bill = call[n][k].bill /\ row.run = r
                             /\ n \in Seeds \/ row.plan = <<>>
  <2> DEFINE new == [call[n][k] EXCEPT !.outcome = "CALL_OUTCOME_UNKNOWN"]
  <2>1. new \in CallRow /\ new.bill = call[n][k].bill /\ new.run = r /\ new.plan = call[n][k].plan
    BY <1>3 DEF CallRow, Outcomes
  <2>2. n \in Seeds \/ call[n][k].plan = <<>>
    BY <1>2 DEF IInv, Typed, CallsTyped
  <2>3. RowBecomes(n, k, new)
    BY <1>2 DEF RecordUnknown, RowBecomes
  <2> HIDE DEF new
  <2> QED
    BY <2>1, <2>2, <2>3
<1>5. /\ CallsTyped' /\ call'[n][k] = row
      /\ \A q \in Messages : Calls(q)' = Calls(q)
      /\ \A q \in Messages : q # n => call'[q] = call[q]
      /\ \A q \in Messages : \A j \in Calls(q) : q # n \/ j # k => call'[q][j] = call[q][j]
  BY <1>2, <1>4, RowChanges
<1>6. Placed' /\ Clean' /\ Resuming' /\ proc' \in Process
  <2>1. /\ "CALL_OUTCOME_UNKNOWN" \in StopReasons /\ "CALL_OUTCOME_UNKNOWN" \in RecoveryStops
        /\ "CALL_OUTCOME_UNKNOWN" \in Interrupting
    BY DEF StopReasons, RecoveryStops, Interrupting
  <2> QED
    BY <1>1, <1>3, <2>1, Over
<1>7. Typed'
  BY <1>1, <1>5, <1>6 DEF IInv, Typed
<1>8. Counted'
  BY <1>1 DEF IInv, Counted, Created
<1>9. Billed'
  <2>1. Open(n, k)' /\ k \in Calls(n)'
    BY <1>2, <1>3, <1>4, <1>5 DEF Open
  <2>2. \A q \in Messages : \A j \in Calls(q)' : Open(q, j)' => q = n /\ j = k
    BY <1>3, <1>5 DEF Open, Unresolved
  <2>3. \A id \in Runs : run'[id].reserved = IF id = call'[n][k].run THEN Estimate ELSE 0
    BY <1>1, <1>3, <1>4, <1>5
  <2> QED
    BY <1>2, <2>1, <2>2, <2>3, BilledOne
<1>10. Recording' /\ Addressed' /\ Housed'
  <2>1. proc'.pc \notin Bearing
    BY <1>1 DEF RoundOver, Bearing, IInv, Typed, Process
  <2>2. \A q \in Messages : (Live(q) \/ ~Resolved(q))' => Live(q) \/ ~Resolved(q)
    <3>1. \A q \in Messages : q # n => (Resolved(q)' <=> Resolved(q))
      BY <1>5, CallStays
    <3>2. \A q \in Messages : Live(q)' <=> Live(q)
      BY <1>1 DEF Live, InMail
    <3> QED
      BY <1>3, <3>1, <3>2
  <2> QED
    BY <1>1, <1>3, <1>5, <2>1, <2>2, CallsChange DEF IInv, Typed
<1> QED
  BY <1>6, <1>7, <1>8, <1>9, <1>10 DEF IInv

\* A run gets back what it has reserved.
LEMMA OnlyBill ==
  ASSUME IInv, NEW n \in Messages, NEW k \in Calls(n), Open(n, k)
  PROVE  /\ \A q \in Messages : \A j \in Calls(q) : Open(q, j) => q = n /\ j = k
         /\ call[n][k].run \in Runs
         /\ \A id \in Runs : run[id].reserved = IF id = call[n][k].run THEN Estimate ELSE 0
<1>1. \A q \in Messages : \A j \in Calls(q) : Open(q, j) => q = n /\ j = k
  BY DEF IInv, Billed
<1>2. call[n][k].run \in Runs
  BY CallIn DEF IInv, Typed, CallRow
<1> QED
  BY <1>1, <1>2 DEF IInv, Billed

LEMMA RunPays ==
  ASSUME IInv, NEW n \in Messages, NEW k \in Calls(n), Open(n, k), NEW tokens \in Nat,
         run' \in {RunSettled(n, k, tokens), RunRefunded(n, k)}
  PROVE  /\ run' \in [Runs -> RunRow]
         /\ \A id \in Runs : /\ run'[id].reserved = 0 /\ run'[id].status = run[id].status
                             /\ run'[id].stop = run[id].stop /\ run'[id].messages = run[id].messages
                             /\ run'[id].next = run[id].next
<1> DEFINE id == call[n][k].run
<1>1. /\ id \in Runs /\ run[id].reserved = Estimate
      /\ \A other \in Runs : other # id => run[other].reserved = 0
  BY OnlyBill
<1>2. Max({0, run[id].reserved - Estimate}) = 0
  <2>1. Estimate - Estimate = 0
    BY Facts
  <2>2. Max({0, 0}) = 0
    BY PairMax
  <2> QED
    BY <1>1, <2>1, <2>2
<1>3. run \in [Runs -> RunRow]
  BY DEF IInv, Typed
<1>4. \/ run' = [run EXCEPT ![id].reserved = 0, ![id].spent = @ + tokens]
      \/ run' = [run EXCEPT ![id].reserved = 0]
  <2>1. \/ run' = [run EXCEPT ![id].reserved = Max({0, run[id].reserved - Estimate}),
                             ![id].spent = @ + tokens]
        \/ run' = [run EXCEPT ![id].reserved = Max({0, run[id].reserved - Estimate})]
    BY <1>1, <1>3 DEF RunSettled, RunRefunded, Open
  <2> QED
    BY <1>2, <2>1
<1> HIDE DEF id
<1>5. CASE run' = [run EXCEPT ![id].reserved = 0, ![id].spent = @ + tokens]
  <2> DEFINE row == [run[id] EXCEPT !.reserved = 0, !.spent = @ + tokens]
  <2>1. run' = [run EXCEPT ![id] = row]
    BY <1>1, <1>3, <1>5 DEF RunRow
  <2>2. /\ row \in RunRow /\ row.reserved = 0 /\ row.status = run[id].status
        /\ row.stop = run[id].stop /\ row.messages = run[id].messages /\ row.next = run[id].next
    <3>1. run[id] \in RunRow
      BY <1>1, <1>3
    <3>2. run[id].spent + tokens \in Nat
      BY <3>1 DEF RunRow
    <3> QED
      BY <3>1, <3>2 DEF RunRow
  <2> HIDE DEF row
  <2> QED
    BY <1>1, <1>3, <2>1, <2>2
<1>6. CASE run' = [run EXCEPT ![id].reserved = 0]
  BY <1>1, <1>3, <1>6 DEF RunRow
<1> QED
  BY <1>4, <1>5, <1>6

\* The call in flight ends: what its row becomes, and what is left open.
LEMMA RefuseKeeps == ASSUME IInv, Refuse PROVE IInv'
<1>1. /\ proc.pc = "calling" /\ proc.pc \in Paying /\ Fault /\ proc' = [proc EXCEPT !.pc = "refused"]
      /\ UNCHANGED <<company, mail, msg, effect, tool, pixel, files, carried>>
  BY DEF Refuse, At, Goto, Paying
<1>2. PICK n, k : n = m /\ k = Bill /\ n \in Messages /\ k \in Calls(n)
  BY <1>1, Paid
<1>3. /\ call[n][k] \in CallRow /\ Open(n, k) /\ ~Touched(n) /\ InMail(n) /\ Live(n)
      /\ call[n][k].outcome = "none"
      /\ proc.pc \in Stepping /\ proc.pc \notin {"idle", "finish", "over", "tooling"} \cup Bearing
      /\ \A q \in Messages : \A j \in Calls(q) : Unresolved(q, j) => q = n /\ j = k
  BY <1>1, <1>2, Paid
<1>4. PICK row \in CallRow : /\ RowBecomes(n, k, row) /\ row.bill = "REFUNDED" /\ row.outcome = "none"
                             /\ n \in Seeds \/ row.plan = <<>>
  <2> DEFINE new == [call[n][k] EXCEPT !.bill = "REFUNDED"]
  <2>1. /\ new \in CallRow /\ new.bill = "REFUNDED" /\ new.outcome = "none"
        /\ n \in Seeds \/ new.plan = <<>>
    BY <1>2, <1>3 DEF CallRow, IInv, Typed, CallsTyped
  <2>2. RowBecomes(n, k, new)
    BY <1>2, <1>3 DEF Refuse, CallRefunded, RowBecomes, Open
  <2> HIDE DEF new
  <2> QED
    BY <2>1, <2>2
<1>5. /\ CallsTyped' /\ call'[n][k] = row
      /\ \A q \in Messages : Calls(q)' = Calls(q)
      /\ \A q \in Messages : q # n => call'[q] = call[q]
      /\ \A q \in Messages : \A j \in Calls(q) : q # n \/ j # k => call'[q][j] = call[q][j]
  BY <1>2, <1>4, RowChanges
<1>6. /\ run' \in [Runs -> RunRow]
      /\ \A id \in Runs : /\ run'[id].reserved = 0 /\ run'[id].status = run[id].status
                          /\ run'[id].stop = run[id].stop /\ run'[id].messages = run[id].messages
  <2>1. run' = RunRefunded(n, k)
    BY <1>2 DEF Refuse
  <2>2. 0 \in Nat
    OBVIOUS
  <2> QED
    BY <1>2, <1>3, <2>1, <2>2, RunPays
<1>7. \A q \in Messages : Resolved(q)'
  <2> SUFFICES ASSUME NEW q \in Messages, NEW j \in Calls(q)' PROVE ~Unresolved(q, j)'
    BY DEF Resolved
  <2>1. CASE q = n /\ j = k
    BY <1>4, <1>5, <2>1 DEF Unresolved, Open
  <2>2. CASE ~(q = n /\ j = k)
    BY <1>3, <1>5, <2>2 DEF Unresolved, Open
  <2> QED
    BY <2>1, <2>2
<1>8. /\ proc \in Process /\ r \in Created /\ run[r].messages <= proc.count /\ proc.count < MaxPerRound
      /\ msg[n].state = "CALLING" /\ (proc.tools => n \in Seeds)
  BY <1>1, <1>2, <1>3, Here DEF StateAt, Bearing, IInv, Resuming
<1>9. /\ proc' \in Process /\ proc'.pc = "refused" /\ m' = n /\ r' = r /\ proc'.count = proc.count
      /\ proc'.tools = proc.tools
  BY <1>1, <1>2, <1>8 DEF Process, Steps, m, r
<1>10. Typed'
  BY <1>1, <1>5, <1>6, <1>9, FaultIn DEF IInv, Typed
<1>11. Created' = Created
  BY <1>6 DEF Created
<1>12. Counted'
  BY <1>6, <1>11 DEF IInv, Counted
<1>13. Billed'
  BY <1>6, <1>7, BilledNone DEF Resolved, Unresolved
<1>14. Recording' /\ Addressed' /\ Housed'
  <2>1. proc'.pc \notin Bearing
    BY <1>9 DEF Bearing
  <2>2. \A q \in Messages : (Live(q) \/ ~Resolved(q))' => Live(q) \/ ~Resolved(q)
    BY <1>1, <1>7 DEF Live, InMail
  <2> QED
    BY <1>1, <1>2, <1>3, <1>5, <2>1, <2>2, CallsChange DEF IInv, Typed
<1>15. Placed'
  <2>1. InMail(n)' /\ msg'[n].state \in StateAt(proc'.pc)
    BY <1>1, <1>3, <1>8, <1>9 DEF InMail, StateAt, Bearing
  <2>2. InMail(m)' /\ msg'[m].state \in StateAt(proc'.pc)
    BY <1>2, <1>9, <2>1
  <2> QED
    BY <1>2, <1>6, <1>8, <1>9, <1>11, <2>2 DEF Placed, At, r, Created
<1>16. Clean'
  <2>1. \A q \in InState(InFlight)' : q = n
    BY <1>1, <1>2, <1>3, Alone DEF InState, InMail
  <2>2. \A q \in Messages, j \in Indices : tool'[q][j] # "STARTED"
    BY <1>1, <1>3, ToolsRest
  <2> QED
    BY <1>7, <1>9, <2>1, <2>2 DEF Clean, At, Resolved, Stepping, Paying
<1>17. Resuming'
  BY <1>8, <1>9 DEF Resuming, At, Paying, Applying, AtEffect, Bearing
<1> QED
  BY <1>10, <1>12, <1>13, <1>14, <1>15, <1>16, <1>17 DEF IInv

\* An answer, with its usage or without.
LEMMA ReplyKeeps ==
  ASSUME IInv, NEW tokens \in Costs \cup {-1}, NEW decision \in Plans, m \in Seeds \/ decision = <<>>,
         NEW valid \in BOOLEAN, Reply(tokens, decision, valid)
  PROVE  IInv'
<1>1. /\ proc.pc = "calling" /\ proc.pc \in Paying
      /\ UNCHANGED <<company, mail, effect, tool, files, carried>>
  BY DEF Reply, At, Paying
<1>2. PICK n, k : n = m /\ k = Bill /\ n \in Messages /\ k \in Calls(n)
  BY <1>1, Paid
<1>3. /\ call[n][k] \in CallRow /\ Open(n, k) /\ ~Touched(n) /\ InMail(n) /\ Live(n)
      /\ call[n][k].run = r /\ r \in Runs
      /\ proc.pc \in Stepping /\ proc.pc \notin {"idle", "finish", "over", "tooling"} \cup Bearing
      /\ \A q \in Messages : \A j \in Calls(q) : Unresolved(q, j) => q = n /\ j = k
      /\ \A id \in Runs : run[id].reserved = IF id = r THEN Estimate ELSE 0
  BY <1>1, <1>2, Paid
<1>4. tokens \in Nat \/ tokens = -1
  BY StoreConstants
<1>5. faults' \in 0..MaxFaults
  BY FaultIn DEF Reply, IInv, Typed
<1>6. PICK row \in CallRow : /\ RowBecomes(n, k, row) /\ row.outcome = "SUCCESS" /\ row.run = r
                             /\ row.bill = IF tokens = -1 THEN "OPEN" ELSE "SETTLED"
                             /\ n \in Seeds \/ row.plan = <<>>
  <2>1. PICK c \in CallRow : c = call[n][k] /\ c.bill = "OPEN" /\ c.run = r
    BY <1>3 DEF Open
  <2>2. PICK bill \in {"OPEN", "SETTLED"} :
          /\ bill = IF tokens = -1 THEN "OPEN" ELSE "SETTLED"
          /\ bill = IF tokens = -1 THEN c.bill ELSE "SETTLED"
    BY <2>1
  <2> DEFINE new == [c EXCEPT !.outcome = "SUCCESS", !.tokens = tokens, !.plan = decision,
                              !.valid = valid, !.bill = bill]
  <2>3. RowBecomes(n, k, new)
    BY <1>2, <2>1, <2>2 DEF Reply, RowBecomes
  <2>4. tokens \in Int /\ "SUCCESS" \in Outcomes
    BY <1>4 DEF Outcomes
  <2>5. new \in CallRow
    BY <2>4 DEF CallRow
  <2>6. new.outcome = "SUCCESS" /\ new.run = r /\ new.plan = decision /\ new.bill = bill
    BY <2>1, <2>4 DEF CallRow
  <2> HIDE DEF new
  <2> QED
    BY <1>2, <2>2, <2>3, <2>5, <2>6
<1>7. /\ CallsTyped' /\ call'[n][k] = row
      /\ \A q \in Messages : Calls(q)' = Calls(q)
      /\ \A q \in Messages : q # n => call'[q] = call[q]
      /\ \A q \in Messages : \A j \in Calls(q) : q # n \/ j # k => call'[q][j] = call[q][j]
  BY <1>2, <1>6, RowChanges
<1>8. \A q \in Messages : \A j \in Calls(q)' : Unresolved(q, j)' => q = n /\ j = k
  BY <1>3, <1>7 DEF Unresolved, Open
<1>9. pixel' \in [Pixels -> PixelRow] /\ \A p \in Pixels : pixel'[p].body = pixel[p].body
  <2>1. me \in Pixels /\ pixel \in [Pixels -> PixelRow]
    BY <1>3, Here DEF IInv, Typed
  <2>2. pixel' = pixel \/ (tokens \in Nat /\ pixel' = Spent(me, tokens))
    BY <1>4 DEF Reply
  <2> QED
    BY <2>1, <2>2, SpentIn
<1>10. /\ proc \in Process /\ r \in Created /\ run[r].messages <= proc.count /\ proc.count < MaxPerRound
       /\ proc.at = 1 /\ (proc.tools => n \in Seeds)
  BY <1>1, <1>2, <1>3, Here DEF IInv, Resuming
<1>11. PICK s \in MessageStates : /\ msg' = WithState({n}, s)
                                  /\ s = IF tokens = -1 THEN "AWAITING_SETTLEMENT" ELSE "RESPONSE_STORED"
  BY <1>2 DEF Reply, MessageStates, InFlight, Claimable
<1>12. /\ msg' \in [Messages -> MessageRow]
       /\ \A q \in Messages : /\ msg'[q].to = msg[q].to /\ msg'[q].body = msg[q].body
                              /\ msg'[q].state = IF q = n THEN s ELSE msg[q].state
  BY <1>2, <1>11, OneMoves
<1>13. proc'.pc \notin Bearing => Recording' /\ Addressed' /\ Housed'
  <2> HAVE proc'.pc \notin Bearing
  <2>1. \A q \in Messages : (Live(q) \/ ~Resolved(q))' => Live(q) \/ ~Resolved(q)
    <3>1. \A q \in Messages : q # n => (Live(q)' => Live(q))
      BY <1>1, <1>12 DEF Live, InMail
    <3>2. \A q \in Messages : q # n => Resolved(q)'
      BY <1>8 DEF Resolved
    <3> QED
      BY <1>3, <3>1, <3>2
  <2> QED
    BY <1>1, <1>2, <1>3, <1>7, <1>9, <1>12, <2>1, CallsChange
<1>14. CASE tokens = -1
  <2>1. run' = run /\ RoundOver("PAUSED_RECOVERY_REQUIRED")
    BY <1>14 DEF Reply
  <2>2. Placed' /\ Clean' /\ Resuming' /\ proc' \in Process
    <3>1. /\ "PAUSED_RECOVERY_REQUIRED" \in StopReasons /\ "PAUSED_RECOVERY_REQUIRED" \in RecoveryStops
          /\ "PAUSED_RECOVERY_REQUIRED" \in Interrupting
      BY DEF StopReasons, RecoveryStops, Interrupting
    <3> QED
      BY <1>1, <1>3, <2>1, <3>1, Over
  <2>3. proc'.pc \notin Bearing
    BY <2>1, <1>10 DEF RoundOver, Bearing, Process
  <2>4. Typed'
    BY <1>1, <1>5, <1>7, <1>9, <1>12, <2>1, <2>2 DEF IInv, Typed
  <2>5. Counted'
    BY <2>1 DEF IInv, Counted, Created
  <2>6. Billed'
    <3>1. Open(n, k)' /\ k \in Calls(n)'
      BY <1>2, <1>6, <1>7, <1>14 DEF Open
    <3>2. \A q \in Messages : \A j \in Calls(q)' : Open(q, j)' => q = n /\ j = k
      BY <1>8 DEF Unresolved
    <3>3. \A id \in Runs : run'[id].reserved = IF id = call'[n][k].run THEN Estimate ELSE 0
      BY <1>3, <1>6, <1>7, <2>1
    <3> QED
      BY <1>2, <3>1, <3>2, <3>3, BilledOne
  <2> QED
    BY <1>13, <2>2, <2>3, <2>4, <2>5, <2>6 DEF IInv
<1>15. CASE tokens \in Nat
  <2>1. run' = RunSettled(n, k, tokens) /\ proc' = [proc EXCEPT !.pc = "parse"]
    BY <1>2, <1>15 DEF Reply, Goto
  <2>2. /\ run' \in [Runs -> RunRow]
        /\ \A id \in Runs : /\ run'[id].reserved = 0 /\ run'[id].status = run[id].status
                            /\ run'[id].stop = run[id].stop /\ run'[id].messages = run[id].messages
    BY <1>2, <1>3, <1>15, <2>1, RunPays
  <2>3. /\ proc' \in Process /\ proc'.pc = "parse" /\ m' = n /\ r' = r /\ proc'.count = proc.count
        /\ proc'.at = 1 /\ proc'.tools = proc.tools
    BY <1>2, <1>10, <2>1 DEF Process, Steps, m, r
  <2>4. \A q \in Messages : Resolved(q)'
    <3>1. ~Unresolved(n, k)'
      BY <1>6, <1>7, <1>15 DEF Unresolved, Open
    <3> QED
      BY <1>8, <3>1 DEF Resolved
  <2>5. Typed'
    BY <1>1, <1>5, <1>7, <1>9, <1>12, <2>2, <2>3 DEF IInv, Typed
  <2>6. Created' = Created
    BY <2>2 DEF Created
  <2>7. Counted'
    BY <2>2, <2>6 DEF IInv, Counted
  <2>8. Billed'
    BY <2>2, <2>4, BilledNone DEF Resolved, Unresolved
  <2>9. Recording' /\ Addressed' /\ Housed'
    BY <1>13, <2>3 DEF Bearing
  <2>10. msg'[n].state = "RESPONSE_STORED" /\ InMail(n)'
    <3>1. s = "RESPONSE_STORED"
      BY <1>11, <1>15
    <3>2. msg'[n].state = s
      BY <1>2, <1>12
    <3>3. InMail(n)'
      BY <1>1, <1>3 DEF InMail
    <3> QED
      BY <3>1, <3>2, <3>3
  <2>11. Placed'
    <3>1. InMail(m)' /\ msg'[m].state \in StateAt(proc'.pc)
      <4>1. msg'[n].state \in StateAt(proc'.pc)
        BY <2>3, <2>10 DEF StateAt, Bearing
      <4> QED
        BY <1>2, <2>3, <2>10, <4>1
    <3> QED
      BY <1>2, <1>10, <2>2, <2>3, <2>6, <3>1 DEF Placed, At, r, Created
  <2>12. Clean'
    <3>1. InState(InFlight)' = {}
      <4>1. "RESPONSE_STORED" \notin InFlight
        BY DEF InFlight
      <4>2. \A q \in InState(InFlight) : q = n
        BY <1>2, <1>3, Alone
      <4> QED
        BY <1>1, <1>12, <2>10, <4>1, <4>2 DEF InState, InMail
    <3>2. \A q \in Messages, j \in Indices : tool'[q][j] # "STARTED"
      BY <1>1, <1>3, ToolsRest
    <3> QED
      BY <2>3, <2>4, <3>1, <3>2 DEF Clean, At, Resolved, Paying
  <2>13. Resuming'
    <3>1. Answered(n)'
      <4>1. Calls(n)' = 1..k /\ k \in Nat
        BY <1>2, <1>7, CallIn DEF Bill, IInv, Typed
      <4>2. Rows(n)' \subseteq 1..k /\ k \in Rows(n)'
        BY <1>2, <1>6, <1>7, <4>1 DEF Rows
      <4>3. IsFiniteSet(Rows(n)') /\ Rows(n)' \in SUBSET Nat /\ Rows(n)' # {}
        <5>1. IsFiniteSet(1..k)
          BY <4>1, FS_Interval
        <5> QED
          BY <4>1, <4>2, <5>1, FS_Subset
      <4> DEFINE S == Rows(n)'
      <4>4. Max(S) \in S /\ \A j \in S : Max(S) >= j
        <5> HIDE DEF S
        <5>1. IsFiniteSet(S) /\ S \in SUBSET Nat /\ S # {}
          BY <4>3 DEF S
        <5> QED
          BY <5>1, Greatest
      <4>5. Max(S) = k
        BY <4>1, <4>2, <4>4
      <4> QED
        BY <1>6, <1>7, <4>2, <4>5 DEF Answered, HasRow, LatestRow
    <3>2. Answered(m)'
      BY <2>3, <3>1
    <3> QED
      BY <1>10, <2>3, <3>2 DEF Resuming, At, Paying, Applying, AtEffect, Bearing
  <2> QED
    BY <2>3, <2>5, <2>7, <2>8, <2>9, <2>11, <2>12, <2>13 DEF IInv
<1> QED
  BY <1>4, <1>14, <1>15

-----------------------------------------------------------------------------
(* A call begins, and a reply is refused.                                    *)
RowAdded(n, row) == call' = [call EXCEPT ![n] = Append(@, row)]
LEMMA RowArrives ==
  ASSUME IInv, NEW n \in Messages, NEW row \in CallRow, row.plan = <<>>, row.outcome = "none",
         Len(call[n]) < MaxCalls, RowAdded(n, row)
  PROVE  /\ CallsTyped' /\ Len(call'[n]) = Len(call[n]) + 1 /\ call'[n][Len(call[n]) + 1] = row
         /\ Calls(n)' = Calls(n) \cup {Len(call[n]) + 1} /\ Len(call[n]) + 1 # 0
         /\ \A q \in Messages : q # n => call'[q] = call[q]
         /\ \A j \in Calls(n) : call'[n][j] = call[n][j]
         /\ Answered(n)' = Answered(n)
<1>1. /\ call \in [Messages -> Seq(CallRow)] /\ Calls(n) = 1..Len(call[n]) /\ Len(call[n]) \in Nat
      /\ call[n] \in Seq(CallRow)
      /\ \A q \in Messages : Len(call[q]) <= MaxCalls
      /\ \A q \in Messages \ Seeds : \A j \in Calls(q) : call[q][j].plan = <<>>
  BY CallIn DEF IInv, Typed, CallsTyped
<1>2. call'[n] = Append(call[n], row) /\ \A q \in Messages : q # n => call'[q] = call[q]
  BY <1>1 DEF RowAdded
<1>3. call'[n] \in Seq(CallRow) /\ Len(call'[n]) = Len(call[n]) + 1
  BY <1>1, <1>2
<1>4. /\ call'[n][Len(call[n]) + 1] = row
      /\ \A j \in 1..Len(call[n]) : call'[n][j] = call[n][j]
  BY <1>1, <1>2
<1>5. Calls(n)' = 1..(Len(call[n]) + 1)
  BY <1>3 DEF Calls
<1>6. Calls(n)' = Calls(n) \cup {Len(call[n]) + 1}
  BY <1>1, <1>5
<1>7. CallsTyped'
  <2>1. call' \in [Messages -> Seq(CallRow)]
    BY <1>1, <1>2, <1>3 DEF RowAdded
  <2>2. \A q \in Messages : Len(call'[q]) <= MaxCalls
    BY <1>1, <1>2, <1>3, Facts
  <2>3. \A q \in Messages \ Seeds : \A j \in Calls(q)' : call'[q][j].plan = <<>>
    <3> TAKE q \in Messages \ Seeds
    <3>1. \A j \in Calls(q) : call[q][j].plan = <<>>
      BY <1>1
    <3>2. CASE q = n
      BY <1>1, <1>4, <1>6, <3>1, <3>2
    <3>3. CASE q # n
      BY <1>2, <3>1, <3>3 DEF Calls
    <3> QED
      BY <3>2, <3>3
  <2> QED
    BY <2>1, <2>2, <2>3 DEF CallsTyped
<1>8. Answered(n)' = Answered(n)
  <2>1. Rows(n)' = Rows(n)
    BY <1>1, <1>4, <1>6 DEF Rows
  <2>2. HasRow(n)' = HasRow(n)
    BY <2>1 DEF HasRow
  <2>3. HasRow(n) => LatestRow(n)' = LatestRow(n)
    <3> HAVE HasRow(n)
    <3>1. Max(Rows(n)) \in Calls(n)
      BY NewestIn DEF IInv, Typed
    <3> QED
      BY <1>1, <1>4, <2>1, <3>1 DEF LatestRow
  <2> QED
    BY <2>2, <2>3 DEF Answered
<1> QED
  BY <1>1, <1>2, <1>3, <1>4, <1>6, <1>7, <1>8

LEMMA ReserveKeeps == ASSUME IInv, Reserve PROVE IInv'
<1>1. /\ proc.pc = "step" /\ ~Answered(m) /\ Len(call[m]) < MaxCalls
      /\ RowAdded(m, NewCall(r)) /\ proc' = [proc EXCEPT !.pc = "reserved"]
      /\ run' = [run EXCEPT ![r].reserved = @ + Estimate]
      /\ UNCHANGED <<company, mail, msg, effect, tool, pixel, files, faults, carried>>
  BY DEF Reserve, Reserving, At, Goto, Bare, RowAdded
<1>2. /\ proc.pc \in Stepping /\ proc.pc \notin {"idle", "finish", "over", "tooling"} \cup Paying
      /\ proc.pc \notin Bearing
  BY <1>1 DEF Stepping, Paying, Bearing
<1>3. PICK n, id : n = m /\ id = r /\ n \in Messages /\ id \in Runs
  BY <1>2, Here
<1>4. /\ InMail(n) /\ Live(n) /\ msg[n].state \in StateAt("step") /\ proc \in Process
      /\ id \in Created /\ run[id].messages <= proc.count /\ proc.count < MaxPerRound
      /\ proc.at = 1 /\ (proc.tools => n \in Seeds) /\ ~Answered(n)
  BY <1>1, <1>2, <1>3, Here DEF IInv, Resuming
<1>5. ~Touched(n)
  BY <1>3, <1>4 DEF IInv, Recording
<1>6. \A q \in Messages : \A j \in Calls(q) : ~Unresolved(q, j)
  BY <1>2, Quiet DEF Resolved
<1>7. PICK row \in CallRow : /\ row = NewCall(id) /\ row.plan = <<>> /\ row.outcome = "none"
                             /\ row.bill = "OPEN" /\ row.run = id
  <2>1. NewCall(id) \in CallRow
    <3>1. <<>> \in Plans
      BY Facts DEF Plans
    <3> QED
      BY <1>3, <3>1 DEF NewCall, CallRow, Outcomes
  <2> QED
    BY <2>1 DEF NewCall
<1>8. PICK k : k = Len(call[n]) + 1
  OBVIOUS
<1>9. /\ CallsTyped' /\ Len(call'[n]) = k /\ call'[n][k] = row
      /\ Calls(n)' = Calls(n) \cup {k} /\ k # 0
      /\ \A q \in Messages : q # n => call'[q] = call[q]
      /\ \A j \in Calls(n) : call'[n][j] = call[n][j]
      /\ ~Answered(n)'
  BY <1>1, <1>3, <1>4, <1>7, <1>8, RowArrives
<1>10. /\ \A q \in Messages : \A j \in Calls(q)' : Unresolved(q, j)' => q = n /\ j = k
       /\ Open(n, k)' /\ Unresolved(n, k)' /\ k \in Calls(n)'
  <2>1. ASSUME NEW q \in Messages, NEW j \in Calls(q)', q # n PROVE ~Unresolved(q, j)'
    BY <1>6, <1>9, <2>1 DEF Unresolved, Open, Calls
  <2>2. ASSUME NEW j \in Calls(n)', j # k PROVE ~Unresolved(n, j)'
    BY <1>3, <1>6, <1>9, <2>2 DEF Unresolved, Open
  <2>3. Open(n, k)' /\ k \in Calls(n)'
    BY <1>7, <1>9 DEF Open
  <2> QED
    BY <2>1, <2>2, <2>3 DEF Unresolved
<1>11. /\ run' \in [Runs -> RunRow]
       /\ \A o \in Runs : /\ run'[o].reserved = IF o = id THEN Estimate ELSE 0
                          /\ run'[o].status = run[o].status /\ run'[o].stop = run[o].stop
                          /\ run'[o].messages = run[o].messages
  <2>1. \A o \in Runs : run[o].reserved = 0
    BY <1>6, NoneReserved DEF Resolved
  <2>2. run \in [Runs -> RunRow] /\ Estimate \in Nat
    BY Facts DEF IInv, Typed
  <2>3. PICK new \in RunRow : /\ new = [run[id] EXCEPT !.reserved = Estimate]
                              /\ run' = [run EXCEPT ![id] = new]
    <3> DEFINE new == [run[id] EXCEPT !.reserved = Estimate]
    <3>1. new \in RunRow
      BY <1>3, <2>2 DEF RunRow
    <3>2. run[id].reserved + Estimate = Estimate
      BY <1>3, <2>1, <2>2
    <3>3. run' = [run EXCEPT ![id] = new]
      BY <1>1, <1>3, <2>2, <3>2
    <3> HIDE DEF new
    <3> QED
      BY <3>1, <3>3 DEF new
  <2>4. /\ new.reserved = Estimate /\ new.status = run[id].status /\ new.stop = run[id].stop
        /\ new.messages = run[id].messages
    BY <1>3, <2>2, <2>3 DEF RunRow
  <2> QED
    BY <1>3, <2>1, <2>2, <2>3, <2>4
<1>12. /\ proc' \in Process /\ proc'.pc = "reserved" /\ m' = n /\ r' = id /\ proc'.count = proc.count
       /\ proc'.at = 1 /\ proc'.tools = proc.tools /\ proc'.pc \in Paying /\ proc'.pc \in Stepping
       /\ proc'.pc \notin Bearing /\ proc'.pc # "tooling"
  BY <1>1, <1>3, <1>4 DEF Process, Steps, m, r, Paying, Stepping, Bearing
<1>13. Typed'
  BY <1>1, <1>9, <1>11, <1>12 DEF IInv, Typed
<1>14. Created' = Created
  BY <1>11 DEF Created
<1>15. Counted'
  BY <1>11, <1>14 DEF IInv, Counted
<1>16. Billed'
  <2>1. \A q \in Messages : \A j \in Calls(q)' : Open(q, j)' => q = n /\ j = k
    BY <1>10 DEF Unresolved
  <2>2. \A o \in Runs : run'[o].reserved = IF o = call'[n][k].run THEN Estimate ELSE 0
    BY <1>7, <1>9, <1>11
  <2> QED
    BY <1>3, <1>10, <2>1, <2>2, BilledOne
<1>17. Recording' /\ Addressed' /\ Housed'
  <2>1. \A q \in Messages : (Live(q) \/ ~Resolved(q))' => Live(q) \/ ~Resolved(q)
    <3>1. \A q \in Messages : Live(q)' <=> Live(q)
      BY <1>1 DEF Live, InMail
    <3>2. \A q \in Messages : q # n => Resolved(q)'
      BY <1>10 DEF Resolved
    <3> QED
      BY <1>4, <3>1, <3>2
  <2>2. msg' \in [Messages -> MessageRow]
    BY <1>1 DEF IInv, Typed
  <2> QED
    BY <1>1, <1>2, <1>4, <1>5, <1>9, <1>12, <2>1, <2>2, CallsChange
<1>18. InMail(n)' /\ msg'[n].state \in StateAt(proc'.pc)
  BY <1>1, <1>4, <1>12 DEF InMail, StateAt
<1>19. Placed'
  BY <1>3, <1>4, <1>11, <1>12, <1>14, <1>18 DEF Placed, At
<1>20. Bill' = k
  BY <1>9, <1>12 DEF Bill
<1>21. Clean'
  <2>1. \A q \in InState(InFlight)' : q = n
    BY <1>1, <1>2, <1>3, Alone DEF InState, InMail
  <2>2. \A q \in Messages, j \in Indices : tool'[q][j] # "STARTED"
    BY <1>1, <1>2, ToolsRest
  <2>3. Bill' # 0 /\ call'[m'][Bill'].outcome = "none" /\ call'[m'][Bill'].run = r'
    BY <1>7, <1>9, <1>12, <1>20
  <2>4. call[m][Bill]' = call'[n][k] /\ Open(m, Bill)'
    BY <1>10, <1>12, <1>20 DEF Open
  <2> QED
    BY <1>10, <1>12, <1>20, <2>1, <2>2, <2>3, <2>4 DEF Clean, At
<1>22. Resuming'
  <2>1. ~Answered(m)'
    BY <1>9, <1>12
  <2> QED
    BY <1>4, <1>12, <2>1 DEF Resuming, At, Applying, AtEffect, Bearing
<1> QED
  BY <1>13, <1>15, <1>16, <1>17, <1>19, <1>21, <1>22 DEF IInv

LEMMA RejectKeeps == ASSUME IInv, Reject PROVE IInv'
<1>1. /\ proc.pc = "parse" /\ ~LatestRow(m).valid /\ proc' = [proc EXCEPT !.pc = "rejected"]
      /\ call' = [call EXCEPT ![m][Max(Rows(m))].outcome = "MODEL_RESPONSE_INVALID"]
      /\ UNCHANGED <<company, run, mail, msg, effect, tool, pixel, files, faults, carried>>
  BY DEF Reject, At, Goto, Bare
<1>2. /\ proc.pc \in Stepping /\ proc.pc \notin {"idle", "finish", "over", "tooling"} \cup Paying
      /\ proc.pc \notin Bearing
  BY <1>1 DEF Stepping, Paying, Bearing
<1>3. PICK n, k : n = m /\ k = Max(Rows(m)) /\ n \in Messages /\ k \in Calls(n)
  <2>1. m \in Messages /\ HasRow(m)
    BY <1>1, <1>2, Here DEF IInv, Resuming, At, Answered
  <2> QED
    BY <2>1, NewestIn DEF IInv, Typed
<1>4. /\ InMail(n) /\ Live(n) /\ msg[n].state \in StateAt("parse") /\ proc \in Process
      /\ r \in Created /\ run[r].messages <= proc.count /\ proc.count < MaxPerRound
      /\ (proc.tools => n \in Seeds)
  BY <1>1, <1>2, <1>3, Here DEF IInv, Resuming
<1>5. ~Touched(n)
  BY <1>1, <1>3 DEF IInv, Recording
<1>6. \A q \in Messages : \A j \in Calls(q) : ~Unresolved(q, j)
  BY <1>2, Quiet DEF Resolved
<1>7. call[n][k] \in CallRow
  BY <1>3, CallIn DEF IInv, Typed
<1>8. PICK row \in CallRow : /\ RowBecomes(n, k, row) /\ row.outcome = "MODEL_RESPONSE_INVALID"
                             /\ row.bill = call[n][k].bill
                             /\ n \in Seeds \/ row.plan = <<>>
  <2> DEFINE new == [call[n][k] EXCEPT !.outcome = "MODEL_RESPONSE_INVALID"]
  <2>1. /\ new \in CallRow /\ new.bill = call[n][k].bill /\ new.outcome = "MODEL_RESPONSE_INVALID"
        /\ n \in Seeds \/ new.plan = <<>>
    BY <1>3, <1>7 DEF CallRow, Outcomes, IInv, Typed, CallsTyped
  <2>2. RowBecomes(n, k, new)
    BY <1>1, <1>3 DEF RowBecomes
  <2> HIDE DEF new
  <2> QED
    BY <2>1, <2>2
<1>9. /\ CallsTyped' /\ call'[n][k] = row
      /\ \A q \in Messages : Calls(q)' = Calls(q)
      /\ \A q \in Messages : q # n => call'[q] = call[q]
      /\ \A q \in Messages : \A j \in Calls(q) : q # n \/ j # k => call'[q][j] = call[q][j]
  BY <1>3, <1>8, RowChanges
<1>10. \A q \in Messages : \A j \in Calls(q)' : ~Unresolved(q, j)'
  <2>1. ASSUME NEW q \in Messages, NEW j \in Calls(q)', q # n \/ j # k PROVE ~Unresolved(q, j)'
    BY <1>6, <1>9, <2>1 DEF Unresolved, Open
  <2>2. ~Unresolved(n, k)'
    BY <1>3, <1>6, <1>8, <1>9 DEF Unresolved, Open
  <2> QED
    BY <2>1, <2>2
<1>11. /\ proc' \in Process /\ proc'.pc = "rejected" /\ m' = n /\ r' = r /\ proc'.count = proc.count
       /\ proc'.tools = proc.tools /\ proc'.pc \notin Paying /\ proc'.pc \in Stepping
       /\ proc'.pc \notin Bearing \cup Applying \cup AtEffect \cup {"step", "parse", "birth"}
  BY <1>1, <1>3, <1>4
     DEF Process, Steps, m, r, Paying, Stepping, Bearing, Applying, AtEffect
<1>12. Typed'
  BY <1>1, <1>9, <1>11 DEF IInv, Typed
<1>13. Counted'
  BY <1>1 DEF IInv, Counted, Created
<1>14. Billed'
  <2>1. \A id \in Runs : run'[id].reserved = 0
    BY <1>1, <1>6, NoneReserved DEF Resolved
  <2> QED
    BY <1>10, <2>1, BilledNone DEF Unresolved
<1>15. Recording' /\ Addressed' /\ Housed'
  <2>1. \A q \in Messages : (Live(q) \/ ~Resolved(q))' => Live(q) \/ ~Resolved(q)
    <3>1. \A q \in Messages : Live(q)' <=> Live(q)
      BY <1>1 DEF Live, InMail
    <3> QED
      BY <1>10, <3>1 DEF Resolved
  <2>2. msg' \in [Messages -> MessageRow]
    BY <1>1 DEF IInv, Typed
  <2> QED
    BY <1>1, <1>2, <1>4, <1>5, <1>9, <1>11, <2>1, <2>2, CallsChange
<1>16. Placed'
  <2>1. InMail(n)' /\ msg'[n].state \in StateAt(proc'.pc)
    BY <1>1, <1>4, <1>11 DEF InMail, StateAt, Bearing
  <2> QED
    BY <1>1, <1>3, <1>4, <1>11, <2>1 DEF Placed, At, Created
<1>17. Clean'
  <2>1. InState(InFlight)' = {}
    BY <1>1, Steady DEF InState, InMail
  <2>2. \A q \in Messages, j \in Indices : tool'[q][j] # "STARTED"
    BY <1>1, <1>2, ToolsRest
  <2> QED
    BY <1>10, <1>11, <2>1, <2>2 DEF Clean, At
<1>18. Resuming'
  BY <1>4, <1>11 DEF Resuming, At
<1> QED
  BY <1>12, <1>13, <1>14, <1>15, <1>16, <1>17, <1>18 DEF IInv

-----------------------------------------------------------------------------
(* The end of a round, and of a run.                                         *)
\* One run changes: what it has reserved does not.
LEMMA RunChanges ==
  ASSUME IInv, NEW id \in Runs, NEW row \in RunRow, run' = [run EXCEPT ![id] = row],
         row.reserved = run[id].reserved, row.status # "none", row.messages <= MaxPerRound,
         id \in Created,
         UNCHANGED <<company, mail, msg, call, effect, tool, pixel, files, carried>>,
         proc' \in Process, faults' \in 0..MaxFaults
  PROVE  /\ Typed' /\ Counted' /\ Billed' /\ Recording' /\ Addressed' /\ Created' = Created
         /\ run'[id] = row /\ \A o \in Runs : o # id => run'[o] = run[o]
<1>1. run'[id] = row /\ \A o \in Runs : o # id => run'[o] = run[o]
  BY DEF IInv, Typed
<1>2. run' \in [Runs -> RunRow]
  BY DEF IInv, Typed
<1>3. Typed'
  BY <1>2 DEF IInv, Typed, CallsTyped, Calls
<1>4. Created' = Created
  BY <1>1 DEF Created
<1>5. Counted'
  BY <1>1, <1>4 DEF IInv, Counted
<1>6. Billed'
  <2>1. \A o \in Runs : run'[o].reserved = run[o].reserved
    BY <1>1
  <2> QED
    BY <2>1, BilledStays, CallsStay DEF IInv, Open
<1>7. Recording'
  BY RecordingStays DEF IInv, InMail
<1>8. Addressed'
  <2>1. \A q \in Messages : (Live(q) \/ ~Resolved(q))' => Live(q) \/ ~Resolved(q)
    BY CallsStay DEF Live, InMail
  <2>2. msg' \in [Messages -> MessageRow]
    BY DEF IInv, Typed
  <2> QED
    BY <2>1, <2>2, AddressedStays DEF IInv
<1> QED
  BY <1>1, <1>3, <1>4, <1>5, <1>6, <1>7, <1>8

LEMMA LoopFailsKeeps == ASSUME IInv, LoopFails PROVE IInv'
<1>1. /\ proc.pc = "round" /\ Fault /\ proc' = Idle
      /\ run' = [run EXCEPT ![r] = WithStatus(run[r], "FAILED", "INFRASTRUCTURE_FAILURE")]
      /\ UNCHANGED <<company, mail, msg, call, effect, tool, pixel, files, carried>>
  BY DEF LoopFails, At
<1>2. PICK id \in Runs : id = r /\ id \in Created
  BY <1>1 DEF IInv, Placed, At, Created
<1>3. run[id] \in RunRow /\ run[id].messages <= MaxPerRound
  BY <1>2 DEF IInv, Typed, Counted
<1>4. PICK row \in RunRow : /\ row = WithStatus(run[id], "FAILED", "INFRASTRUCTURE_FAILURE")
                            /\ row.reserved = run[id].reserved /\ row.status # "none"
                            /\ row.messages = run[id].messages
  <2> DEFINE new == [run[id] EXCEPT !.status = "FAILED", !.stop = "INFRASTRUCTURE_FAILURE"]
  <2>1. new = WithStatus(run[id], "FAILED", "INFRASTRUCTURE_FAILURE")
    BY DEF WithStatus
  <2>2. /\ new \in RunRow /\ new.reserved = run[id].reserved /\ new.status # "none"
        /\ new.messages = run[id].messages
    BY <1>3 DEF RunRow, RunStates, StopReasons
  <2> QED
    BY <2>1, <2>2
<1>5. run' = [run EXCEPT ![id] = row]
  BY <1>1, <1>2, <1>4
<1>6. proc' \in Process /\ proc'.pc = "idle"
  BY <1>1, Facts DEF Idle, Process, Awaits, StopReasons
<1>7. Typed' /\ Counted' /\ Billed' /\ Recording' /\ Addressed'
  <2>1. faults' \in 0..MaxFaults
    BY <1>1, FaultIn
  <2> QED
    BY <1>1, <1>2, <1>3, <1>4, <1>5, <1>6, <2>1, RunChanges
<1>8. Placed' /\ Clean' /\ Resuming'
  BY <1>6, Rests
<1>9. Housed'
  BY <1>1, <1>6, HousedKeeps DEF Bearing
<1> QED
  BY <1>7, <1>8, <1>9 DEF IInv

\* A run is over: what its last round left stays.
LEMMA Ends ==
  ASSUME IInv, proc.pc = "over", proc'.pc = "finish", r' = r, Created' = Created, UNCHANGED tool
  PROVE  Placed' /\ Clean' /\ Resuming'
<1>1. r \in Created
  BY DEF IInv, Placed, At
<1>2. \A n \in Messages, k \in Indices : tool[n][k] # "STARTED"
  BY ToolsRest
<1>3. Placed'
  BY <1>1 DEF Placed, At, Stepping, Paying, Applying, AtEffect, Bearing
<1>4. Clean'
  BY <1>2 DEF Clean, At, Paying
<1>5. Resuming'
  BY DEF Resuming, At, Stepping, Paying, Applying, AtEffect, Bearing
<1> QED
  BY <1>3, <1>4, <1>5

LEMMA StatusIn ==
  ASSUME NEW row \in RunRow, NEW status \in RunStates, NEW reason \in StopReasons
  PROVE  /\ WithStatus(row, status, reason) \in RunRow
         /\ WithStatus(row, status, reason).status = status
         /\ WithStatus(row, status, reason).stop = IF reason = "none" THEN row.stop ELSE reason
         /\ WithStatus(row, status, reason).reserved = row.reserved
         /\ WithStatus(row, status, reason).messages = row.messages
         /\ WithStatus(row, status, reason).next = row.next
<1>1. PICK stop \in StopReasons : stop = IF reason = "none" THEN row.stop ELSE reason
  BY DEF RunRow
<1>2. WithStatus(row, status, reason) = [row EXCEPT !.status = status, !.stop = stop]
  BY <1>1 DEF WithStatus, RunRow
<1> QED
  BY <1>1, <1>2 DEF RunRow

LEMMA RoundCompletedIn ==
  ASSUME NEW row \in RunRow, NEW round \in Nat
  PROVE  /\ RoundCompleted(row, round) \in RunRow
         /\ RoundCompleted(row, round).reserved = row.reserved
         /\ RoundCompleted(row, round).status = row.status
         /\ RoundCompleted(row, round).messages <= row.messages
<1>1. row.messages \in Nat /\ round + 1 \in Nat
  BY DEF RunRow
<1>2. CASE row.next # round
  BY <1>1, <1>2 DEF RoundCompleted
<1>3. CASE row.next = round
  <2> DEFINE new == [row EXCEPT !.next = round + 1, !.started = FALSE, !.messages = 0]
  <2>1. RoundCompleted(row, round) = new
    BY <1>3 DEF RoundCompleted
  <2>2. /\ new \in RunRow /\ new.reserved = row.reserved /\ new.status = row.status
        /\ new.messages = 0
    BY <1>1 DEF RunRow
  <2> HIDE DEF new
  <2> QED
    BY <1>1, <2>1, <2>2
<1> QED
  BY <1>2, <1>3

LEMMA EndRoundKeeps == ASSUME IInv, EndRound PROVE IInv'
<1>1. /\ proc.pc = "over" /\ proc \in Process /\ faults \in 0..MaxFaults
      /\ UNCHANGED <<company, mail, msg, call, effect, tool, pixel, files, faults, carried>>
  BY DEF EndRound, At, Bare, IInv, Typed
<1>2. PICK id \in Runs : id = r /\ id \in Created
  BY <1>1 DEF IInv, Placed, At, Created
<1>3. run[id] \in RunRow /\ run[id].messages <= MaxPerRound /\ run[id].status # "none"
  BY <1>2 DEF IInv, Typed, Counted, Created
<1>4. CASE Interrupted(proc.stop)
  <2>1. PICK stop \in StopReasons : proc' = [proc EXCEPT !.pc = "finish", !.stop = stop]
    <3>1. {proc.stop, "USER_STOPPED"} \subseteq StopReasons
      BY <1>1 DEF Process, StopReasons
    <3> QED
      BY <1>4, <3>1 DEF EndRound
  <2>2. run' = run
    BY <1>4 DEF EndRound
  <2>3. proc' \in Process /\ proc'.pc = "finish" /\ r' = r
    BY <1>1, <2>1 DEF Process, Steps, r
  <2>4. Typed' /\ Counted' /\ Billed' /\ Recording' /\ Addressed'
    <3>1. UNCHANGED store /\ files' \in [Pixels -> Nat]
      BY <1>1, <2>2 DEF store, IInv, Typed
    <3> QED
      BY <1>1, <2>3, <3>1, StoreStays
  <2>5. Placed' /\ Clean' /\ Resuming'
    BY <1>1, <2>2, <2>3, Ends DEF Created
  <2>6. Housed'
    BY <1>1, <2>3, HousedKeeps DEF Bearing
  <2> QED
    BY <2>4, <2>5, <2>6 DEF IInv
<1>5. CASE ~Interrupted(proc.stop)
  <2>1. /\ proc.stop \notin Interrupting /\ proc.stop \notin RecoveryStops
        /\ proc.stop \in StopReasons /\ proc.round \in Nat
    BY <1>1, <1>5 DEF Interrupted, Interrupting, Process
  <2>2. /\ InState(InFlight) = {} /\ \A n \in Messages : Resolved(n)
        /\ \A n \in Messages, k \in Indices : tool[n][k] # "STARTED"
    <3>1. InState(InFlight) = {}
      BY <1>1, <2>1 DEF IInv, Clean, At, Stepping, Paying, Applying, AtEffect, Bearing
    <3>2. \A n \in Messages : Resolved(n)
      BY <1>1, <2>1 DEF IInv, Clean, At, Paying, Resolved
    <3> QED
      BY <1>1, <3>1, <3>2, ToolsRest
  <2>3. PICK done \in RunRow : /\ done = RoundCompleted(run[id], proc.round)
                               /\ done.reserved = run[id].reserved /\ done.status = run[id].status
                               /\ done.messages <= run[id].messages
    BY <1>3, <2>1, RoundCompletedIn
  <2>4. done.messages <= MaxPerRound
    BY <1>3, <2>3, Facts DEF RunRow
  <2>5. CASE proc.stop = "none"
    <3>1. /\ run' = [run EXCEPT ![id] = done]
          /\ proc' = [proc EXCEPT !.pc = "loop", !.round = proc.round + 1, !.count = 0]
      BY <1>2, <1>5, <2>3, <2>5 DEF EndRound
    <3>2. proc' \in Process /\ proc'.pc = "loop" /\ r' = r
      <4>1. proc.round + 1 \in Nat /\ 0 \in 0..MaxPerRound /\ "loop" \in Steps
        BY <2>1, Facts DEF Steps
      <4> HIDE DEF Steps
      <4> QED
        BY <1>1, <3>1, <4>1 DEF Process, r
    <3>3. Typed' /\ Counted' /\ Billed' /\ Recording' /\ Addressed' /\ Created' = Created
      BY <1>1, <1>2, <1>3, <2>3, <2>4, <3>1, <3>2, RunChanges
    <3>4. Placed' /\ Clean' /\ Resuming'
      <4>1. \A n \in Messages : Resolved(n)'
        BY <1>1, <2>2, CallsStay
      <4>2. InState(InFlight)' = {}
        BY <1>1, <2>2 DEF InState, InMail
      <4> QED
        BY <1>1, <1>2, <2>2, <3>2, <3>3, <4>1, <4>2, Between
    <3>5. Housed'
      BY <1>1, <3>2, HousedKeeps DEF Bearing
    <3> QED
      BY <3>3, <3>4, <3>5 DEF IInv
  <2>6. CASE proc.stop # "none"
    <3>1. RunStatusOf(proc.stop) \in RunStates \ {"none"}
      BY DEF RunStatusOf, RunStates
    <3>2. PICK row \in RunRow : /\ run' = [run EXCEPT ![id] = row]
                                /\ row.reserved = run[id].reserved /\ row.status # "none"
                                /\ row.messages <= MaxPerRound
      <4>1. PICK ended \in RunRow : /\ ended = WithStatus(done, RunStatusOf(proc.stop), proc.stop)
                                    /\ ended.status # "none" /\ ended.reserved = done.reserved
                                    /\ ended.messages = done.messages
        BY <2>1, <3>1, StatusIn
      <4> DEFINE row == [ended EXCEPT !.resume = FALSE]
      <4>2. run' = [run EXCEPT ![id] = row]
        BY <1>2, <1>5, <2>3, <2>6, <4>1 DEF EndRound
      <4>3. /\ row \in RunRow /\ row.reserved = ended.reserved /\ row.status = ended.status
            /\ row.messages = ended.messages
        BY DEF RunRow
      <4> HIDE DEF row
      <4> QED
        BY <2>3, <2>4, <4>1, <4>2, <4>3
    <3>3. proc' = [proc EXCEPT !.pc = "finish"]
      BY <1>5, <2>6 DEF EndRound
    <3>4. proc' \in Process /\ proc'.pc = "finish" /\ r' = r
      BY <1>1, <3>3 DEF Process, Steps, r
    <3>5. Typed' /\ Counted' /\ Billed' /\ Recording' /\ Addressed' /\ Created' = Created
      BY <1>1, <1>2, <3>2, <3>4, RunChanges
    <3>6. Placed' /\ Clean' /\ Resuming'
      BY <1>1, <3>4, <3>5, Ends
    <3>7. Housed'
      BY <1>1, <3>4, HousedKeeps DEF Bearing
    <3> QED
      BY <3>5, <3>6, <3>7 DEF IInv
  <2> QED
    BY <2>5, <2>6
<1> QED
  BY <1>4, <1>5

LEMMA FinishKeeps == ASSUME IInv, Finish PROVE IInv'
<1>1. /\ proc.pc = "finish" /\ proc' = Idle /\ proc \in Process /\ faults \in 0..MaxFaults
      /\ UNCHANGED <<company, mail, msg, call, effect, tool, pixel, files, faults, carried>>
  BY DEF Finish, At, Bare, IInv, Typed
<1>2. PICK id \in Runs : id = r /\ id \in Created
  BY <1>1 DEF IInv, Placed, At, Created
<1>3. run[id] \in RunRow /\ run[id].messages <= MaxPerRound
  BY <1>2 DEF IInv, Typed, Counted
<1>4. PICK reason \in StopReasons : reason = IF proc.stop # "none" THEN proc.stop ELSE "ROUND_LIMIT_REACHED"
  BY <1>1 DEF Process, StopReasons
<1>5. FinalStatus(reason) \in RunStates \ {"none"}
  BY DEF FinalStatus, RunStates
<1>6. PICK row \in RunRow : /\ run' = [run EXCEPT ![id] = row]
                            /\ row.reserved = run[id].reserved /\ row.status # "none"
                            /\ row.messages = run[id].messages
  <2>1. PICK ended \in RunRow : /\ ended = WithStatus(run[id], FinalStatus(reason), reason)
                                /\ ended.status # "none" /\ ended.reserved = run[id].reserved
                                /\ ended.messages = run[id].messages
    BY <1>3, <1>5, StatusIn
  <2>2. PICK resume \in BOOLEAN : resume = (run[id].resume /\ reason \in Interrupting)
    OBVIOUS
  <2> DEFINE row == [ended EXCEPT !.resume = resume]
  <2>3. run' = [run EXCEPT ![id] = row]
    BY <1>2, <1>4, <2>1, <2>2 DEF Finish
  <2>4. /\ row \in RunRow /\ row.reserved = ended.reserved /\ row.status = ended.status
        /\ row.messages = ended.messages
    BY DEF RunRow
  <2> HIDE DEF row
  <2> QED
    BY <2>1, <2>3, <2>4
<1>7. proc' \in Process /\ proc'.pc = "idle"
  BY <1>1, Facts DEF Idle, Process, Awaits, StopReasons
<1>8. Typed' /\ Counted' /\ Billed' /\ Recording' /\ Addressed'
  BY <1>1, <1>2, <1>3, <1>6, <1>7, RunChanges
<1>9. Placed' /\ Clean' /\ Resuming'
  BY <1>7, Rests
<1>10. Housed'
  BY <1>1, <1>7, HousedKeeps DEF Bearing
<1> QED
  BY <1>8, <1>9, <1>10 DEF IInv

LEMMA AcknowledgeRunKeeps == ASSUME IInv, NEW id \in Runs, AcknowledgeRun(id) PROVE IInv'
<1>1. /\ proc.pc = "idle" /\ proc' = proc /\ proc \in Process /\ faults \in 0..MaxFaults
      /\ run[id].status = "RUNNING"
      /\ run' = [run EXCEPT ![id] = [WithStatus(run[id], "STOPPED", "USER_STOPPED")
                                       EXCEPT !.resume = FALSE]]
      /\ UNCHANGED <<company, mail, msg, call, effect, tool, pixel, files, faults, carried>>
  BY DEF AcknowledgeRun, At, Bare, IInv, Typed
<1>2. id \in Created
  BY <1>1 DEF Created
<1>3. run[id] \in RunRow /\ run[id].messages <= MaxPerRound
  BY DEF IInv, Typed, Counted
<1>4. PICK row \in RunRow : /\ run' = [run EXCEPT ![id] = row]
                            /\ row.reserved = run[id].reserved /\ row.status # "none"
                            /\ row.messages = run[id].messages
  <2>1. "STOPPED" \in RunStates /\ "USER_STOPPED" \in StopReasons
    BY DEF RunStates, StopReasons
  <2>2. PICK ended \in RunRow : /\ ended = WithStatus(run[id], "STOPPED", "USER_STOPPED")
                                /\ ended.status # "none" /\ ended.reserved = run[id].reserved
                                /\ ended.messages = run[id].messages
    BY <1>3, <2>1, StatusIn
  <2> DEFINE row == [ended EXCEPT !.resume = FALSE]
  <2>3. run' = [run EXCEPT ![id] = row]
    BY <1>1, <2>2
  <2>4. /\ row \in RunRow /\ row.reserved = ended.reserved /\ row.status = ended.status
        /\ row.messages = ended.messages
    BY DEF RunRow
  <2> HIDE DEF row
  <2> QED
    BY <2>2, <2>3, <2>4
<1>5. Typed' /\ Counted' /\ Billed' /\ Recording' /\ Addressed'
  BY <1>1, <1>2, <1>3, <1>4, RunChanges
<1>6. Placed' /\ Clean' /\ Resuming'
  BY <1>1, Rests
<1>7. Housed'
  BY <1>1, HousedKeeps DEF Bearing
<1> QED
  BY <1>5, <1>6, <1>7 DEF IInv

LEMMA RequestStopKeeps == ASSUME IInv, RequestStop PROVE IInv'
<1>1. /\ proc.pc \in {"calling", "tooling"} /\ proc \in Process /\ faults \in 0..MaxFaults
      /\ run' = [run EXCEPT ![r].resume = FALSE, ![r].stop = "USER_STOPPED"]
      /\ proc' = [proc EXCEPT !.abort = TRUE, !.suspend = FALSE]
      /\ UNCHANGED <<company, mail, msg, call, effect, tool, pixel, files, faults, carried>>
  BY DEF RequestStop, Awaits, Bare, IInv, Typed
<1>2. PICK id \in Runs : id = r /\ id \in Created
  BY <1>1 DEF IInv, Placed, At, Created
<1>3. run[id] \in RunRow /\ run[id].messages <= MaxPerRound /\ run[id].status # "none"
  BY <1>2 DEF IInv, Typed, Counted, Created
<1>4. PICK row \in RunRow : /\ run' = [run EXCEPT ![id] = row]
                            /\ row.reserved = run[id].reserved /\ row.status # "none"
                            /\ row.messages = run[id].messages
  <2> DEFINE row == [run[id] EXCEPT !.resume = FALSE, !.stop = "USER_STOPPED"]
  <2>1. run' = [run EXCEPT ![id] = row]
    BY <1>1, <1>2, <1>3 DEF IInv, Typed, RunRow
  <2>2. /\ row \in RunRow /\ row.reserved = run[id].reserved /\ row.status = run[id].status
        /\ row.messages = run[id].messages
    BY <1>3 DEF RunRow, StopReasons
  <2> HIDE DEF row
  <2> QED
    BY <1>3, <2>1, <2>2
<1>5. /\ proc' \in Process /\ proc'.pc = proc.pc /\ proc'.run = proc.run /\ proc'.msg = proc.msg
      /\ proc'.at = proc.at /\ proc'.count = proc.count /\ proc'.tools = proc.tools
      /\ proc'.stop = proc.stop
  BY <1>1 DEF Process
<1>6. /\ Typed' /\ Counted' /\ Billed' /\ Recording' /\ Addressed' /\ Created' = Created
      /\ run'[id] = row
  BY <1>1, <1>2, <1>3, <1>4, <1>5, RunChanges
<1>7. r' = r /\ m' = m /\ me' = me /\ plan' = plan /\ Bill' = Bill
  BY <1>1, <1>5, CallsStay DEF r, m, me, plan, Bill
<1>8. /\ \A pc : At(pc)' = At(pc)
      /\ \A n : Calls(n)' = Calls(n) /\ Answered(n)' = Answered(n) /\ LatestRow(n)' = LatestRow(n)
      /\ \A n, k : Unresolved(n, k)' = Unresolved(n, k) /\ Open(n, k)' = Open(n, k)
      /\ \A s : InState(s)' = InState(s)
      /\ \A n : InMail(n)' = InMail(n)
  BY <1>1, <1>5, CallsStay DEF At, Unresolved, Open, InState, InMail
<1>9. Placed'
  <2>1. run'[r].messages = run[r].messages
    BY <1>2, <1>4, <1>6
  <2> QED
    BY <1>1, <1>5, <1>6, <1>7, <1>8, <2>1 DEF IInv, Placed
<1>10. Clean'
  BY <1>1, <1>5, <1>7, <1>8 DEF IInv, Clean
<1>11. Resuming'
  BY <1>1, <1>5, <1>7, <1>8 DEF IInv, Resuming
<1>12. Housed'
  BY <1>1, <1>5, <1>7, <1>8 DEF IInv, Housed, Expected, Marked
<1> QED
  BY <1>6, <1>9, <1>10, <1>11, <1>12 DEF IInv

-----------------------------------------------------------------------------
(* Outside the kernel.                                                       *)
LEMMA CrashKeeps == ASSUME IInv, Crash PROVE IInv'
<1>1. /\ proc' = Idle /\ Fault /\ UNCHANGED <<store, files, carried>>
      /\ UNCHANGED <<company, run, mail, msg, call, effect, tool, pixel>>
  BY DEF Crash, store
<1>2. proc' \in Process /\ proc'.pc = "idle" /\ proc'.pc \notin Bearing
  BY <1>1, Facts DEF Idle, Process, Awaits, StopReasons, Bearing
<1>3. Typed' /\ Counted' /\ Billed' /\ Recording' /\ Addressed'
  <2>1. faults' \in 0..MaxFaults /\ files' \in [Pixels -> Nat]
    BY <1>1, FaultIn DEF IInv, Typed
  <2> QED
    BY <1>1, <1>2, <2>1, StoreStays
<1>4. Placed' /\ Clean' /\ Resuming'
  BY <1>2, Rests
<1>5. CASE proc.pc \notin Bearing
  BY <1>1, <1>2, <1>3, <1>4, <1>5, HousedKeeps DEF IInv
<1>6. CASE proc.pc \in Bearing   \* the mark of the birth stays
  <2>1. PICK n, k, p : /\ n = m /\ k = proc.at /\ p = plan[k].to /\ n \in Messages /\ k \in Indices
                       /\ effect[n][k] = "PENDING" /\ LatestRow(n).plan[k].to = p
    BY <1>6, Target DEF plan
  <2>2. \A q \in Pixels : Marked(q) => Marked(q)'
    BY <1>1, <1>2, CallsStay DEF Marked
  <2>3. Marked(p)'
    BY <1>1, <1>2, <2>1, CallsStay DEF Marked
  <2>4. ASSUME NEW q \in Pixels, files[q] # pixel[q].body PROVE Marked(q)'
    <3>1. CASE q = p
      BY <2>3, <3>1
    <3>2. CASE q # p
      <4>1. Expected(q) = files[q]
        BY <2>1, <3>2 DEF Expected
      <4> QED
        BY <2>2, <2>4, <4>1 DEF IInv, Housed
    <3> QED
      BY <3>1, <3>2
  <2>5. \A q \in Pixels : Expected(q)' = files[q]
    BY <1>1, <1>2 DEF Expected, At
  <2>6. Housed'
    BY <1>1, <2>4, <2>5 DEF Housed
  <2> QED
    BY <1>3, <1>4, <2>6 DEF IInv
<1> QED
  BY <1>5, <1>6

\* A run that is created next is numbered next, and its first round follows the last.
LEMMA Numbered ==
  ASSUME IInv
  PROVE  /\ Latest \in 0..MaxRuns /\ Created = 1..Latest /\ WorldRound \in Nat
         /\ IsFiniteSet(Created)
<1>1. PICK n \in 0..MaxRuns : Created = 1..n
  BY DEF IInv, Counted
<1>2. n \in Nat /\ IsFiniteSet(Created) /\ Cardinality(Created) = n
  BY <1>1, Facts, FS_Interval
<1>3. WorldRound \in Nat
  <2> DEFINE T == {run[o].next - 1 : o \in Created}
             S == {0} \cup T
             U == {s \in S : s >= 0}
  <2>1. \A o \in Created : run[o].next \in Nat
    BY DEF Created, IInv, Typed, RunRow
  <2>2. S \subseteq Int /\ 0 \in U /\ U \in SUBSET Nat
    BY <2>1
  <2>3. IsFiniteSet(T)
    <3> DEFINE f == [o \in Created |-> run[o].next - 1]
    <3>1. f \in Surjection(Created, T)
      BY DEF Surjection
    <3> QED
      BY <1>2, <3>1, FS_Surjection
  <2>4. IsFiniteSet(S)
    BY <2>3, FS_EmptySet, FS_AddElement, FS_Union, FS_Singleton
  <2>5. IsFiniteSet(U)
    BY <2>4, FS_Subset
  <2>6. WorldRound = Max(S)
    BY DEF WorldRound
  <2> HIDE DEF T
  <2>7. Max(U) \in U /\ \A s \in U : Max(U) >= s
    <3> HIDE DEF U
    <3> QED
      BY <2>2, <2>5, Greatest
  <2> HIDE DEF S
  <2>8. \A s \in S : Max(U) >= s
    BY <2>2, <2>7
  <2>9. Max(S) \in S /\ \A s \in S : Max(S) >= s
    <3>1. \E x \in S : \A y \in S : x >= y
      BY <2>7, <2>8
    <3> QED
      BY <3>1 DEF Max
  <2> QED
    BY <2>2, <2>6, <2>9
<1> QED
  BY <1>1, <1>2, <1>3 DEF Latest

LEMMA Finalized ==
  ASSUME IInv, OpenBills = {}, Unknown = {}, StartedTools = {}, InState(InFlight) = {}
  PROVE  /\ \A n \in Messages : Resolved(n)
         /\ \A n \in Messages, k \in Indices : tool[n][k] # "STARTED"
  BY Sets DEF IInv, Typed, Resolved, Unresolved

LEMMA StartKeeps == ASSUME IInv, NEW rounds \in 1..MaxRounds, Start(rounds) PROVE IInv'
<1>1. /\ proc.pc = "idle" /\ Latest < MaxRuns /\ ~Unfinalized
      /\ msg' = WithState(InState({"WAITING_RUN_BUDGET"}), "QUEUED")
      /\ UNCHANGED <<company, mail, call, effect, tool, pixel, files, faults, carried>>
  BY DEF Start, At, Bare
<1>2. /\ \A n \in Messages : Resolved(n)
      /\ \A n \in Messages, k \in Indices : tool[n][k] # "STARTED"
      /\ InState(InFlight) = {}
  BY <1>1, Finalized DEF Unfinalized
<1>3. PICK id \in Runs : id = Latest + 1 /\ id \in Nat
  BY <1>1, Numbered, Facts DEF Runs
<1>4. PICK new \in RunRow : /\ new = NewRun(rounds) /\ new.status # "none" /\ new.reserved = 0
                            /\ new.messages = 0
  <2>1. WorldRound + 1 \in Nat /\ WorldRound + rounds \in Nat
    BY Numbered, KernelConstants
  <2>2. NoRun \in RunRow /\ NoRun.reserved = 0 /\ NoRun.messages = 0
    BY DEF NoRun, RunRow, RunStates, StopReasons
  <2>3. "RUNNING" \in RunStates /\ "RUNNING" # "none"
    BY DEF RunStates
  <2> DEFINE new == [NoRun EXCEPT !.status = "RUNNING", !.resume = TRUE,
                                  !.next = WorldRound + 1, !.last = WorldRound + rounds]
  <2>4. new = NewRun(rounds)
    BY DEF NewRun
  <2>5. new \in RunRow /\ new.status = "RUNNING" /\ new.reserved = 0 /\ new.messages = 0
    BY <2>1, <2>2, <2>3 DEF RunRow
  <2> HIDE DEF new
  <2> QED
    BY <2>3, <2>4, <2>5
<1>5. /\ run' = [o \in Runs |-> IF o = id THEN new ELSE [run[o] EXCEPT !.resume = FALSE]]
      /\ proc' = LoopFrom(id, WorldRound + 1)
  BY <1>1, <1>3, <1>4 DEF Start
<1>6. /\ run' \in [Runs -> RunRow] /\ run'[id] = new
      /\ \A o \in Runs : o # id => /\ run'[o].status = run[o].status /\ run'[o].stop = run[o].stop
                                   /\ run'[o].reserved = run[o].reserved
                                   /\ run'[o].messages = run[o].messages
  <2>1. \A o \in Runs : run[o] \in RunRow
    BY DEF IInv, Typed
  <2>2. \A o \in Runs : [run[o] EXCEPT !.resume = FALSE] \in RunRow
    BY <2>1 DEF RunRow
  <2> QED
    BY <1>5, <2>1, <2>2 DEF RunRow
<1>7. proc' \in Process /\ proc'.pc = "loop" /\ r' = id
  <2>1. WorldRound + 1 \in Nat /\ id \in 0..MaxRuns /\ 0 \in 0..MaxPerRound
    BY <1>3, Numbered, Facts DEF Runs
  <2>2. Idle \in Process
    BY Facts DEF Idle, Process, Awaits, StopReasons
  <2>3. "loop" \in Steps
    BY DEF Steps
  <2>4. proc' = [Idle EXCEPT !.pc = "loop", !.run = id, !.round = WorldRound + 1]
    BY <1>5 DEF LoopFrom
  <2> QED
    BY <2>1, <2>2, <2>3, <2>4 DEF Process, r
<1>8. /\ msg' \in [Messages -> MessageRow]
      /\ \A n \in Messages :
           /\ msg'[n].to = msg[n].to /\ msg'[n].body = msg[n].body
           /\ msg'[n].state = IF n \in InState({"WAITING_RUN_BUDGET"}) THEN "QUEUED" ELSE msg[n].state
  <2>1. "QUEUED" \in MessageStates
    BY DEF MessageStates, Claimable
  <2> QED
    BY <1>1, <2>1, StatesMove DEF IInv
<1>9. Typed'
  BY <1>1, <1>6, <1>7, <1>8 DEF IInv, Typed, CallsTyped, Calls
<1>10. Created' = Created \cup {id}
  BY <1>4, <1>6 DEF Created
<1>11. Counted'
  <2>1. Created' = 1..id /\ id \in 0..MaxRuns
    BY <1>3, <1>10, Numbered DEF Runs
  <2>2. \A o \in Runs \ Created' : run'[o].stop = "none"
    BY <1>6, <1>10 DEF IInv, Counted
  <2>3. \A o \in Runs : run'[o].messages <= MaxPerRound
    BY <1>4, <1>6, Facts DEF IInv, Counted
  <2> QED
    BY <2>1, <2>2, <2>3 DEF Counted
<1>12. Billed'
  <2>1. \A o \in Runs : run'[o].reserved = 0
    BY <1>2, <1>4, <1>6, NoneReserved
  <2>2. \A n \in Messages : Resolved(n)'
    BY <1>1, <1>2, CallsStay
  <2> QED
    BY <2>1, <2>2, BilledNone DEF Resolved, Unresolved
<1>13. Recording' /\ Addressed'
  <2>1. \A n \in Messages : InMail(n)' <=> InMail(n)
    BY <1>1 DEF InMail
  <2>2. \A n \in InState({"WAITING_RUN_BUDGET"}) : msg[n].state = "WAITING_RUN_BUDGET" /\ Live(n)
    BY DEF InState, Live, Waiting
  <2>3. Recording'
    BY <1>1, <1>8, <2>1, <2>2, RecordingStays DEF IInv
  <2>4. \A n \in Messages : (Live(n) \/ ~Resolved(n))' => Live(n) \/ ~Resolved(n)
    BY <1>1, <1>8, <2>1, <2>2, CallsStay DEF Live
  <2> QED
    BY <1>1, <1>8, <2>3, <2>4, AddressedStays DEF IInv
<1>14. Placed' /\ Clean' /\ Resuming'
  <2>1. InState(InFlight)' = {}
    <3>1. "QUEUED" \notin InFlight
      BY DEF InFlight
    <3> QED
      BY <1>1, <1>2, <1>8, <3>1 DEF InState, InMail
  <2>2. \A n \in Messages : Resolved(n)'
    BY <1>1, <1>2, CallsStay
  <2>3. (r \in Created)'
    BY <1>7, <1>10
  <2> QED
    BY <1>1, <1>2, <1>7, <2>1, <2>2, <2>3, Between
<1>15. Housed'
  BY <1>1, <1>7, HousedKeeps DEF Bearing
<1> QED
  BY <1>9, <1>11, <1>12, <1>13, <1>14, <1>15 DEF IInv

LEMMA SendKeeps == ASSUME IInv, NEW n \in Seeds, Send(n) PROVE IInv'
<1>1. /\ proc.pc \in Awaits /\ ~InMail(n) /\ Enqueue(n, Recipient[n], WorldRound)
      /\ UNCHANGED <<company, run, call, effect, tool, pixel, proc, files, faults, carried>>
  BY DEF Send, Bare
<1>2. Mails
  <2>1. n \in Messages /\ Recipient[n] \in Pixels
    BY StoreConstants, Ids
  <2> QED
    BY <1>1, <2>1, Numbered, OneMail
<1>3. Typed'
  BY <1>1, <1>2 DEF IInv, Typed, CallsTyped, Calls, Mails
<1>4. Counted' /\ Billed'
  BY <1>1, BilledStays, CallsStay DEF IInv, Counted, Created, Open
<1>5. Addressed'
  BY <1>1, <1>2, MailsAddressed
<1>6. Recording'
  BY <1>1, <1>2, RecordingStays DEF IInv, Mails
<1>7. proc.pc \notin Bearing
  BY <1>1 DEF Awaits, Bearing
<1>8. Housed'
  BY <1>1, <1>7, HousedKeeps
<1>9. CASE proc.pc = "idle"
  BY <1>1, <1>3, <1>4, <1>5, <1>6, <1>8, <1>9, Rests DEF IInv
<1>10. CASE proc.pc # "idle"
  <2>1. proc.pc \in Stepping
    BY <1>1, <1>10 DEF Awaits, Stepping, Paying, Applying, AtEffect
  <2>2. /\ r' = r /\ m' = m /\ Bill' = Bill /\ proc' = proc /\ m \in Messages
        /\ InMail(m)' /\ msg'[m] = msg[m]
    BY <1>1, <1>2, <2>1, Here DEF r, m, Bill, Mails
  <2>3. me' = me /\ plan' = plan
    BY <1>1, <2>2, CallsStay DEF me, plan
  <2>4. /\ \A pc : At(pc)' = At(pc)
        /\ \A q : Calls(q)' = Calls(q) /\ Answered(q)' = Answered(q) /\ LatestRow(q)' = LatestRow(q)
        /\ \A q, k : Unresolved(q, k)' = Unresolved(q, k) /\ Open(q, k)' = Open(q, k)
        /\ InState(InFlight)' = InState(InFlight)
        /\ Created' = Created
    BY <1>1, <1>2, CallsStay, MailsFlight DEF At, Unresolved, Open, Created
  <2>5. Placed'
    BY <1>1, <2>2, <2>4 DEF IInv, Placed
  <2>6. Clean'
    BY <1>1, <2>2, <2>4 DEF IInv, Clean
  <2>7. Resuming'
    BY <1>1, <1>7, <2>2, <2>3, <2>4 DEF IInv, Resuming, At, Bearing
  <2> QED
    BY <1>3, <1>4, <1>5, <1>6, <1>8, <2>5, <2>6, <2>7 DEF IInv
<1> QED
  BY <1>9, <1>10

LEMMA RecruitKeeps == ASSUME IInv, NEW p \in Pixels, Recruit(p) PROVE IInv'
<1>1. /\ pixel' = [pixel EXCEPT ![p].career = "active"]
      /\ UNCHANGED <<company, run, mail, msg, call, effect, tool, proc, files, faults, carried>>
  BY DEF Recruit, Bare
<1>2. /\ pixel' \in [Pixels -> PixelRow]
      /\ \A q \in Pixels : pixel'[q].body = pixel[q].body /\ pixel'[q].active = pixel[q].active
  BY <1>1 DEF IInv, Typed, PixelRow
<1>3. Typed'
  BY <1>1, <1>2 DEF IInv, Typed, CallsTyped, Calls
<1>4. Counted' /\ Billed'
  BY <1>1, BilledStays, CallsStay DEF IInv, Counted, Created, Open
<1>5. Recording'
  BY <1>1, RecordingStays DEF IInv, InMail
<1>6. Addressed'
  BY <1>1, <1>2, NoMail, MailsAddressed
<1>7. r' = r /\ m' = m /\ me' = me /\ plan' = plan /\ Bill' = Bill
  BY <1>1, CallsStay DEF r, m, me, plan, Bill
<1>8. /\ \A pc : At(pc)' = At(pc)
      /\ \A n : Calls(n)' = Calls(n) /\ Answered(n)' = Answered(n) /\ LatestRow(n)' = LatestRow(n)
      /\ \A n, k : Unresolved(n, k)' = Unresolved(n, k) /\ Open(n, k)' = Open(n, k)
      /\ \A s : InState(s)' = InState(s)
      /\ \A n : InMail(n)' = InMail(n)
      /\ Created' = Created
  BY <1>1, CallsStay DEF At, Unresolved, Open, InState, InMail, Created
<1>9. Placed'
  BY <1>1, <1>7, <1>8 DEF IInv, Placed
<1>10. Clean'
  BY <1>1, <1>7, <1>8 DEF IInv, Clean
<1>11. Resuming'
  <2>1. proc.pc \in Applying => me \in Pixels
    BY Here DEF Applying, AtEffect, Bearing, Stepping
  <2>2. proc.pc \in Applying => pixel'[me].active = pixel[me].active
    BY <1>2, <2>1
  <2> QED
    BY <1>1, <1>7, <1>8, <2>2 DEF IInv, Resuming
<1>12. Housed'
  BY <1>1, <1>2, <1>7, <1>8 DEF IInv, Housed, Expected, Marked
<1> QED
  BY <1>3, <1>4, <1>5, <1>6, <1>9, <1>10, <1>11, <1>12 DEF IInv

\* What an owner may judge has done nothing yet.
LEMMA Judged ==
  ASSUME IInv, NEW n \in Messages, NEW k \in Calls(n), Unresolved(n, k)
  PROVE  ~Touched(n) /\ InMail(n) /\ ~Resolved(n) /\ call[n][k] \in CallRow /\ msg[n].to \in Pixels
<1>1. ~Resolved(n)
  BY DEF Resolved
<1>2. ~Touched(n)
  BY <1>1 DEF IInv, Recording
<1>3. InMail(n)
  BY DEF IInv, Recording, Calls
<1> QED
  BY <1>1, <1>2, <1>3, CallIn DEF IInv, Typed, MessageRow

LEMMA ReconciledIn == ASSUME NEW o \in Outcomes PROVE Reconciled(o) \in Outcomes
  BY DEF Reconciled, Outcomes

LEMMA NotBilledKeeps ==
  ASSUME IInv, NEW n \in Messages, NEW k \in Calls(n), NotBilled(n, k) PROVE IInv'
<1>1. /\ proc.pc = "idle" /\ Unresolved(n, k) /\ run' = RunRefunded(n, k)
      /\ msg' = WithState({n}, "QUEUED")
      /\ UNCHANGED <<company, mail, effect, tool, pixel, proc, files, faults, carried>>
  BY DEF NotBilled, At, Bare
<1>2. ~Touched(n) /\ InMail(n) /\ ~Resolved(n) /\ call[n][k] \in CallRow
  BY <1>1, Judged
<1>3. PICK row \in CallRow : /\ RowBecomes(n, k, row) /\ row.bill # "OPEN" /\ row.run = call[n][k].run
                             /\ n \in Seeds \/ row.plan = <<>>
  <2>1. PICK c \in CallRow : c = call[n][k]
    BY <1>2
  <2>2. PICK bill \in {"SETTLED", "REFUNDED"} :
          bill = IF c.bill = "OPEN" THEN "REFUNDED" ELSE c.bill
    BY DEF CallRow
  <2>3. PICK o \in Outcomes : o = Reconciled(c.outcome)
    BY ReconciledIn DEF CallRow
  <2> DEFINE new == [c EXCEPT !.bill = bill, !.outcome = o]
  <2>4. RowBecomes(n, k, new)
    <3>1. call \in [Messages -> Seq(CallRow)]
      BY DEF IInv, Typed, CallsTyped
    <3>2. CallRefunded(n, k) = [call EXCEPT ![n][k] = [c EXCEPT !.bill = bill]]
      BY <2>1, <2>2 DEF CallRefunded
    <3>3. call' = [CallRefunded(n, k) EXCEPT ![n][k].outcome = o]
      BY <2>1, <2>3 DEF NotBilled
    <3> DEFINE paid == [c EXCEPT !.bill = bill]
               calls == call[n]
    <3>4. [paid EXCEPT !.outcome = o] = new /\ paid \in CallRow
      BY DEF CallRow
    <3>5. calls \in Seq(CallRow) /\ k \in DOMAIN calls
      BY <3>1 DEF Calls
    <3> HIDE DEF new, paid, calls
    <3>6. [[calls EXCEPT ![k] = paid] EXCEPT ![k] = [paid EXCEPT !.outcome = o]] = [calls EXCEPT ![k] = new]
      BY <3>4, <3>5
    <3>7. CallRefunded(n, k)[n] = [calls EXCEPT ![k] = paid] /\ CallRefunded(n, k)[n][k] = paid
      BY <3>1, <3>2, <3>5 DEF paid, calls
    <3>8. call' = [CallRefunded(n, k) EXCEPT ![n] = [calls EXCEPT ![k] = new]]
      BY <3>3, <3>6, <3>7
    <3>9. call' = [call EXCEPT ![n] = [calls EXCEPT ![k] = new]]
      BY <3>1, <3>2, <3>8
    <3> QED
      BY <3>9 DEF RowBecomes, calls
  <2>5. /\ new \in CallRow /\ new.bill = bill /\ new.run = c.run /\ new.plan = c.plan
    BY DEF CallRow
  <2>6. n \in Seeds \/ c.plan = <<>>
    BY <2>1 DEF IInv, Typed, CallsTyped
  <2> HIDE DEF new
  <2> QED
    BY <2>1, <2>4, <2>5, <2>6
<1>4. /\ CallsTyped' /\ call'[n][k] = row
      /\ \A q \in Messages : Calls(q)' = Calls(q)
      /\ \A q \in Messages : q # n => call'[q] = call[q]
      /\ \A q \in Messages : \A j \in Calls(q) : q # n \/ j # k => call'[q][j] = call[q][j]
  BY <1>3, RowChanges
<1>5. /\ \A q \in Messages : \A j \in Calls(q) :
           q # n \/ j # k => (Open(q, j)' <=> Open(q, j)) /\ call'[q][j].run = call[q][j].run
      /\ ~Open(n, k)'
  BY <1>3, <1>4 DEF Open
<1>6. /\ run' \in [Runs -> RunRow] /\ Billed'
      /\ \A id \in Runs : /\ run'[id].status = run[id].status /\ run'[id].stop = run[id].stop
                          /\ run'[id].messages = run[id].messages
  <2>1. CASE Open(n, k)
    <3>1. /\ run' \in [Runs -> RunRow]
          /\ \A id \in Runs : /\ run'[id].reserved = 0 /\ run'[id].status = run[id].status
                              /\ run'[id].stop = run[id].stop /\ run'[id].messages = run[id].messages
      <4>1. run' \in {RunSettled(n, k, 0), RunRefunded(n, k)} /\ 0 \in Nat
        BY <1>1
      <4> QED
        BY <2>1, <4>1, RunPays
    <3>2. \A q \in Messages : \A j \in Calls(q) : Open(q, j) => q = n /\ j = k
      BY <2>1, OnlyBill
    <3>3. \A q \in Messages : \A j \in Calls(q)' : ~Open(q, j)'
      <4> SUFFICES ASSUME NEW q \in Messages, NEW j \in Calls(q)' PROVE ~Open(q, j)'
        OBVIOUS
      <4>1. CASE q = n /\ j = k
        BY <1>5, <4>1
      <4>2. CASE q # n \/ j # k
        BY <1>4, <1>5, <3>2, <4>2
      <4> QED
        BY <4>1, <4>2
    <3> QED
      BY <3>1, <3>3, BilledNone
  <2>2. CASE ~Open(n, k)
    <3>1. run' = run
      BY <1>1, <2>2 DEF RunRefunded, Open
    <3>2. \A q \in Messages : \A j \in Calls(q) :
            (Open(q, j)' <=> Open(q, j)) /\ call'[q][j].run = call[q][j].run
      BY <1>3, <1>4, <1>5, <2>2
    <3> QED
      BY <1>4, <3>1, <3>2, BilledStays DEF IInv, Typed
  <2> QED
    BY <2>1, <2>2
<1>7. /\ msg' \in [Messages -> MessageRow]
      /\ \A q \in Messages : /\ msg'[q].to = msg[q].to /\ msg'[q].body = msg[q].body
                             /\ msg'[q].state = IF q = n THEN "QUEUED" ELSE msg[q].state
  <2>1. "QUEUED" \in MessageStates
    BY DEF MessageStates, Claimable
  <2> QED
    BY <1>1, <2>1, OneMoves
<1>8. Typed'
  BY <1>1, <1>4, <1>6, <1>7 DEF IInv, Typed
<1>9. Created' = Created
  BY <1>6 DEF Created
<1>10. Counted'
  BY <1>6, <1>9 DEF IInv, Counted
<1>11. Recording' /\ Addressed' /\ Housed'
  <2>1. \A q \in Messages : (Live(q) \/ ~Resolved(q))' => Live(q) \/ ~Resolved(q)
    <3>1. ASSUME NEW q \in Messages, q # n PROVE (Live(q)' => Live(q)) /\ (Resolved(q)' <=> Resolved(q))
      <4>1. Resolved(q)' <=> Resolved(q)
        BY <1>4, <3>1, CallStays
      <4> QED
        BY <1>1, <1>7, <3>1, <4>1 DEF Live, InMail
    <3> QED
      BY <1>2, <3>1
  <2>2. proc.pc \notin Bearing
    BY <1>1 DEF Bearing
  <2> QED
    BY <1>1, <1>2, <1>4, <1>7, <2>1, <2>2, CallsChange
<1>12. Placed' /\ Clean' /\ Resuming'
  BY <1>1, Rests
<1> QED
  BY <1>6, <1>8, <1>10, <1>11, <1>12 DEF IInv

LEMMA SettleBillKeeps ==
  ASSUME IInv, NEW n \in Messages, NEW k \in Calls(n), NEW tokens \in Nat, NEW abandon \in BOOLEAN,
         SettleBill(n, k, tokens, abandon)
  PROVE  IInv'
<1>1. /\ proc.pc = "idle" /\ Open(n, k) /\ Unresolved(n, k) /\ run' = RunSettled(n, k, tokens)
      /\ pixel' = Spent(msg[n].to, tokens)
      /\ UNCHANGED <<company, mail, effect, tool, proc, files, faults, carried>>
  BY DEF SettleBill, At, Bare, Unresolved
<1>2. ~Touched(n) /\ InMail(n) /\ ~Resolved(n) /\ call[n][k] \in CallRow /\ msg[n].to \in Pixels
  BY <1>1, Judged
<1>3. PICK row \in CallRow : /\ RowBecomes(n, k, row) /\ row.bill # "OPEN"
                             /\ n \in Seeds \/ row.plan = <<>>
  <2>1. PICK c \in CallRow : c = call[n][k]
    BY <1>2
  <2>2. PICK o \in Outcomes : o = Reconciled(c.outcome)
    BY ReconciledIn DEF CallRow
  <2>3. PICK used \in Int : used = IF abandon \/ c.outcome = "none" THEN c.tokens ELSE tokens
    BY DEF CallRow
  <2> DEFINE new == [c EXCEPT !.bill = "SETTLED", !.outcome = o, !.tokens = used]
  <2>4. RowBecomes(n, k, new)
    BY <2>1, <2>2, <2>3 DEF SettleBill, RowBecomes
  <2>5. new \in CallRow /\ new.bill = "SETTLED" /\ new.plan = c.plan
    BY DEF CallRow
  <2>6. n \in Seeds \/ c.plan = <<>>
    BY <2>1 DEF IInv, Typed, CallsTyped
  <2> HIDE DEF new
  <2> QED
    BY <2>4, <2>5, <2>6
<1>4. /\ CallsTyped' /\ call'[n][k] = row
      /\ \A q \in Messages : Calls(q)' = Calls(q)
      /\ \A q \in Messages : q # n => call'[q] = call[q]
      /\ \A q \in Messages : \A j \in Calls(q) : q # n \/ j # k => call'[q][j] = call[q][j]
  BY <1>3, RowChanges
<1>5. \A q \in Messages : \A j \in Calls(q)' : ~Open(q, j)'
  <2>1. \A q \in Messages : \A j \in Calls(q) : Open(q, j) => q = n /\ j = k
    BY <1>1, OnlyBill
  <2> SUFFICES ASSUME NEW q \in Messages, NEW j \in Calls(q)' PROVE ~Open(q, j)'
    OBVIOUS
  <2>2. CASE q = n /\ j = k
    BY <1>3, <1>4, <2>2 DEF Open
  <2>3. CASE q # n \/ j # k
    BY <1>4, <2>1, <2>3 DEF Open
  <2> QED
    BY <2>2, <2>3
<1>6. /\ run' \in [Runs -> RunRow]
      /\ \A id \in Runs : /\ run'[id].reserved = 0 /\ run'[id].status = run[id].status
                          /\ run'[id].stop = run[id].stop /\ run'[id].messages = run[id].messages
  <2>1. run' \in {RunSettled(n, k, tokens), RunRefunded(n, k)}
    BY <1>1
  <2> QED
    BY <1>1, <2>1, RunPays
<1>7. Billed'
  BY <1>5, <1>6, BilledNone
<1>8. pixel' \in [Pixels -> PixelRow] /\ \A p \in Pixels : pixel'[p].body = pixel[p].body
  BY <1>1, <1>2, SpentIn
<1>9. PICK s \in MessageStates : msg' = WithState({n}, s)
  BY DEF SettleBill, MessageStates, Claimable
<1>10. /\ msg' \in [Messages -> MessageRow]
       /\ \A q \in Messages : /\ msg'[q].to = msg[q].to /\ msg'[q].body = msg[q].body
                              /\ msg'[q].state = IF q = n THEN s ELSE msg[q].state
  BY <1>9, OneMoves
<1>11. Typed'
  BY <1>1, <1>4, <1>6, <1>8, <1>10 DEF IInv, Typed
<1>12. Created' = Created
  BY <1>6 DEF Created
<1>13. Counted'
  BY <1>6, <1>12 DEF IInv, Counted
<1>14. Recording' /\ Addressed' /\ Housed'
  <2>1. \A q \in Messages : (Live(q) \/ ~Resolved(q))' => Live(q) \/ ~Resolved(q)
    <3>1. ASSUME NEW q \in Messages, q # n PROVE (Live(q)' => Live(q)) /\ (Resolved(q)' <=> Resolved(q))
      <4>1. Resolved(q)' <=> Resolved(q)
        BY <1>4, <3>1, CallStays
      <4> QED
        BY <1>1, <1>10, <3>1, <4>1 DEF Live, InMail
    <3> QED
      BY <1>2, <3>1
  <2>2. proc.pc \notin Bearing
    BY <1>1 DEF Bearing
  <2> QED
    BY <1>1, <1>2, <1>4, <1>8, <1>10, <2>1, <2>2, CallsChange
<1>15. Placed' /\ Clean' /\ Resuming'
  BY <1>1, Rests
<1> QED
  BY <1>7, <1>11, <1>13, <1>14, <1>15 DEF IInv

LEMMA ResolveToolKeeps ==
  ASSUME IInv, NEW n \in Messages, NEW k \in Indices, ResolveTool(n, k) PROVE IInv'
<1>1. /\ proc.pc = "idle" /\ tool[n][k] = "STARTED" /\ tool' = [tool EXCEPT ![n][k] = "SKIPPED"]
      /\ msg' = WithState({n}, "ABANDONED")
      /\ UNCHANGED <<company, run, mail, call, effect, pixel, proc, files, faults, carried>>
  BY DEF ResolveTool, At, Bare
<1>2. /\ tool' \in [Messages -> [Indices -> Executions]] /\ tool'[n][k] = "SKIPPED"
      /\ \A q \in Messages, j \in Indices : q # n \/ j # k => tool'[q][j] = tool[q][j]
  BY <1>1 DEF IInv, Typed, Executions
<1>3. /\ msg' \in [Messages -> MessageRow]
      /\ \A q \in Messages : /\ msg'[q].to = msg[q].to /\ msg'[q].body = msg[q].body
                             /\ msg'[q].state = IF q = n THEN "ABANDONED" ELSE msg[q].state
  <2>1. "ABANDONED" \in MessageStates
    BY DEF MessageStates
  <2> QED
    BY <1>1, <2>1, OneMoves
<1>4. Typed'
  <2>1. CallsTyped'
    BY <1>1 DEF IInv, Typed, CallsTyped, Calls
  <2> QED
    BY <1>1, <1>2, <1>3, <2>1 DEF IInv, Typed
<1>5. Counted' /\ Billed'
  BY <1>1, BilledStays, CallsStay DEF IInv, Counted, Created, Open
<1>6. Recording'
  <2> SUFFICES ASSUME NEW q \in Messages
               PROVE  /\ ~InMail(q)' => call'[q] = <<>>
                      /\ Touched(q)' => Answered(q)' /\ LatestRow(q)'.valid /\ Resolved(q)'
                      /\ \A j \in Indices :
                           /\ tool'[q][j] \in {"SUCCESS", "FAILED"} => effect'[q][j] \in Recorded
                           /\ tool'[q][j] = "SKIPPED" => msg'[q].state = "ABANDONED"
                           /\ effect'[q][j] = "PENDING" =>
                                j <= Len(LatestRow(q)'.plan) /\ LatestRow(q)'.plan[j].kind = "REPRODUCE"
                           /\ carried'[q][j] # 0 =>
                                effect'[q][j] \in Recorded \/ tool'[q][j] \in {"STARTED", "SKIPPED"}
                           /\ carried'[q][j] # 0 => \A l \in 1..(j - 1) : effect'[q][l] \in Recorded
    BY DEF Recording
  <2>1. Touched(q)' => Touched(q)
    BY <1>1, <1>2 DEF Touched
  <2>2. ~InMail(q)' => call'[q] = <<>>
    BY <1>1 DEF IInv, Recording, InMail
  <2>3. Touched(q)' => Answered(q)' /\ LatestRow(q)'.valid /\ Resolved(q)'
    BY <1>1, <2>1, CallsStay DEF IInv, Recording
  <2>4. ASSUME NEW j \in Indices
        PROVE  /\ tool'[q][j] \in {"SUCCESS", "FAILED"} => effect'[q][j] \in Recorded
               /\ tool'[q][j] = "SKIPPED" => msg'[q].state = "ABANDONED"
               /\ effect'[q][j] = "PENDING" =>
                    j <= Len(LatestRow(q)'.plan) /\ LatestRow(q)'.plan[j].kind = "REPRODUCE"
               /\ carried'[q][j] # 0 =>
                    effect'[q][j] \in Recorded \/ tool'[q][j] \in {"STARTED", "SKIPPED"}
               /\ carried'[q][j] # 0 => \A l \in 1..(j - 1) : effect'[q][l] \in Recorded
    <3>1. /\ tool[q][j] \in {"SUCCESS", "FAILED"} => effect[q][j] \in Recorded
          /\ tool[q][j] = "SKIPPED" => msg[q].state = "ABANDONED"
          /\ effect[q][j] = "PENDING" =>
               j <= Len(LatestRow(q).plan) /\ LatestRow(q).plan[j].kind = "REPRODUCE"
          /\ carried[q][j] # 0 => effect[q][j] \in Recorded \/ tool[q][j] \in {"STARTED", "SKIPPED"}
          /\ carried[q][j] # 0 => \A l \in 1..(j - 1) : effect[q][l] \in Recorded
      BY DEF IInv, Recording
    <3>2. LatestRow(q)' = LatestRow(q) /\ effect' = effect /\ carried' = carried
      BY <1>1, CallsStay
    <3>3. msg[q].state = "ABANDONED" => msg'[q].state = "ABANDONED"
      BY <1>3
    <3>4. CASE q = n /\ j = k
      <4>1. tool'[q][j] = "SKIPPED" /\ msg'[q].state = "ABANDONED"
        BY <1>2, <1>3, <3>4
      <4> QED
        BY <3>1, <3>2, <4>1
    <3>5. CASE q # n \/ j # k
      <4>1. tool'[q][j] = tool[q][j]
        BY <1>2, <3>5
      <4> QED
        BY <3>1, <3>2, <3>3, <4>1
    <3> QED
      BY <3>4, <3>5
  <2> QED
    BY <2>2, <2>3, <2>4
<1>7. Addressed'
  <2>1. "ABANDONED" \notin Claimable \cup InFlight \cup Waiting
    BY DEF Claimable, InFlight, Waiting
  <2>2. \A q \in Messages : (Live(q) \/ ~Resolved(q))' => Live(q) \/ ~Resolved(q)
    BY <1>1, <1>3, <2>1, CallsStay DEF Live, InMail
  <2> QED
    BY <1>1, <1>3, <2>2, AddressedStays DEF IInv
<1>8. Placed' /\ Clean' /\ Resuming'
  BY <1>1, Rests
<1>9. Housed'
  BY <1>1, HousedKeeps DEF Bearing
<1> QED
  BY <1>4, <1>5, <1>6, <1>7, <1>8, <1>9 DEF IInv

LEMMA ResolveMessageKeeps ==
  ASSUME IInv, NEW n \in Messages, NEW abandon \in BOOLEAN, ResolveMessage(n, abandon) PROVE IInv'
<1>1. /\ proc.pc = "idle" /\ n \in InState(InFlight) /\ proc' = proc /\ faults' = faults
      /\ UNCHANGED <<company, run, mail, call, effect, tool, pixel, files, carried>>
  BY DEF ResolveMessage, At, Bare
<1>2. PICK s \in MessageStates : msg' = WithState({n}, s)
  BY DEF ResolveMessage, MessageStates, Claimable
<1>3. Live(n) /\ msg[n].state # "ABANDONED"
  BY <1>1 DEF Live, InState, InFlight
<1>4. Typed' /\ Counted' /\ Billed' /\ Recording' /\ Addressed'
  <2> DEFINE ms == {n}
  <2>1. msg' = WithState(ms, s) /\ \A q \in Messages : q \in ms => q = n
    BY <1>2
  <2>2. proc' \in Process /\ faults' \in 0..MaxFaults
    BY <1>1 DEF IInv, Typed
  <2> HIDE DEF ms
  <2> QED
    BY <1>1, <1>3, <2>1, <2>2, MessagesMove
<1>5. Placed' /\ Clean' /\ Resuming'
  BY <1>1, Rests
<1>6. Housed'
  BY <1>1, HousedKeeps DEF Bearing
<1> QED
  BY <1>4, <1>5, <1>6 DEF IInv

-----------------------------------------------------------------------------
(* RoundScheduler.                                                           *)
LEMMA BeginRoundKeeps == ASSUME IInv, BeginRound PROVE IInv'
<1>1. /\ proc.pc = "round" /\ proc \in Process
      /\ UNCHANGED <<company, call, effect, tool, pixel, files, faults, carried>>
  BY DEF BeginRound, At, Bare, IInv, Typed
<1>2. PICK id \in Runs : id = r /\ id \in Created
  BY <1>1 DEF IInv, Placed, At, Created
<1>3. /\ run' \in [Runs -> RunRow]
      /\ \A o \in Runs : /\ run'[o].status = run[o].status /\ run'[o].stop = run[o].stop
                         /\ run'[o].reserved = run[o].reserved /\ run'[o].messages = run[o].messages
  <2>1. run \in [Runs -> RunRow]
    BY DEF IInv, Typed
  <2>2. run' = run \/ run' = [run EXCEPT ![id].started = TRUE]
    BY <1>2 DEF BeginRound
  <2> DEFINE row == [run[id] EXCEPT !.started = TRUE]
  <2>3. /\ row \in RunRow /\ row.status = run[id].status /\ row.stop = run[id].stop
        /\ row.reserved = run[id].reserved /\ row.messages = run[id].messages
    BY <2>1 DEF RunRow
  <2>4. run' = run \/ run' = [run EXCEPT ![id] = row]
    BY <2>2
  <2> HIDE DEF row
  <2> QED
    BY <1>2, <2>1, <2>3, <2>4
<1>4. Created' = Created
  BY <1>3 DEF Created
<1>5. /\ proc' \in Process /\ proc'.pc = "claim" /\ r' = id /\ proc'.count = run'[id].messages
  <2>1. run'[id].messages \in 0..MaxPerRound
    BY <1>3, Facts DEF IInv, Counted, RunRow
  <2>2. proc' = [proc EXCEPT !.pc = "claim", !.count = run'[id].messages, !.stop = "none"]
    BY <1>2 DEF BeginRound
  <2>3. "claim" \in Steps /\ "none" \in StopReasons
    BY DEF Steps, StopReasons
  <2> QED
    BY <1>1, <1>2, <2>1, <2>2, <2>3 DEF Process, r
<1>6. /\ mail' \in Seq(Messages) /\ msg' \in [Messages -> MessageRow]
      /\ \A n \in Messages : InMail(n) =>
           /\ InMail(n)' /\ msg'[n].to = msg[n].to /\ msg'[n].body = msg[n].body
           /\ msg'[n].state = msg[n].state \/ (msg[n].state \in Waiting /\ msg'[n].state = "QUEUED")
      /\ \A n \in Messages : InMail(n)' /\ ~InMail(n) =>
           msg'[n].state = "QUEUED" /\ msg'[n].body = pixel[msg'[n].to].body
  <2>1. CASE run[r].started
    <3>1. mail' = mail /\ msg' = msg
      BY <2>1 DEF BeginRound
    <3> QED
      BY <3>1 DEF IInv, Typed, InMail
  <2>2. CASE ~run[r].started
    <3>1. PICK woken \in SUBSET {p \in Pixels : MayWake(p)} :
            LET ids == {<<p, 0>> : p \in woken} IN
            /\ mail' = mail \o SetToSeq(ids)
            /\ msg' = [n \in Messages |-> IF n \in ids THEN NewMessage(n[1], proc.round)
                                          ELSE WithState(Recovered, "QUEUED")[n]]
      BY <2>2 DEF BeginRound
    <3> DEFINE ids == {<<p, 0>> : p \in woken}
    <3>2. /\ \A n \in ids : n \in Messages /\ n[1] \in Pixels /\ ~InMail(n)
          /\ woken \subseteq Pixels
      <4>1. \A p \in woken : p \in Pixels /\ <<p, 0>> \in Messages /\ ~InMail(<<p, 0>>)
        BY Ids DEF MayWake
      <4> QED
        BY <4>1
    <3>3. IsFiniteSet(ids)
      <4>1. IsFiniteSet(Pixels \X {0})
        BY StoreConstants, FS_Singleton, FS_Product
      <4>2. ids \subseteq Pixels \X {0}
        BY <3>2
      <4> QED
        BY <4>1, <4>2, FS_Subset
    <3>4. PICK list \in Seq(ids) : list = SetToSeq(ids)
      BY <3>3, Listed
    <3>5. /\ mail' = mail \o list
          /\ msg' = [n \in Messages |-> IF n \in ids THEN NewMessage(n[1], proc.round)
                                        ELSE WithState(Recovered, "QUEUED")[n]]
      BY <3>1, <3>4
    <3> HIDE DEF ids
    <3>6. /\ mail \in Seq(Messages) /\ msg \in [Messages -> MessageRow]
          /\ pixel \in [Pixels -> PixelRow] /\ proc.round \in Nat /\ list \in Seq(Messages)
      BY <1>1, <3>2 DEF IInv, Typed, Process
    <3>7. mail' \in Seq(Messages)
      BY <3>5, <3>6
    <3>8. \A n \in Messages : /\ InMail(n) => InMail(n)'
                              /\ InMail(n)' => InMail(n) \/ n \in ids
      <4>1. \A k \in DOMAIN mail : k \in DOMAIN mail' /\ mail'[k] = mail[k]
        BY <3>5, <3>6
      <4>2. \A k \in DOMAIN mail' : (k \in DOMAIN mail /\ mail'[k] = mail[k]) \/ mail'[k] \in ids
        <5>1. \A k \in DOMAIN list : list[k] \in ids
          BY <3>4
        <5>2. \A k \in DOMAIN mail' : \/ k \in DOMAIN mail /\ mail'[k] = mail[k]
                                      \/ \E j \in DOMAIN list : mail'[k] = list[j]
          <6> TAKE k \in DOMAIN mail'
          <6>1. /\ Len(mail) \in Nat /\ Len(list) \in Nat /\ DOMAIN mail = 1..Len(mail)
                /\ DOMAIN list = 1..Len(list) /\ DOMAIN mail' = 1..(Len(mail) + Len(list))
            BY <3>4, <3>5, <3>6
          <6>2. CASE k <= Len(mail)
            BY <3>5, <3>6, <6>1, <6>2
          <6>3. CASE ~(k <= Len(mail))
            <7>1. k - Len(mail) \in DOMAIN list /\ mail'[k] = list[k - Len(mail)]
              BY <3>5, <3>6, <6>1, <6>3
            <7> QED
              BY <7>1
          <6> QED
            BY <6>2, <6>3
        <5> QED
          BY <5>1, <5>2
      <4> QED
        BY <4>1, <4>2 DEF InMail
    <3>9. \A n \in ids : /\ msg'[n] \in MessageRow /\ msg'[n].state = "QUEUED"
                         /\ msg'[n].body = pixel[msg'[n].to].body
      <4> TAKE n \in ids
      <4>1. msg'[n] = NewMessage(n[1], proc.round) /\ n[1] \in Pixels
        BY <3>2, <3>5
      <4> QED
        BY <3>6, <4>1 DEF NewMessage, MessageRow, PixelRow, MessageStates, Claimable
    <3>10. \A n \in Recovered : msg[n].state \in Waiting
      BY DEF Recovered, InState, Waiting
    <3>11. \A n \in Messages \ ids :
             /\ msg'[n] \in MessageRow /\ msg'[n].to = msg[n].to /\ msg'[n].body = msg[n].body
             /\ msg'[n].state = IF n \in Recovered THEN "QUEUED" ELSE msg[n].state
      <4> TAKE n \in Messages \ ids
      <4>1. msg'[n] = IF n \in Recovered THEN [msg[n] EXCEPT !.state = "QUEUED"] ELSE msg[n]
        BY <3>5 DEF WithState
      <4>2. msg[n] \in MessageRow /\ "QUEUED" \in MessageStates
        BY <3>6 DEF MessageStates, Claimable
      <4> QED
        BY <4>1, <4>2 DEF MessageRow
    <3>12. msg' \in [Messages -> MessageRow]
      <4>1. \A n \in Messages : msg'[n] \in MessageRow
        BY <3>9, <3>11
      <4> DEFINE new(n) == IF n \in ids THEN NewMessage(n[1], proc.round)
                           ELSE WithState(Recovered, "QUEUED")[n]
      <4>2. msg' = [n \in Messages |-> new(n)]
        BY <3>5
      <4> HIDE DEF new
      <4> QED
        BY <4>1, <4>2
    <3> QED
      BY <3>2, <3>7, <3>8, <3>9, <3>10, <3>11, <3>12
  <2> QED
    BY <2>1, <2>2
<1>7. Typed'
  BY <1>1, <1>3, <1>5, <1>6 DEF IInv, Typed, CallsTyped, Calls
<1>8. Counted' /\ Billed'
  <2>1. Counted'
    BY <1>3, <1>4 DEF IInv, Counted
  <2> QED
    BY <1>1, <1>3, <2>1, BilledStays, CallsStay DEF IInv, Open
<1>9. Recording'
  <2>1. "ABANDONED" \notin Waiting
    BY DEF Waiting
  <2> QED
    BY <1>1, <1>6, <2>1, RecordingStays DEF IInv
<1>10. Addressed'
  <2>1. \A n \in Messages : ~InMail(n) => Resolved(n)
    BY DEF IInv, Recording, Resolved, Calls
  <2>2. ASSUME NEW n \in Messages, (Live(n) \/ ~Resolved(n))'
        PROVE  \/ msg'[n].body = pixel[msg'[n].to].body
               \/ (Live(n) \/ ~Resolved(n)) /\ msg'[n].to = msg[n].to /\ msg'[n].body = msg[n].body
    <3>1. Resolved(n)' = Resolved(n)
      BY <1>1, CallsStay
    <3>2. CASE InMail(n)
      BY <1>6, <2>2, <3>1, <3>2 DEF Live
    <3>3. CASE ~InMail(n)
      BY <1>6, <2>1, <2>2, <3>1, <3>3 DEF Live
    <3> QED
      BY <3>2, <3>3
  <2> QED
    BY <1>1, <1>6, <2>2, AddressedStays DEF IInv
<1>11. Placed' /\ Clean' /\ Resuming'
  <2>1. InState(InFlight)' = {}
    <3>1. "QUEUED" \notin InFlight
      BY DEF InFlight
    <3>2. InState(InFlight) = {}
      BY <1>1, Steady
    <3> QED
      BY <1>6, <3>1, <3>2 DEF InState
  <2>2. \A n \in Messages : Resolved(n)'
    <3>1. \A n \in Messages : Resolved(n)
      BY <1>1, Quiet DEF Paying
    <3> QED
      BY <1>1, <3>1, CallsStay
  <2>3. \A n \in Messages, k \in Indices : tool'[n][k] # "STARTED"
    BY <1>1, ToolsRest
  <2>4. (run[r].messages <= proc.count)' /\ (r \in Created)'
    <3>1. run'[id].messages \in Nat
      BY <1>3 DEF RunRow
    <3> QED
      BY <1>2, <1>4, <1>5, <3>1
  <2> QED
    BY <1>5, <2>1, <2>2, <2>3, <2>4, Between
<1>12. Housed'
  BY <1>1, <1>5, HousedKeeps DEF Bearing
<1> QED
  BY <1>7, <1>8, <1>9, <1>10, <1>11, <1>12 DEF IInv

LEMMA WokenIn ==
  ASSUME IInv
  PROVE  Woken \in [Pixels -> PixelRow] /\ \A p \in Pixels : Woken[p].body = pixel[p].body
<1>1. pixel \in [Pixels -> PixelRow]
  BY DEF IInv, Typed
<1>2. CASE ~company
  BY <1>1, <1>2 DEF Woken
<1>3. CASE company
  <2> DEFINE awake(p) == pixel[p].active \/ (pixel[p].energy = 0 /\ \E n \in InState(Claimable) : msg[n].to = p)
  <2>1. Woken = [p \in Pixels |-> [pixel[p] EXCEPT !.active = awake(p)]]
    BY <1>3 DEF Woken
  <2>2. \A p \in Pixels : pixel[p] \in PixelRow /\ awake(p) \in BOOLEAN
    BY <1>1 DEF PixelRow
  <2> HIDE DEF awake
  <2> QED
    BY <2>1, <2>2 DEF PixelRow
<1> QED
  BY <1>2, <1>3

LEMMA ClaimKeeps == ASSUME IInv, Claim PROVE IInv'
<1>1. /\ proc.pc = "claim" /\ proc \in Process /\ proc.count < MaxPerRound /\ pixel' = Woken
      /\ UNCHANGED <<company, run, mail, call, effect, tool, files, faults, carried>>
  BY DEF Claim, MayClaim, At, Bare, IInv, Typed
<1>2. r \in Created /\ run[r].messages <= proc.count
  BY <1>1 DEF IInv, Placed, At
<1>3. /\ InState(InFlight) = {} /\ \A n \in Messages : Resolved(n)
      /\ \A n \in Messages, k \in Indices : tool[n][k] # "STARTED"
  BY <1>1, Steady, Quiet, ToolsRest DEF Paying
<1>4. pixel' \in [Pixels -> PixelRow] /\ \A p \in Pixels : pixel'[p].body = pixel[p].body
  BY <1>1, WokenIn
<1>5. PICK abandoned : abandoned = WithState(Outdated(proc.round), "ABANDONED")
  OBVIOUS
<1>6. /\ abandoned \in [Messages -> MessageRow]
      /\ \A n \in Messages :
           /\ abandoned[n].to = msg[n].to /\ abandoned[n].body = msg[n].body
           /\ abandoned[n].state = IF n \in Outdated(proc.round) THEN "ABANDONED" ELSE msg[n].state
  <2>1. msg \in [Messages -> MessageRow] /\ "ABANDONED" \in MessageStates
    BY DEF IInv, Typed, MessageStates
  <2> QED
    BY <1>5, <2>1 DEF WithState, MessageRow
<1>7. \A n \in Messages : InMail(n)' <=> InMail(n)
  BY <1>1 DEF InMail
<1>8. /\ "ABANDONED" \notin InFlight \cup Claimable \cup Waiting
      /\ "PROCESSING" \in InFlight /\ "QUEUED" \in Claimable /\ "ABANDONED" \notin Claimable
      /\ "PROCESSING" \in MessageStates
  BY DEF InFlight, Claimable, Waiting, MessageStates
<1>9. ASSUME NEW ms, proc' \in Process, proc'.pc \notin Bearing, msg' \in [Messages -> MessageRow],
             \A n \in Messages :
               /\ msg'[n].to = msg[n].to /\ msg'[n].body = msg[n].body
               /\ msg'[n].state = IF n \in ms /\ msg[n].state = "QUEUED" THEN "PROCESSING"
                                  ELSE abandoned[n].state
      PROVE  Typed' /\ Counted' /\ Billed' /\ Recording' /\ Addressed' /\ Housed'
  <2>1. Typed'
    BY <1>1, <1>4, <1>9 DEF IInv, Typed, CallsTyped, Calls
  <2>2. Counted' /\ Billed'
    BY <1>1, BilledStays, CallsStay DEF IInv, Counted, Created, Open
  <2>3. \A n \in Messages : msg[n].state = "ABANDONED" => msg'[n].state = "ABANDONED"
    BY <1>6, <1>9
  <2>4. Recording'
    BY <1>1, <1>7, <2>3, RecordingStays DEF IInv
  <2>5. \A n \in Messages : (Live(n) \/ ~Resolved(n))' => Live(n) \/ ~Resolved(n)
    <3> SUFFICES ASSUME NEW n \in Messages PROVE (Live(n)' => Live(n)) /\ (Resolved(n)' <=> Resolved(n))
      OBVIOUS
    <3>1. Resolved(n)' <=> Resolved(n)
      BY <1>1, CallsStay
    <3>2. CASE n \in ms /\ msg[n].state = "QUEUED"
      BY <1>7, <1>8, <3>1, <3>2 DEF Live
    <3>3. CASE ~(n \in ms /\ msg[n].state = "QUEUED")
      <4>1. msg'[n].state = abandoned[n].state
        BY <1>9, <3>3
      <4>2. msg'[n].state = "ABANDONED" \/ msg'[n].state = msg[n].state
        BY <1>6, <4>1
      <4> QED
        BY <1>7, <1>8, <3>1, <4>2 DEF Live
    <3> QED
      BY <3>2, <3>3
  <2>6. Addressed'
    BY <1>4, <1>9, <2>5, AddressedStays DEF IInv
  <2>7. Housed'
    BY <1>1, <1>4, <1>9, HousedKeeps DEF Bearing
  <2> QED
    BY <2>1, <2>2, <2>4, <2>6, <2>7
<1>10. CASE Ready(proc.round) = {}
  <2>1. PICK reason \in {"none", "NO_ACTIVE_MESSAGES"} : RoundOver(reason)
    BY <1>10 DEF Claim
  <2>2. msg' = abandoned
    BY <1>5, <1>10 DEF Claim
  <2>3. InState(InFlight)' = {}
    BY <1>3, <1>6, <1>7, <1>8, <2>2 DEF InState
  <2>4. \A n \in Messages : Resolved(n)'
    BY <1>1, <1>3, CallsStay
  <2>5. Placed' /\ Clean' /\ Resuming' /\ proc' \in Process
    <3>1. reason \in StopReasons
      BY DEF StopReasons
    <3> QED
      BY <1>1, <2>1, <2>3, <2>4, <3>1, Over
  <2>6. proc'.pc \notin Bearing
    BY <1>1, <2>1 DEF RoundOver, Process, Bearing
  <2>7. PICK ms : \A n : n \notin ms
    <3>1. \E ms : ms = {}
      OBVIOUS
    <3> QED
      BY <3>1
  <2>8. \A n \in Messages :
          /\ msg'[n].to = msg[n].to /\ msg'[n].body = msg[n].body
          /\ msg'[n].state = IF n \in ms /\ msg[n].state = "QUEUED" THEN "PROCESSING"
                             ELSE abandoned[n].state
    BY <1>6, <2>2, <2>7
  <2>9. Typed' /\ Counted' /\ Billed' /\ Recording' /\ Addressed' /\ Housed'
    BY <1>6, <1>9, <2>2, <2>5, <2>6, <2>8
  <2> QED
    BY <2>5, <2>9 DEF IInv
<1>11. CASE Ready(proc.round) # {}
  <2>1. PICK n : n = Claimed(proc.round)
    OBVIOUS
  <2>2. /\ n \in Messages /\ InMail(n) /\ msg[n].state \in Claimable
        /\ n \notin Outdated(proc.round)
    <3>1. n \in Ready(proc.round)
      BY <1>11, <2>1, ClaimedIn DEF IInv, Typed
    <3> QED
      BY <3>1 DEF Ready, InState
  <2>3. /\ msg' = [abandoned EXCEPT ![n].state = IF @ = "QUEUED" THEN "PROCESSING" ELSE @]
        /\ proc' = [proc EXCEPT !.pc = "step", !.msg = n, !.at = 1,
                                !.toolFailed = FALSE, !.tools = FALSE]
    BY <1>5, <1>11, <2>1 DEF Claim
  <2>4. PICK ms : \A q : q \in ms <=> q = n
    <3>1. \A q : q \in {n} <=> q = n
      OBVIOUS
    <3> QED
      BY <3>1
  <2>5. /\ msg' \in [Messages -> MessageRow]
        /\ \A q \in Messages :
             /\ msg'[q].to = msg[q].to /\ msg'[q].body = msg[q].body
             /\ msg'[q].state = IF q \in ms /\ msg[q].state = "QUEUED" THEN "PROCESSING"
                                ELSE abandoned[q].state
    <3>1. PICK s \in MessageStates : s = IF abandoned[n].state = "QUEUED" THEN "PROCESSING" ELSE abandoned[n].state
      BY <1>6, <1>8, <2>2 DEF MessageRow
    <3> DEFINE row == [abandoned[n] EXCEPT !.state = s]
    <3>2. row \in MessageRow /\ row.state = s /\ row.to = msg[n].to /\ row.body = msg[n].body
      BY <1>6, <2>2 DEF MessageRow
    <3>3. msg' = [abandoned EXCEPT ![n] = row]
      BY <2>3, <3>1
    <3>4. abandoned[n].state = msg[n].state
      BY <1>6, <2>2
    <3> HIDE DEF row
    <3>5. msg'[n] = row /\ \A q \in Messages : q # n => msg'[q] = abandoned[q]
      BY <1>6, <2>2, <3>3
    <3>6. msg' \in [Messages -> MessageRow]
      BY <1>6, <2>2, <3>2, <3>3
    <3> QED
      BY <1>6, <2>4, <3>1, <3>2, <3>4, <3>5, <3>6
  <2>6. /\ proc' \in Process /\ proc'.pc = "step" /\ m' = n /\ r' = r /\ proc'.count = proc.count
        /\ proc'.at = 1 /\ proc'.tools = FALSE
    <3>1. "step" \in Steps /\ 1 \in Nat \ {0}
      BY DEF Steps
    <3> HIDE DEF Steps
    <3> QED
      BY <1>1, <2>2, <2>3, <3>1 DEF Process, m, r
  <2>7. /\ proc'.pc \in Stepping /\ proc'.pc \notin Paying \cup Applying \cup AtEffect \cup Bearing
        /\ proc'.pc \notin {"parse", "birth", "tooling", "noBirth", "idle"}
    BY <2>6 DEF Stepping, Paying, Applying, AtEffect, Bearing
  <2>8. Typed' /\ Counted' /\ Billed' /\ Recording' /\ Addressed' /\ Housed'
    BY <1>9, <2>5, <2>6, <2>7
  <2>9. Placed'
    <3>1. InMail(n)' /\ msg'[n].state \in StateAt("step")
      <4>1. msg[n].state = "QUEUED" \/ msg[n].state = "RESPONSE_STORED"
        BY <2>2 DEF Claimable
      <4>2. msg'[n].state = "PROCESSING" \/ msg'[n].state = "RESPONSE_STORED"
        BY <1>6, <2>2, <2>4, <2>5, <4>1
      <4> QED
        BY <1>7, <2>2, <4>2 DEF StateAt, Bearing
    <3>2. Created' = Created
      BY <1>1 DEF Created
    <3> QED
      BY <1>1, <1>2, <2>2, <2>6, <3>1, <3>2 DEF Placed, At
  <2>10. Clean'
    <3>1. \A q \in InState(InFlight)' : q = n
      <4>1. ASSUME NEW q \in Messages, q # n, InMail(q)', msg'[q].state \in InFlight PROVE FALSE
        <5>1. msg'[q].state = abandoned[q].state
          BY <2>4, <2>5, <4>1
        <5>2. msg[q].state \in InFlight /\ InMail(q)
          BY <1>6, <1>7, <1>8, <4>1, <5>1
        <5> QED
          BY <1>3, <5>2 DEF InState
      <4> QED
        BY <4>1 DEF InState
    <3>2. \A q \in Messages : Resolved(q)'
      BY <1>1, <1>3, CallsStay
    <3> QED
      BY <1>1, <1>3, <2>6, <2>7, <3>1, <3>2 DEF Clean, At, Resolved
  <2>11. Resuming'
    BY <2>6, <2>7 DEF Resuming, At
  <2> QED
    BY <2>8, <2>9, <2>10, <2>11 DEF IInv
<1> QED
  BY <1>10, <1>11

-----------------------------------------------------------------------------
(* resumeInterrupted(): at most one bill is released.                        *)
LEMMA ReleasedOne ==
  ASSUME IInv, NEW n, NEW k, <<n, k>> \in Released
  PROVE  /\ n \in Messages /\ k \in Calls(n) /\ Open(n, k) /\ call[n][k].run = Latest
         /\ n \in Undone /\ Released = {<<n, k>>} /\ OpenBills = {<<n, k>>}
<1>1. <<n, k>> \in OpenBills /\ n \in Undone /\ call[n][k].run = Latest
  BY DEF Released
<1>2. n \in Messages /\ k \in Calls(n) /\ Open(n, k)
  BY <1>1 DEF OpenBills, Open
<1>3. ASSUME NEW b \in OpenBills PROVE b = <<n, k>>
  <2>1. PICK q \in Messages, j \in 1..MaxCalls : b = <<q, j>> /\ j \in Calls(q) /\ Open(q, j)
    BY DEF OpenBills, Open
  <2> QED
    BY <1>2, <2>1 DEF IInv, Billed
<1>4. \A b \in Released : b \in OpenBills
  BY DEF Released
<1> QED
  BY <1>1, <1>2, <1>3, <1>4

\* What remains of the calls, and of what their runs have reserved.
LEMMA Releases ==
  ASSUME IInv, call' = CallsUndone, NEW id \in Runs, id = Latest,
         NEW reserved, reserved = Max({0, run[id].reserved - Estimate * Cardinality(Released)})
  PROVE  /\ CallsTyped' /\ reserved \in Nat
         /\ \A n \in Messages : Calls(n)' = Calls(n)
         /\ \A n \in Messages : \A k \in Calls(n) :
              <<n, k>> \notin Released => call'[n][k] = call[n][k]
         /\ \A n \in Messages : \A k \in Calls(n) : <<n, k>> \in Released => ~Open(n, k)'
         /\ \A n \in Messages : \A k \in Calls(n) : call'[n][k].outcome = call[n][k].outcome
         /\ \A n \in Messages : n \notin Undone \/ Resolved(n) => call'[n] = call[n]
         /\ \/ /\ Released = {} /\ call' = call /\ reserved = run[id].reserved
            \/ /\ reserved = 0 /\ \A o \in Runs : o # id => run[o].reserved = 0
               /\ \A n \in Messages : \A k \in Calls(n) : ~Open(n, k)'
<1>1. /\ call \in [Messages -> Seq(CallRow)] /\ run \in [Runs -> RunRow]
      /\ \A n \in Messages : call[n] \in Seq(CallRow) /\ Calls(n) = 1..Len(call[n])
  BY CallIn DEF IInv, Typed, CallsTyped
<1>2. CASE Released = {}
  <2>1. \A n \in Messages : [k \in Calls(n) |-> call[n][k]] = call[n]
    BY <1>1 DEF Calls
  <2>2. call' = call
    <3>1. call' = [n \in Messages |-> [k \in Calls(n) |-> call[n][k]]]
      BY <1>2 DEF CallsUndone
    <3>2. call' = [n \in Messages |-> call[n]]
      BY <2>1, <3>1
    <3> QED
      BY <1>1, <3>2
  <2>3. reserved = run[id].reserved /\ reserved \in Nat
    <3>1. Cardinality(Released) = 0
      BY <1>2, FS_EmptySet
    <3>2. run[id].reserved \in Nat
      BY <1>1 DEF RunRow
    <3>3. run[id].reserved - Estimate * Cardinality(Released) = run[id].reserved
      BY <3>1, <3>2, Facts
    <3>4. reserved = Max({0, run[id].reserved})
      BY <3>3
    <3> QED
      BY <3>2, <3>4, PairMax
  <2>4. /\ CallsTyped' /\ \A n \in Messages : Calls(n)' = Calls(n)
    BY <2>2 DEF IInv, Typed, CallsTyped, Calls
  <2> QED
    BY <1>2, <2>2, <2>3, <2>4
<1>3. CASE Released # {}
  <2>1. PICK n \in Messages, k \in 1..MaxCalls : <<n, k>> \in Released
    <3>1. PICK b \in Released : TRUE
      BY <1>3
    <3>2. b \in Messages \X (1..MaxCalls)
      BY DEF Released, OpenBills
    <3> QED
      BY <3>1, <3>2
  <2>2. /\ k \in Calls(n) /\ Open(n, k) /\ call[n][k].run = id
        /\ n \in Undone /\ Released = {<<n, k>>}
    BY <2>1, ReleasedOne
  <2>3. call[n][k] \in CallRow
    BY <2>2, CallIn DEF IInv, Typed
  <2>4. PICK row \in CallRow : /\ row = [call[n][k] EXCEPT !.bill = "REFUNDED"]
                               /\ row.bill = "REFUNDED" /\ row.outcome = call[n][k].outcome
                               /\ n \in Seeds \/ row.plan = <<>>
    <3> DEFINE new == [call[n][k] EXCEPT !.bill = "REFUNDED"]
    <3>1. new \in CallRow /\ new.bill = "REFUNDED" /\ new.outcome = call[n][k].outcome
      BY <2>3 DEF CallRow
    <3>2. n \in Seeds \/ new.plan = <<>>
      BY <2>2, <2>3 DEF CallRow, IInv, Typed, CallsTyped
    <3> QED
      BY <3>1, <3>2
  <2>5. RowBecomes(n, k, row)
    <3>1. ASSUME NEW q \in Messages
          PROVE  [j \in Calls(q) |-> IF <<q, j>> \in Released THEN [call[q][j] EXCEPT !.bill = "REFUNDED"]
                                     ELSE call[q][j]]
                   = IF q = n THEN [call[n] EXCEPT ![k] = row] ELSE call[q]
      <4>1. call[q] = [j \in Calls(q) |-> call[q][j]]
        BY <1>1 DEF Calls
      <4>2. CASE q # n
        BY <2>2, <4>1, <4>2
      <4>3. CASE q = n
        <5>1. [call[n] EXCEPT ![k] = row] = [j \in Calls(n) |-> IF j = k THEN row ELSE call[n][j]]
          BY <1>1, <2>2 DEF Calls
        <5> QED
          BY <2>2, <2>4, <4>3, <5>1
      <4> QED
        BY <4>2, <4>3
    <3>2. call' = [q \in Messages |-> IF q = n THEN [call[n] EXCEPT ![k] = row] ELSE call[q]]
      BY <3>1 DEF CallsUndone
    <3> QED
      BY <1>1, <3>2 DEF RowBecomes
  <2>6. /\ CallsTyped' /\ call'[n][k] = row
        /\ \A q \in Messages : Calls(q)' = Calls(q)
        /\ \A q \in Messages : q # n => call'[q] = call[q]
        /\ \A q \in Messages : \A j \in Calls(q) : q # n \/ j # k => call'[q][j] = call[q][j]
    <3>1. k \in Calls(n) /\ row \in CallRow /\ (n \in Seeds \/ row.plan = <<>>)
      BY <2>2, <2>4
    <3> QED
      BY <2>5, <3>1, RowChanges
  <2>7. \A q \in Messages : \A j \in Calls(q) : ~Open(q, j)'
    <3>1. \A q \in Messages : \A j \in Calls(q) : Open(q, j) => q = n /\ j = k
      BY <2>2, OnlyBill
    <3> SUFFICES ASSUME NEW q \in Messages, NEW j \in Calls(q) PROVE ~Open(q, j)'
      OBVIOUS
    <3>2. CASE q = n /\ j = k
      BY <2>4, <2>6, <3>2 DEF Open
    <3>3. CASE q # n \/ j # k
      BY <2>6, <3>1, <3>3 DEF Open
    <3> QED
      BY <3>2, <3>3
  <2>8. /\ reserved = 0 /\ reserved \in Nat
        /\ \A o \in Runs : o # id => run[o].reserved = 0
    <3>1. \A o \in Runs : run[o].reserved = IF o = id THEN Estimate ELSE 0
      BY <2>2, OnlyBill
    <3>2. Cardinality(Released) = 1
      BY <2>2, FS_Singleton
    <3>3. run[id].reserved - Estimate * Cardinality(Released) = 0
      BY <3>1, <3>2, Facts
    <3>4. reserved = Max({0, 0})
      BY <3>3
    <3>5. Max({0, 0}) = 0
      BY PairMax
    <3> QED
      BY <3>1, <3>4, <3>5
  <2>9. \A q \in Messages : \A j \in Calls(q) : call'[q][j].outcome = call[q][j].outcome
    BY <2>4, <2>6
  <2>10. ~Resolved(n)
    BY <2>2 DEF Resolved, Unresolved
  <2> QED
    BY <2>2, <2>6, <2>7, <2>8, <2>9, <2>10
<1> QED
  BY <1>2, <1>3

LEMMA ResumeKeeps == ASSUME IInv, Resume PROVE IInv'
<1>1. /\ proc.pc = "idle" /\ Latest > 0 /\ call' = CallsUndone /\ msg' = MessagesUndone
      /\ UNCHANGED <<company, mail, effect, tool, pixel, files, faults, carried>>
  BY DEF Resume, At, Bare
<1>2. PICK id \in Runs : id = Latest /\ id \in Created
  BY <1>1, Numbered DEF Runs
<1>3. PICK reserved : reserved = Max({0, run[id].reserved - Estimate * Cardinality(Released)})
  OBVIOUS
<1>4. /\ CallsTyped' /\ reserved \in Nat
      /\ \A n \in Messages : Calls(n)' = Calls(n)
      /\ \A n \in Messages : \A k \in Calls(n) :
           <<n, k>> \notin Released => call'[n][k] = call[n][k]
      /\ \A n \in Messages : \A k \in Calls(n) : <<n, k>> \in Released => ~Open(n, k)'
      /\ \A n \in Messages : \A k \in Calls(n) : call'[n][k].outcome = call[n][k].outcome
      /\ \A n \in Messages : n \notin Undone \/ Resolved(n) => call'[n] = call[n]
      /\ \/ /\ Released = {} /\ call' = call /\ reserved = run[id].reserved
         \/ /\ reserved = 0 /\ \A o \in Runs : o # id => run[o].reserved = 0
            /\ \A n \in Messages : \A k \in Calls(n) : ~Open(n, k)'
  BY <1>1, <1>2, <1>3, Releases
<1>5. run[id] \in RunRow /\ run[id].status # "none" /\ run[id].messages <= MaxPerRound
  BY <1>2 DEF IInv, Typed, Created, Counted
<1>6. PICK row \in RunRow : /\ row = [run[id] EXCEPT !.reserved = reserved]
                            /\ row.reserved = reserved /\ row.status # "none"
                            /\ row.messages = run[id].messages
  <2> DEFINE row == [run[id] EXCEPT !.reserved = reserved]
  <2>1. /\ row \in RunRow /\ row.reserved = reserved /\ row.status = run[id].status
        /\ row.messages = run[id].messages
    BY <1>4, <1>5 DEF RunRow
  <2> QED
    BY <1>5, <2>1
<1> DEFINE taken == /\ NothingUncertain
                    /\ run' = [run EXCEPT ![id] = [row EXCEPT !.status = "RUNNING", !.stop = "none"]]
                    /\ proc' = LoopFrom(id, row.next)
           undone == run' = [run EXCEPT ![id] = row] /\ proc' = proc
<1>7. taken \/ undone
  BY <1>2, <1>3, <1>6 DEF Resume
<1>8. PICK new \in RunRow : /\ run' = [run EXCEPT ![id] = new]
                            /\ new.reserved = reserved /\ new.status # "none"
                            /\ new.messages = run[id].messages
  <2>1. CASE taken
    <3> DEFINE new == [row EXCEPT !.status = "RUNNING", !.stop = "none"]
    <3>1. "RUNNING" \in RunStates \ {"none"} /\ "none" \in StopReasons
      BY DEF RunStates, StopReasons
    <3>2. new \in RunRow /\ new.reserved = row.reserved /\ new.status = "RUNNING"
          /\ new.messages = row.messages
      BY <3>1 DEF RunRow
    <3>3. run' = [run EXCEPT ![id] = new]
      BY <2>1
    <3> HIDE DEF new
    <3> QED
      BY <1>6, <3>2, <3>3
  <2>2. CASE undone
    BY <1>6, <2>2
  <2> QED
    BY <1>7, <2>1, <2>2
<1>9. /\ run' \in [Runs -> RunRow] /\ run'[id] = new
      /\ \A o \in Runs : o # id => run'[o] = run[o]
  BY <1>8 DEF IInv, Typed
<1>10. Created' = Created
  BY <1>2, <1>8, <1>9 DEF Created
<1>11. Counted'
  BY <1>2, <1>5, <1>8, <1>9, <1>10 DEF IInv, Counted
<1>12. Billed'
  <2>1. CASE Released = {} /\ call' = call /\ reserved = run[id].reserved
    <3>1. \A o \in Runs : run'[o].reserved = run[o].reserved
      BY <1>8, <1>9, <2>1
    <3> QED
      BY <2>1, <3>1, BilledStays, CallsStay DEF IInv, Open
  <2>2. CASE /\ reserved = 0 /\ \A o \in Runs : o # id => run[o].reserved = 0
             /\ \A n \in Messages : \A k \in Calls(n) : ~Open(n, k)'
    <3>1. \A o \in Runs : run'[o].reserved = 0
      BY <1>8, <1>9, <2>2
    <3>2. \A n \in Messages : \A k \in Calls(n)' : ~Open(n, k)'
      BY <1>4, <2>2
    <3> QED
      BY <3>1, <3>2, BilledNone
  <2> QED
    BY <1>4, <2>1, <2>2
<1>13. /\ msg' \in [Messages -> MessageRow]
       /\ \A n \in Messages :
            /\ msg'[n].to = msg[n].to /\ msg'[n].body = msg[n].body
            /\ n \in Undone => msg'[n].state \in Claimable
            /\ n \notin Undone => msg'[n].state = msg[n].state
  <2>1. msg \in [Messages -> MessageRow] /\ {"RESPONSE_STORED", "QUEUED"} \subseteq Claimable
        /\ Claimable \subseteq MessageStates
    BY DEF IInv, Typed, Claimable, MessageStates
  <2>2. ASSUME NEW n \in Messages
        PROVE  /\ msg'[n] \in MessageRow /\ msg'[n].to = msg[n].to /\ msg'[n].body = msg[n].body
               /\ n \in Undone => msg'[n].state \in Claimable
               /\ n \notin Undone => msg'[n].state = msg[n].state
    <3>1. PICK s \in Claimable : s = IF Answered(n) THEN "RESPONSE_STORED" ELSE "QUEUED"
      BY <2>1
    <3>2. msg'[n] = IF n \in Undone THEN [msg[n] EXCEPT !.state = s] ELSE msg[n]
      BY <1>1, <3>1 DEF MessagesUndone
    <3> QED
      BY <2>1, <3>2 DEF MessageRow
  <2>3. msg' \in [Messages -> MessageRow]
    <3> DEFINE next(n) == IF n \in Undone
                          THEN [msg[n] EXCEPT !.state = IF Answered(n) THEN "RESPONSE_STORED" ELSE "QUEUED"]
                          ELSE msg[n]
    <3>1. msg' = [n \in Messages |-> next(n)]
      BY <1>1 DEF MessagesUndone
    <3> HIDE DEF next
    <3> QED
      BY <2>2, <3>1
  <2> QED
    BY <2>2, <2>3
<1>14. \A n \in Undone : n \in Messages /\ Live(n) /\ InMail(n) /\ msg[n].state # "ABANDONED"
  BY DEF Undone, InState, Live, InFlight
<1>15. /\ proc' \in Process
       /\ \/ proc'.pc = "idle"
          \/ proc'.pc = "loop" /\ r' = id /\ NothingUncertain
  <2>1. CASE taken
    <3>1. row.next \in Nat /\ id \in 0..MaxRuns
      BY Facts DEF RunRow, Runs
    <3>2. Idle \in Process
      BY Facts DEF Idle, Process, Awaits, StopReasons
    <3>3. "loop" \in Steps
      BY DEF Steps
    <3>4. proc' = [Idle EXCEPT !.pc = "loop", !.run = id, !.round = row.next]
      BY <2>1 DEF LoopFrom
    <3> QED
      BY <2>1, <3>1, <3>2, <3>3, <3>4 DEF Process, r
  <2>2. CASE undone
    BY <1>1, <2>2 DEF IInv, Typed
  <2> QED
    BY <1>7, <2>1, <2>2
<1>16. Typed'
  BY <1>1, <1>4, <1>9, <1>13, <1>15 DEF IInv, Typed
<1>17. Recording' /\ Addressed' /\ Housed'
  <2>1. proc.pc \notin Bearing /\ proc'.pc \notin Bearing
    BY <1>1, <1>15 DEF Bearing
  <2>2. \A n \in Messages : Touched(n) => Resolved(n)
    BY DEF IInv, Recording
  <2>3. \A n \in Messages : (Live(n) \/ ~Resolved(n))' => Live(n) \/ ~Resolved(n)
    <3> SUFFICES ASSUME NEW n \in Messages, ~Live(n), Resolved(n) PROVE ~Live(n)' /\ Resolved(n)'
      OBVIOUS
    <3>1. n \notin Undone
      BY <1>14
    <3>2. Resolved(n)'
      BY <1>4, CallStays
    <3>3. ~Live(n)'
      BY <1>1, <1>13, <3>1 DEF Live, InMail
    <3> QED
      BY <3>2, <3>3
  <2>4. /\ \A n \in Messages : Touched(n) => call'[n] = call[n]
        /\ \A n \in Messages : ~InMail(n) => call'[n] = call[n]
        /\ \A n \in Messages : Touched(n) /\ msg[n].state = "ABANDONED" => msg'[n].state = "ABANDONED"
    BY <1>4, <1>13, <1>14, <2>2
  <2> QED
    BY <1>1, <1>13, <2>1, <2>3, <2>4, CallsChange
<1>18. Placed' /\ Clean' /\ Resuming'
  <2>1. CASE proc'.pc = "idle"
    BY <2>1, Rests
  <2>2. CASE proc'.pc = "loop" /\ r' = id /\ NothingUncertain
    <3>1. /\ OpenBills = Released /\ Unknown = {} /\ StartedTools = {} /\ InState(InFlight) = Undone
      BY <2>2 DEF NothingUncertain
    <3>2. \A n \in Messages : Resolved(n)'
      <4> SUFFICES ASSUME NEW n \in Messages, NEW k \in Calls(n)' PROVE ~Unresolved(n, k)'
        BY DEF Resolved
      <4>1. k \in Calls(n) /\ call'[n][k].outcome = call[n][k].outcome
        BY <1>4
      <4>2. call[n][k].outcome # "CALL_OUTCOME_UNKNOWN"
        BY <3>1, <4>1, Sets DEF IInv, Typed
      <4>3. ~Open(n, k)'
        <5>1. CASE <<n, k>> \in Released
          BY <1>4, <4>1, <5>1
        <5>2. CASE <<n, k>> \notin Released
          <6>1. ~Open(n, k)
            BY <3>1, <4>1, <5>2, Sets DEF IInv, Typed
          <6> QED
            BY <1>4, <4>1, <5>2, <6>1 DEF Open
        <5> QED
          BY <5>1, <5>2
      <4> QED
        BY <4>1, <4>2, <4>3 DEF Unresolved
    <3>3. InState(InFlight)' = {}
      <4>1. Claimable \cap InFlight = {}
        BY DEF Claimable, InFlight
      <4> QED
        BY <1>1, <1>13, <3>1, <4>1 DEF InState, InMail
    <3>4. \A n \in Messages, k \in Indices : tool'[n][k] # "STARTED"
      BY <1>1, <3>1, Sets DEF IInv, Typed
    <3>5. (r \in Created)'
      BY <1>2, <1>10, <2>2
    <3> QED
      BY <2>2, <3>2, <3>3, <3>4, <3>5, Between
  <2> QED
    BY <1>15, <2>1, <2>2
<1> QED
  BY <1>11, <1>12, <1>16, <1>17, <1>18 DEF IInv

-----------------------------------------------------------------------------
(* The invariant.                                                            *)
LEMMA Starts == ASSUME Init PROVE IInv
<1>1. /\ company \in BOOLEAN /\ run = [id \in Runs |-> NoRun] /\ proc = Idle /\ faults = 0
      /\ mail = SetToSeq(Unread)
      /\ call = [n \in Messages |-> <<>>]
      /\ effect = [n \in Messages |-> [k \in Indices |-> "none"]]
      /\ tool = [n \in Messages |-> [k \in Indices |-> "none"]]
      /\ carried = [n \in Messages |-> [k \in Indices |-> 0]]
      /\ files = [p \in Pixels |-> pixel[p].body]
  BY DEF Init, StoreInit
<1>2. /\ pixel \in [Pixels -> PixelRow]
      /\ \A p \in Pixels : HasBody(p) => pixel[p].body = 1
  <2>1. \A p \in Pixels : Energy[p] \in Nat
    BY StoreConstants
  <2>2. pixel = [p \in Pixels |-> [energy |-> Energy[p], active |-> Energy[p] > 0,
                                   body |-> IF HasBody(p) THEN 1 ELSE 0,
                                   career |-> IF HasBody(p) THEN "active" ELSE "none"]]
    BY DEF Init, StoreInit
  <2> DEFINE row(p) == [energy |-> Energy[p], active |-> Energy[p] > 0,
                        body |-> IF HasBody(p) THEN 1 ELSE 0,
                        career |-> IF HasBody(p) THEN "active" ELSE "none"]
  <2>3. ASSUME NEW p \in Pixels PROVE row(p) \in PixelRow /\ (HasBody(p) => row(p).body = 1)
    BY <2>1 DEF PixelRow
  <2>4. pixel = [p \in Pixels |-> row(p)]
    BY <2>2
  <2> HIDE DEF row
  <2> QED
    BY <2>3, <2>4
<1>3. /\ mail \in Seq(Messages) /\ \A n \in Messages : InMail(n) => n \in Unread
  <2>1. Unread \subseteq Messages /\ IsFiniteSet(Unread)
    BY StoreConstants, Ids, FS_Subset
  <2>2. mail \in Seq(Unread)
    BY <1>1, <2>1, Listed
  <2> QED
    BY <2>1, <2>2 DEF InMail
<1>4. /\ msg \in [Messages -> MessageRow]
      /\ \A n \in Messages : n \in Unread => msg[n].body = 1 /\ msg[n].to = Recipient[n]
  <2>1. PICK home \in Pixels : home = CHOOSE p \in Pixels : TRUE
    BY StoreConstants
  <2>2. \A n \in Unread : Recipient[n] \in Pixels
    BY StoreConstants
  <2> DEFINE row(n) == [state |-> IF n \in Unread THEN "WAITING_PIXEL_BUDGET" ELSE "QUEUED",
                        to |-> IF n \in Unread THEN Recipient[n] ELSE home,
                        round |-> 0, body |-> IF n \in Unread THEN 1 ELSE 0]
  <2>3. msg = [n \in Messages |-> row(n)]
    BY <2>1 DEF Init, StoreInit
  <2>4. {"WAITING_PIXEL_BUDGET", "QUEUED"} \subseteq MessageStates
    BY DEF MessageStates, Waiting, Claimable
  <2>5. ASSUME NEW n \in Messages
        PROVE  row(n) \in MessageRow /\ (n \in Unread => row(n).body = 1 /\ row(n).to = Recipient[n])
    BY <2>2, <2>4 DEF MessageRow
  <2> HIDE DEF row
  <2> QED
    BY <2>3, <2>5
<1>5. \A p \in Pixels, n \in Unread : Recipient[n] = p => HasBody(p)
  BY DEF HasBody
<1>6. /\ call \in [Messages -> Seq(CallRow)] /\ \A n \in Messages : Calls(n) = {} /\ Len(call[n]) = 0
  BY <1>1 DEF Calls
<1>7. CallsTyped
  BY <1>6, Facts DEF CallsTyped
<1>8. proc \in Process /\ proc.pc = "idle"
  BY <1>1, Facts DEF Idle, Process, Awaits, StopReasons
<1>9. run \in [Runs -> RunRow]
  <2>1. NoRun \in RunRow
    BY DEF NoRun, RunRow, RunStates, StopReasons
  <2> QED
    BY <1>1, <2>1
<1>10. Typed
  <2>1. /\ effect \in [Messages -> [Indices -> Receipts]] /\ tool \in [Messages -> [Indices -> Executions]]
        /\ carried \in [Messages -> [Indices -> 0..1]]
    BY <1>1 DEF Receipts, Executions
  <2>2. files \in [Pixels -> Nat]
    BY <1>1, <1>2 DEF PixelRow
  <2> QED
    BY <1>1, <1>2, <1>3, <1>4, <1>7, <1>8, <1>9, <2>1, <2>2, Facts DEF Typed
<1>11. Placed /\ Clean /\ Resuming
  BY <1>8 DEF Placed, Clean, Resuming, At, Stepping, Paying, Applying, AtEffect, Bearing
<1>12. Counted
  <2>1. \A id \in Runs : run[id].status = "none" /\ run[id].stop = "none" /\ run[id].messages = 0
    BY <1>1 DEF NoRun
  <2>2. Created = 1..0 /\ 0 \in 0..MaxRuns
    BY <2>1, Facts DEF Created
  <2> QED
    BY <2>1, <2>2, Facts DEF Counted
<1>13. Billed
  BY <1>1, <1>6 DEF Billed, NoRun
<1>14. Recording
  <2>1. \A n \in Messages : ~Touched(n)
    BY <1>1 DEF Touched
  <2> QED
    BY <1>1, <2>1 DEF Recording
<1>15. Addressed
  BY <1>2, <1>3, <1>4, <1>5, <1>6 DEF Addressed, Live, Resolved, MessageRow
<1>16. Housed
  BY <1>1, <1>8 DEF Housed, Expected, At
<1> QED
  BY <1>10, <1>11, <1>12, <1>13, <1>14, <1>15, <1>16 DEF IInv

LEMMA StaysPut == ASSUME IInv, UNCHANGED vars PROVE IInv'
<1>1. /\ UNCHANGED <<store, proc, files, faults, carried>>
      /\ UNCHANGED <<company, run, mail, msg, call, effect, tool, pixel>>
  BY DEF vars, store
<1>2. Typed' /\ Counted' /\ Billed' /\ Recording' /\ Addressed'
  BY <1>1, StoreStays DEF IInv, Typed
<1>3. r' = r /\ m' = m /\ me' = me /\ plan' = plan /\ Bill' = Bill
  BY <1>1, CallsStay DEF r, m, me, plan, Bill
<1>4. /\ \A pc : At(pc)' = At(pc)
      /\ \A n : Calls(n)' = Calls(n) /\ Answered(n)' = Answered(n) /\ LatestRow(n)' = LatestRow(n)
      /\ \A n, k : Unresolved(n, k)' = Unresolved(n, k) /\ Open(n, k)' = Open(n, k)
      /\ \A s : InState(s)' = InState(s)
      /\ \A n : InMail(n)' = InMail(n)
      /\ Created' = Created
  BY <1>1, CallsStay DEF At, Unresolved, Open, InState, InMail, Created
<1>5. Placed'
  BY <1>1, <1>3, <1>4 DEF IInv, Placed
<1>6. Clean'
  BY <1>1, <1>3, <1>4 DEF IInv, Clean
<1>7. Resuming'
  BY <1>1, <1>3, <1>4 DEF IInv, Resuming
<1>8. Housed'
  BY <1>1, <1>3, <1>4 DEF IInv, Housed, Expected, Marked
<1> QED
  BY <1>2, <1>5, <1>6, <1>7, <1>8 DEF IInv

LEMMA PlanIn ==
  ASSUME NEW n, NEW decision \in PlansOf(n)
  PROVE  decision \in Plans /\ (n \in Seeds \/ decision = <<>>)
<1>1. CASE n \in Seeds
  BY <1>1, StoreConstants DEF PlansOf, Plans
<1>2. CASE n \notin Seeds
  <2>1. <<>> \in Plans
    BY Facts DEF Plans
  <2> QED
    BY <1>2, <2>1 DEF PlansOf
<1> QED
  BY <1>1, <1>2

LEMMA KernelKeeps == ASSUME IInv, Kernel PROVE IInv'
<1>1. CASE Loop \/ EndRound \/ Finish \/ BeginRound \/ Claim \/ StopClaiming
  BY <1>1, LoopKeeps, EndRoundKeeps, FinishKeeps, BeginRoundKeeps, ClaimKeeps, StopClaimingKeeps
<1>2. CASE \/ StepInactive \/ GiveUp \/ Reuse \/ Reserve \/ Wait \/ MarkReserved \/ MarkCalling
  BY <1>2, StepInactiveKeeps, GiveUpKeeps, ReuseKeeps, ReserveKeeps, WaitKeeps, MarkReservedKeeps,
     MarkCallingKeeps
<1>3. CASE Requeue \/ RecordUnknown \/ Parse \/ Reject \/ NoteRejected
  BY <1>3, RequeueKeeps, RecordUnknownKeeps, ParseKeeps, RejectKeeps, NoteRejectedKeeps
<1>4. CASE Skip \/ SuspendBatch \/ Read \/ SkipTool \/ StartTool \/ Transfer \/ Route
  BY <1>4, SkipKeeps, SuspendBatchKeeps, ReadKeeps, SkipToolKeeps, StartToolKeeps, TransferKeeps, RouteKeeps
<1>5. CASE DoubtBirth \/ RefuseBirth \/ RecordNoBirth \/ AnnounceBirth \/ MoveFiles \/ Birth
  BY <1>5, DoubtBirthKeeps, RefuseBirthKeeps, RecordNoBirthKeeps, AnnounceBirthKeeps, MoveFilesKeeps,
     BirthKeeps
<1>6. CASE EndBatch \/ Commit
  BY <1>6, EndBatchKeeps, CommitKeeps
<1> QED
  BY <1>1, <1>2, <1>3, <1>4, <1>5, <1>6 DEF Kernel

LEMMA AnswersKeep == ASSUME IInv, Answers PROVE IInv'
<1>1. ASSUME NEW tokens \in Costs \cup {-1}, NEW decision \in PlansOf(m), Reply(tokens, decision, TRUE)
      PROVE  IInv'
  BY <1>1, PlanIn, ReplyKeeps
<1>2. ASSUME NEW tokens \in Costs, Reply(tokens, <<>>, FALSE) PROVE IInv'
  <2>1. <<>> \in Plans
    BY Facts DEF Plans
  <2> QED
    BY <1>2, <2>1, ReplyKeeps
<1>3. CASE Refuse \/ LoseTrack
  BY <1>3, RefuseKeeps, LoseTrackKeeps
<1>4. ASSUME NEW ok \in BOOLEAN, ToolDone(ok) PROVE IInv'
  BY <1>4, ToolDoneKeeps
<1> QED
  BY <1>1, <1>2, <1>3, <1>4 DEF Answers

LEMMA OwnerKeeps == ASSUME IInv, Owner PROVE IInv'
<1>1. ASSUME NEW rounds \in 1..MaxRounds, Start(rounds) PROVE IInv'
  BY <1>1, StartKeeps
<1>2. CASE RequestStop \/ RequestSuspend
  BY <1>2, RequestStopKeeps, RequestSuspendKeeps
<1>3. ASSUME NEW n \in Seeds, Send(n) PROVE IInv'
  BY <1>3, SendKeeps
<1>4. ASSUME NEW p \in Pixels, Recruit(p) PROVE IInv'
  BY <1>4, RecruitKeeps
<1>5. ASSUME NEW n \in Messages, NEW k \in Calls(n),
             \/ NotBilled(n, k)
             \/ \E tokens \in Costs : SettleBill(n, k, tokens, FALSE)
             \/ SettleBill(n, k, Estimate, TRUE)
      PROVE  IInv'
  <2>1. Costs \subseteq Nat
    BY StoreConstants
  <2> QED
    BY <1>5, <2>1, Facts, NotBilledKeeps, SettleBillKeeps
<1>6. ASSUME NEW n \in Messages, NEW k \in Indices, ResolveTool(n, k) PROVE IInv'
  BY <1>6, ResolveToolKeeps
<1>7. ASSUME NEW id \in Runs, AcknowledgeRun(id) PROVE IInv'
  BY <1>7, AcknowledgeRunKeeps
<1>8. ASSUME NEW n \in Messages, NEW abandon \in BOOLEAN, ResolveMessage(n, abandon) PROVE IInv'
  BY <1>8, ResolveMessageKeeps
<1> QED
  BY <1>1, <1>2, <1>3, <1>4, <1>5, <1>6, <1>7, <1>8 DEF Owner

LEMMA StepKeeps == ASSUME IInv, [Next]_vars PROVE IInv'
<1>1. CASE Kernel
  BY <1>1, KernelKeeps
<1>2. CASE Answers
  BY <1>2, AnswersKeep
<1>3. CASE Resume
  BY <1>3, ResumeKeeps
<1>4. CASE Owner
  BY <1>4, OwnerKeeps
<1>5. CASE Failures
  BY <1>5, LoopFailsKeeps, BirthFailsKeeps, CrashKeeps DEF Failures
<1>6. CASE UNCHANGED vars
  BY <1>6, StaysPut
<1> QED
  BY <1>1, <1>2, <1>3, <1>4, <1>5, <1>6 DEF Next

-----------------------------------------------------------------------------
(* What the invariant says of each property.                                *)
LEMMA OneIsOpen ==
  ASSUME IInv
  PROVE  OpenBills = {} \/ \E b \in OpenBills : OpenBills = {b}
<1>1. \A b \in OpenBills : b \in Messages \X (1..MaxCalls) /\ b[2] \in Calls(b[1]) /\ Open(b[1], b[2])
  BY DEF OpenBills, Open
<1>2. \A b, c \in OpenBills : b[1] = c[1] /\ b[2] = c[2]
  BY <1>1 DEF IInv, Billed
<1>3. \A b, c \in OpenBills : b = c
  BY <1>1, <1>2
<1> QED
  BY <1>3

LEMMA OneOpens == ASSUME IInv PROVE OneOpenBill
<1>1. CASE OpenBills = {}
  BY <1>1, FS_EmptySet DEF OneOpenBill
<1>2. ASSUME NEW b \in OpenBills, OpenBills = {b} PROVE OneOpenBill
  <2>1. Cardinality(OpenBills) = 1
    BY <1>2, FS_Singleton
  <2> QED
    BY <2>1 DEF OneOpenBill
<1> QED
  BY <1>1, <1>2, OneIsOpen

LEMMA ReservedMatches == ASSUME IInv PROVE ReservedMatchesBills
<1> SUFFICES ASSUME NEW id \in Runs
             PROVE  run[id].reserved =
                      Estimate * Cardinality({b \in OpenBills : call[b[1]][b[2]].run = id})
  BY DEF ReservedMatchesBills
<1> DEFINE mine == {b \in OpenBills : call[b[1]][b[2]].run = id}
<1>1. \A b \in OpenBills : b[1] \in Messages /\ b[2] \in Calls(b[1]) /\ Open(b[1], b[2])
  BY DEF OpenBills, Open
<1>2. \A n \in Messages : \A k \in Calls(n) : Open(n, k) => <<n, k>> \in OpenBills
  BY Sets DEF IInv, Typed
<1>3. run[id].reserved = IF \E n \in Messages : \E k \in Calls(n) : Open(n, k) /\ call[n][k].run = id
                         THEN Estimate ELSE 0
  BY DEF IInv, Billed
<1>4. CASE mine = {}
  <2>1. ASSUME NEW n \in Messages, NEW k \in Calls(n), Open(n, k) PROVE call[n][k].run # id
    <3>1. PICK b \in OpenBills : b = <<n, k>>
      BY <1>2, <2>1
    <3>2. b[1] = n /\ b[2] = k /\ b \notin mine
      BY <1>4, <3>1
    <3> QED
      BY <3>2
  <2>2. run[id].reserved = 0
    BY <1>3, <2>1
  <2>3. Cardinality(mine) = 0
    BY <1>4, FS_EmptySet
  <2> QED
    BY <2>2, <2>3, Facts
<1>5. CASE mine # {}
  <2>1. PICK b \in OpenBills : mine = {b} /\ call[b[1]][b[2]].run = id
    BY <1>5, OneIsOpen
  <2>2. run[id].reserved = Estimate
    BY <1>1, <1>3, <2>1
  <2>3. Cardinality(mine) = 1
    BY <2>1, FS_Singleton
  <2> QED
    BY <2>2, <2>3, Facts
<1> QED
  BY <1>4, <1>5

LEMMA FilesFollow == ASSUME IInv PROVE FilesFollowBody
<1> SUFFICES ASSUME NEW p \in Pixels, files[p] # pixel[p].body
             PROVE  \E n \in Messages, k \in Indices :
                      effect[n][k] = "PENDING" /\ LatestRow(n).plan[k].to = p
  BY DEF FilesFollowBody
<1>1. CASE At("birth") /\ p = plan[proc.at].to
  <2>1. proc.pc \in Applying /\ proc.pc \in Stepping /\ proc.pc \in Bearing /\ proc.pc \in AtEffect
    BY <1>1 DEF At, Stepping, Applying, AtEffect, Bearing
  <2>2. effect[m][proc.at] = "PENDING" /\ proc.at <= Len(plan)
    BY <2>1 DEF IInv, Resuming
  <2>3. m \in Messages /\ proc.at \in Indices
    BY <2>1, <2>2, Here, Batch
  <2> QED
    BY <1>1, <2>2, <2>3 DEF plan
<1>2. CASE ~(At("birth") /\ p = plan[proc.at].to)
  <2>1. Expected(p) = files[p]
    BY <1>2 DEF Expected
  <2> QED
    BY <2>1 DEF IInv, Housed, Marked
<1> QED
  BY <1>1, <1>2

LEMMA MailIsLive == ASSUME IInv PROVE NoMailForTheDead
<1>1. \A n \in InState(Claimable \cup InFlight \cup Waiting) : n \in Messages /\ Live(n)
  BY DEF InState, Live
<1> QED
  BY <1>1 DEF IInv, Addressed, NoMailForTheDead

LEMMA CarriedOnce == ASSUME IInv PROVE EffectsOnceInOrder
<1> SUFFICES ASSUME NEW n \in Messages, NEW k \in Indices, carried[n][k] > 0
             PROVE  carried[n][k] = 1 /\ \A j \in 1..(k - 1) : effect[n][j] \in Recorded
  BY DEF EffectsOnceInOrder
<1>1. carried[n][k] \in 0..1
  BY DEF IInv, Typed
<1>2. carried[n][k] # 0
  BY <1>1
<1> QED
  BY <1>1, <1>2 DEF IInv, Recording

LEMMA ToolsAreNew == ASSUME IInv PROVE NoStartedToolMet
<1> SUFFICES ASSUME At("apply"), NEW k \in proc.at..Len(plan), plan[k].kind = "TOOL",
                    effect[m][k] = "none"
             PROVE  tool[m][k] = "none"
  BY DEF NoStartedToolMet, i
<1>1. proc.pc \in Applying /\ proc.pc \in Stepping /\ proc.pc \notin {"idle", "tooling"}
  BY DEF At, Stepping, Applying
<1>2. m \in Messages /\ msg[m].state # "ABANDONED"
  BY <1>1, Here
<1>3. k \in Indices
  BY <1>1, Batch, Facts DEF Indices
<1>4. tool[m][k] \in Executions
  BY <1>2, <1>3 DEF IInv, Typed
<1>5. tool[m][k] # "STARTED"
  BY <1>1, <1>2, <1>3, ToolsRest
<1>6. effect[m][k] \notin Recorded
  BY DEF Recorded
<1>7. tool[m][k] \notin {"SUCCESS", "FAILED", "SKIPPED"}
  BY <1>2, <1>3, <1>6 DEF IInv, Recording
<1> QED
  BY <1>4, <1>5, <1>7 DEF Executions

-----------------------------------------------------------------------------
(* What a step may never do.                                                *)
CountsStay == \A id \in Runs : run'[id].next = run[id].next
NoWork == InState(InFlight) = {} /\ OpenBills = {} /\ StartedTools = {}

LEMMA RowsStay == ASSUME run' = run PROVE CountsStay
  BY DEF CountsStay

LEMMA RowStays ==
  ASSUME IInv, NEW id, NEW row, run' = [run EXCEPT ![id] = row], row.next = run[id].next
  PROVE  CountsStay
  BY DEF CountsStay, IInv, Typed

\* A round that is counted was not interrupted.
LEMMA EndRoundCounts == ASSUME IInv, EndRound PROVE CountsStay \/ NoWork
<1>1. proc.pc = "over"
  BY DEF EndRound, At
<1>2. CASE Interrupted(proc.stop)
  BY <1>2, RowsStay DEF EndRound
<1>3. CASE ~Interrupted(proc.stop)
  <2>1. proc.stop \notin Interrupting /\ proc.stop \notin RecoveryStops
    BY <1>3 DEF Interrupted, Interrupting
  <2>2. InState(InFlight) = {}
    BY <1>1, <2>1 DEF IInv, Clean, At, Stepping, Paying, Applying, AtEffect, Bearing
  <2>3. \A n \in Messages : \A k \in Calls(n) : ~Open(n, k)
    BY <1>1, <2>1 DEF IInv, Clean, At, Paying, Unresolved
  <2>4. OpenBills = {}
    BY <2>3, Sets DEF IInv, Typed
  <2>5. StartedTools = {}
    BY <1>1, ToolsRest, Sets DEF IInv, Typed
  <2> QED
    BY <2>2, <2>4, <2>5 DEF NoWork
<1> QED
  BY <1>2, <1>3

LEMMA StartCounts == ASSUME NEW rounds, Start(rounds) PROVE NoWork
  BY DEF Start, Unfinalized, NoWork

LEMMA ResumeCounts == ASSUME IInv, Resume PROVE CountsStay
<1> DEFINE row == [run[Latest] EXCEPT !.reserved = Max({0, @ - Estimate * Cardinality(Released)})]
<1>1. \/ run' = [run EXCEPT ![Latest] = [row EXCEPT !.status = "RUNNING", !.stop = "none"]]
      \/ run' = [run EXCEPT ![Latest] = row]
  BY DEF Resume
<1>2. run \in [Runs -> RunRow]
  BY DEF IInv, Typed
<1>3. CASE Latest \in Runs
  <2>1. row.next = run[Latest].next /\ [row EXCEPT !.status = "RUNNING", !.stop = "none"].next = run[Latest].next
    BY <1>2, <1>3 DEF RunRow
  <2> HIDE DEF row
  <2> QED
    BY <1>1, <2>1, RowStays
<1>4. CASE Latest \notin Runs
  <2> HIDE DEF row
  <2> QED
    BY <1>1, <1>2, <1>4 DEF CountsStay
<1> QED
  BY <1>3, <1>4

LEMMA StatusCounts ==
  ASSUME IInv, NEW id \in Runs, NEW status \in RunStates, NEW reason \in StopReasons, NEW resume,
         \/ run' = [run EXCEPT ![id] = WithStatus(run[id], status, reason)]
         \/ run' = [run EXCEPT ![id] = [WithStatus(run[id], status, reason) EXCEPT !.resume = resume]]
  PROVE  CountsStay
<1>1. PICK row \in RunRow : row = WithStatus(run[id], status, reason) /\ row.next = run[id].next
  BY StatusIn DEF IInv, Typed
<1>2. [row EXCEPT !.resume = resume].next = row.next
  BY DEF RunRow
<1> QED
  BY <1>1, <1>2, RowStays

LEMMA RunHere == ASSUME IInv, ~At("idle") PROVE r \in Runs /\ run[r] \in RunRow
  BY DEF IInv, Placed, Created, Typed

LEMMA KernelCounts == ASSUME IInv, Kernel PROVE CountsStay \/ NoWork
<1>1. CASE Loop \/ Claim \/ StopClaiming \/ GiveUp \/ Reuse \/ Wait \/ MarkReserved \/ MarkCalling
  BY <1>1, RowsStay DEF Loop, store, Claim, StopClaiming, GiveUp, Reuse, Wait, MarkReserved, MarkCalling
<1>2. CASE Requeue \/ RecordUnknown \/ Parse \/ Reject \/ NoteRejected \/ Skip \/ SuspendBatch
  BY <1>2, RowsStay DEF Requeue, RecordUnknown, Parse, store, Reject, NoteRejected, Skip, SuspendBatch
<1>3. CASE Read \/ SkipTool \/ StartTool \/ Transfer \/ DoubtBirth \/ RefuseBirth \/ RecordNoBirth
  BY <1>3, RowsStay DEF Read, SkipTool, StartTool, Transfer, DoubtBirth, store, RefuseBirth, RecordNoBirth
<1>4. CASE AnnounceBirth \/ MoveFiles \/ Birth \/ Route \/ EndBatch
  BY <1>4, RowsStay DEF AnnounceBirth, MoveFiles, store, Birth, Route, EndBatch
<1>5. CASE EndRound
  BY <1>5, EndRoundCounts
<1>6. CASE Finish
  <2>1. ~At("idle") /\ proc.stop \in StopReasons
    BY <1>6 DEF Finish, At, IInv, Typed, Process
  <2>2. PICK reason \in StopReasons : \E resume :
          run' = [run EXCEPT ![r] = [WithStatus(run[r], FinalStatus(reason), reason) EXCEPT !.resume = resume]]
    <3>1. (IF proc.stop # "none" THEN proc.stop ELSE "ROUND_LIMIT_REACHED") \in StopReasons
      BY <2>1 DEF StopReasons
    <3> QED
      BY <1>6, <3>1 DEF Finish
  <2>3. FinalStatus(reason) \in RunStates
    BY DEF FinalStatus, RunStates
  <2> QED
    BY <2>1, <2>2, <2>3, RunHere, StatusCounts
<1>7. CASE BeginRound
  <2>1. run' = run \/ run' = [run EXCEPT ![r].started = TRUE]
    BY <1>7 DEF BeginRound
  <2>2. r \in Runs /\ run \in [Runs -> RunRow]
    BY <1>7, RunHere DEF BeginRound, At, IInv, Typed
  <2> QED
    BY <2>1, <2>2 DEF CountsStay, RunRow
<1>8. CASE StepInactive \/ Commit
  <2>1. ~At("idle") /\ (run' = run \/ run' = [run EXCEPT ![r].messages = @ + 1])
    BY <1>8 DEF StepInactive, Commit, Done, At, Committed, CountCommit
  <2>2. r \in Runs /\ run \in [Runs -> RunRow]
    BY <2>1, RunHere DEF IInv, Typed
  <2> QED
    BY <2>1, <2>2 DEF CountsStay, RunRow
<1>9. CASE Reserve
  <2>1. ~At("idle") /\ run' = [run EXCEPT ![r].reserved = @ + Estimate]
    BY <1>9 DEF Reserve, Reserving, At
  <2>2. r \in Runs /\ run \in [Runs -> RunRow]
    BY <2>1, RunHere DEF IInv, Typed
  <2> QED
    BY <2>1, <2>2 DEF CountsStay, RunRow
<1> QED
  BY <1>1, <1>2, <1>3, <1>4, <1>5, <1>6, <1>7, <1>8, <1>9 DEF Kernel

LEMMA BillCounts ==
  ASSUME IInv, NEW n \in Messages, NEW k \in Calls(n), Open(n, k), NEW tokens \in Nat,
         run' \in {RunSettled(n, k, tokens), RunRefunded(n, k)}
  PROVE  CountsStay
  BY RunPays DEF CountsStay

LEMMA AnswersCount == ASSUME IInv, Answers PROVE CountsStay
<1>1. ASSUME NEW tokens \in Costs \cup {-1}, NEW decision, NEW valid, Reply(tokens, decision, valid)
      PROVE  CountsStay
  <2>1. proc.pc \in Paying
    BY <1>1 DEF Reply, At, Paying
  <2>2. CASE tokens = -1
    BY <1>1, <2>2, RowsStay DEF Reply
  <2>3. CASE tokens # -1
    <3>1. tokens \in Nat /\ run' = RunSettled(m, Bill, tokens)
      BY <1>1, <2>3, StoreConstants DEF Reply
    <3> QED
      BY <2>1, <3>1, Paid, BillCounts
  <2> QED
    BY <2>2, <2>3
<1>2. CASE Refuse
  <2>1. proc.pc \in Paying /\ run' = RunRefunded(m, Bill)
    BY <1>2 DEF Refuse, At, Paying
  <2> QED
    BY <2>1, Paid, BillCounts
<1>3. CASE LoseTrack \/ \E ok \in BOOLEAN : ToolDone(ok)
  BY <1>3, RowsStay DEF LoseTrack, ToolDone
<1> QED
  BY <1>1, <1>2, <1>3 DEF Answers

LEMMA OwnerCounts == ASSUME IInv, Owner PROVE CountsStay \/ NoWork
<1>1. ASSUME NEW rounds \in 1..MaxRounds, Start(rounds) PROVE NoWork
  BY <1>1, StartCounts
<1>2. CASE RequestStop
  <2>1. ~At("idle") /\ run' = [run EXCEPT ![r].resume = FALSE, ![r].stop = "USER_STOPPED"]
    BY <1>2 DEF RequestStop, At
  <2>2. r \in Runs /\ run \in [Runs -> RunRow]
    BY <2>1, RunHere DEF IInv, Typed
  <2> QED
    BY <2>1, <2>2 DEF CountsStay, RunRow
<1>3. CASE \/ RequestSuspend \/ (\E n \in Seeds : Send(n)) \/ (\E p \in Pixels : Recruit(p))
           \/ (\E n \in Messages, k \in Indices : ResolveTool(n, k))
           \/ \E n \in Messages, abandon \in BOOLEAN : ResolveMessage(n, abandon)
  BY <1>3, RowsStay DEF RequestSuspend, store, Send, Recruit, ResolveTool, ResolveMessage
<1>4. ASSUME NEW n \in Messages, NEW k \in Calls(n), NotBilled(n, k) PROVE CountsStay
  <2>1. run' = RunRefunded(n, k)
    BY <1>4 DEF NotBilled
  <2>2. CASE Open(n, k)
    BY <2>1, <2>2, BillCounts, Facts
  <2>3. CASE ~Open(n, k)
    BY <2>1, <2>3, RowsStay DEF RunRefunded, Open
  <2> QED
    BY <2>2, <2>3
<1>5. ASSUME NEW n \in Messages, NEW k \in Calls(n), NEW tokens \in Nat, NEW abandon,
             SettleBill(n, k, tokens, abandon)
      PROVE  CountsStay
  <2>1. run' = RunSettled(n, k, tokens) /\ Open(n, k)
    BY <1>5 DEF SettleBill
  <2> QED
    BY <2>1, BillCounts
<1>6. ASSUME NEW id \in Runs, AcknowledgeRun(id) PROVE CountsStay
  <2>1. run' = [run EXCEPT ![id] = [WithStatus(run[id], "STOPPED", "USER_STOPPED") EXCEPT !.resume = FALSE]]
    BY <1>6 DEF AcknowledgeRun
  <2>2. "STOPPED" \in RunStates /\ "USER_STOPPED" \in StopReasons
    BY DEF RunStates, StopReasons
  <2> QED
    BY <2>1, <2>2, StatusCounts
<1>7. Estimate \in Nat /\ Costs \subseteq Nat
  BY StoreConstants
<1> QED
  BY <1>1, <1>2, <1>3, <1>4, <1>5, <1>6, <1>7 DEF Owner

LEMMA FailuresCount == ASSUME IInv, Failures PROVE CountsStay
<1>1. CASE LoopFails
  <2>1. ~At("idle") /\ run' = [run EXCEPT ![r] = WithStatus(run[r], "FAILED", "INFRASTRUCTURE_FAILURE")]
    BY <1>1 DEF LoopFails, At
  <2>2. "FAILED" \in RunStates /\ "INFRASTRUCTURE_FAILURE" \in StopReasons
    BY DEF RunStates, StopReasons
  <2> QED
    BY <2>1, <2>2, RunHere, StatusCounts
<1>2. CASE BirthFails \/ Crash
  BY <1>2, RowsStay DEF BirthFails, Crash, store
<1> QED
  BY <1>1, <1>2 DEF Failures

LEMMA StepCounts == ASSUME IInv, Next PROVE CountsStay \/ NoWork
  BY KernelCounts, AnswersCount, ResumeCounts, OwnerCounts, FailuresCount DEF Next

LEMMA StartTakes ==
  ASSUME IInv, NEW rounds, Start(rounds), NEW id \in Runs, run[id].stop = "USER_STOPPED"
  PROVE  proc'.run # id
<1>1. proc'.run = Latest + 1 /\ Latest < MaxRuns
  BY DEF Start, LoopFrom, Idle
<1>2. Created = 1..Latest /\ Latest \in Nat
  BY Numbered, Facts
<1>3. id \in Created
  BY DEF IInv, Counted
<1> QED
  BY <1>1, <1>2, <1>3

LEMMA ResumeTakes ==
  ASSUME IInv, Resume, NEW id \in Runs, run[id].stop = "USER_STOPPED", proc.run # id
  PROVE  proc'.run # id
<1>1. proc'.run = Latest \/ proc' = proc
  BY DEF Resume, LoopFrom, Idle
<1>2. run[Latest].stop # "USER_STOPPED"
  BY DEF Resume, MayResume
<1> QED
  BY <1>1, <1>2

LEMMA KernelStays == ASSUME IInv, Kernel PROVE proc'.run \in {proc.run, 0}
<1>1. proc \in Process
  BY DEF IInv, Typed
<1>2. CASE Loop \/ EndRound \/ BeginRound \/ StopClaiming \/ StepInactive \/ Commit
  BY <1>1, <1>2 DEF Loop, EndRound, BeginRound, StopClaiming, StepInactive, Commit, Done, RoundOver, Process
<1>3. CASE Claim \/ GiveUp \/ Reuse \/ Reserve \/ Wait \/ MarkReserved \/ MarkCalling
  BY <1>1, <1>3 DEF Claim, GiveUp, Reuse, Reserve, Wait, MarkReserved, MarkCalling, RoundOver, Goto, Process
<1>4. CASE Requeue \/ RecordUnknown \/ Parse \/ Reject \/ NoteRejected \/ Skip \/ SuspendBatch
  BY <1>1, <1>4 DEF Requeue, RecordUnknown, Parse, Reject, NoteRejected, Skip, SuspendBatch, RoundOver,
     Goto, Next1, Process
<1>5. CASE Read \/ SkipTool \/ StartTool \/ Transfer \/ DoubtBirth \/ RefuseBirth \/ RecordNoBirth
  BY <1>1, <1>5 DEF Read, SkipTool, StartTool, Transfer, DoubtBirth, RefuseBirth, RecordNoBirth, RoundOver,
     Goto, Next1, Last1, Process
<1>6. CASE AnnounceBirth \/ MoveFiles \/ Birth \/ Route \/ EndBatch
  BY <1>1, <1>6 DEF AnnounceBirth, MoveFiles, Birth, Route, EndBatch, Goto, Next1, Last1, Process
<1>7. CASE Finish
  BY <1>7 DEF Finish, Idle
<1> QED
  BY <1>2, <1>3, <1>4, <1>5, <1>6, <1>7 DEF Kernel

LEMMA StepTakes ==
  ASSUME IInv, Next, NEW id \in Runs, run[id].stop = "USER_STOPPED", proc.run # id
  PROVE  proc'.run # id
<1>1. proc \in Process /\ 0 # id
  BY DEF IInv, Typed, Runs
<1>2. CASE Kernel
  BY <1>1, <1>2, KernelStays
<1>3. CASE Answers
  BY <1>1, <1>3 DEF Answers, Reply, Refuse, LoseTrack, ToolDone, RoundOver, Goto, Next1, Process
<1>4. CASE Resume
  BY <1>4, ResumeTakes
<1>5. CASE Owner
  <2>1. ASSUME NEW rounds \in 1..MaxRounds, Start(rounds) PROVE proc'.run # id
    BY <2>1, StartTakes
  <2>2. CASE RequestStop \/ RequestSuspend
    BY <1>1, <2>2 DEF RequestStop, RequestSuspend, Process
  <2>3. CASE (\E n \in Seeds : Send(n)) \/ \E p \in Pixels : Recruit(p)
    BY <2>3 DEF Send, Recruit
  <2>4. ASSUME NEW n, NEW k, NotBilled(n, k) PROVE proc'.run # id
    BY <2>4 DEF NotBilled
  <2>5. ASSUME NEW n, NEW k, NEW tokens, NEW abandon, SettleBill(n, k, tokens, abandon)
        PROVE  proc'.run # id
    BY <2>5 DEF SettleBill
  <2>6. CASE \/ \E n \in Messages, k \in Indices : ResolveTool(n, k)
             \/ \E other \in Runs : AcknowledgeRun(other)
             \/ \E n \in Messages, abandon \in BOOLEAN : ResolveMessage(n, abandon)
    BY <2>6 DEF ResolveTool, AcknowledgeRun, ResolveMessage
  <2> QED
    BY <1>5, <2>1, <2>2, <2>3, <2>4, <2>5, <2>6 DEF Owner
<1>6. CASE LoopFails \/ Crash
  BY <1>1, <1>6 DEF LoopFails, Crash, Idle
<1>7. CASE BirthFails
  BY <1>1, <1>7 DEF BirthFails, RoundOver, Process
<1> QED
  BY <1>2, <1>3, <1>4, <1>5, <1>6, <1>7 DEF Next, Failures

-----------------------------------------------------------------------------
(* The invariant holds in every state the kernel reaches, whatever dies and   *)
(* whatever an owner decides between two transactions.                        *)
THEOREM Invariant == Spec => []IInv
<1> QED
  BY Starts, StepKeeps, PTL DEF Spec

(* Store, process and files are typed; a round never counts more messages     *)
(* than RoundScheduler's limit.                                               *)
THEOREM Typing == Spec => []KernelTypeOK
<1>1. IInv => KernelTypeOK
  BY TypesHold DEF IInv
<1> QED
  BY <1>1, Invariant, PTL

(* reserved_tokens of a run is what its open reservations hold, although the   *)
(* reply, the provider's refusal, resumeInterrupted() and the owner each       *)
(* release both in a transaction of their own.                                *)
THEOREM ReservationsMatch == Spec => []ReservedMatchesBills
  BY ReservedMatches, Invariant, PTL

(* The directory of a coordinate holds the files of its body unless a receipt  *)
(* that is still PENDING says that a birth there was cut short.                *)
THEOREM FilesAndBodies == Spec => []FilesFollowBody
  BY FilesFollow, Invariant, PTL

(* No message that can still be claimed, answered or paid for was written for  *)
(* an earlier body of its coordinate (applyReproduce() abandons those).        *)
THEOREM MailAddressed == Spec => []NoMailForTheDead
  BY MailIsLive, Invariant, PTL

(* applyEffects() carries an effect out at most once and in the order of the   *)
(* reply, over every death and every resumption.                              *)
THEOREM OnceInOrder == Spec => []EffectsOnceInOrder
  BY CarriedOnce, Invariant, PTL

(* applyEffects() never meets a tool whose execution was started before: the   *)
(* branch that refuses one is dead.                                           *)
THEOREM ToolsMetOnce == Spec => []NoStartedToolMet
  BY ToolsAreNew, Invariant, PTL

(* A world never has two reservations open.                                   *)
THEOREM OneBill == Spec => []OneOpenBill
  BY OneOpens, Invariant, PTL

(* completeRound() counts a round only when no message of it is in flight, no  *)
(* bill is open and no tool is started.                                       *)
THEOREM RoundsCounted == Spec => RoundsLeaveNoWork
<1>1. ASSUME IInv, [Next]_vars
      PROVE  [\A id \in Runs : run[id].next # 0 /\ run'[id].next # run[id].next =>
                InState(InFlight) = {} /\ OpenBills = {} /\ StartedTools = {}]_vars
  BY <1>1, StepCounts DEF CountsStay, NoWork
<1> QED
  BY <1>1, Invariant, PTL DEF Spec, RoundsLeaveNoWork

(* A run whose user asked it to stop is not entered again: neither start() nor *)
(* resumeInterrupted() makes it the run of the process.                       *)
THEOREM StopsStick == Spec => UserStopSticks
<1>1. ASSUME IInv, [Next]_vars
      PROVE  [\A id \in Runs : run[id].stop = "USER_STOPPED" /\ proc.run # id => proc'.run # id]_vars
  BY <1>1, StepTakes
<1> QED
  BY <1>1, Invariant, PTL DEF Spec, UserStopSticks
=============================================================================

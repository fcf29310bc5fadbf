------------------------ MODULE CompanyLedgerProofs ------------------------
(***************************************************************************)
(* Theorems about CompanyLedger for any number of permits, operations,     *)
(* amounts and allowances.                                                 *)
(*                                                                         *)
(* None of the safety properties is inductive: what makes them hold is how *)
(* far the caller of a permit can be for each state of its row (Staged),   *)
(* that one row at most answers for an operation (OneOwner), and that a    *)
(* hold names an answered permit, so a new overrun is never one the owner  *)
(* has on the screen: one that nobody saw is behind the hold, or a later   *)
(* one took its row over (HoldsAnswered, UnseenHolds).                     *)
(*                                                                         *)
(* The money is summed up over the table.  A sum is a recursive function   *)
(* of a finite set: that there is one, and what it adds up to when one row *)
(* changes, follows from a set of natural numbers having a least element   *)
(* (AddsExists, SumChange).  With it each step of the ledger is a step of  *)
(* the account (AccountStep), whose theorem then holds of the ledger.      *)
(***************************************************************************)
EXTENDS CompanyLedger, FiniteSetTheorems, WellFoundedInduction, TLAPS

Staged ==
  \A id \in Permits :
    /\ call[id].stage = "none" <=> permit[id].state = "FREE"
    /\ permit[id].state = "FREE" => permit[id].reply = NoReply
    /\ call[id].stage \in {"granted", "delivered", "replied"} =>
         permit[id].state # "NOT_SENT"
    /\ call[id].stage = "replied" => call[id].reply \in Replies
    /\ id \in sent => /\ call[id].stage \in {"delivered", "replied", "ambiguous", "gone"}
                      /\ permit[id].state # "NOT_SENT"

OneOwner ==
  \A i, j \in Permits :
    /\ permit[i].state \notin {"FREE", "NOT_SENT"}
    /\ permit[j].state \notin {"FREE", "NOT_SENT"}
    /\ permit[i].op = permit[j].op
    => i = j

HoldsAnswered ==
  /\ hold \in Permits => IsAnswered(permit[hold])
  /\ seen \in Permits => IsAnswered(permit[seen])

UnseenHolds == \A id \in unlooked \ overwritten : hold = id /\ seen # id

IInv == TypeOK /\ Staged /\ OneOwner /\ HoldsAnswered /\ UnseenHolds

-----------------------------------------------------------------------------
(* Sums of natural numbers over a finite set.                               *)

(* A non-empty set of natural numbers has a least one.                      *)
LEMMA Least == ASSUME NEW T \in SUBSET Nat, T # {} PROVE \E k \in T : \A j \in T : k <= j
<1> DEFINE R == {p \in Nat \X Nat : p[1] < p[2]}
<1>1. IsWellFoundedOn(R, Nat)
  BY NatLessThanWellFounded DEF OpToRel
<1> HIDE DEF R
<1>2. PICK k \in T : \A j \in T : ~(<<j, k>> \in R)
  BY <1>1, WFMin
<1>3. ASSUME NEW j \in T PROVE k <= j
  <2>1. ~(j < k)
    BY <1>2 DEF R
  <2> QED
    BY <2>1
<1> QED
  BY <1>3

(* The element a sum takes first, and what it adds up for every subset: the  *)
(* recursive function inside SumFunction.                                    *)
Some(s) == CHOOSE x \in s : TRUE

Adds(S, w, g) == g = [s \in SUBSET S |-> IF s = {} THEN 0 ELSE w[Some(s)] + g[s \ {Some(s)}]]

UpTo(S, n) == {s \in SUBSET S : Cardinality(s) <= n}
AddsUpTo(S, w, n) ==
  \E g : \A s \in UpTo(S, n) : g[s] = IF s = {} THEN 0 ELSE w[Some(s)] + g[s \ {Some(s)}]

(* A non-empty finite set without the element taken first is one smaller.    *)
LEMMA Smaller ==
  ASSUME NEW S, IsFiniteSet(S), NEW s \in SUBSET S
  PROVE  /\ Cardinality(s) \in Nat
         /\ s # {} => /\ Some(s) \in s /\ s \ {Some(s)} \in SUBSET S
                      /\ Cardinality(s \ {Some(s)}) = Cardinality(s) - 1
         /\ s = {} => Cardinality(s) = 0
         /\ Cardinality(s) <= Cardinality(S)
<1>1. IsFiniteSet(s) /\ Cardinality(s) \in Nat /\ Cardinality(s) <= Cardinality(S)
  BY FS_Subset, FS_CardinalityType
<1>2. s # {} => Some(s) \in s
  BY DEF Some
<1> QED
  BY <1>1, <1>2, FS_RemoveElement, FS_EmptySet

(* The function exists: no least bound on the subsets' size has none.        *)
LEMMA AddsExists ==
  ASSUME NEW S, IsFiniteSet(S), NEW w
  PROVE  \E g : Adds(S, w, g)
<1> DEFINE Bad == {n \in Nat : ~AddsUpTo(S, w, n)}
<1>1. AddsUpTo(S, w, 0)
  <2> DEFINE g == [s \in SUBSET S |-> 0]
  <2>1. \A s \in UpTo(S, 0) : s = {} /\ g[s] = 0
    <3> SUFFICES ASSUME NEW s \in UpTo(S, 0) PROVE s = {}
      BY DEF UpTo
    <3>1. s \in SUBSET S /\ Cardinality(s) <= 0
      BY DEF UpTo
    <3>2. Cardinality(s) \in Nat
      BY <3>1, Smaller
    <3>3. ASSUME s # {} PROVE FALSE
      <4> DEFINE d == s \ {Some(s)}
      <4>1. d \in SUBSET S /\ Cardinality(d) = Cardinality(s) - 1
        BY <3>1, <3>3, Smaller
      <4> HIDE DEF d
      <4>2. Cardinality(d) \in Nat
        BY <4>1, Smaller
      <4> QED
        BY <3>1, <3>2, <4>1, <4>2
    <3> QED
      BY <3>3
  <2> HIDE DEF g
  <2> QED
    BY <2>1 DEF AddsUpTo
<1>2. ASSUME NEW n \in Nat, AddsUpTo(S, w, n) PROVE AddsUpTo(S, w, n + 1)
  <2>1. PICK g : \A s \in UpTo(S, n) : g[s] = IF s = {} THEN 0 ELSE w[Some(s)] + g[s \ {Some(s)}]
    BY <1>2 DEF AddsUpTo
  <2> DEFINE h == [s \in SUBSET S |-> IF s \in UpTo(S, n) THEN g[s]
                                      ELSE w[Some(s)] + g[s \ {Some(s)}]]
  <2>2. ASSUME NEW s \in UpTo(S, n + 1)
        PROVE  h[s] = IF s = {} THEN 0 ELSE w[Some(s)] + h[s \ {Some(s)}]
    <3>1. s \in SUBSET S /\ Cardinality(s) <= n + 1
      BY DEF UpTo
    <3>2. s # {} => s \ {Some(s)} \in UpTo(S, n)
      BY <3>1, Smaller DEF UpTo
    <3>3. s = {} => s \in UpTo(S, n)
      <4> SUFFICES ASSUME s = {} PROVE Cardinality(s) <= n
        BY <3>1 DEF UpTo
      <4>1. Cardinality(s) = 0
        BY <3>1, Smaller
      <4> QED
        BY <4>1
    <3>4. s # {} => h[s \ {Some(s)}] = g[s \ {Some(s)}]
      BY <3>2, <3>1
    <3>5. s # {} => h[s] = w[Some(s)] + g[s \ {Some(s)}]
      BY <3>1, <2>1
    <3>6. s = {} => h[s] = 0
      BY <3>1, <3>3, <2>1
    <3> HIDE DEF h
    <3> QED
      BY <3>4, <3>5, <3>6
  <2> HIDE DEF h
  <2> QED
    BY <2>2 DEF AddsUpTo
<1>3. Bad = {}
  <2> SUFFICES ASSUME Bad # {} PROVE FALSE
    OBVIOUS
  <2>1. PICK k \in Bad : \A j \in Bad : k <= j
    <3> Bad \in SUBSET Nat
      OBVIOUS
    <3> HIDE DEF Bad
    <3> QED
      BY Least
  <2>2. k \in Nat /\ k # 0
    BY <1>1
  <2>3. k - 1 \in Nat /\ (k - 1) + 1 = k
    BY <2>2
  <2>4. ~AddsUpTo(S, w, k)
    OBVIOUS
  <2>5. AddsUpTo(S, w, k - 1)
    BY <2>1, <2>3
  <2> QED
    BY <1>2, <2>3, <2>4, <2>5
<1>4. Cardinality(S) \in Nat /\ UpTo(S, Cardinality(S)) = SUBSET S
  BY Smaller DEF UpTo
<1>5. PICK g : \A s \in SUBSET S : g[s] = IF s = {} THEN 0 ELSE w[Some(s)] + g[s \ {Some(s)}]
  <2>1. AddsUpTo(S, w, Cardinality(S))
    BY <1>3, <1>4
  <2> QED
    BY <1>4, <2>1 DEF AddsUpTo
<1> DEFINE h == [s \in SUBSET S |-> g[s]]
<1>6. \A s \in SUBSET S : h[s] = IF s = {} THEN 0 ELSE w[Some(s)] + h[s \ {Some(s)}]
  BY <1>5
<1> HIDE DEF h
<1>7. h = [s \in SUBSET S |-> h[s]]
  BY DEF h
<1> QED
  BY <1>6, <1>7 DEF Adds

(* g tells what every subset of S adds up to, S itself to SumFunction(w).    *)
SumsUp(S, w, g) ==
  /\ SumFunction(w) = g[S]
  /\ g[{}] = 0
  /\ \A s \in SUBSET S : s # {} => g[s] = w[Some(s)] + g[s \ {Some(s)}]

(* There is such a function: SumFunction is defined for a finite domain.      *)
LEMMA Unfold == ASSUME NEW S, IsFiniteSet(S), NEW w, DOMAIN w = S PROVE \E g : SumsUp(S, w, g)
<1> DEFINE it == CHOOSE g : Adds(S, w, g)
<1>1. Adds(S, w, it)
  BY AddsExists
<1>2. SumFunction(w) = it[S]
  BY DEF SumFunction, SumFunctionOnSet, FoldFunctionOnSet, MapThenFoldSet, Adds, Some
<1> HIDE DEF it
<1>3. it[{}] = 0 /\ \A s \in SUBSET S : s # {} => it[s] = w[Some(s)] + it[s \ {Some(s)}]
  BY <1>1 DEF Adds
<1> QED
  BY <1>2, <1>3 DEF SumsUp

(* The sum of natural numbers is one; when one of them changes it changes by *)
(* as much, whatever the order in which they are added up.                   *)
LEMMA SumChange ==
  ASSUME NEW S, IsFiniteSet(S), NEW w \in [S -> Nat], NEW u \in [S -> Nat], NEW a \in S,
         \A b \in S : b # a => u[b] = w[b]
  PROVE  /\ SumFunction(w) \in Nat
         /\ SumFunction(u) = (SumFunction(w) - w[a]) + u[a]
<1> DEFINE v == u[a]
<1>1. u \in [S -> Nat] /\ u[a] = v /\ v \in Nat /\ \A b \in S : b # a => u[b] = w[b]
  OBVIOUS
<1> HIDE DEF v
<1>2. PICK g : SumsUp(S, w, g)
  <2>1. DOMAIN w = S
    OBVIOUS
  <2> QED
    BY <2>1, Unfold
<1>3. PICK h : SumsUp(S, u, h)
  <2>1. DOMAIN u = S
    BY <1>1
  <2> QED
    BY <2>1, Unfold
<1> DEFINE Fine(s) == /\ g[s] \in Nat /\ h[s] \in Nat
                      /\ a \notin s => h[s] = g[s]
                      /\ a \in s => h[s] = (g[s] - w[a]) + v
           Wrong == {Cardinality(s) : s \in {t \in SUBSET S : ~Fine(t)}}
<1>4. ASSUME NEW s \in SUBSET S, s # {}, Fine(s \ {Some(s)}) PROVE Fine(s)
  <2>1. Some(s) \in s /\ s \ {Some(s)} \in SUBSET S
    BY <1>4, Smaller
  <2> DEFINE x == Some(s)
             d == s \ {x}
  <2>2. g[s] = w[x] + g[d] /\ h[s] = u[x] + h[d]
    BY <1>2, <1>3, <1>4 DEF SumsUp
  <2>3. /\ g[d] \in Nat /\ h[d] \in Nat
        /\ a \notin d => h[d] = g[d]
        /\ a \in d => h[d] = (g[d] - w[a]) + v
    BY <1>4
  <2>4. x \in S /\ (a \in s <=> x = a \/ a \in d) /\ (x = a => a \notin d)
    BY <2>1
  <2>5. w[x] \in Nat /\ u[x] \in Nat /\ w[a] \in Nat /\ v \in Nat
    BY <2>4, <1>1
  <2> HIDE DEF x, d
  <2>6. CASE x = a
    <3>1. u[x] = v
      BY <2>6, <1>1
    <3> QED
      BY <2>2, <2>3, <2>4, <2>5, <2>6, <3>1
  <2>7. CASE x # a
    <3>1. u[x] = w[x]
      BY <2>4, <2>7, <1>1
    <3> QED
      BY <2>2, <2>3, <2>4, <2>5, <2>7, <3>1
  <2> QED
    BY <2>6, <2>7
<1>5. Fine({})
  BY <1>2, <1>3 DEF SumsUp
<1>6. Wrong = {}
  <2> SUFFICES ASSUME Wrong # {} PROVE FALSE
    OBVIOUS
  <2>1. Wrong \in SUBSET Nat
    <3>1. \A s \in SUBSET S : Cardinality(s) \in Nat
      BY Smaller
    <3> QED
      BY <3>1
  <2>2. PICK k \in Wrong : \A j \in Wrong : k <= j
    <3> HIDE DEF Wrong
    <3> QED
      BY <2>1, Least
  <2>3. PICK s \in SUBSET S : ~Fine(s) /\ k = Cardinality(s)
    OBVIOUS
  <2> DEFINE d == s \ {Some(s)}
  <2>4. s # {} /\ ~Fine(d)
    BY <2>3, <1>4, <1>5
  <2>5. d \in SUBSET S /\ Cardinality(d) = k - 1 /\ k \in Nat
    BY <2>3, <2>4, Smaller
  <2>6. Cardinality(d) \in Wrong
    BY <2>4, <2>5
  <2>7. k <= Cardinality(d)
    BY <2>2, <2>6
  <2> HIDE DEF d
  <2> QED
    BY <2>5, <2>7
<1>7. Fine(S)
  BY <1>6
<1> QED
  BY <1>1, <1>2, <1>3, <1>7 DEF SumsUp

(* The sum of natural numbers is one, also when there are none to add up.    *)
LEMMA SumTyped ==
  ASSUME NEW S, IsFiniteSet(S), NEW w \in [S -> Nat]
  PROVE  SumFunction(w) \in Nat
<1>1. CASE S = {}
  <2>1. DOMAIN w = S
    OBVIOUS
  <2>2. PICK g : SumsUp(S, w, g)
    BY <2>1, Unfold
  <2> QED
    BY <1>1, <2>2 DEF SumsUp
<1>2. CASE S # {}
  <2>1. PICK a \in S : TRUE
    BY <1>2
  <2> QED
    BY <2>1, SumChange
<1> QED
  BY <1>1, <1>2

(* Nothing to add up.                                                        *)
LEMMA SumZero ==
  ASSUME NEW S, IsFiniteSet(S)
  PROVE  SumFunction([b \in S |-> 0]) = 0
<1> DEFINE w == [b \in S |-> 0]
<1>1. DOMAIN w = S /\ \A b \in S : w[b] = 0
  OBVIOUS
<1> HIDE DEF w
<1>2. PICK g : SumsUp(S, w, g)
  BY <1>1, Unfold
<1> DEFINE Wrong == {Cardinality(s) : s \in {t \in SUBSET S : g[t] # 0}}
<1>3. Wrong = {}
  <2> SUFFICES ASSUME Wrong # {} PROVE FALSE
    OBVIOUS
  <2>1. Wrong \in SUBSET Nat
    <3>1. \A s \in SUBSET S : Cardinality(s) \in Nat
      BY Smaller
    <3> QED
      BY <3>1
  <2>2. PICK k \in Wrong : \A j \in Wrong : k <= j
    <3> HIDE DEF Wrong
    <3> QED
      BY <2>1, Least
  <2>3. PICK s \in SUBSET S : g[s] # 0 /\ k = Cardinality(s)
    OBVIOUS
  <2> DEFINE d == s \ {Some(s)}
  <2>4. s # {} /\ Some(s) \in S /\ d \in SUBSET S /\ Cardinality(d) = k - 1 /\ k \in Nat
    BY <2>3, <1>2, Smaller DEF SumsUp
  <2>5. g[s] = 0 + g[d]
    BY <2>4, <1>1, <1>2 DEF SumsUp
  <2>6. g[d] # 0
    BY <2>3, <2>5
  <2>7. Cardinality(d) \in Wrong
    BY <2>4, <2>6
  <2>8. k <= Cardinality(d)
    BY <2>2, <2>7
  <2> HIDE DEF d
  <2> QED
    BY <2>4, <2>8
<1> QED
  BY <1>2, <1>3 DEF w, SumsUp

-----------------------------------------------------------------------------
(* Rows: what the transitions of a permit return. *)

(* What the provider sends is a reply, and says how it was billed.          *)
LEMMA RepliesTyped ==
  /\ \A r \in Replies : r \in ReplyType /\ r # NoReply
  /\ NoReply \in ReplyType
<1>1. \A c \in Costs : Metered(c) \in ReplyType /\ Metered(c) # NoReply
  BY LedgerConstants DEF Metered, NoReply, ReplyType
<1>2. Unmetered \in ReplyType /\ Unmetered # NoReply /\ NoReply \in ReplyType
  BY DEF Unmetered, NoReply, ReplyType
<1> QED
  BY <1>1, <1>2 DEF Replies

(* response() on a row: typed, settled or left unknown, answered for good.  *)
LEMMA ReplyRow ==
  ASSUME NEW Op, NEW p \in PermitType(Op), NEW r \in ReplyType
  PROVE  /\ AfterReply(p, r) \in PermitType(Op)
         /\ AfterReply(p, r).op = p.op
         /\ AfterReply(p, r).state \in {p.state, "SETTLED", "UNKNOWN"}
         /\ IsAnswered(p) => AfterReply(p, r) = p
         /\ ~IsAnswered(p) => AfterReply(p, r).reply = r
  BY DEF PermitType, PermitStates, ReplyType, AfterReply, IsAnswered

(* failure() on a row: only one in flight changes, the others stay.         *)
LEMMA FailureRow ==
  ASSUME NEW Op, NEW p \in PermitType(Op), NEW b \in BOOLEAN
  PROVE  /\ AfterFailure(p, b) \in PermitType(Op)
         /\ AfterFailure(p, b).op = p.op
         /\ AfterFailure(p, b).reply = p.reply
         /\ AfterFailure(p, b).settled = p.settled
         /\ AfterFailure(p, b).state \in {p.state, "UNKNOWN", "NOT_SENT"}
         /\ AfterFailure(p, b).state = "FREE" => p.state = "FREE"
         /\ ~b => AfterFailure(p, b).state \in {p.state, "UNKNOWN"}
         /\ p.state \in {"FREE", "SETTLED", "NOT_SENT"} => AfterFailure(p, b) = p
  BY DEF PermitType, PermitStates, AfterFailure, IsHeld

(* The sweep of a restart: a row in flight becomes unknown, never released. *)
LEMMA RestartRow ==
  ASSUME NEW Op, NEW p \in PermitType(Op)
  PROVE  /\ AfterRestart(p) \in PermitType(Op)
         /\ AfterRestart(p).op = p.op
         /\ AfterRestart(p).reply = p.reply
         /\ AfterRestart(p).settled = p.settled
         /\ p.state # "SENT" => AfterRestart(p) = p
         /\ p.state = "SENT" => AfterRestart(p).state = "UNKNOWN"
  BY DEF PermitType, PermitStates, AfterRestart

(* A verified bill settles the row and leaves its receipt.                  *)
LEMMA ReconcileRow ==
  ASSUME NEW Op, NEW p \in PermitType(Op), NEW c \in Nat
  PROVE  /\ AfterReconcile(p, c) \in PermitType(Op)
         /\ AfterReconcile(p, c).op = p.op
         /\ AfterReconcile(p, c).reply = p.reply
         /\ AfterReconcile(p, c).state = "SETTLED"
  BY DEF PermitType, PermitStates, AfterReconcile

-----------------------------------------------------------------------------
(* The money of the table.                                                  *)
(* What a row adds to each sum is a natural number.                         *)
LEMMA RowMoney ==
  ASSUME NEW Op, NEW p \in PermitType(Op)
  PROVE  SpentBy(p) \in Nat /\ HeldBy(p) \in Nat /\ ExcessBy(p) \in Nat
<1>1. p.settled \in Nat /\ p.reserved \in Nat
  BY DEF PermitType
<1> QED
  BY <1>1 DEF SpentBy, HeldBy, ExcessBy

(* The three sums are natural numbers, before a step and after it.          *)
LEMMA MoneyTyped ==
  ASSUME permit \in [Permits -> PermitType(Ops)]
  PROVE  SpentAll \in Nat /\ Held \in Nat /\ Excess \in Nat
<1>1. /\ [id \in Permits |-> SpentBy(permit[id])] \in [Permits -> Nat]
      /\ [id \in Permits |-> HeldBy(permit[id])] \in [Permits -> Nat]
      /\ [id \in Permits |-> ExcessBy(permit[id])] \in [Permits -> Nat]
  BY RowMoney
<1> QED
  BY <1>1, SumTyped, LedgerConstants DEF SpentAll, Held, Excess

LEMMA RowMoneyNext ==
  ASSUME permit' \in [Permits -> PermitType(Ops)]
  PROVE  SpentAll' \in Nat /\ Held' \in Nat /\ Excess' \in Nat
<1>1. /\ [id \in Permits |-> SpentBy(permit'[id])] \in [Permits -> Nat]
      /\ [id \in Permits |-> HeldBy(permit'[id])] \in [Permits -> Nat]
      /\ [id \in Permits |-> ExcessBy(permit'[id])] \in [Permits -> Nat]
  BY RowMoney
<1> QED
  BY <1>1, SumTyped, LedgerConstants DEF SpentAll, Held, Excess

(* A change of one row changes each sum by what that row adds.              *)
LEMMA MoneyOfRow ==
  ASSUME permit \in [Permits -> PermitType(Ops)], NEW id \in Permits, NEW q \in PermitType(Ops),
         permit' = [permit EXCEPT ![id] = q]
  PROVE  /\ SpentAll' = (SpentAll - SpentBy(permit[id])) + SpentBy(q)
         /\ Held' = (Held - HeldBy(permit[id])) + HeldBy(q)
         /\ Excess' = (Excess - ExcessBy(permit[id])) + ExcessBy(q)
<1>0. IsFiniteSet(Permits) /\ id \in Permits
  BY LedgerConstants
<1>1. \A k \in Permits : permit'[k] = IF k = id THEN q ELSE permit[k]
  OBVIOUS
<1>2. SpentBy(q) \in Nat /\ HeldBy(q) \in Nat /\ ExcessBy(q) \in Nat
  BY RowMoney
<1>3. SpentAll' = (SpentAll - SpentBy(permit[id])) + SpentBy(q)
  <2>1. PICK w : w = [k \in Permits |-> SpentBy(permit[k])]
    OBVIOUS
  <2>2. w \in [Permits -> Nat] /\ w[id] = SpentBy(permit[id])
    BY <2>1, RowMoney
  <2>3. PICK u : u = [k \in Permits |-> SpentBy(permit'[k])]
    OBVIOUS
  <2>4. u \in [Permits -> Nat] /\ u[id] = SpentBy(q) /\ \A k \in Permits : k # id => u[k] = w[k]
    BY <1>1, <1>2, <2>1, <2>2, <2>3
  <2>5. SumFunction(u) = (SumFunction(w) - w[id]) + u[id]
    BY ONLY <1>0, <2>2, <2>4, SumChange
  <2> QED
    BY <2>1, <2>2, <2>3, <2>4, <2>5 DEF SpentAll
<1>4. Held' = (Held - HeldBy(permit[id])) + HeldBy(q)
  <2>1. PICK w : w = [k \in Permits |-> HeldBy(permit[k])]
    OBVIOUS
  <2>2. w \in [Permits -> Nat] /\ w[id] = HeldBy(permit[id])
    BY <2>1, RowMoney
  <2>3. PICK u : u = [k \in Permits |-> HeldBy(permit'[k])]
    OBVIOUS
  <2>4. u \in [Permits -> Nat] /\ u[id] = HeldBy(q) /\ \A k \in Permits : k # id => u[k] = w[k]
    BY <1>1, <1>2, <2>1, <2>2, <2>3
  <2>5. SumFunction(u) = (SumFunction(w) - w[id]) + u[id]
    BY ONLY <1>0, <2>2, <2>4, SumChange
  <2> QED
    BY <2>1, <2>2, <2>3, <2>4, <2>5 DEF Held
<1>5. Excess' = (Excess - ExcessBy(permit[id])) + ExcessBy(q)
  <2>1. PICK w : w = [k \in Permits |-> ExcessBy(permit[k])]
    OBVIOUS
  <2>2. w \in [Permits -> Nat] /\ w[id] = ExcessBy(permit[id])
    BY <2>1, RowMoney
  <2>3. PICK u : u = [k \in Permits |-> ExcessBy(permit'[k])]
    OBVIOUS
  <2>4. u \in [Permits -> Nat] /\ u[id] = ExcessBy(q) /\ \A k \in Permits : k # id => u[k] = w[k]
    BY <1>1, <1>2, <2>1, <2>2, <2>3
  <2>5. SumFunction(u) = (SumFunction(w) - w[id]) + u[id]
    BY ONLY <1>0, <2>2, <2>4, SumChange
  <2> QED
    BY <2>1, <2>2, <2>3, <2>4, <2>5 DEF Excess
<1> QED
  BY <1>3, <1>4, <1>5

-----------------------------------------------------------------------------
(* The inductive invariant holds of an empty company.                       *)
LEMMA Initially == Init => IInv
<1> SUFFICES ASSUME Init PROVE IInv
  OBVIOUS
<1> DEFINE first == CHOOSE op \in Ops : TRUE
<1>1. FreePermit(first) \in PermitType(Ops)
  <2>1. first \in Ops
    BY LedgerConstants
  <2> HIDE DEF first
  <2> QED
    BY <2>1, RepliesTyped DEF FreePermit, PermitType, PermitStates
<1>2. /\ FreePermit(first).state = "FREE"
      /\ FreePermit(first).reply = NoReply
  BY DEF FreePermit
<1>3. permit = [id \in Permits |-> FreePermit(first)]
  BY DEF Init
<1> HIDE DEF first
<1>4. Idle \in CallType /\ Idle.stage = "none"
  BY RepliesTyped DEF Idle, CallType, Stages
<1>5. TypeOK
  BY <1>1, <1>3, <1>4 DEF Init, TypeOK
<1>6. Staged /\ OneOwner
  BY <1>2, <1>3, <1>4 DEF Init, Staged, OneOwner
<1>7. HoldsAnswered /\ UnseenHolds
  BY LedgerConstants DEF Init, HoldsAnswered, UnseenHolds
<1> QED
  BY <1>5, <1>6, <1>7 DEF IInv

-----------------------------------------------------------------------------
(* A transition of one row that is in use leaves the table typed, keeps one *)
(* owner per operation and takes no answer away.                            *)
LEMMA RowChange ==
  ASSUME IInv, NEW id \in Permits, NEW q \in PermitType(Ops),
         permit' = [permit EXCEPT ![id] = q],
         q.op = permit[id].op,
         permit[id].state \in {"FREE", "NOT_SENT"} => q.state \in {"FREE", "NOT_SENT"},
         IsAnswered(permit[id]) => q.reply = permit[id].reply
  PROVE  /\ permit' \in [Permits -> PermitType(Ops)]
         /\ OneOwner'
         /\ \A k \in Permits : IsAnswered(permit[k]) => permit'[k].reply = permit[k].reply
<1>1. permit' \in [Permits -> PermitType(Ops)]
  BY DEF IInv, TypeOK
<1>2. permit'[id] = q /\ \A k \in Permits : k # id => permit'[k] = permit[k]
  BY DEF IInv, TypeOK
<1>3. \A k \in Permits :
        /\ permit'[k].op = permit[k].op
        /\ permit'[k].state \notin {"FREE", "NOT_SENT"} =>
             permit[k].state \notin {"FREE", "NOT_SENT"}
  BY <1>2
<1>4. OneOwner'
  BY <1>3 DEF IInv, OneOwner
<1> QED
  BY <1>1, <1>2, <1>4

(* The stages of one permit and its row change together. *)
LEMMA StageChange ==
  ASSUME IInv, NEW id \in Permits,
         \A k \in Permits : k # id => permit'[k] = permit[k] /\ call'[k] = call[k]
                                       /\ (k \in sent' => k \in sent),
         call'[id].stage = "none" <=> permit'[id].state = "FREE",
         permit'[id].state = "FREE" => permit'[id].reply = NoReply,
         call'[id].stage \in {"granted", "delivered", "replied"} =>
           permit'[id].state # "NOT_SENT",
         call'[id].stage = "replied" => call'[id].reply \in Replies,
         id \in sent' => /\ call'[id].stage \in {"delivered", "replied", "ambiguous", "gone"}
                         /\ permit'[id].state # "NOT_SENT"
  PROVE  Staged'
<1> SUFFICES ASSUME NEW k \in Permits
             PROVE  /\ call'[k].stage = "none" <=> permit'[k].state = "FREE"
                    /\ permit'[k].state = "FREE" => permit'[k].reply = NoReply
                    /\ call'[k].stage \in {"granted", "delivered", "replied"} =>
                         permit'[k].state # "NOT_SENT"
                    /\ call'[k].stage = "replied" => call'[k].reply \in Replies
                    /\ k \in sent' =>
                         /\ call'[k].stage \in {"delivered", "replied", "ambiguous", "gone"}
                         /\ permit'[k].state # "NOT_SENT"
  BY DEF Staged, Replies
<1>1. CASE k = id
  BY <1>1
<1>2. CASE k # id
  BY <1>2 DEF IInv, Staged
<1> QED
  BY <1>1, <1>2

-----------------------------------------------------------------------------
(* prepare(): the operation had no owner, so the new permit is its only one.*)
LEMMA PrepareKeeps ==
  ASSUME IInv, NEW id \in Permits, NEW op \in Ops, NEW amount \in Amounts,
         Prepare(id, op, amount)
  PROVE  IInv'
<1> DEFINE q == Authorized(op, amount)
<1>1. /\ q \in PermitType(Ops)
      /\ q.op = op /\ q.state = "SENT" /\ q.reply = NoReply
  BY LedgerConstants, RepliesTyped DEF Authorized, PermitType, PermitStates
<1> HIDE DEF q
<1>2. /\ permit' = [permit EXCEPT ![id] = q]
      /\ call' = [call EXCEPT ![id].stage = "granted"]
      /\ permit[id].state = "FREE"
      /\ UNCHANGED <<budget, mode, hold, seen, sent, reviewed, unlooked, overwritten>>
  BY DEF Prepare, q
<1>3. TypeOK'
  BY <1>1, <1>2 DEF IInv, TypeOK, CallType, Stages
<1>4. /\ permit'[id] = q /\ call'[id].stage = "granted"
      /\ \A k \in Permits : k # id => permit'[k] = permit[k] /\ call'[k] = call[k]
  BY <1>2 DEF IInv, TypeOK
<1>5. Staged'
  <2>1. id \notin sent'
    BY <1>2 DEF IInv, Staged
  <2> QED
    BY <1>1, <1>2, <1>4, <2>1, StageChange
<1>6. OneOwner'
  <2>1. \A k \in Permits : permit[k].state \notin {"FREE", "NOT_SENT"} => permit[k].op # op
    BY DEF Prepare, Unowned, Owns
  <2> QED
    BY <1>1, <1>4, <2>1 DEF IInv, OneOwner
<1>7. HoldsAnswered' /\ UnseenHolds'
  <2>1. ~IsAnswered(permit[id])
    BY <1>2 DEF IInv, Staged, IsAnswered
  <2> QED
    BY <1>2, <1>4, <2>1 DEF IInv, HoldsAnswered, UnseenHolds
<1> QED
  BY <1>3, <1>5, <1>6, <1>7 DEF IInv

(* What the provider and the network do changes the caller only. *)
LEMMA OutcomeKeeps ==
  ASSUME IInv, NEW id \in Permits, Outcome(id)
  PROVE  IInv'
<1>1. /\ call' \in [Permits -> CallType]
      /\ \A k \in Permits : k # id => call'[k] = call[k]
      /\ call'[id].stage \in {"delivered", "replied", "refused", "ambiguous"}
      /\ call[id].stage \in {"granted", "delivered"}
      /\ call'[id].stage = "refused" => call[id].stage = "granted"
      /\ call'[id].stage = "replied" => call'[id].reply \in Replies
      /\ sent' = sent \/ (sent' = sent \cup {id} /\ call'[id].stage = "delivered")
  <2>1. call \in [Permits -> CallType]
    BY DEF IInv, TypeOK
  <2>2. CASE Deliver(id)
    BY <2>1, <2>2 DEF Deliver, CallType, Stages
  <2>3. CASE Refuse(id)
    BY <2>1, <2>3 DEF Refuse, CallType, Stages
  <2>4. CASE LoseTrack(id)
    BY <2>1, <2>4 DEF LoseTrack, CallType, Stages
  <2>5. ASSUME NEW r \in Replies, Reply(id, r)
        PROVE  /\ call' \in [Permits -> CallType]
               /\ \A k \in Permits : k # id => call'[k] = call[k]
               /\ call'[id].stage = "replied" /\ call'[id].reply = r
               /\ call[id].stage = "delivered"
               /\ sent' = sent
    <3>1. [stage |-> "replied", reply |-> r] \in CallType
      BY RepliesTyped DEF CallType, Stages
    <3> QED
      BY <2>1, <2>5, <3>1 DEF Reply
  <2> QED
    BY <2>2, <2>3, <2>4, <2>5 DEF Outcome
<1>2. UNCHANGED <<permit, budget, mode, hold, seen, reviewed, unlooked, overwritten>>
  BY DEF Outcome, Deliver, Refuse, LoseTrack, Reply
<1>3. TypeOK'
  BY <1>1, <1>2 DEF IInv, TypeOK
<1>4. Staged'
  <2>1. permit[id].state \notin {"FREE", "NOT_SENT"}
    BY <1>1 DEF IInv, Staged
  <2>2. id \in sent' => call'[id].stage # "refused"
    BY <1>1 DEF IInv, Staged
  <2> QED
    BY <1>1, <1>2, <2>1, <2>2, StageChange
<1>5. OneOwner' /\ HoldsAnswered' /\ UnseenHolds'
  BY <1>2 DEF IInv, OneOwner, HoldsAnswered, UnseenHolds
<1> QED
  BY <1>3, <1>4, <1>5 DEF IInv

(* A caller that reports is done with its permit, or is a worker that may   *)
(* report again.                                                            *)
LEMMA FinishedTyped ==
  ASSUME IInv, NEW id \in Permits, call[id].stage # "none", call' = Finished(id)
  PROVE  /\ call' \in [Permits -> CallType]
         /\ \A k \in Permits : k # id => call'[k] = call[k]
         /\ call'[id] = call[id] \/ call'[id].stage = "gone"
  BY DEF IInv, TypeOK, Finished, CallType, Stages

(* response(), with the hold and the unseen overrun it may create.          *)
LEMMA ReportReplyKeeps ==
  ASSUME IInv, NEW id \in Permits, ReportReply(id)
  PROVE  IInv'
<1> DEFINE r == call[id].reply
           q == AfterReply(permit[id], r)
<1>1. /\ r \in Replies /\ r \in ReplyType /\ r # NoReply
      /\ permit[id] \in PermitType(Ops)
      /\ permit[id].state \notin {"FREE", "NOT_SENT"}
  BY RepliesTyped DEF ReportReply, IInv, Staged, TypeOK
<1>2. /\ q \in PermitType(Ops) /\ q.op = permit[id].op
      /\ q.state \notin {"FREE", "NOT_SENT"}
      /\ IsAnswered(permit[id]) => q = permit[id]
      /\ IsAnswered(q)
  BY <1>1, ReplyRow DEF IsAnswered
<1>3. /\ permit' = [permit EXCEPT ![id] = q]
      /\ UNCHANGED <<budget, mode, seen, sent, reviewed>>
      /\ call[id].stage = "replied" /\ call' = Finished(id)
      /\ \/ UNCHANGED <<hold, unlooked, overwritten>>
         \/ /\ ~IsAnswered(permit[id])
            /\ hold' = id
            /\ unlooked' = unlooked \cup {id}
            /\ overwritten' = overwritten \cup ({hold} \ {NoHold})
  BY DEF ReportReply, Overruns
<1>4. r = call[id].reply
  OBVIOUS
<1> HIDE DEF r, q
<1>5. /\ permit' \in [Permits -> PermitType(Ops)]
      /\ OneOwner'
      /\ \A k \in Permits : IsAnswered(permit[k]) => permit'[k].reply = permit[k].reply
  BY <1>1, <1>2, <1>3, RowChange
<1>6. /\ call' \in [Permits -> CallType]
      /\ \A k \in Permits : k # id => call'[k] = call[k]
      /\ call'[id] = call[id] \/ call'[id].stage = "gone"
  BY <1>3, FinishedTyped
<1>7. permit'[id] = q /\ \A k \in Permits : k # id => permit'[k] = permit[k]
  BY <1>3 DEF IInv, TypeOK
<1>8. TypeOK'
  BY <1>3, <1>5, <1>6 DEF IInv, TypeOK
<1>9. Staged'
  BY <1>1, <1>2, <1>3, <1>4, <1>6, <1>7, StageChange
<1>10. HoldsAnswered'
  BY <1>2, <1>3, <1>5, <1>7 DEF IInv, HoldsAnswered, IsAnswered
(* A new overrun is not the hold on the screen, which was answered before;  *)
(* the one it takes the row from is overwritten.                            *)
<1>11. UnseenHolds'
  <2>1. CASE UNCHANGED <<hold, unlooked, overwritten>>
    BY <1>3, <2>1 DEF IInv, UnseenHolds
  <2>2. CASE /\ ~IsAnswered(permit[id])
             /\ hold' = id
             /\ unlooked' = unlooked \cup {id}
             /\ overwritten' = overwritten \cup ({hold} \ {NoHold})
    <3>1. seen' # id
      BY <1>3, <2>2 DEF IInv, HoldsAnswered
    <3>2. ASSUME NEW k \in unlooked, k \notin overwritten PROVE k \in overwritten'
      <4>1. k \in Permits /\ hold = k
        BY <3>2 DEF IInv, TypeOK, UnseenHolds
      <4> QED
        BY <2>2, <4>1, LedgerConstants
    <3> QED
      BY <2>2, <3>1, <3>2 DEF UnseenHolds
  <2> QED
    BY <1>3, <2>1, <2>2
<1> QED
  BY <1>5, <1>8, <1>9, <1>10, <1>11 DEF IInv

(* failure() from a caller that knows the call never left, or does not know.*)
LEMMA ReportFailureKeeps ==
  ASSUME IInv, NEW id \in Permits, ReportFailure(id)
  PROVE  IInv'
<1> DEFINE b == call[id].stage = "refused"
           q == AfterFailure(permit[id], b)
<1>1. /\ permit[id] \in PermitType(Ops) /\ b \in BOOLEAN
      /\ call[id].stage \in {"refused", "ambiguous"}
      /\ permit[id].state # "FREE"
  BY DEF ReportFailure, IInv, Staged, TypeOK
<1>2. /\ q \in PermitType(Ops) /\ q.op = permit[id].op
      /\ q.reply = permit[id].reply
      /\ q.state # "FREE"
      /\ permit[id].state = "NOT_SENT" => q.state = "NOT_SENT"
      /\ ~b => q.state \in {permit[id].state, "UNKNOWN"}
  <2>1. /\ q \in PermitType(Ops) /\ q.op = permit[id].op /\ q.reply = permit[id].reply
        /\ q.state = "FREE" => permit[id].state = "FREE"
        /\ ~b => q.state \in {permit[id].state, "UNKNOWN"}
    BY <1>1, FailureRow
  <2>2. permit[id].state = "NOT_SENT" => q = permit[id]
    BY <1>1, FailureRow
  <2> QED
    BY <1>1, <2>1, <2>2
<1>3. /\ permit' = [permit EXCEPT ![id] = q]
      /\ call' = Finished(id)
      /\ UNCHANGED <<budget, mode, hold, seen, sent, reviewed, unlooked, overwritten>>
  BY DEF ReportFailure
<1>4. id \in sent => q.state # "NOT_SENT"
  BY <1>1, <1>2 DEF IInv, Staged
<1> HIDE DEF b, q
<1>5. /\ permit' \in [Permits -> PermitType(Ops)]
      /\ OneOwner'
      /\ \A k \in Permits : IsAnswered(permit[k]) => permit'[k].reply = permit[k].reply
  BY <1>1, <1>2, <1>3, RowChange
<1>6. /\ call' \in [Permits -> CallType]
      /\ \A k \in Permits : k # id => call'[k] = call[k]
      /\ call'[id] = call[id] \/ call'[id].stage = "gone"
  BY <1>1, <1>3, FinishedTyped
<1>7. permit'[id] = q /\ \A k \in Permits : k # id => permit'[k] = permit[k]
  BY <1>3 DEF IInv, TypeOK
<1>8. TypeOK'
  BY <1>3, <1>5, <1>6 DEF IInv, TypeOK
<1>9. Staged'
  <2>1. id \in sent => call[id].stage = "ambiguous"
    BY <1>1 DEF IInv, Staged
  <2> QED
    BY <1>1, <1>2, <1>3, <1>4, <1>6, <1>7, <2>1, StageChange
<1>10. HoldsAnswered' /\ UnseenHolds'
  BY <1>3, <1>5 DEF IInv, HoldsAnswered, UnseenHolds, IsAnswered
<1> QED
  BY <1>5, <1>8, <1>9, <1>10 DEF IInv

(* A restart takes every call of this process, and no worker's, with it.    *)
LEMMA RestartKeeps == IInv /\ Restart => IInv'
<1> SUFFICES ASSUME IInv, Restart PROVE IInv'
  OBVIOUS
<1>1. \A k \in Permits : permit'[k] = AfterRestart(permit[k])
  BY DEF Restart
<1>2. \A k \in Permits :
        /\ permit'[k] \in PermitType(Ops)
        /\ permit'[k].op = permit[k].op
        /\ permit'[k].reply = permit[k].reply
        /\ permit'[k].state = permit[k].state
             \/ (permit[k].state = "SENT" /\ permit'[k].state = "UNKNOWN")
  BY <1>1, RestartRow DEF IInv, TypeOK
<1>3. \A k \in Permits :
        /\ call'[k] \in CallType
        /\ call'[k] = call[k] \/ (call[k].stage # "none" /\ call'[k].stage = "gone")
  <2>1. \A k \in InProcess : call[k].stage # "none"
    BY DEF InProcess
  <2>2. \A k \in Permits :
          call'[k] = IF k \in InProcess THEN [call[k] EXCEPT !.stage = "gone"] ELSE call[k]
    BY DEF Restart
  <2>3. \A c \in CallType :
          /\ [c EXCEPT !.stage = "gone"] \in CallType
          /\ [c EXCEPT !.stage = "gone"].stage = "gone"
    BY DEF CallType, Stages
  <2> QED
    BY <2>1, <2>2, <2>3 DEF IInv, TypeOK
<1>4. UNCHANGED <<budget, mode, hold, seen, sent, reviewed, unlooked, overwritten>>
  BY DEF Restart
<1>5. TypeOK'
  <2>1. permit' \in [Permits -> PermitType(Ops)] /\ call' \in [Permits -> CallType]
    BY <1>2, <1>3 DEF Restart
  <2> QED
    BY <1>4, <2>1 DEF IInv, TypeOK
<1>6. Staged'
  <2> SUFFICES ASSUME NEW k \in Permits
               PROVE  /\ call'[k].stage = "none" <=> permit'[k].state = "FREE"
                      /\ permit'[k].state = "FREE" => permit'[k].reply = NoReply
                      /\ call'[k].stage \in {"granted", "delivered", "replied"} =>
                           permit'[k].state # "NOT_SENT"
                      /\ call'[k].stage = "replied" => call'[k].reply \in Replies
                      /\ k \in sent' =>
                           /\ call'[k].stage \in {"delivered", "replied", "ambiguous", "gone"}
                           /\ permit'[k].state # "NOT_SENT"
    BY DEF Staged, Replies
  <2>1. CASE call'[k] = call[k]
    BY <1>2, <1>4, <2>1 DEF IInv, Staged
  <2>2. CASE call[k].stage # "none" /\ call'[k].stage = "gone"
    BY <1>2, <1>4, <2>2 DEF IInv, Staged
  <2> QED
    BY <1>3, <2>1, <2>2
<1>7. OneOwner'
  BY <1>2 DEF IInv, OneOwner
<1>8. HoldsAnswered' /\ UnseenHolds'
  BY <1>2, <1>4 DEF IInv, HoldsAnswered, UnseenHolds, IsAnswered
<1> QED
  BY <1>5, <1>6, <1>7, <1>8 DEF IInv

(* The owner's decisions on a row whose outcome is unknown. *)
LEMMA OwnerKeeps ==
  ASSUME IInv, NEW id \in Permits, OwnerDecides(id)
  PROVE  IInv'
<1>1. permit[id] \in PermitType(Ops) /\ permit[id].state = "UNKNOWN"
  BY DEF OwnerDecides, ConfirmNotBilled, Review, Reconcile, IInv, TypeOK
<1>2. ASSUME NEW q \in PermitType(Ops),
             permit' = [permit EXCEPT ![id] = q],
             q.op = permit[id].op, q.reply = permit[id].reply,
             \/ q.state = "SETTLED"
             \/ q.state = "NOT_SENT" /\ id \notin sent /\ call[id].stage = "gone",
             UNCHANGED <<budget, mode, hold, seen, call, sent, reviewed, unlooked, overwritten>>
      PROVE  IInv'
  <2>1. /\ permit' \in [Permits -> PermitType(Ops)]
        /\ OneOwner'
        /\ \A k \in Permits : IsAnswered(permit[k]) => permit'[k].reply = permit[k].reply
    BY <1>1, <1>2, RowChange
  <2>2. permit'[id] = q /\ \A k \in Permits : k # id => permit'[k] = permit[k]
    BY <1>2 DEF IInv, TypeOK
  <2>3. TypeOK'
    BY <1>2, <2>1 DEF IInv, TypeOK
  <2>4. Staged'
    <3>1. call[id].stage # "none"
      BY <1>1 DEF IInv, Staged
    <3>2. id \in sent => call[id].stage \in {"delivered", "replied", "ambiguous", "gone"}
      BY DEF IInv, Staged
    <3>3. call[id].stage = "replied" => call[id].reply \in Replies
      BY DEF IInv, Staged
    <3> QED
      BY <1>2, <2>2, <3>1, <3>2, <3>3, StageChange
  <2>5. HoldsAnswered' /\ UnseenHolds'
    BY <1>2, <2>1 DEF IInv, HoldsAnswered, UnseenHolds, IsAnswered
  <2> QED
    BY <2>1, <2>3, <2>4, <2>5 DEF IInv
<1>3. CASE ConfirmNotBilled(id)
  <2>1. [permit[id] EXCEPT !.state = "NOT_SENT"] \in PermitType(Ops)
    BY <1>1 DEF PermitType, PermitStates
  <2>2. /\ [permit[id] EXCEPT !.state = "NOT_SENT"].op = permit[id].op
        /\ [permit[id] EXCEPT !.state = "NOT_SENT"].reply = permit[id].reply
        /\ [permit[id] EXCEPT !.state = "NOT_SENT"].state = "NOT_SENT"
    BY <1>1 DEF PermitType
  <2> QED
    BY <1>2, <1>3, <2>1, <2>2 DEF ConfirmNotBilled
<1>4. ASSUME NEW cost \in Costs, Reconcile(id, cost) PROVE IInv'
  <2>1. cost \in Nat
    BY LedgerConstants
  <2> QED
    BY <1>1, <1>2, <1>4, <2>1, ReconcileRow DEF Reconcile
<1>5. CASE Review(id)
  BY <1>5 DEF Review, IInv, TypeOK, Staged, OneOwner, HoldsAnswered, UnseenHolds
<1> QED
  BY <1>3, <1>4, <1>5 DEF OwnerDecides

-----------------------------------------------------------------------------
(* Every step keeps the inductive invariant.                                *)
LEMMA Inductive == IInv /\ [Next]_vars => IInv'
<1> SUFFICES ASSUME IInv, [Next]_vars PROVE IInv'
  OBVIOUS
<1> USE DEF IInv, TypeOK, Staged, OneOwner, HoldsAnswered, UnseenHolds
<1>1. ASSUME NEW id \in Permits, NEW op \in Ops, NEW amount \in Amounts,
             Prepare(id, op, amount)
      PROVE  IInv'
  BY <1>1, PrepareKeeps
<1>2. ASSUME NEW id \in Permits, Outcome(id) PROVE IInv'
  BY <1>2, OutcomeKeeps
<1>3. ASSUME NEW id \in Permits, Report(id) PROVE IInv'
  BY <1>3, ReportReplyKeeps, ReportFailureKeeps DEF Report
<1>4. ASSUME NEW id \in Permits, OwnerDecides(id) PROVE IInv'
  BY <1>4, OwnerKeeps
<1>5. ASSUME NEW amount \in Allowances, Configure(amount) PROVE IInv'
  <2>1. amount \in Nat /\ SpentAll \in Nat
    BY LedgerConstants, MoneyTyped
  <2> QED
    BY <1>5, <2>1 DEF Configure, Authorize
<1>6. CASE SwitchOff
  BY <1>6 DEF SwitchOff
<1>7. CASE SwitchOn
  BY <1>7 DEF SwitchOn
<1>8. CASE Look
  BY <1>8 DEF Look
(* The hold that is lifted is the one on the screen: what nobody saw was      *)
(* overwritten.                                                              *)
<1>9. CASE Acknowledge
  BY <1>9, LedgerConstants DEF Acknowledge
<1>10. CASE Restart
  BY <1>10, RestartKeeps
<1>11. CASE UNCHANGED vars
  BY <1>11 DEF vars
<1> QED
  BY <1>1, <1>2, <1>3, <1>4, <1>5, <1>6, <1>7, <1>8, <1>9, <1>10, <1>11 DEF Next

(* The inductive invariant: types, the stage of a caller bounds the state of*)
(* its permit, one owner per operation, holds name answered permits, and an *)
(* overrun nobody has looked at is behind the hold or was overwritten.       *)
THEOREM Invariance == Spec => []IInv
<1> QED
  BY Initially, Inductive, PTL DEF Spec

(* The variables of the ledger keep their types.                            *)
THEOREM Typing == Spec => []TypeOK
<1> QED
  BY Invariance, PTL DEF IInv

(* A call whose request reached the provider keeps its reservation, or is   *)
(* billed, through any crash, retry and late report.                        *)
THEOREM SentMoneyHeld == Spec => []BilledNeverReleased
<1>1. IInv => BilledNeverReleased
  BY DEF IInv, TypeOK, Staged, BilledNeverReleased
<1> QED
  BY <1>1, Invariance, PTL

(* No operation reaches the provider under two permits.                     *)
THEOREM NoReplay == Spec => []SentOnce
<1>1. IInv => SentOnce
  BY DEF IInv, TypeOK, Staged, OneOwner, SentOnce
<1> QED
  BY <1>1, Invariance, PTL

(* Settled and released rows, and stored receipts, are final.               *)
THEOREM Final == Spec => FinalStatesStay
<1>1. IInv /\ [Next]_vars => [RowsFinal]_vars
  <2> SUFFICES ASSUME IInv, Next, NEW k \in Permits
               PROVE  /\ permit[k].state \in {"SETTLED", "NOT_SENT"} =>
                           /\ permit'[k].state = permit[k].state
                           /\ permit'[k].settled = permit[k].settled
                      /\ IsAnswered(permit[k]) => permit'[k].reply = permit[k].reply
    BY DEF RowsFinal
  <2>1. permit \in [Permits -> PermitType(Ops)]
    BY DEF IInv, TypeOK
  <2>2. ASSUME NEW id \in Permits, NEW op \in Ops, NEW amount \in Amounts,
               Prepare(id, op, amount)
        PROVE  permit'[k] = permit[k] \/ (permit[k].state = "FREE" /\ ~IsAnswered(permit[k]))
    BY <2>1, <2>2 DEF Prepare, IInv, Staged, IsAnswered
  <2>3. ASSUME NEW id \in Permits, Outcome(id) PROVE permit' = permit
    BY <2>3 DEF Outcome, Deliver, Refuse, LoseTrack, Reply
  <2>4. ASSUME NEW id \in Permits, ReportReply(id)
        PROVE  /\ permit[k].state \in {"SETTLED", "NOT_SENT"} =>
                    permit'[k].state = permit[k].state /\ permit'[k].settled = permit[k].settled
               /\ IsAnswered(permit[k]) => permit'[k].reply = permit[k].reply
    <3>1. CASE k # id
      BY <2>1, <2>4, <3>1 DEF ReportReply
    <3>2. CASE k = id
      <4> DEFINE r == call[id].reply
      <4>1. /\ permit'[k] = AfterReply(permit[k], r)
            /\ AcceptsReply(permit[k], r)
            /\ r \in ReplyType /\ r # NoReply
            /\ permit[k].state # "NOT_SENT"
        BY <2>1, <2>4, <3>2, RepliesTyped DEF ReportReply, IInv, Staged
      <4>2. ASSUME ~IsAnswered(permit[k]), permit[k].state = "SETTLED"
            PROVE  /\ AfterReply(permit[k], r).state = "SETTLED"
                   /\ AfterReply(permit[k], r).settled = permit[k].settled
        <5>1. r = Metered(permit[k].settled)
          BY <4>1, <4>2 DEF AcceptsReply, IsAnswered
        <5>2. r.kind = "metered" /\ r.cost = permit[k].settled
          BY <5>1 DEF Metered
        <5> HIDE DEF r
        <5> QED
          BY <2>1, <4>2, <5>2 DEF AfterReply, PermitType
      <4> HIDE DEF r
      <4>3. IsAnswered(permit[k]) => permit'[k] = permit[k]
        BY <2>1, <4>1, ReplyRow
      <4> QED
        BY <4>1, <4>2, <4>3
    <3> QED
      BY <3>1, <3>2
  <2>5. ASSUME NEW id \in Permits, ReportFailure(id)
        PROVE  /\ permit[k].state \in {"SETTLED", "NOT_SENT"} => permit'[k] = permit[k]
               /\ permit'[k].reply = permit[k].reply
    <3>1. \A b \in BOOLEAN : k = id /\ permit' = [permit EXCEPT ![id] = AfterFailure(@, b)]
            => /\ permit[k].state \in {"SETTLED", "NOT_SENT"} => permit'[k] = permit[k]
               /\ permit'[k].reply = permit[k].reply
      BY <2>1, FailureRow
    <3>2. CASE k # id
      BY <2>1, <2>5, <3>2 DEF ReportFailure
    <3> QED
      BY <2>5, <3>1, <3>2 DEF ReportFailure
  <2>6. ASSUME NEW id \in Permits, OwnerDecides(id)
        PROVE  /\ permit'[k] = permit[k] \/ permit[k].state = "UNKNOWN"
               /\ permit'[k].reply = permit[k].reply
    <3>1. CASE ConfirmNotBilled(id)
      BY <2>1, <3>1 DEF ConfirmNotBilled, PermitType
    <3>2. ASSUME NEW cost \in Costs, Reconcile(id, cost)
          PROVE  /\ permit'[k] = permit[k] \/ permit[k].state = "UNKNOWN"
                 /\ permit'[k].reply = permit[k].reply
      BY <2>1, <3>2, ReconcileRow, LedgerConstants DEF Reconcile
    <3>3. CASE Review(id)
      BY <3>3 DEF Review
    <3> QED
      BY <2>6, <3>1, <3>2, <3>3 DEF OwnerDecides
  <2>7. CASE Restart
    BY <2>1, <2>7, RestartRow DEF Restart
  <2>8. ASSUME \/ \E amount \in Allowances : Configure(amount)
               \/ SwitchOff \/ SwitchOn \/ Look \/ Acknowledge
        PROVE  permit' = permit
    BY <2>8 DEF Configure, SwitchOff, SwitchOn, Look, Acknowledge
  <2> QED
    BY <2>2, <2>3, <2>4, <2>5, <2>6, <2>7, <2>8 DEF Next, Report
<1> QED
  BY <1>1, Invariance, PTL DEF Spec, FinalStatesStay

(* No call is authorised over an overrun the owner has not looked at, unless  *)
(* a later overrun, which he has looked at, took its row over.               *)
THEOREM OverrunSeen == Spec => NoGrantOnUnseenOverrun
<1>1. IInv /\ [Next]_vars => [Grants => unlooked \subseteq overwritten]_vars
  <2> SUFFICES ASSUME IInv, Next, NEW k \in Permits,
                      permit[k].state = "FREE", permit'[k].state # "FREE"
               PROVE  unlooked \subseteq overwritten
    BY DEF Grants
  <2>1. permit[k] \in PermitType(Ops) /\ call[k].stage = "none"
    BY DEF IInv, TypeOK, Staged
  <2>2. ASSUME NEW id \in Permits, NEW op \in Ops, NEW amount \in Amounts,
               Prepare(id, op, amount)
        PROVE  unlooked \subseteq overwritten
    BY <2>2, LedgerConstants DEF Prepare, IsOn, IInv, TypeOK, UnseenHolds
  <2>3. ASSUME NEW id \in Permits, Outcome(id) \/ Report(id) \/ OwnerDecides(id)
        PROVE  FALSE
    <3>1. CASE k # id
      <4>1. permit'[k] = permit[k]
        BY <2>3, <3>1 DEF IInv, TypeOK, Outcome, Deliver, Refuse, LoseTrack, Reply, Report,
             ReportReply, ReportFailure, OwnerDecides, ConfirmNotBilled, Review, Reconcile
      <4> QED
        BY <4>1
    <3>2. CASE k = id
      <4>1. permit' = permit
        BY <2>1, <2>3, <3>2 DEF Outcome, Deliver, Refuse, LoseTrack, Reply, Report,
             ReportReply, ReportFailure, OwnerDecides, ConfirmNotBilled, Review, Reconcile
      <4> QED
        BY <4>1
    <3> QED
      BY <3>1, <3>2
  <2>4. CASE Restart
    BY <2>1, <2>4, RestartRow DEF Restart
  <2>5. ASSUME \/ \E amount \in Allowances : Configure(amount)
               \/ SwitchOff \/ SwitchOn \/ Look \/ Acknowledge
        PROVE  FALSE
    BY <2>5 DEF Configure, SwitchOff, SwitchOn, Look, Acknowledge
  <2> QED
    BY <2>2, <2>3, <2>4, <2>5 DEF Next
<1> QED
  BY <1>1, Invariance, PTL DEF Spec, NoGrantOnUnseenOverrun

-----------------------------------------------------------------------------
(* The ledger implements the account.                                       *)

(* A row that keeps what it holds and what was billed for it.               *)
LEMMA SameMoney ==
  ASSUME IInv, NEW id \in Permits, NEW q \in PermitType(Ops),
         permit' = [permit EXCEPT ![id] = q], UNCHANGED budget,
         SpentBy(q) = SpentBy(permit[id]), HeldBy(q) = HeldBy(permit[id]),
         ExcessBy(q) = ExcessBy(permit[id])
  PROVE  UNCHANGED Account!vars
<1>1. permit \in [Permits -> PermitType(Ops)] /\ permit[id] \in PermitType(Ops)
  BY DEF IInv, TypeOK
<1>2. /\ SpentBy(permit[id]) \in Nat /\ HeldBy(permit[id]) \in Nat
      /\ ExcessBy(permit[id]) \in Nat
  BY <1>1, RowMoney
<1>3. SpentAll \in Nat /\ Held \in Nat /\ Excess \in Nat
  BY <1>1, MoneyTyped
<1>4. /\ SpentAll' = (SpentAll - SpentBy(permit[id])) + SpentBy(q)
      /\ Held' = (Held - HeldBy(permit[id])) + HeldBy(q)
      /\ Excess' = (Excess - ExcessBy(permit[id])) + ExcessBy(q)
  BY <1>1, MoneyOfRow
<1>5. SpentAll' = SpentAll /\ Held' = Held /\ Excess' = Excess
  BY <1>2, <1>3, <1>4
<1> QED
  BY <1>5 DEF Account!vars

(* A held row that is settled is billed to the account: its reservation is  *)
(* replaced by the bill, and what the bill exceeds it by is excess.         *)
LEMMA SettledRow ==
  ASSUME IInv, NEW id \in Permits, NEW q \in PermitType(Ops),
         permit' = [permit EXCEPT ![id] = q], UNCHANGED budget,
         IsHeld(permit[id]), q.state = "SETTLED", q.reserved = permit[id].reserved
  PROVE  Account!Bill
<1>1. permit \in [Permits -> PermitType(Ops)] /\ permit[id] \in PermitType(Ops)
  BY DEF IInv, TypeOK
<1>2. SpentAll \in Nat /\ Held \in Nat /\ Excess \in Nat
  BY <1>1, MoneyTyped
<1>3. SpentAll' \in Nat /\ Held' \in Nat /\ Excess' \in Nat
  <2>1. permit' \in [Permits -> PermitType(Ops)]
    BY <1>1
  <2> QED
    BY <2>1, RowMoneyNext
<1>4. /\ SpentAll' = (SpentAll - SpentBy(permit[id])) + SpentBy(q)
      /\ Held' = (Held - HeldBy(permit[id])) + HeldBy(q)
      /\ Excess' = (Excess - ExcessBy(permit[id])) + ExcessBy(q)
  BY <1>1, MoneyOfRow
<1> DEFINE c == q.settled
           a == permit[id].reserved
<1>5. c \in Nat /\ a \in Nat
  BY <1>1 DEF PermitType
<1>6. /\ SpentBy(permit[id]) = 0 /\ HeldBy(permit[id]) = a /\ ExcessBy(permit[id]) = 0
      /\ SpentBy(q) = c /\ HeldBy(q) = 0 /\ ExcessBy(q) = IF c > a THEN c - a ELSE 0
  BY DEF SpentBy, HeldBy, ExcessBy, IsHeld
<1> HIDE DEF c, a
<1>7. /\ SpentAll' = SpentAll + c /\ Held' = Held - a
      /\ Excess' = IF c > a THEN Excess + (c - a) ELSE Excess
  BY <1>2, <1>4, <1>5, <1>6
<1>8. (SpentAll' - SpentAll) - (Held - Held') = c - a
  BY <1>2, <1>5, <1>7
<1>9. Excess' = LET over == (SpentAll' - SpentAll) - (Held - Held')
                IN  IF over > 0 THEN Excess + over ELSE Excess
  BY <1>2, <1>5, <1>7, <1>8
<1>10. Held' <= Held /\ SpentAll' >= SpentAll
  BY <1>2, <1>3, <1>5, <1>7
<1> QED
  BY <1>3, <1>9, <1>10 DEF Account!Bill

(* A held row known not to have left gives its reservation back.            *)
LEMMA ReleasedRow ==
  ASSUME IInv, NEW id \in Permits, NEW q \in PermitType(Ops),
         permit' = [permit EXCEPT ![id] = q], UNCHANGED budget,
         IsHeld(permit[id]), q.state = "NOT_SENT"
  PROVE  Account!Release
<1>1. permit \in [Permits -> PermitType(Ops)] /\ permit[id] \in PermitType(Ops)
  BY DEF IInv, TypeOK
<1>2. SpentAll \in Nat /\ Held \in Nat /\ Excess \in Nat
  BY <1>1, MoneyTyped
<1>3. SpentAll' \in Nat /\ Held' \in Nat /\ Excess' \in Nat
  <2>1. permit' \in [Permits -> PermitType(Ops)]
    BY <1>1
  <2> QED
    BY <2>1, RowMoneyNext
<1>4. /\ SpentAll' = (SpentAll - SpentBy(permit[id])) + SpentBy(q)
      /\ Held' = (Held - HeldBy(permit[id])) + HeldBy(q)
      /\ Excess' = (Excess - ExcessBy(permit[id])) + ExcessBy(q)
  BY <1>1, MoneyOfRow
<1>5. /\ SpentBy(permit[id]) = 0 /\ ExcessBy(permit[id]) = 0
      /\ SpentBy(q) = 0 /\ HeldBy(q) = 0 /\ ExcessBy(q) = 0
  BY DEF SpentBy, HeldBy, ExcessBy, IsHeld
<1>6. HeldBy(permit[id]) \in Nat
  BY <1>1, RowMoney
<1>7. SpentAll' = SpentAll /\ Excess' = Excess /\ Held' <= Held
  BY <1>2, <1>3, <1>4, <1>5, <1>6
<1> QED
  BY <1>3, <1>7 DEF Account!Release

(* An empty company is an empty account.                                    *)
LEMMA AccountInit == Init => Account!Init
<1> SUFFICES ASSUME Init PROVE Account!Init
  OBVIOUS
<1>1. \A id \in Permits : /\ SpentBy(permit[id]) = 0 /\ HeldBy(permit[id]) = 0
                          /\ ExcessBy(permit[id]) = 0
  BY DEF Init, FreePermit, SpentBy, HeldBy, ExcessBy, IsHeld
<1>2. SumFunction([id \in Permits |-> 0]) = 0
  BY SumZero, LedgerConstants
<1>3. /\ [id \in Permits |-> SpentBy(permit[id])] = [id \in Permits |-> 0]
      /\ [id \in Permits |-> HeldBy(permit[id])] = [id \in Permits |-> 0]
      /\ [id \in Permits |-> ExcessBy(permit[id])] = [id \in Permits |-> 0]
  BY <1>1
<1>4. SpentAll = 0 /\ Held = 0 /\ Excess = 0
  BY <1>2, <1>3 DEF SpentAll, Held, Excess
<1> QED
  BY <1>4 DEF Init, Account!Init

(* prepare() reserves within what is left of the allowance.                 *)
LEMMA PrepareReserves ==
  ASSUME IInv, NEW id \in Permits, NEW op \in Ops, NEW amount \in Amounts,
         Prepare(id, op, amount)
  PROVE  Account!Reserve
<1> DEFINE q == Authorized(op, amount)
<1>1. permit \in [Permits -> PermitType(Ops)] /\ amount \in Nat
  BY LedgerConstants DEF IInv, TypeOK
<1>2. /\ q \in PermitType(Ops)
      /\ SpentBy(q) = 0 /\ HeldBy(q) = amount /\ ExcessBy(q) = 0
  BY <1>1, RepliesTyped
     DEF Authorized, PermitType, PermitStates, SpentBy, HeldBy, ExcessBy, IsHeld
<1>3. permit' = [permit EXCEPT ![id] = q] /\ permit[id].state = "FREE" /\ UNCHANGED budget
  BY DEF Prepare
<1>4. /\ SpentBy(permit[id]) = 0 /\ HeldBy(permit[id]) = 0 /\ ExcessBy(permit[id]) = 0
  BY <1>3 DEF SpentBy, HeldBy, ExcessBy, IsHeld
<1> HIDE DEF q
<1>5. SpentAll \in Nat /\ Held \in Nat /\ Excess \in Nat
  BY <1>1, MoneyTyped
<1>6. /\ SpentAll' = (SpentAll - SpentBy(permit[id])) + SpentBy(q)
      /\ Held' = (Held - HeldBy(permit[id])) + HeldBy(q)
      /\ Excess' = (Excess - ExcessBy(permit[id])) + ExcessBy(q)
  BY <1>1, <1>2, <1>3, MoneyOfRow
<1>7. SpentAll' = SpentAll /\ Held' = Held + amount /\ Excess' = Excess
  BY <1>1, <1>2, <1>4, <1>5, <1>6
<1>8. SpentAll + Held' <= budget.total
  <2>1. budget.total \in Nat /\ budget.baseline \in Nat
    BY DEF IInv, TypeOK
  <2>2. amount <= Available /\ Available > 0
    BY DEF Prepare, IsOn
  <2> DEFINE left == Total - Spent - Held
  <2>3. left = (budget.total - SpentAll) - Held
    BY <1>5, <2>1 DEF Total, Spent
  <2>4. left > 0 /\ amount <= left
    BY <1>5, <2>1, <2>2, <2>3 DEF Available
  <2> HIDE DEF left
  <2> QED
    BY <1>1, <1>5, <1>7, <2>1, <2>3, <2>4
<1> QED
  BY <1>1, <1>3, <1>5, <1>7, <1>8 DEF Account!Reserve

(* A receipt is billed once; any other report leaves the account alone.     *)
LEMMA ReplyBills ==
  ASSUME IInv, NEW id \in Permits, ReportReply(id)
  PROVE  Account!Bill \/ UNCHANGED Account!vars
<1> DEFINE r == call[id].reply
           q == AfterReply(permit[id], r)
<1>1. /\ r \in Replies /\ r \in ReplyType /\ r # NoReply
      /\ permit[id] \in PermitType(Ops)
      /\ permit[id].state \notin {"FREE", "NOT_SENT"}
      /\ AcceptsReply(permit[id], r)
  BY RepliesTyped DEF ReportReply, IInv, Staged, TypeOK
<1>2. q \in PermitType(Ops)
  BY <1>1, ReplyRow
<1>3. permit' = [permit EXCEPT ![id] = q] /\ UNCHANGED budget
  BY DEF ReportReply
<1>4. CASE IsAnswered(permit[id])
  <2>1. q = permit[id]
    BY <1>4 DEF AfterReply
  <2> HIDE DEF q
  <2> QED
    BY <1>2, <1>3, <2>1, SameMoney
<1>5. CASE ~IsAnswered(permit[id]) /\ IsHeld(permit[id])
  <2>1. CASE r.kind = "metered"
    <3>1. q.state = "SETTLED" /\ q.reserved = permit[id].reserved
      BY <1>1, <1>5, <2>1 DEF AfterReply, PermitType
    <3> HIDE DEF q
    <3> QED
      BY <1>2, <1>3, <1>5, <3>1, SettledRow
  <2>2. CASE r.kind # "metered"
    <3>1. q.state = "UNKNOWN" /\ q.reserved = permit[id].reserved
      BY <1>1, <1>5, <2>2 DEF AfterReply, PermitType
    <3>2. SpentBy(q) = SpentBy(permit[id]) /\ HeldBy(q) = HeldBy(permit[id])
          /\ ExcessBy(q) = ExcessBy(permit[id])
      BY <1>5, <3>1 DEF SpentBy, HeldBy, ExcessBy, IsHeld
    <3> HIDE DEF q
    <3> QED
      BY <1>2, <1>3, <3>2, SameMoney
  <2> QED
    BY <2>1, <2>2
(* The bill was settled by hand: a receipt of that very cost adds nothing.  *)
<1>6. CASE ~IsAnswered(permit[id]) /\ ~IsHeld(permit[id])
  <2>1. permit[id].state = "SETTLED"
    BY <1>1, <1>6 DEF IsHeld, PermitType, PermitStates
  <2>2. r = Metered(permit[id].settled)
    BY <1>1, <1>6, <2>1 DEF AcceptsReply, IsAnswered
  <2>3. q.state = "SETTLED" /\ q.settled = permit[id].settled /\ q.reserved = permit[id].reserved
    BY <1>1, <1>6, <2>2 DEF AfterReply, Metered, PermitType
  <2>4. SpentBy(q) = SpentBy(permit[id]) /\ HeldBy(q) = HeldBy(permit[id])
        /\ ExcessBy(q) = ExcessBy(permit[id])
    BY <2>1, <2>3 DEF SpentBy, HeldBy, ExcessBy, IsHeld
  <2> HIDE DEF q
  <2> QED
    BY <1>2, <1>3, <2>4, SameMoney
<1> QED
  BY <1>4, <1>5, <1>6

(* failure() gives money back only of a call that is known not to have left.*)
LEMMA FailureReleases ==
  ASSUME IInv, NEW id \in Permits, ReportFailure(id)
  PROVE  Account!Release \/ UNCHANGED Account!vars
<1> DEFINE b == call[id].stage = "refused"
           q == AfterFailure(permit[id], b)
<1>1. permit[id] \in PermitType(Ops) /\ b \in BOOLEAN
  BY DEF IInv, TypeOK
<1>2. q \in PermitType(Ops)
  BY <1>1, FailureRow
<1>3. permit' = [permit EXCEPT ![id] = q] /\ UNCHANGED budget
  BY DEF ReportFailure
<1>4. CASE IsHeld(permit[id]) /\ ~IsAnswered(permit[id]) /\ b
  <2>1. q.state = "NOT_SENT"
    BY <1>1, <1>4 DEF AfterFailure, PermitType
  <2> HIDE DEF q, b
  <2> QED
    BY <1>2, <1>3, <1>4, <2>1, ReleasedRow
<1>5. CASE IsHeld(permit[id]) /\ ~IsAnswered(permit[id]) /\ ~b
  <2>1. q.state = "UNKNOWN" /\ q.reserved = permit[id].reserved
    BY <1>1, <1>5 DEF AfterFailure, PermitType
  <2>2. SpentBy(q) = SpentBy(permit[id]) /\ HeldBy(q) = HeldBy(permit[id])
        /\ ExcessBy(q) = ExcessBy(permit[id])
    BY <1>5, <2>1 DEF SpentBy, HeldBy, ExcessBy, IsHeld
  <2> HIDE DEF q, b
  <2> QED
    BY <1>2, <1>3, <2>2, SameMoney
<1>6. CASE ~(IsHeld(permit[id]) /\ ~IsAnswered(permit[id]))
  <2>1. q = permit[id]
    BY <1>6 DEF AfterFailure
  <2> HIDE DEF q, b
  <2> QED
    BY <1>2, <1>3, <2>1, SameMoney
<1> QED
  BY <1>4, <1>5, <1>6

(* The owner's decision bills, releases, or keeps the money held.           *)
LEMMA OwnerSettles ==
  ASSUME IInv, NEW id \in Permits, OwnerDecides(id)
  PROVE  Account!Bill \/ Account!Release \/ UNCHANGED Account!vars
<1>1. permit[id] \in PermitType(Ops)
  BY DEF IInv, TypeOK
<1>2. CASE ConfirmNotBilled(id)
  <2> DEFINE q == [permit[id] EXCEPT !.state = "NOT_SENT"]
  <2>1. q \in PermitType(Ops) /\ q.state = "NOT_SENT"
    BY <1>1 DEF PermitType, PermitStates
  <2>2. /\ permit' = [permit EXCEPT ![id] = q]
        /\ UNCHANGED budget /\ IsHeld(permit[id])
    BY <1>2 DEF ConfirmNotBilled, IsHeld
  <2> HIDE DEF q
  <2> QED
    BY <2>1, <2>2, ReleasedRow
<1>3. ASSUME NEW cost \in Costs, Reconcile(id, cost) PROVE Account!Bill
  <2> DEFINE q == AfterReconcile(permit[id], cost)
  <2>1. cost \in Nat
    BY LedgerConstants
  <2>2. q \in PermitType(Ops) /\ q.state = "SETTLED" /\ q.reserved = permit[id].reserved
    BY <1>1, <2>1, ReconcileRow DEF AfterReconcile, PermitType
  <2>3. permit' = [permit EXCEPT ![id] = q] /\ UNCHANGED budget /\ IsHeld(permit[id])
    BY <1>3 DEF Reconcile, IsHeld
  <2> HIDE DEF q
  <2> QED
    BY <2>2, <2>3, SettledRow
<1>4. CASE Review(id)
  BY <1>4 DEF Review, Account!vars, SpentAll, Held, Excess
<1> QED
  BY <1>2, <1>3, <1>4 DEF OwnerDecides

(* A restart makes calls unknown, and unknown calls hold their money.       *)
LEMMA RestartKeepsMoney == IInv /\ Restart => UNCHANGED Account!vars
<1> SUFFICES ASSUME IInv, Restart PROVE UNCHANGED Account!vars
  OBVIOUS
<1>1. \A k \in Permits : permit[k] \in PermitType(Ops) /\ permit'[k] = AfterRestart(permit[k])
  BY DEF Restart, IInv, TypeOK
<1>2. \A p \in PermitType(Ops) :
        /\ SpentBy(AfterRestart(p)) = SpentBy(p) /\ HeldBy(AfterRestart(p)) = HeldBy(p)
        /\ ExcessBy(AfterRestart(p)) = ExcessBy(p)
  BY DEF PermitType, AfterRestart, SpentBy, HeldBy, ExcessBy, IsHeld
<1>3. \A k \in Permits : /\ SpentBy(permit'[k]) = SpentBy(permit[k])
                         /\ HeldBy(permit'[k]) = HeldBy(permit[k])
                         /\ ExcessBy(permit'[k]) = ExcessBy(permit[k])
  BY <1>1, <1>2
<1>4. /\ [k \in Permits |-> SpentBy(permit'[k])] = [k \in Permits |-> SpentBy(permit[k])]
      /\ [k \in Permits |-> HeldBy(permit'[k])] = [k \in Permits |-> HeldBy(permit[k])]
      /\ [k \in Permits |-> ExcessBy(permit'[k])] = [k \in Permits |-> ExcessBy(permit[k])]
  BY <1>3
<1>5. SpentAll' = SpentAll /\ Held' = Held /\ Excess' = Excess
  BY <1>4 DEF SpentAll, Held, Excess
<1> QED
  BY <1>5 DEF Restart, Account!vars

(* configure(): the new allowance covers what is held.                      *)
LEMMA ConfigureAuthorizes ==
  ASSUME IInv, NEW amount \in Allowances, Configure(amount)
  PROVE  Account!Authorize
<1>1. SpentAll \in Nat /\ Held \in Nat /\ amount \in Nat
  BY MoneyTyped, LedgerConstants DEF IInv, TypeOK
<1>2. budget'.total = SpentAll + amount /\ amount >= Held /\ UNCHANGED permit
  BY DEF Configure, Authorize
<1>3. SpentAll' = SpentAll /\ Held' = Held /\ Excess' = Excess
  BY <1>2 DEF SpentAll, Held, Excess
<1> QED
  BY <1>1, <1>2, <1>3 DEF Account!Authorize

(* Every step of the ledger is a step of the account, or none.              *)
LEMMA AccountStep == IInv /\ [Next]_vars => [Account!Next]_(Account!vars)
<1> SUFFICES ASSUME IInv, [Next]_vars PROVE Account!Next \/ UNCHANGED Account!vars
  OBVIOUS
<1>0. ASSUME UNCHANGED <<permit, budget>> PROVE UNCHANGED Account!vars
  BY <1>0 DEF Account!vars, SpentAll, Held, Excess
<1>1. ASSUME NEW id \in Permits, NEW op \in Ops, NEW amount \in Amounts,
             Prepare(id, op, amount)
      PROVE  Account!Next
  BY <1>1, PrepareReserves DEF Account!Next
<1>2. ASSUME NEW id \in Permits, Outcome(id) PROVE UNCHANGED <<permit, budget>>
  BY <1>2 DEF Outcome, Deliver, Refuse, LoseTrack, Reply
<1>3. ASSUME NEW id \in Permits, Report(id) PROVE Account!Next \/ UNCHANGED Account!vars
  BY <1>3, ReplyBills, FailureReleases DEF Report, Account!Next
<1>4. ASSUME NEW id \in Permits, OwnerDecides(id) PROVE Account!Next \/ UNCHANGED Account!vars
  BY <1>4, OwnerSettles DEF Account!Next
<1>5. ASSUME NEW amount \in Allowances, Configure(amount) PROVE Account!Next
  BY <1>5, ConfigureAuthorizes DEF Account!Next
<1>6. CASE SwitchOff \/ SwitchOn \/ Look \/ Acknowledge \/ UNCHANGED vars
  BY <1>0, <1>6 DEF SwitchOff, SwitchOn, Look, Acknowledge, vars
<1>7. CASE Restart
  BY <1>7, RestartKeepsMoney
<1> QED
  BY <1>0, <1>1, <1>2, <1>3, <1>4, <1>5, <1>6, <1>7 DEF Next

(* The table of permits, reservations and receipts, with its callers, the   *)
(* provider, the restarts and the owner's decisions, implements the account *)
(* of BudgetAccount: whatever the bills, the amounts and the allowances.    *)
THEOREM AccountImplemented == Spec => AccountSpec
<1> QED
  BY AccountInit, AccountStep, Invariance, PTL DEF Spec, AccountSpec, Account!Spec

-----------------------------------------------------------------------------
(* The arithmetic of the four operations, on plain amounts. *)

(* An allowance that covers what is spent and held is not exceeded.         *)
LEMMA NewAllowance ==
  \A t, s, h, e \in Nat : t >= s + h => s + h <= t + e
  BY SMT

(* A reservation within the allowance keeps it covered.                     *)
LEMMA NewReservation ==
  \A t, s, h, e \in Nat : s + h <= t => s + h <= t + e
  BY SMT

(* A bill above its reservation is excess, one below it leaves slack. *)
LEMMA NewBill ==
  \A t, s, h, e, s2, h2 \in Nat :
    s + h <= t + e /\ h2 <= h /\ s <= s2 =>
      LET over == (s2 - s) - (h - h2)
          e2 == IF over > 0 THEN e + over ELSE e
      IN  e2 \in Nat /\ s2 + h2 <= t + e2
  BY SMT

(* Money given back leaves the rest covered.                                *)
LEMMA MoneyBack ==
  \A t, s, h, e, h2 \in Nat : s + h <= t + e /\ h2 <= h => s + h2 <= t + e
  BY SMT

(* The account never promises more than was authorised, plus what bills     *)
(* exceeded their reservations by: whatever the amounts and however many    *)
(* periods are authorised (OwnerCompanyBudget.reserve(), configure()).  The *)
(* proof reads nothing of the ledger: the four amounts could be any.        *)
THEOREM AccountCovered == Account!Spec => [](Account!TypeOK /\ Account!Covered)
<1>1. Account!Init => Account!TypeOK /\ Account!Covered
  BY DEF Account!Init, Account!TypeOK, Account!Covered
<1>2. Account!TypeOK /\ Account!Covered /\ [Account!Next]_(Account!vars)
        => (Account!TypeOK /\ Account!Covered)'
  <2> SUFFICES ASSUME Account!TypeOK, Account!Covered, [Account!Next]_(Account!vars)
               PROVE  Account!TypeOK' /\ Account!Covered'
    OBVIOUS
  <2>1. CASE Account!Authorize
    <3>1. Account!TypeOK'
      BY <2>1 DEF Account!Authorize, Account!TypeOK
    <3> QED
      BY <2>1, <3>1, NewAllowance, Zenon DEF Account!Authorize, Account!TypeOK, Account!Covered
  <2>2. CASE Account!Reserve
    <3>1. Account!TypeOK'
      BY <2>2 DEF Account!Reserve, Account!TypeOK
    <3> QED
      BY <2>2, <3>1, NewReservation, Zenon DEF Account!Reserve, Account!TypeOK, Account!Covered
  <2>3. CASE Account!Bill
    BY <2>3, NewBill, Zenon DEF Account!Bill, Account!TypeOK, Account!Covered
  <2>4. CASE Account!Release
    BY <2>4, MoneyBack, Zenon DEF Account!Release, Account!TypeOK, Account!Covered
  <2>5. CASE UNCHANGED Account!vars
    BY <2>5, Zenon DEF Account!vars, Account!TypeOK, Account!Covered
  <2> QED
    BY <2>1, <2>2, <2>3, <2>4, <2>5 DEF Account!Next
<1> QED
  BY <1>1, <1>2, PTL DEF Account!Spec

(* What is spent and held stays within what the owner authorised, plus what *)
(* bills went beyond their reservations by: the account's theorem, read off *)
(* the ledger.                                                              *)
THEOREM MoneyStaysCovered == Spec => []MoneyCovered
<1>1. Account!Spec => [](Account!TypeOK /\ Account!Covered)
  BY AccountCovered
<1>2. Account!Covered => MoneyCovered
  BY DEF Account!Covered, MoneyCovered
<1> QED
  BY <1>1, <1>2, AccountImplemented, PTL DEF AccountSpec

=============================================================================

--------------------------- MODULE PaymentsProofs ---------------------------
(***************************************************************************)
(* An invoice is paid once and its order follows, and no cursor passes a     *)
(* transfer that left no trace, for any number of transfers, scans, pages    *)
(* and deaths.                                                              *)
(*                                                                         *)
(* Not inductive alone: a receipt exists exactly when the invoice is        *)
(* FINALIZED (SettledOnce), and only a transfer of a customer who was shown *)
(* a linked order leads to one (ShownFirst); otherwise an order that is told *)
(* of its receipt could refuse it.  That every transfer a scan reads is one  *)
(* of the chain's needs the types, and that a finite page has a newest       *)
(* transfer.                                                                *)
(***************************************************************************)
EXTENDS Payments, FiniteSetTheorems, TLAPS

Orders == [state : {"none", "PENDING", "AWAITING_PAYMENT", "PAID", "CANCELLED"}, linked : BOOLEAN]
Invoices == [status : {"none", "WAITING", "OBSERVED", "REVIEW_REQUIRED", "FINALIZED", "CANCELLED",
                       "EXPIRED"},
             cancelled : BOOLEAN]
Scans == [pc : {"idle", "list", "read", "again", "deliver", "sweep", "check", "file", "last"},
          todo : SUBSET Transfers, page : Nat, more : BOOLEAN, last : Nat, before : Nat, head : Nat]
Cursors == [last : Nat, before : Nat, head : Nat]

Typed ==
  /\ tx \in [Transfers -> [stage : {"none", "confirmed", "final", "dropped"}, late : BOOLEAN]]
  /\ late \in BOOLEAN
  /\ order \in Orders /\ invoice \in Invoices
  /\ cursor \in Cursors /\ scan \in [Scanners -> Scans]

\* A receipt is there exactly when the invoice is settled, and it is the only one.
SettledOnce ==
  /\ receipts = {} => ~Settled
  /\ receipts # {} => Settled /\ \E t \in Transfers : receipts = {t}

ShownFirst == Landed # {} \/ receipts # {} => order.linked

OrderFollows ==
  /\ told \subseteq receipts
  /\ order.state = "PAID" => receipts # {}
  /\ told # {} => order.state = "PAID"

Money == SettledOnce /\ ShownFirst /\ OrderFollows
IInv == Typed /\ Money

-----------------------------------------------------------------------------
(* A set of bounded numbers has a greatest and a least element.  Without a   *)
(* greatest one, adding 1 would map the finite set of numbers below some     *)
(* element into itself without 0.                                           *)
LEMMA MaxIn ==
  ASSUME NEW n \in Nat, NEW S \in SUBSET (0..n), S # {}
  PROVE  Max(S) \in S /\ \A y \in S : Max(S) >= y
<1> SUFFICES ASSUME \A x \in S : \E y \in S : ~(x >= y) PROVE FALSE
  BY DEF Max
<1> DEFINE U == {k \in 0..n : \E y \in S : k <= y}
           next == [k \in U |-> k + 1]
<1>1. IsFiniteSet(U) /\ 0 \in U
  <2>1. IsFiniteSet(0..n) /\ U \subseteq 0..n
    BY FS_Interval
  <2>2. IsFiniteSet(U)
    BY <2>1, FS_Subset
  <2>3. PICK y \in S : TRUE
    OBVIOUS
  <2>4. 0 \in U
    BY <2>3
  <2> QED
    BY <2>2, <2>4
<1>2. ASSUME NEW k \in U PROVE k + 1 \in U \ {0}
  <2>1. PICK y \in S : k <= y
    OBVIOUS
  <2>2. PICK z \in S : y < z
    OBVIOUS
  <2> QED
    BY <2>1, <2>2
<1>3. next \in Injection(U, U \ {0})
  <2>1. next \in [U -> U \ {0}]
    BY <1>2
  <2>2. \A j, k \in U : next[j] = next[k] => j = k
    OBVIOUS
  <2> QED
    BY <2>1, <2>2 DEF Injection, IsInjective
<1> HIDE DEF U, next
<1>4. /\ IsFiniteSet(U \ {0}) /\ Cardinality(U \ {0}) = Cardinality(U) - 1
      /\ Cardinality(U) \in Nat
  BY <1>1, FS_RemoveElement, FS_CardinalityType
<1>5. Cardinality(U) <= Cardinality(U \ {0})
  BY <1>3, <1>4, FS_Injection
<1> QED
  BY <1>4, <1>5

LEMMA MinIn ==
  ASSUME NEW n \in Nat, NEW S \in SUBSET (0..n), S # {}
  PROVE  Min(S) \in S /\ \A y \in S : Min(S) <= y
<1> DEFINE T == {n - x : x \in S}
<1>1. T \in SUBSET (0..n) /\ T # {}
  OBVIOUS
<1>2. \E x \in S : \A y \in S : x <= y
  <2> HIDE DEF T
  <2>1. Max(T) \in T /\ \A z \in T : Max(T) >= z
    BY <1>1, MaxIn
  <2>2. PICK x \in S : Max(T) = n - x
    BY <2>1 DEF T
  <2>3. \A y \in S : n - y \in T
    BY DEF T
  <2> QED
    BY <2>1, <2>2, <2>3
<1> QED
  BY <1>2 DEF Min

-----------------------------------------------------------------------------
(* Scans: what one reads is a transfer, and its fields keep their types.    *)
LEMMA CurrentIn ==
  ASSUME PaymentConstants, Typed, NEW w \in Scanners, scan[w].todo # {}
  PROVE  Current(w) \in scan[w].todo /\ Current(w) \in Transfers
<1>1. scan[w].todo \in SUBSET Transfers
  BY DEF Typed, Scans
<1>2. scan[w].todo \in SUBSET (0..MaxTransfers) /\ MaxTransfers \in Nat
  BY <1>1 DEF Transfers, PaymentConstants
<1> QED
  BY <1>1, <1>2, MaxIn DEF Current

LEMMA SetTyped ==
  ASSUME Typed, NEW w \in Scanners, NEW s \in Scans, Set(w, s)
  PROVE  scan' \in [Scanners -> Scans]
<1>1. scan \in [Scanners -> Scans]
  BY DEF Typed
<1> QED
  BY <1>1 DEF Set

LEMMA NoScanTyped == NoScan \in Scans
  BY DEF NoScan, Scans

LEMMA PassedTyped ==
  ASSUME Typed, NEW w \in Scanners, Passed(w)
  PROVE  scan' \in [Scanners -> Scans]
<1>1. scan[w] \in Scans
  BY DEF Typed
<1>2. [scan[w] EXCEPT !.todo = @ \ {Current(w)}] \in Scans
  BY <1>1 DEF Scans
<1> QED
  BY <1>2, SetTyped DEF Passed

-----------------------------------------------------------------------------
(* Money: what the writes of the two databases keep.                        *)
LEMMA MoneyStays ==
  ASSUME IInv, UNCHANGED <<order, invoice, receipts, told>>, Landed' # {} => Landed # {} \/ order.linked
  PROVE  Money'
  BY DEF IInv, Money, SettledOnce, ShownFirst, OrderFollows, Settled

LEMMA LandedStays == ASSUME UNCHANGED tx PROVE Landed' = Landed
  BY DEF Landed

LEMMA OrderMoves ==
  ASSUME IInv
  PROVE  /\ PaidOrder \in Orders /\ PaidOrder.linked = order.linked
         /\ PaidOrder.state = IF order.linked THEN "PAID" ELSE order.state
         /\ Followed \in Orders /\ Followed.linked = order.linked
         /\ Settled => Followed = PaidOrder
         /\ ~Settled => Followed.state \in {order.state, "CANCELLED"}
         /\ ~Settled /\ order.state = "PAID" => Followed.state = "PAID"
<1>1. order \in Orders
  BY DEF IInv, Typed
<1> QED
  BY <1>1 DEF Orders, PaidOrder, Followed, Settled

\* One transaction of observe(): at most one receipt, of an order that was shown.
LEMMA Records ==
  ASSUME IInv, NEW t \in Transfers, NEW final \in BOOLEAN, final => tx[t].stage = "final",
         Record(t, final)
  PROVE  /\ invoice' \in Invoices /\ SettledOnce'
         /\ receipts \subseteq receipts' /\ (receipts' # {} => order.linked)
<1> DEFINE fresh == t \notin receipts /\ ~Settled
           status == Status(t, final)
<1>1. invoice \in Invoices /\ status \in {"REVIEW_REQUIRED", "FINALIZED", "OBSERVED"}
      /\ (status = "FINALIZED" => final)
  BY DEF IInv, Typed, Status
<1>2. /\ invoice' = IF fresh THEN [invoice EXCEPT !.status = status] ELSE invoice
      /\ receipts' = IF fresh /\ status = "FINALIZED" THEN receipts \cup {t} ELSE receipts
  BY DEF Record
<1> HIDE DEF status
<1>3. CASE fresh /\ status = "FINALIZED"
  <2>1. receipts = {}
    BY <1>3 DEF IInv, Money, SettledOnce
  <2>2. receipts' = {t} /\ invoice'.status = "FINALIZED" /\ invoice' \in Invoices
    BY <1>1, <1>2, <1>3, <2>1 DEF Invoices
  <2>3. Landed # {}
    BY <1>1, <1>3 DEF Landed
  <2> QED
    BY <2>1, <2>2, <2>3 DEF IInv, Money, ShownFirst, SettledOnce, Settled
<1>4. CASE fresh /\ status # "FINALIZED"
  <2>1. receipts' = receipts /\ invoice'.status # "FINALIZED" /\ invoice' \in Invoices
    BY <1>1, <1>2, <1>4 DEF Invoices
  <2> QED
    BY <1>4, <2>1 DEF IInv, Money, ShownFirst, SettledOnce, Settled
<1>5. CASE ~fresh
  BY <1>1, <1>2, <1>5 DEF IInv, Money, ShownFirst, SettledOnce, Settled
<1> QED
  BY <1>3, <1>4, <1>5

LEMMA Observes ==
  ASSUME IInv, NEW t \in Transfers, NEW final \in BOOLEAN, final => tx[t].stage = "final",
         Observe(t, final), UNCHANGED <<tx, told>>
  PROVE  order' \in Orders /\ invoice' \in Invoices /\ Money'
<1>1. /\ invoice' \in Invoices /\ SettledOnce'
      /\ receipts \subseteq receipts' /\ (receipts' # {} => order.linked)
  BY Records DEF Observe
<1>2. order' = IF t \in receipts' THEN PaidOrder ELSE order
  BY DEF Observe
<1>3. order' \in Orders /\ order'.linked = order.linked
  BY <1>2, OrderMoves DEF IInv, Typed
<1>4. ShownFirst'
  BY <1>1, <1>3, LandedStays DEF IInv, Money, ShownFirst
<1>5. OrderFollows'
  BY <1>1, <1>2, OrderMoves DEF IInv, Money, OrderFollows
<1> QED
  BY <1>1, <1>3, <1>4, <1>5 DEF Money

\* deliverMemories(): the order is told, then the outbox says so.
LEMMA Tells ==
  ASSUME IInv, order' = Delivered, told' \in {told, receipts}, UNCHANGED <<tx, invoice, receipts>>
  PROVE  order' \in Orders /\ Money'
<1>1. order' \in Orders /\ order'.linked = order.linked
  BY OrderMoves DEF Delivered, IInv, Typed
<1>2. SettledOnce' /\ ShownFirst'
  BY <1>1, LandedStays DEF IInv, Money, SettledOnce, ShownFirst, Settled
<1>3. receipts # {} => order.linked
  BY DEF IInv, Money, ShownFirst
<1>4. OrderFollows'
  <2>1. CASE receipts = told
    BY <2>1 DEF Delivered, IInv, Money, OrderFollows
  <2>2. CASE receipts # told
    BY <1>3, <2>2, OrderMoves DEF Delivered, IInv, Money, OrderFollows
  <2> QED
    BY <2>1, <2>2
<1> QED
  BY <1>1, <1>2, <1>4 DEF Money

-----------------------------------------------------------------------------
(* The actions.                                                             *)
LEMMA StartsPaid == ASSUME PaymentConstants, PayInit PROVE IInv
<1>1. Typed
  BY NoScanTyped DEF PayInit, Typed, Orders, Invoices, Cursors
<1>2. Money
  BY DEF PayInit, Money, SettledOnce, ShownFirst, OrderFollows, Settled, Landed
<1> QED
  BY <1>1, <1>2 DEF IInv

\* What is written of an order that is not paid, and of an invoice without a status.
LEMMA Creates ==
  ASSUME IInv, order.state # "PAID", order' \in {Linked, [order EXCEPT !.state = "PENDING"]},
         invoice' \in {invoice, NewInvoice}, UNCHANGED <<tx, receipts, told>>
  PROVE  order' \in Orders /\ invoice' \in Invoices /\ Money'
<1>1. order \in Orders /\ invoice \in Invoices
  BY DEF IInv, Typed
<1>2. order' \in Orders /\ (order.linked => order'.linked) /\ order'.state # "PAID"
  <2>1. CASE order' = Linked
    BY <2>1 DEF Orders, Linked
  <2>2. CASE order' = [order EXCEPT !.state = "PENDING"]
    BY <1>1, <2>2 DEF Orders
  <2> QED
    BY <2>1, <2>2
<1>3. invoice' \in Invoices /\ (Settled' <=> Settled)
  BY <1>1 DEF Invoices, NewInvoice, Settled
<1>4. told = {}
  BY DEF IInv, Money, OrderFollows
<1> QED
  BY <1>2, <1>3, <1>4, LandedStays DEF IInv, Money, SettledOnce, ShownFirst, OrderFollows

LEMMA CreateKeeps == ASSUME IInv, CreateOrder PROVE IInv'
<1>1. order' \in Orders /\ invoice' \in Invoices /\ Money'
  BY Creates DEF CreateOrder
<1>2. scan' \in [Scanners -> Scans]
  BY NoScanTyped DEF CreateOrder, IInv, Typed
<1> QED
  BY <1>1, <1>2 DEF CreateOrder, IInv, Typed

\* The order follows the invoice: paid with it, cancelled only while it is not.
LEMMA FollowKeeps ==
  ASSUME IInv, order' = Followed, UNCHANGED <<tx, invoice, receipts, told>>
  PROVE  order' \in Orders /\ Money'
<1>1. SettledOnce' /\ ShownFirst'
  BY OrderMoves, LandedStays DEF IInv, Money, SettledOnce, ShownFirst, Settled
<1>2. OrderFollows'
  <2>1. CASE Settled
    BY <2>1, OrderMoves DEF IInv, Money, SettledOnce, ShownFirst, OrderFollows
  <2>2. CASE ~Settled
    BY <2>2, OrderMoves DEF IInv, Money, SettledOnce, OrderFollows
  <2> QED
    BY <2>1, <2>2
<1> QED
  BY <1>1, <1>2, OrderMoves DEF Money

LEMMA RestartKeeps == ASSUME IInv, Restart PROVE IInv'
<1>1. order' \in Orders /\ invoice' \in Invoices /\ Money'
  <2>1. CASE order.state # "PENDING"
    BY <2>1, FollowKeeps DEF Restart, IInv, Typed
  <2>2. CASE order.state = "PENDING" /\ late
    <3>1. order \in Orders /\ invoice \in Invoices
      BY DEF IInv, Typed
    <3>2. order' = [order EXCEPT !.state = "CANCELLED"] /\ UNCHANGED <<tx, invoice, receipts, told>>
      BY <2>2 DEF Restart
    <3>3. order' \in Orders /\ order'.linked = order.linked /\ order'.state = "CANCELLED"
      BY <3>1, <3>2 DEF Orders
    <3>4. told = {}
      BY <2>2 DEF IInv, Money, OrderFollows
    <3> QED
      BY <3>1, <3>2, <3>3, <3>4, LandedStays
      DEF IInv, Money, SettledOnce, ShownFirst, OrderFollows, Settled
  <2>3. CASE order.state = "PENDING" /\ ~late
    BY <2>3, Creates DEF Restart
  <2> QED
    BY <2>1, <2>2, <2>3
<1> QED
  BY <1>1 DEF Restart, IInv, Typed

LEMMA LookKeeps == ASSUME IInv, Look PROVE IInv'
  BY FollowKeeps DEF Look, IInv, Typed

\* An invoice that is not settled changes to another status that is not.
LEMMA StatusMoves ==
  ASSUME IInv, ~Settled, invoice'.status # "FINALIZED", UNCHANGED <<tx, order, receipts, told>>
  PROVE  Money'
  BY LandedStays DEF IInv, Money, SettledOnce, ShownFirst, OrderFollows, Settled

LEMMA CancelKeeps == ASSUME IInv, Cancel PROVE IInv'
<1>1. ~Settled /\ invoice'.status # "FINALIZED" /\ invoice' \in Invoices
  BY DEF Cancel, Settled, Invoices
<1> QED
  BY <1>1, StatusMoves DEF Cancel, IInv, Typed

LEMMA ChainKeeps == ASSUME IInv, Chain PROVE IInv'
<1>1. tx' \in [Transfers -> [stage : {"none", "confirmed", "final", "dropped"}, late : BOOLEAN]]
  BY DEF Chain, Stage, IInv, Typed
<1>2. Landed' # {} => Landed # {} \/ order.linked
  BY DEF Chain, Stage, Landed, IInv, Typed
<1> QED
  BY <1>1, <1>2, MoneyStays DEF Chain, IInv, Typed

LEMMA TimeKeeps == ASSUME IInv, TimeOver PROVE IInv'
  BY MoneyStays, LandedStays DEF TimeOver, IInv, Typed

\* What a scan that only reads keeps.
LEMMA ReadingKeeps ==
  ASSUME IInv, scan' \in [Scanners -> Scans], cursor' \in Cursors,
         UNCHANGED <<tx, late, order, invoice, receipts, told>>
  PROVE  IInv'
  BY MoneyStays, LandedStays DEF IInv, Typed

LEMMA StartScanKeeps == ASSUME IInv, NEW w \in Scanners, StartScan(w) PROVE IInv'
<1>1. cursor \in Cursors /\ cursor' = cursor
  BY DEF StartScan, IInv, Typed
<1>2. [NoScan EXCEPT !.pc = "sweep"] \in Scans
  BY NoScanTyped DEF Scans
<1>3. [NoScan EXCEPT !.pc = "list", !.last = cursor.last, !.before = cursor.before,
                     !.head = cursor.head] \in Scans
  BY <1>1, NoScanTyped DEF Scans, Cursors
<1>4. scan' \in [Scanners -> Scans]
  BY <1>2, <1>3, SetTyped DEF StartScan, IInv
<1> QED
  BY <1>1, <1>4, ReadingKeeps DEF StartScan

LEMMA PairIn == ASSUME NEW a \in Nat, NEW b \in Nat PROVE Max({a, b}) \in Nat /\ Min({a, b}) \in Nat
<1>1. {a, b} \in SUBSET (0..(a + b)) /\ {a, b} # {} /\ a + b \in Nat
  OBVIOUS
<1> QED
  BY <1>1, MaxIn, MinIn

LEMMA NewestIn ==
  ASSUME PaymentConstants, NEW S \in SUBSET Transfers
  PROVE  Max({0} \cup S) \in Nat /\ (S # {} => Min(S) \in Nat)
<1>1. S \in SUBSET (0..MaxTransfers) /\ {0} \cup S \in SUBSET (0..MaxTransfers) /\ MaxTransfers \in Nat
  BY DEF Transfers, PaymentConstants
<1>2. Max({0} \cup S) \in {0} \cup S
  BY <1>1, MaxIn
<1>3. S # {} => Min(S) \in S
  BY <1>1, MinIn
<1>4. Max({0} \cup S) \in 0..MaxTransfers /\ (S # {} => Min(S) \in 0..MaxTransfers)
  BY <1>1, <1>2, <1>3
<1> QED
  BY <1>4

LEMMA ListKeeps == ASSUME PaymentConstants, IInv, NEW w \in Scanners, List(w) PROVE IInv'
<1> DEFINE s == scan[w]
<1>1. s \in Scans /\ Shown \subseteq Transfers /\ Final \subseteq Transfers
  BY DEF IInv, Typed, Shown, Final, Landed
<1>2. ASSUME ListSolana(w) PROVE scan' \in [Scanners -> Scans]
  <2> DEFINE page == Newest({t \in Shown : t > s.last /\ (s.before = 0 \/ t < s.before)})
             next == [s EXCEPT !.pc = "read", !.todo = page, !.more = Cardinality(page) = PageSize,
                        !.head = IF @ = 0 THEN Max({0} \cup page) ELSE @,
                        !.before = IF page = {} THEN @ ELSE Min(page)]
  <2>1. page \in SUBSET Transfers
    BY <1>1 DEF Newest
  <2>2. Set(w, next)
    BY <1>2 DEF ListSolana
  <2> HIDE DEF page
  <2>3. Max({0} \cup page) \in Nat /\ (page # {} => Min(page) \in Nat)
    BY <2>1, NewestIn
  <2>4. next \in Scans
    BY <1>1, <2>1, <2>3 DEF Scans
  <2> HIDE DEF next
  <2> QED
    BY <2>2, <2>4, SetTyped DEF IInv
<1>3. ASSUME ListEvm(w) PROVE scan' \in [Scanners -> Scans]
  <2> DEFINE head == IF s.page = 1 THEN Max({0} \cup Final) ELSE s.head
             end == Max({s.last, Min({s.last + PageSize, head})})
             next == [s EXCEPT !.pc = "read", !.todo = ((s.last + 1)..end) \cap Shown,
                        !.more = end < head, !.head = head, !.before = end]
  <2>1. s.last \in Nat /\ s.head \in Nat /\ PageSize \in Nat /\ s.last + PageSize \in Nat
    BY <1>1 DEF Scans, PaymentConstants
  <2>2. head \in Nat
    BY <1>1, <2>1, NewestIn
  <2>3. Set(w, next)
    BY <1>3 DEF ListEvm
  <2> HIDE DEF head
  <2>4. end \in Nat
    BY <2>1, <2>2, PairIn
  <2> HIDE DEF end
  <2>5. next \in Scans
    <3> DEFINE todo == ((s.last + 1)..end) \cap Shown
               more == end < head
    <3>1. s \in Scans /\ todo \in SUBSET Transfers /\ more \in BOOLEAN
      BY <1>1
    <3> HIDE DEF s, todo, more
    <3>2. [s EXCEPT !.pc = "read", !.todo = todo, !.more = more, !.head = head, !.before = end] \in Scans
      BY <2>2, <2>4, <3>1 DEF Scans
    <3> QED
      BY <3>2 DEF s, todo, more
  <2> HIDE DEF next
  <2> QED
    BY <2>3, <2>5, SetTyped DEF IInv
<1>4. scan' \in [Scanners -> Scans]
  BY <1>2, <1>3 DEF List
<1> QED
  BY <1>4, ReadingKeeps DEF List, IInv, Typed

LEMMA EndPageKeeps == ASSUME PaymentConstants, IInv, NEW w \in Scanners, EndPage(w) PROVE IInv'
<1> DEFINE s == scan[w]
           watched == {t \in Transfers : obs[t] \in {"OBSERVED", "REVIEW_REQUIRED"}}
<1>1. s \in Scans /\ cursor \in Cursors
  BY DEF IInv, Typed
<1>2. /\ [s EXCEPT !.pc = "list", !.page = @ + 1] \in Scans
      /\ [s EXCEPT !.pc = "list", !.page = @ + 1, !.last = s.before] \in Scans
  <2> HIDE DEF s
  <2>1. s.page + 1 \in Nat /\ s.before \in Nat
    BY <1>1 DEF Scans
  <2>2. [s EXCEPT !.pc = "list", !.page = @ + 1] \in Scans
    BY <1>1, <2>1 DEF Scans
  <2>3. [s EXCEPT !.pc = "list", !.page = @ + 1, !.last = s.before] \in Scans
    BY <1>1, <2>1 DEF Scans
  <2> QED
    BY <2>2, <2>3
<1>3. /\ [NoScan EXCEPT !.pc = "again", !.todo = watched] \in Scans
      /\ [NoScan EXCEPT !.pc = "deliver"] \in Scans
  BY NoScanTyped DEF Scans
<1> HIDE DEF watched
<1>4. scan' \in [Scanners -> Scans]
  BY <1>2, <1>3, SetTyped DEF EndPage, IInv, watched
<1>5. cursor' \in Cursors
  <2>1. Saved(s) \in Cursors
    BY <1>1 DEF Saved, Scans, Cursors
  <2>2. CursorAfter(s) \in Cursors
    BY <1>1, <2>1 DEF CursorAfter
  <2>3. [cursor EXCEPT !.last = s.before] \in Cursors
    BY <1>1 DEF Scans, Cursors
  <2> QED
    BY <1>1, <2>2, <2>3 DEF EndPage
<1> QED
  BY <1>4, <1>5, ReadingKeeps DEF EndPage

LEMMA ReadKeeps == ASSUME PaymentConstants, IInv, NEW w \in Scanners, Read(w) PROVE IInv'
<1> DEFINE t == Current(w)
<1>1. t \in Transfers
  BY CurrentIn DEF Read, IInv
<1>2. scan' \in [Scanners -> Scans] /\ UNCHANGED <<tx, late, told, cursor>>
  BY PassedTyped DEF Read, IInv
<1> HIDE DEF t
<1>3. CASE Observe(t, tx[t].stage = "final")
  <2>1. order' \in Orders /\ invoice' \in Invoices /\ Money'
    BY <1>1, <1>2, <1>3, Observes
  <2> QED
    BY <1>2, <2>1 DEF IInv, Typed
<1>4. CASE UNCHANGED <<order, invoice, obs, receipts, unmatched>>
  BY <1>2, <1>4, ReadingKeeps DEF IInv, Typed
<1> QED
  BY <1>3, <1>4 DEF Read, t

LEMMA ReadAgainKeeps == ASSUME PaymentConstants, IInv, NEW w \in Scanners, ReadAgain(w) PROVE IInv'
<1> DEFINE t == Current(w)
<1>1. t \in Transfers
  BY CurrentIn DEF ReadAgain, IInv
<1>2. scan' \in [Scanners -> Scans] /\ UNCHANGED <<tx, late, told, cursor>>
  BY PassedTyped DEF ReadAgain, IInv
<1> HIDE DEF t
<1>3. CASE tx[t].stage = "final" /\ Observe(t, TRUE)
  <2>1. order' \in Orders /\ invoice' \in Invoices /\ Money'
    BY <1>1, <1>2, <1>3, Observes
  <2> QED
    BY <1>2, <2>1 DEF IInv, Typed
<1>4. CASE Gone(t)
  <2>1. /\ invoice' \in Invoices /\ UNCHANGED <<order, receipts>>
        /\ Settled => invoice' = invoice
        /\ ~Settled => invoice'.status # "FINALIZED"
    BY <1>4 DEF Gone, IInv, Typed, Invoices, Settled
  <2>2. Money'
    BY <1>2, <2>1, StatusMoves, MoneyStays, LandedStays
  <2> QED
    BY <1>2, <2>1, <2>2 DEF IInv, Typed
<1>5. CASE UNCHANGED <<order, invoice, obs, receipts, unmatched>>
  BY <1>2, <1>5, ReadingKeeps DEF IInv, Typed
<1> QED
  BY <1>3, <1>4, <1>5 DEF ReadAgain, t

LEMMA ExpireKeeps == ASSUME IInv, NEW w \in Scanners, Expire(w) PROVE IInv'
<1>1. /\ invoice' \in Invoices
      /\ Settled => invoice' = invoice
      /\ ~Settled => invoice'.status # "FINALIZED"
  BY DEF Expire, IInv, Typed, Invoices, Settled
<1>2. Money'
  BY <1>1, StatusMoves, MoneyStays, LandedStays DEF Expire
<1>3. [NoScan EXCEPT !.pc = "deliver"] \in Scans
  BY NoScanTyped DEF Scans
<1>4. scan' \in [Scanners -> Scans]
  BY <1>3, SetTyped DEF Expire, IInv
<1> QED
  BY <1>1, <1>2, <1>4 DEF Expire, IInv, Typed

LEMMA DeliverKeeps == ASSUME IInv, NEW w \in Scanners, Deliver(w) PROVE IInv'
<1>1. order' \in Orders /\ Money'
  BY Tells DEF Deliver
<1>2. [NoScan EXCEPT !.pc = "sweep"] \in Scans
  BY NoScanTyped DEF Scans
<1>3. scan' \in [Scanners -> Scans]
  BY <1>2, NoScanTyped, SetTyped DEF Deliver, IInv
<1> QED
  BY <1>1, <1>3 DEF Deliver, IInv, Typed

LEMMA SweepKeeps == ASSUME IInv, NEW w \in Scanners, Sweep(w) PROVE IInv'
<1> DEFINE todo == {t \in Transfers : tx[t].stage = "final"}
<1>1. scan[w] \in Scans
  BY DEF IInv, Typed
<1>2. /\ [NoScan EXCEPT !.pc = "check", !.todo = todo] \in Scans
      /\ [NoScan EXCEPT !.pc = "last"] \in Scans
      /\ [scan[w] EXCEPT !.pc = "file"] \in Scans
      /\ [scan[w] EXCEPT !.pc = "check", !.todo = @ \ {Current(w)}] \in Scans
  BY <1>1, NoScanTyped DEF Scans
<1>3. scan' \in [Scanners -> Scans]
  BY <1>2, SetTyped, PassedTyped DEF Sweep, IInv
<1> QED
  BY <1>3, ReadingKeeps DEF Sweep, IInv, Typed

LEMMA CallFailsKeeps == ASSUME IInv, NEW w \in Scanners, CallFails(w) PROVE IInv'
<1>1. scan' \in [Scanners -> Scans]
  BY NoScanTyped, SetTyped DEF CallFails, IInv
<1> QED
  BY <1>1, ReadingKeeps DEF CallFails, IInv, Typed

LEMMA DiesKeeps == ASSUME PaymentConstants, IInv, Dies PROVE IInv'
<1>1. scan' \in [Scanners -> Scans] /\ UNCHANGED <<tx, late, told, cursor>>
  BY NoScanTyped DEF Dies
<1>2. CASE UNCHANGED <<order, invoice, obs, receipts, unmatched>>
  BY <1>1, <1>2, ReadingKeeps DEF IInv, Typed
<1>3. ASSUME NEW w \in Scanners, scan[w].todo # {}, tx[Current(w)].stage = "final",
             Record(Current(w), TRUE), UNCHANGED order
      PROVE  IInv'
  <2>1. Current(w) \in Transfers
    BY <1>3, CurrentIn DEF IInv
  <2>2. /\ invoice' \in Invoices /\ SettledOnce'
        /\ receipts \subseteq receipts' /\ (receipts' # {} => order.linked)
    BY <1>3, <2>1, Records
  <2>3. ShownFirst' /\ OrderFollows'
    BY <1>1, <1>3, <2>2, LandedStays DEF IInv, Money, ShownFirst, OrderFollows
  <2> QED
    BY <1>1, <1>3, <2>2, <2>3 DEF IInv, Typed, Money
<1>4. CASE order' = Delivered /\ UNCHANGED <<invoice, obs, receipts, unmatched>>
  <2>1. order' \in Orders /\ Money'
    BY <1>1, <1>4, Tells
  <2> QED
    BY <1>1, <1>4, <2>1 DEF IInv, Typed
<1> QED
  BY <1>2, <1>3, <1>4 DEF Dies

-----------------------------------------------------------------------------
LEMMA StepKeeps == ASSUME PaymentConstants, IInv, [PayNext]_payVars PROVE IInv'
<1>1. CASE UNCHANGED payVars
  BY <1>1, ReadingKeeps DEF payVars, IInv, Typed
<1>2. CASE CreateOrder \/ Restart \/ Look \/ Cancel \/ Chain \/ TimeOver \/ Dies
  BY <1>2, CreateKeeps, RestartKeeps, LookKeeps, CancelKeeps, ChainKeeps, TimeKeeps, DiesKeeps
<1>3. ASSUME NEW w \in Scanners,
             \/ StartScan(w) \/ List(w) \/ Read(w) \/ EndPage(w) \/ ReadAgain(w)
             \/ Expire(w) \/ Deliver(w) \/ Sweep(w) \/ CallFails(w)
      PROVE  IInv'
  BY <1>3, StartScanKeeps, ListKeeps, ReadKeeps, EndPageKeeps, ReadAgainKeeps, ExpireKeeps,
     DeliverKeeps, SweepKeeps, CallFailsKeeps
<1> QED
  BY <1>1, <1>2, <1>3 DEF PayNext

\* There is one receipt or none, and one has cardinality 1.
LEMMA PaidFollows == ASSUME IInv PROVE PaidOnce
<1>1. receipts = {} \/ \E t \in Transfers : receipts = {t}
  BY DEF IInv, Money, SettledOnce
<1>2. Cardinality(receipts) <= 1
  <2>1. CASE receipts = {}
    BY <2>1, FS_EmptySet
  <2>2. CASE \E t \in Transfers : receipts = {t}
    <3>1. Cardinality(receipts) = 1
      BY <2>2, FS_Singleton
    <3> QED
      BY <3>1
  <2> QED
    BY <1>1, <2>1, <2>2
<1> QED
  BY <1>2 DEF PaidOnce, IInv, Money, OrderFollows

(* An invoice is paid once, its order is paid only with it, and is paid when *)
(* the outbox says that it was told, over every death between the writes of  *)
(* the two databases (payment_service.ts, public_store.ts), for any number   *)
(* of transfers, scans and pages.                                            *)
THEOREM InvoicePaidOnce ==
  ASSUME PaymentConstants
  PROVE  PayInit /\ [][PayNext]_payVars => []PaidOnce
<1>1. PayInit => IInv
  BY StartsPaid
<1>2. IInv /\ [PayNext]_payVars => IInv'
  BY StepKeeps
<1>3. IInv => PaidOnce
  BY PaidFollows
<1> QED
  BY <1>1, <1>2, <1>3, PTL

-----------------------------------------------------------------------------
(* How far a scan came.  Every transfer up to the cursor left a trace, and so *)
(* did those from the oldest signature listed to the newest (the Window that  *)
(* is kept while pages are missing below); of a page that is being read all   *)
(* but the transfers still to do did.  A trace stays, whoever acts.           *)
Accounted(t) ==
  \/ t \in receipts \cup unmatched \cup withheld
  \/ obs[t] \in {"OBSERVED", "REVIEW_REQUIRED"}
  \/ chain = "solana" /\ Settled
Traced(t) == tx[t].stage = "dropped" \/ Accounted(t)
Reached(n) == n \in {0} \cup Landed
TracedTo(n) == Reached(n) /\ \A t \in 1..n : Traced(t)
Window(b, h) == IF h = 0 THEN b = 0 ELSE b \in 1..h /\ h \in Landed /\ \A t \in b..h : Traced(t)

ReadingSolana(s) ==
  IF s.head = 0 THEN s.before = 0 /\ s.todo = {} /\ ~s.more
  ELSE /\ s.before \in 1..s.head /\ s.head \in Landed
       /\ \A t \in s.before..s.head : t \in s.todo \/ Traced(t)
       /\ ~s.more => \A t \in (s.last + 1)..(s.before - 1) : Traced(t)
ReadingEvm(s) == Reached(s.before) /\ \A t \in 1..s.before : t \in s.todo \/ Traced(t)
ScanTraces(s) ==
  /\ s.pc \in {"list", "read"} => TracedTo(s.last)
  /\ s.pc = "list" /\ chain = "solana" => Window(s.before, s.head)
  /\ s.pc = "read" /\ chain = "solana" => ReadingSolana(s)
  /\ s.pc = "read" /\ chain = "evm" => ReadingEvm(s)
  /\ s.pc \in {"list", "read"} /\ chain = "evm" /\ (s.page # 1 \/ s.pc = "read") => Reached(s.head)

Observations == [Transfers -> {"none", "OBSERVED", "REVIEW_REQUIRED", "FINALIZED", "DROPPED"}]
InOrder == \A t \in Landed : 1..t \subseteq Landed
CursorTraces == TracedTo(cursor.last) /\ (chain = "solana" => Window(cursor.before, cursor.head))
TraceIInv ==
  /\ chain \in {"solana", "evm"} /\ obs \in Observations /\ InOrder
  /\ CursorTraces /\ \A w \in Scanners : ScanTraces(scan[w])

\* What no step undoes.
Kept ==
  /\ chain' = chain /\ obs' \in Observations
  /\ Landed \subseteq Landed' /\ InOrder'
  /\ \A t \in Transfers : Traced(t) => Traced(t)'

LEMMA TracedKept ==
  ASSUME PaymentConstants, Kept, NEW n
  PROVE  /\ Reached(n) => Reached(n)'
         /\ TracedTo(n) => TracedTo(n)'
         /\ \A b \in Nat : Window(b, n) => Window(b, n)'
<1>1. Reached(n) => Reached(n)'
  BY DEF Kept, Reached
<1>2. n \in Landed => n \in Landed' /\ n \in Nat /\ \A t \in Nat \ {0} : t <= n => t \in Transfers
  BY DEF Kept, Landed, Transfers, PaymentConstants
<1>3. TracedTo(n) => TracedTo(n)'
  BY <1>1, <1>2 DEF TracedTo, Kept, Reached
<1>4. ASSUME NEW b \in Nat, Window(b, n) PROVE Window(b, n)'
  BY <1>2, <1>4 DEF Window, Kept
<1> QED
  BY <1>1, <1>3, <1>4

LEMMA ScanKept ==
  ASSUME PaymentConstants, Kept, NEW s \in Scans, ScanTraces(s)
  PROVE  ScanTraces(s)'
<1>1. /\ Reached(s.head) => Reached(s.head)'
      /\ TracedTo(s.last) => TracedTo(s.last)'
      /\ Window(s.before, s.head) => Window(s.before, s.head)'
  BY TracedKept DEF Scans
<1>2. s.last \in Nat /\ s.before \in Nat /\ s.head \in Nat
  BY DEF Scans
<1>3. \A n \in Landed : n \in Landed' /\ n \in Nat /\ \A t \in Nat \ {0} : t <= n => t \in Transfers
  BY DEF Kept, Landed, Transfers, PaymentConstants
<1>4. ReadingSolana(s) => ReadingSolana(s)'
  BY <1>2, <1>3 DEF ReadingSolana, Kept
<1>5. ReadingEvm(s) => ReadingEvm(s)'
  BY <1>2, <1>3 DEF ReadingEvm, Kept, Reached
<1>6. chain' = chain
  BY DEF Kept
<1> QED
  BY <1>1, <1>4, <1>5, <1>6 DEF ScanTraces

\* A scan is what it holds.
LEMMA SameScan ==
  ASSUME NEW w \in Scanners, NEW s, scan'[w] = s, ScanTraces(s)'
  PROVE  ScanTraces(scan[w])'
  BY DEF ScanTraces, ReadingSolana, ReadingEvm, Window, TracedTo, Reached

LEMMA CursorKept ==
  ASSUME PaymentConstants, Typed, Kept, CursorTraces, UNCHANGED cursor
  PROVE  CursorTraces'
<1> PICK last \in Nat, before \in Nat, head \in Nat :
         cursor.last = last /\ cursor.before = before /\ cursor.head = head
  BY DEF Typed, Cursors
<1>1. TracedTo(last)' /\ (chain = "solana" => Window(before, head)')
  BY TracedKept DEF CursorTraces
<1>2. chain' = chain
  BY DEF Kept
<1> QED
  BY <1>1, <1>2 DEF CursorTraces, TracedTo, Window, Reached

\* The scans that stay, or end, after a step that keeps what was traced.
LEMMA ScansStay ==
  ASSUME PaymentConstants, IInv, TraceIInv, Kept, CursorTraces',
         \A w \in Scanners : scan'[w] = scan[w] \/ ScanTraces(scan[w])'
  PROVE  TraceIInv'
<1>1. ASSUME NEW w \in Scanners PROVE ScanTraces(scan[w])'
  <2> PICK s \in Scans : s = scan[w]
    BY DEF IInv, Typed
  <2>1. ScanTraces(s)
    BY DEF TraceIInv
  <2>2. ScanTraces(s)'
    BY <2>1, ScanKept
  <2> QED
    BY <2>2, SameScan
<1>2. chain' \in {"solana", "evm"} /\ obs' \in Observations /\ InOrder'
  BY DEF TraceIInv, Kept
<1> QED
  BY <1>1, <1>2 DEF TraceIInv

LEMMA Elsewhere ==
  ASSUME NEW w \in Scanners, scan'[w].pc \notin {"list", "read"}
  PROVE  ScanTraces(scan[w])'
  BY DEF ScanTraces

LEMMA OneScan ==
  ASSUME PaymentConstants, IInv, TraceIInv, Kept, CursorTraces', NEW w \in Scanners,
         NEW s, scan' = [scan EXCEPT ![w] = s], s.pc \in {"list", "read"} => ScanTraces(s)'
  PROVE  TraceIInv'
<1>1. scan'[w] = s /\ \A v \in Scanners \ {w} : scan'[v] = scan[v]
  BY DEF IInv, Typed
<1>2. ScanTraces(scan[w])'
  BY <1>1, SameScan, Elsewhere
<1> QED
  BY <1>1, <1>2, ScansStay

-----------------------------------------------------------------------------
(* What the writes do to the traces.                                        *)
LEMMA Untouched ==
  ASSUME TraceIInv, UNCHANGED <<chain, tx, obs>>, Settled => Settled',
         receipts \subseteq receipts', unmatched \subseteq unmatched', withheld \subseteq withheld'
  PROVE  Kept
<1>1. Landed' = Landed /\ InOrder'
  BY LandedStays DEF TraceIInv, InOrder
<1>2. ASSUME NEW t \in Transfers, Traced(t) PROVE Traced(t)'
  BY <1>2 DEF Traced, Accounted
<1> QED
  BY <1>1, <1>2 DEF TraceIInv, Kept

LEMMA ChainTraces == ASSUME PaymentConstants, IInv, TraceIInv, Chain PROVE Kept
<1>1. UNCHANGED <<chain, obs, receipts, unmatched, withheld, invoice>>
  BY DEF Chain
<1>2. \A t \in Transfers : /\ tx[t].stage # "none" => tx'[t].stage # "none"
                           /\ tx[t].stage = "dropped" => tx'[t].stage = "dropped"
  <2>1. PICK u \in Transfers :
          \/ /\ Landed = 1..(u - 1) /\ tx' = [tx EXCEPT ![u] = [stage |-> "confirmed", late |-> late]]
          \/ tx[u].stage = "confirmed" /\ (Stage(u, "final") \/ Stage(u, "dropped"))
    BY DEF Chain
  <2>2. u \notin 1..(u - 1) /\ tx \in [Transfers -> [stage : {"none", "confirmed", "final", "dropped"},
                                                    late : BOOLEAN]]
    BY DEF IInv, Typed, Transfers, PaymentConstants
  <2>3. CASE Landed = 1..(u - 1) /\ tx' = [tx EXCEPT ![u] = [stage |-> "confirmed", late |-> late]]
    <3>1. tx[u].stage = "none"
      BY <2>2, <2>3 DEF Landed
    <3> QED
      BY <2>2, <2>3, <3>1
  <2>4. CASE tx[u].stage = "confirmed" /\ (Stage(u, "final") \/ Stage(u, "dropped"))
    BY <2>2, <2>4 DEF Stage
  <2> QED
    BY <2>1, <2>3, <2>4
<1>3. Landed' = Landed \/ \E t \in Transfers : Landed = 1..(t - 1) /\ Landed' = Landed \cup {t}
  BY DEF Chain, Stage, Landed, IInv, Typed
<1>4. Landed \subseteq Landed' /\ InOrder'
  BY <1>3 DEF TraceIInv, InOrder, Transfers, PaymentConstants
<1>5. ASSUME NEW t \in Transfers, Traced(t) PROVE Traced(t)'
  BY <1>1, <1>2, <1>5 DEF Traced, Accounted, Settled
<1> QED
  BY <1>1, <1>4, <1>5 DEF TraceIInv, Kept

\* A transaction that is recorded leaves a trace, and takes none away.
LEMMA Recorded ==
  ASSUME IInv, TraceIInv, NEW t \in Transfers, NEW final \in BOOLEAN, Record(t, final),
         UNCHANGED <<chain, tx, withheld>>
  PROVE  Kept /\ Traced(t)'
<1> DEFINE fresh == t \notin receipts /\ ~Settled
           status == Status(t, final)
<1>1. status \in {"REVIEW_REQUIRED", "FINALIZED", "OBSERVED"}
  BY DEF Status
<1>2. /\ obs' = IF fresh THEN [obs EXCEPT ![t] = status] ELSE obs
      /\ invoice' = IF fresh THEN [invoice EXCEPT !.status = status] ELSE invoice
      /\ receipts' = IF fresh /\ status = "FINALIZED" THEN receipts \cup {t} ELSE receipts
      /\ unmatched' = IF fresh /\ status = "FINALIZED" THEN unmatched \ {t}
                      ELSE IF chain = "evm" /\ t \notin receipts /\ Settled THEN unmatched \cup {t}
                      ELSE unmatched
  BY DEF Record
<1>3. obs \in Observations /\ chain \in {"solana", "evm"}
  BY DEF TraceIInv
<1> HIDE DEF status
<1>4. obs' \in Observations
  BY <1>1, <1>2, <1>3 DEF Observations
<1>5. Traced(t)'
  <2>1. CASE fresh
    BY <1>1, <1>2, <1>3, <2>1 DEF Traced, Accounted, Observations
  <2>2. CASE ~fresh
    BY <1>2, <1>3, <2>2 DEF Traced, Accounted, Settled
  <2> QED
    BY <2>1, <2>2
<1>6. ASSUME NEW u \in Transfers, u # t, Traced(u) PROVE Traced(u)'
  <2>1. obs'[u] = obs[u]
    BY <1>2, <1>3, <1>6 DEF Observations
  <2>2. u \in receipts \cup unmatched => u \in receipts' \cup unmatched'
    BY <1>2, <1>6
  <2>3. Settled => Settled'
    BY <1>2 DEF Settled
  <2> QED
    BY <1>6, <2>1, <2>2, <2>3 DEF Traced, Accounted
<1>7. Landed' = Landed /\ InOrder'
  BY LandedStays DEF TraceIInv, InOrder
<1> QED
  BY <1>4, <1>5, <1>6, <1>7 DEF Kept

\* What is gone was dropped, or withheld.
LEMMA GoneTraces ==
  ASSUME IInv, TraceIInv, NEW t \in Transfers, Gone(t), UNCHANGED <<chain, tx>>,
         withheld \subseteq withheld', tx[t].stage = "dropped" \/ t \in withheld'
  PROVE  Kept
<1>1. obs \in Observations /\ obs' = [obs EXCEPT ![t] = IF @ = "OBSERVED" THEN "DROPPED" ELSE @]
  BY DEF TraceIInv, Gone
<1>2. obs' \in Observations /\ \A u \in Transfers \ {t} : obs'[u] = obs[u]
  BY <1>1 DEF Observations
<1>3. Settled => Settled'
  BY DEF Gone, Settled, IInv, Typed, Invoices
<1>4. UNCHANGED <<receipts, unmatched>>
  BY DEF Gone
<1>5. ASSUME NEW u \in Transfers, Traced(u) PROVE Traced(u)'
  <2>1. CASE u = t
    BY <2>1 DEF Traced, Accounted
  <2>2. CASE u # t
    BY <1>2, <1>3, <1>4, <1>5, <2>2 DEF Traced, Accounted
  <2> QED
    BY <2>1, <2>2
<1>6. Landed' = Landed /\ InOrder'
  BY LandedStays DEF TraceIInv, InOrder
<1> QED
  BY <1>2, <1>5, <1>6 DEF Kept

-----------------------------------------------------------------------------
(* The actions that leave the scans' reading alone.                         *)
LEMMA AwayTraces ==
  ASSUME PaymentConstants, IInv, TraceIInv, Kept, UNCHANGED cursor,
         \A w \in Scanners : scan'[w] = scan[w] \/ scan'[w].pc \notin {"list", "read"}
  PROVE  TraceIInv'
<1>1. CursorTraces'
  BY CursorKept DEF IInv, TraceIInv
<1> QED
  BY <1>1, Elsewhere, ScansStay

LEMMA OtherTraces ==
  ASSUME PaymentConstants, IInv, TraceIInv,
         CreateOrder \/ Restart \/ Look \/ Cancel \/ Chain \/ TimeOver
  PROVE  TraceIInv'
<1>1. UNCHANGED cursor /\ \A w \in Scanners : scan'[w] = scan[w] \/ scan'[w].pc \notin {"list", "read"}
  BY DEF CreateOrder, Restart, Look, Cancel, Chain, TimeOver, NoScan
<1>2. ASSUME ~Chain PROVE Kept
  <2>1. UNCHANGED <<chain, tx, obs, receipts, unmatched, withheld>>
    BY <1>2 DEF CreateOrder, Restart, Look, Cancel, TimeOver
  <2>2. Settled => Settled'
    BY <1>2 DEF CreateOrder, Restart, Look, Cancel, TimeOver, Settled, NewInvoice
  <2> QED
    BY <2>1, <2>2, Untouched
<1>3. Kept
  BY <1>2, ChainTraces
<1> QED
  BY <1>1, <1>3, AwayTraces

LEMMA DiesTraces == ASSUME PaymentConstants, IInv, TraceIInv, Dies PROVE TraceIInv'
<1>1. UNCHANGED <<chain, tx, withheld, cursor>> /\ \A w \in Scanners : scan'[w].pc \notin {"list", "read"}
  BY DEF Dies, NoScan
<1>2. Kept
  <2>1. CASE UNCHANGED <<invoice, obs, receipts, unmatched>>
    BY <1>1, <2>1, Untouched DEF Settled
  <2>2. ASSUME NEW w \in Scanners, scan[w].todo # {}, Record(Current(w), TRUE) PROVE Kept
    <3>1. Current(w) \in Transfers
      BY <2>2, CurrentIn DEF IInv
    <3> QED
      BY <1>1, <2>2, <3>1, Recorded
  <2> QED
    BY <2>1, <2>2 DEF Dies
<1> QED
  BY <1>1, <1>2, AwayTraces

\* The steps of a scan that read no page.
LEMMA AsideTraces ==
  ASSUME PaymentConstants, IInv, TraceIInv, NEW w \in Scanners,
         Expire(w) \/ Deliver(w) \/ Sweep(w) \/ CallFails(w)
  PROVE  TraceIInv'
<1>1. UNCHANGED <<cursor, chain, tx, obs, receipts, withheld>> /\ unmatched \subseteq unmatched'
  BY DEF Expire, Deliver, Sweep, CallFails
<1>2. Settled => Settled'
  BY DEF Expire, Deliver, Sweep, CallFails, Settled, IInv, Typed, Invoices
<1>3. \A v \in Scanners : scan'[v] = scan[v] \/ scan'[v].pc \notin {"list", "read"}
  <2>1. scan \in [Scanners -> Scans]
    BY DEF IInv, Typed
  <2>2. \A v \in Scanners \ {w} : scan'[v] = scan[v]
    BY <2>1 DEF Expire, Deliver, Sweep, CallFails, Set, Passed
  <2>3. scan'[w].pc \notin {"list", "read"}
    <3>1. CASE Expire(w)
      BY <2>1, <3>1 DEF Expire, Set, NoScan
    <3>2. CASE Deliver(w)
      BY <2>1, <3>2 DEF Deliver, Set, NoScan
    <3>3. CASE Sweep(w)
      BY <2>1, <3>3 DEF Sweep, Set, Passed, NoScan, At, Scans
    <3>4. CASE CallFails(w)
      BY <2>1, <3>4 DEF CallFails, Set, NoScan
    <3> QED
      BY <3>1, <3>2, <3>3, <3>4
  <2> QED
    BY <2>2, <2>3
<1> QED
  BY <1>1, <1>2, <1>3, Untouched, AwayTraces

LEMMA ReadAgainTraces ==
  ASSUME PaymentConstants, IInv, TraceIInv, NEW w \in Scanners, ReadAgain(w)
  PROVE  TraceIInv'
<1> PICK t \in Transfers : t = Current(w)
  BY CurrentIn DEF ReadAgain, IInv
<1>1. UNCHANGED <<chain, tx, cursor>> /\ withheld \subseteq withheld'
  BY DEF ReadAgain
<1>2. \A v \in Scanners : scan'[v] = scan[v] \/ scan'[v].pc \notin {"list", "read"}
  BY DEF ReadAgain, At, Passed, Set, IInv, Typed, Scans
<1>3. Kept
  <2>1. CASE Observe(t, TRUE) /\ UNCHANGED withheld
    BY <1>1, <2>1, Recorded DEF Observe
  <2>2. CASE Gone(t) /\ (tx[t].stage = "dropped" \/ t \in withheld')
    BY <1>1, <2>2, GoneTraces
  <2>3. CASE UNCHANGED <<invoice, obs, receipts, unmatched, withheld>>
    BY <1>1, <2>3, Untouched DEF Settled
  <2> QED
    BY <2>1, <2>2, <2>3 DEF ReadAgain
<1> QED
  BY <1>1, <1>2, <1>3, AwayTraces

-----------------------------------------------------------------------------
(* Pages.                                                                   *)

\* The newest of a set are closed upwards, and all of it unless they fill a page.
LEMMA NewestFills ==
  ASSUME PaymentConstants, NEW S \in SUBSET Transfers
  PROVE  /\ Newest(S) \in SUBSET S
         /\ \A x \in Newest(S), y \in S : x <= y => y \in Newest(S)
         /\ Cardinality(Newest(S)) # PageSize => Newest(S) = S
         /\ Newest(S) = {} => Cardinality(Newest(S)) # PageSize
<1> DEFINE Above(x) == {u \in S : u > x}
           page == Newest(S)
<1>1. PageSize \in Nat \ {0} /\ MaxTransfers \in Nat /\ S \in SUBSET (0..MaxTransfers)
  BY DEF PaymentConstants, Transfers
<1>2. IsFiniteSet(0..MaxTransfers) /\ \A x \in S : x \in Nat
  BY <1>1, FS_Interval
<1>3. \A T \in SUBSET S : IsFiniteSet(T) /\ Cardinality(T) \in Nat
  <2> SUFFICES ASSUME NEW T \in SUBSET S PROVE IsFiniteSet(T) /\ Cardinality(T) \in Nat
    OBVIOUS
  <2>1. T \subseteq 0..MaxTransfers
    BY <1>1
  <2> QED
    BY <1>2, <2>1, FS_Subset, FS_CardinalityType
<1>4. page \in SUBSET S /\ \A x \in S : x \in page <=> Cardinality(Above(x)) < PageSize
  BY DEF Newest
<1> HIDE DEF page
<1>5. ASSUME NEW x \in page, NEW y \in S, x <= y PROVE y \in page
  <2>1. Above(y) \subseteq Above(x) /\ Above(x) \in SUBSET S /\ Above(y) \in SUBSET S
    BY <1>2, <1>4, <1>5
  <2> HIDE DEF Above
  <2>2. Cardinality(Above(y)) <= Cardinality(Above(x))
    BY <1>3, <2>1, FS_Subset
  <2>3. Cardinality(Above(x)) < PageSize
    BY <1>4
  <2>4. Cardinality(Above(y)) < PageSize
    BY <1>1, <1>3, <2>1, <2>2, <2>3
  <2> QED
    BY <1>4, <2>4
<1>6. ASSUME page # S PROVE Cardinality(page) = PageSize
  <2>1. PICK x \in S \ page : \A y \in S \ page : x >= y
    <3>1. S \ page \in SUBSET (0..MaxTransfers) /\ S \ page # {}
      BY <1>1, <1>4, <1>6
    <3> QED
      BY <1>1, <3>1, MaxIn
  <2>2. Above(x) = page
    <3>1. x \in Nat /\ x \notin page /\ page \subseteq S
      BY <1>2, <1>4
    <3>2. \A y \in S : y > x => y \in page
      BY <1>2, <2>1, <3>1
    <3>3. \A y \in page : y > x
      BY <1>2, <1>4, <1>5, <2>1, <3>1
    <3> QED
      BY <3>1, <3>2, <3>3
  <2>3. ~(Cardinality(page) < PageSize)
    BY <1>4, <2>1, <2>2
  <2>4. Cardinality(page) \in Nat
    BY <1>3, <1>4
  <2>5. page # {}
    BY <1>1, <2>3, FS_EmptySet
  <2>6. PICK m \in page : \A y \in page : m <= y
    <3>1. page \in SUBSET (0..MaxTransfers)
      BY <1>1, <1>4
    <3> QED
      BY <1>1, <2>5, <3>1, MinIn
  <2>7. page = Above(m) \cup {m} /\ m \notin Above(m) /\ Above(m) \in SUBSET S
    <3>1. m \in Nat /\ m \in S /\ page \subseteq S
      BY <1>2, <1>4
    <3>2. \A y \in S : y > m => y \in page
      BY <1>2, <1>5, <3>1
    <3>3. \A y \in page : y = m \/ y > m
      BY <1>2, <2>6, <3>1
    <3>4. m \notin Above(m)
      BY <3>1
    <3>5. \A y : y \in Above(m) \cup {m} => y \in page
      BY <3>1, <3>2
    <3>6. \A y \in page : y \in Above(m) \cup {m}
      BY <3>1, <3>3
    <3>7. Above(m) \in SUBSET S
      OBVIOUS
    <3> HIDE DEF Above
    <3> QED
      BY <3>4, <3>5, <3>6, <3>7
  <2>8. Cardinality(Above(m)) < PageSize
    BY <1>4, <2>6
  <2> HIDE DEF Above
  <2>9. Cardinality(page) = Cardinality(Above(m)) + 1
    BY <1>3, <2>7, FS_AddElement
  <2> QED
    BY <1>1, <1>3, <2>3, <2>4, <2>7, <2>8, <2>9
<1>7. page = {} => Cardinality(page) # PageSize
  BY <1>1, FS_EmptySet
<1> QED
  BY <1>4, <1>5, <1>6, <1>7 DEF page

\* What landed below a transfer that landed: the node shows it, or it was dropped.
LEMMA Below ==
  ASSUME PaymentConstants, TraceIInv, NEW n \in Landed
  PROVE  n \in Nat \ {0} /\ n <= MaxTransfers /\ \A t \in 1..n : t \in Landed /\ (t \in Shown \/ Traced(t))
  BY DEF TraceIInv, InOrder, Landed, Shown, Traced, Transfers, PaymentConstants

\* The page of an older window: together with the window it is a longer one.
LEMMA PageOfSolana ==
  ASSUME PaymentConstants, TraceIInv, NEW s \in Scans, NEW page,
         page = Newest({t \in Shown : t > s.last /\ (s.before = 0 \/ t < s.before)}),
         NEW r \in Scans, r.last = s.last, r.todo = page, r.more = (Cardinality(page) = PageSize),
         r.head = IF s.head = 0 THEN Max({0} \cup page) ELSE s.head,
         r.before = IF page = {} THEN s.before ELSE Min(page),
         Window(s.before, s.head)
  PROVE  ReadingSolana(r)
<1> DEFINE S == {t \in Shown : t > s.last /\ (s.before = 0 \/ t < s.before)}
<1>1. S \in SUBSET Transfers /\ S \subseteq Landed
  BY DEF Shown, Landed
<1>2. s.last \in Nat /\ s.before \in Nat /\ s.head \in Nat /\ MaxTransfers \in Nat
  BY DEF Scans, PaymentConstants
<1> HIDE DEF S
<1>3. /\ page \in SUBSET S
      /\ \A x \in page, y \in S : x <= y => y \in page
      /\ ~r.more => page = S
      /\ page = {} => ~r.more /\ S = {}
  <2>1. page = Newest(S)
    BY DEF S
  <2> QED
    BY <1>1, <2>1, NewestFills
<1>4. CASE page = {}
  <2>1. CASE s.head = 0
    <3>1. {0} \cup page = {0} /\ {0} \in SUBSET (0..0)
      BY <1>4
    <3>2. Max({0}) = 0
      BY <3>1, MaxIn
    <3> QED
      BY <1>3, <1>4, <2>1, <3>1, <3>2 DEF ReadingSolana, Window
  <2>2. CASE s.head # 0
    <3>1. s.head \in Landed /\ s.before \in 1..s.head /\ \A t \in s.before..s.head : Traced(t)
      BY <2>2 DEF Window
    <3>2. ASSUME NEW t \in (s.last + 1)..(s.before - 1) PROVE Traced(t)
      <4>1. t \in 1..s.head /\ t \notin S
        BY <1>2, <1>3, <1>4, <3>1
      <4> QED
        BY <1>2, <3>1, <4>1, Below DEF S
    <3> QED
      BY <1>3, <1>4, <2>2, <3>1, <3>2 DEF ReadingSolana
  <2> QED
    BY <2>1, <2>2
<1>5. CASE page # {}
  <2>1. page \in SUBSET (0..MaxTransfers) /\ {0} \cup page \in SUBSET (0..MaxTransfers)
    <3>1. page \subseteq 1..MaxTransfers
      BY <1>1, <1>3 DEF Transfers
    <3> QED
      BY <1>2, <3>1
  <2>2. Min(page) \in page /\ \A y \in page : Min(page) <= y
    BY <1>2, <1>5, <2>1, MinIn
  <2>3. r.before \in page /\ (\A y \in page : r.before <= y)
    BY <1>5, <2>2
  <2>4. r.before \in Landed /\ r.before \in 1..MaxTransfers /\ r.before > s.last
        /\ (s.before = 0 \/ r.before < s.before)
    BY <1>1, <1>3, <2>3 DEF S, Transfers
  <2>5. ASSUME s.head = 0 PROVE r.head \in page /\ s.before = 0
    <3>1. Max({0} \cup page) \in {0} \cup page /\ \A y \in {0} \cup page : Max({0} \cup page) >= y
      BY <1>2, <2>1, MaxIn
    <3>2. Max({0} \cup page) # 0
      BY <2>3, <2>4, <3>1
    <3> QED
      BY <2>5, <3>1, <3>2 DEF Window
  <2>6. ASSUME s.head # 0
        PROVE  r.head = s.head /\ s.head \in Landed /\ s.before \in 1..s.head
               /\ \A t \in s.before..s.head : Traced(t)
    BY <2>6 DEF Window
  <2>7. r.head \in Landed /\ r.head \in Nat /\ r.head >= r.before
    BY <1>1, <1>2, <1>3, <2>1, <2>3, <2>4, <2>5, <2>6
  <2>8. ASSUME NEW t \in r.before..r.head PROVE t \in page \/ Traced(t)
    <3>1. t \in Nat /\ t >= r.before /\ t \in 1..r.head
      BY <2>4, <2>7
    <3>2. CASE s.before # 0 /\ t >= s.before
      BY <1>2, <2>5, <2>6, <3>1, <3>2
    <3>3. CASE s.before = 0 \/ t < s.before
      <4>1. t \in Shown => t \in S
        BY <1>2, <2>4, <3>1, <3>3 DEF S
      <4> QED
        BY <1>3, <2>3, <2>7, <3>1, <4>1, Below
    <3> QED
      BY <1>2, <3>1, <3>2, <3>3
  <2>9. ASSUME ~r.more, NEW t \in (r.last + 1)..(r.before - 1) PROVE Traced(t)
    <3>1. t \in Nat /\ t \in 1..r.head /\ t < r.before /\ t > s.last
      BY <1>2, <2>4, <2>7
    <3>2. t \notin S
      BY <1>3, <2>3, <2>9, <3>1, <2>4
    <3>3. t \notin Shown
      BY <1>2, <2>4, <3>1, <3>2 DEF S
    <3> QED
      BY <2>7, <3>1, <3>3, Below
  <2>10. r.head # 0 /\ r.before \in 1..r.head
    BY <2>4, <2>7
  <2> QED
    BY <2>7, <2>8, <2>9, <2>10 DEF ReadingSolana
<1> QED
  BY <1>4, <1>5

\* The next blocks, of those that were final.
LEMMA PageOfEvm ==
  ASSUME PaymentConstants, TraceIInv, NEW s \in Scans, NEW head \in Nat, Reached(head),
         TracedTo(s.last), NEW end, end = Max({s.last, Min({s.last + PageSize, head})}),
         NEW r \in Scans, r.before = end, r.todo = ((s.last + 1)..end) \cap Shown
  PROVE  ReadingEvm(r)
<1>1. s.last \in Nat /\ s.last + PageSize \in Nat /\ MaxTransfers \in Nat
  BY DEF Scans, PaymentConstants
<1>2. end \in Nat /\ (end = s.last \/ end <= head)
  <2>1. PICK m \in Nat : m = Min({s.last + PageSize, head}) /\ m <= head
    <3>1. {s.last + PageSize, head} \in SUBSET (0..(s.last + PageSize + head))
          /\ s.last + PageSize + head \in Nat
      BY <1>1
    <3>2. /\ Min({s.last + PageSize, head}) \in {s.last + PageSize, head}
          /\ Min({s.last + PageSize, head}) <= head
      BY <3>1, MinIn
    <3> QED
      BY <1>1, <3>2
  <2>2. {s.last, m} \in SUBSET (0..(s.last + m)) /\ s.last + m \in Nat
    BY <1>1
  <2>3. end \in {s.last, m}
    BY <2>1, <2>2, MaxIn
  <2> QED
    BY <1>1, <2>1, <2>3
<1>3. Reached(end)
  <2>1. CASE end = s.last
    BY <2>1 DEF TracedTo
  <2>2. CASE end <= head /\ end # 0
    <3>1. head \in Landed
      BY <1>2, <2>2 DEF Reached
    <3> QED
      BY <1>2, <2>2, <3>1, Below DEF Reached
  <2> QED
    BY <1>2, <2>1, <2>2 DEF Reached
<1>4. ASSUME NEW t \in 1..end PROVE t \in r.todo \/ Traced(t)
  <2>1. CASE t <= s.last
    BY <1>1, <1>2, <2>1 DEF TracedTo
  <2>2. CASE t > s.last
    <3>1. end \in Landed
      BY <1>2, <1>3 DEF Reached
    <3>2. t \in Shown \/ Traced(t)
      BY <3>1, Below
    <3>3. t \in (s.last + 1)..end
      BY <1>1, <1>2, <2>2
    <3> QED
      BY <3>2, <3>3
  <2> QED
    BY <1>1, <1>2, <2>1, <2>2
<1> QED
  BY <1>3, <1>4 DEF ReadingEvm

-----------------------------------------------------------------------------
(* The actions that move a scan.                                            *)
LEMMA StartTraces ==
  ASSUME PaymentConstants, IInv, TraceIInv, NEW w \in Scanners, StartScan(w)
  PROVE  TraceIInv'
<1>1. UNCHANGED <<chain, tx, obs, receipts, unmatched, withheld, invoice, cursor>>
  BY DEF StartScan
<1>2. Kept /\ CursorTraces'
  BY <1>1, Untouched, CursorKept DEF Settled, IInv, TraceIInv
<1>3. CASE Set(w, [NoScan EXCEPT !.pc = "sweep"])
  BY <1>2, <1>3, OneScan DEF Set, NoScan
<1>4. CASE Set(w, [NoScan EXCEPT !.pc = "list", !.last = cursor.last, !.before = cursor.before,
                                 !.head = cursor.head])
  <2> PICK s : s = [NoScan EXCEPT !.pc = "list", !.last = cursor.last, !.before = cursor.before,
                                  !.head = cursor.head]
    OBVIOUS
  <2>1. s \in Scans /\ s.pc = "list" /\ s.page = 1 /\ s.last = cursor.last
        /\ s.before = cursor.before /\ s.head = cursor.head
    BY NoScanTyped DEF NoScan, IInv, Typed, Cursors, Scans
  <2>2. ScanTraces(s)
    BY <2>1 DEF ScanTraces, TraceIInv, CursorTraces
  <2>3. ScanTraces(s)' /\ scan' = [scan EXCEPT ![w] = s]
    BY <1>2, <1>4, <2>1, <2>2, ScanKept DEF Set
  <2> QED
    BY <1>2, <2>3, OneScan
<1> QED
  BY <1>3, <1>4 DEF StartScan

LEMMA ListTraces ==
  ASSUME PaymentConstants, IInv, TraceIInv, NEW w \in Scanners, List(w)
  PROVE  TraceIInv'
<1>1. UNCHANGED <<chain, tx, obs, receipts, unmatched, withheld, invoice, cursor>>
  BY DEF List
<1>2. Kept /\ CursorTraces'
  BY <1>1, Untouched, CursorKept DEF Settled, IInv, TraceIInv
<1> PICK s \in Scans : s = scan[w]
  BY DEF IInv, Typed
<1>3. s.pc = "list" /\ ScanTraces(s)
  BY DEF List, At, TraceIInv
<1>4. IInv'
  BY ListKeeps
<1> PICK r \in Scans : r = scan'[w] /\ scan' = [scan EXCEPT ![w] = r]
  <2>1. scan'[w] \in Scans
    BY <1>4 DEF IInv, Typed
  <2>2. scan' = [scan EXCEPT ![w] = scan'[w]]
    BY DEF List, ListSolana, ListEvm, Set, IInv, Typed
  <2> QED
    BY <2>1, <2>2
<1>5. CASE chain = "solana"
  <2> DEFINE page == Newest({t \in Shown : t > s.last /\ (s.before = 0 \/ t < s.before)})
             head == IF s.head = 0 THEN Max({0} \cup page) ELSE s.head
             before == IF page = {} THEN s.before ELSE Min(page)
             more == Cardinality(page) = PageSize
  <2>1. scan' = [scan EXCEPT ![w] = [s EXCEPT !.pc = "read", !.todo = page, !.more = more,
                                              !.head = head, !.before = before]]
    BY <1>5 DEF List, ListSolana, Set
  <2> HIDE DEF page, head, before, more
  <2>2. r = [s EXCEPT !.pc = "read", !.todo = page, !.more = more, !.head = head, !.before = before]
    BY <2>1 DEF IInv, Typed
  <2>3. r.pc = "read" /\ r.last = s.last /\ r.todo = page /\ r.more = more /\ r.head = head
        /\ r.before = before
    BY <2>2 DEF Scans
  <2>4. Window(s.before, s.head) /\ TracedTo(s.last)
    BY <1>3, <1>5 DEF ScanTraces
  <2>5. ReadingSolana(r)
    BY <2>3, <2>4, PageOfSolana DEF page, head, before, more
  <2>6. ScanTraces(r)
    BY <1>5, <2>3, <2>4, <2>5 DEF ScanTraces
  <2> QED
    BY <1>2, <2>6, ScanKept, OneScan
<1>6. CASE chain = "evm"
  <2> DEFINE head == IF s.page = 1 THEN Max({0} \cup Final) ELSE s.head
             end == Max({s.last, Min({s.last + PageSize, head})})
             todo == ((s.last + 1)..end) \cap Shown
             more == end < head
  <2>1. scan' = [scan EXCEPT ![w] = [s EXCEPT !.pc = "read", !.todo = todo, !.more = more,
                                              !.head = head, !.before = end]]
    BY <1>6 DEF List, ListEvm, Set
  <2>2. head \in Nat /\ Reached(head)
    <3>1. CASE s.page = 1
      <4>1. Final \in SUBSET Landed /\ {0} \cup Final \in SUBSET (0..MaxTransfers) /\ MaxTransfers \in Nat
        BY DEF Final, Landed, Transfers, PaymentConstants
      <4>2. Max({0} \cup Final) \in {0} \cup Final
        BY <4>1, MaxIn
      <4>3. Max({0} \cup Final) \in 0..MaxTransfers
        BY <4>1, <4>2
      <4> QED
        BY <3>1, <4>1, <4>2, <4>3 DEF Reached
    <3>2. CASE s.page # 1
      BY <1>3, <1>6, <3>2 DEF ScanTraces, Scans
    <3> QED
      BY <3>1, <3>2
  <2> HIDE DEF head, end, todo, more
  <2>3. r = [s EXCEPT !.pc = "read", !.todo = todo, !.more = more, !.head = head, !.before = end]
    BY <2>1 DEF IInv, Typed
  <2>4. r.pc = "read" /\ r.last = s.last /\ r.todo = todo /\ r.head = head /\ r.before = end
    BY <2>3 DEF Scans
  <2>5. TracedTo(s.last)
    BY <1>3 DEF ScanTraces
  <2>6. ReadingEvm(r)
    BY <2>2, <2>4, <2>5, PageOfEvm DEF end, todo
  <2>7. ScanTraces(r)
    BY <1>6, <2>2, <2>4, <2>5, <2>6 DEF ScanTraces
  <2> QED
    BY <1>2, <2>7, ScanKept, OneScan
<1> QED
  BY <1>5, <1>6 DEF TraceIInv

LEMMA ReadTraces ==
  ASSUME PaymentConstants, IInv, TraceIInv, NEW w \in Scanners, Read(w)
  PROVE  TraceIInv'
<1> PICK t \in Transfers : t = Current(w)
  BY CurrentIn DEF Read, IInv
<1> PICK s \in Scans : s = scan[w]
  BY DEF IInv, Typed
<1> PICK r : r = [s EXCEPT !.todo = s.todo \ {t}]
  OBVIOUS
<1>1. UNCHANGED <<chain, tx, cursor>> /\ withheld \subseteq withheld'
      /\ s.pc = "read" /\ ScanTraces(s) /\ s.todo # {} /\ scan' = [scan EXCEPT ![w] = r]
  BY DEF Read, At, Passed, Set, TraceIInv
<1>2. Kept /\ Traced(t)'
  <2>1. CASE Observe(t, tx[t].stage = "final") /\ UNCHANGED withheld
    BY <1>1, <2>1, Recorded DEF Observe
  <2>2. CASE /\ UNCHANGED <<invoice, obs, receipts, unmatched>>
             /\ tx[t].stage = "dropped" \/ t \in withheld'
    <3>1. Kept
      BY <1>1, <2>2, Untouched DEF Settled
    <3>2. Traced(t)'
      BY <1>1, <2>2 DEF Traced, Accounted
    <3> QED
      BY <3>1, <3>2
  <2> QED
    BY <2>1, <2>2 DEF Read
<1>3. CursorTraces'
  BY <1>1, <1>2, CursorKept DEF IInv, TraceIInv
<1>4. ScanTraces(s)' /\ chain' \in {"solana", "evm"}
  BY <1>1, <1>2, ScanKept DEF TraceIInv
<1>5. r.pc = s.pc /\ r.last = s.last /\ r.page = s.page /\ r.head = s.head /\ r.before = s.before
      /\ r.more = s.more /\ r.todo = s.todo \ {t}
  BY DEF Scans
<1>6. ScanTraces(r)'
  <2>1. chain' = "solana" => ReadingSolana(s)'
    BY <1>1, <1>4 DEF ScanTraces
  <2>2. chain' = "evm" => ReadingEvm(s)' /\ Reached(s.head)'
    BY <1>1, <1>4 DEF ScanTraces
  <2>3. TracedTo(s.last)'
    BY <1>1, <1>4 DEF ScanTraces
  <2>4. ReadingSolana(s)' => ReadingSolana(r)'
    BY <1>1, <1>2, <1>5 DEF ReadingSolana
  <2>5. ReadingEvm(s)' => ReadingEvm(r)'
    BY <1>2, <1>5 DEF ReadingEvm
  <2> QED
    BY <1>1, <1>5, <2>1, <2>2, <2>3, <2>4, <2>5 DEF ScanTraces
<1> QED
  BY <1>1, <1>2, <1>3, <1>6, OneScan

\* A cursor that is saved passes only what the scan, or one before it, traced.
LEMMA SavedTraces ==
  ASSUME PaymentConstants, NEW s \in Scans, TracedTo(s.last), ReadingSolana(s), s.todo = {}
  PROVE  TracedTo(Saved(s).last) /\ Window(Saved(s).before, Saved(s).head)
<1>1. s.last \in Nat /\ s.before \in Nat /\ s.head \in Nat
  BY DEF Scans
<1>2. CASE s.more
  BY <1>2 DEF Saved, ReadingSolana, Window
<1>3. CASE ~s.more /\ s.head = 0
  BY <1>3 DEF Saved, Window
<1>4. CASE ~s.more /\ s.head # 0
  <2>1. s.head \in Landed /\ s.before \in 1..s.head
        /\ (\A t \in s.before..s.head : Traced(t))
        /\ \A t \in (s.last + 1)..(s.before - 1) : Traced(t)
    BY <1>4 DEF ReadingSolana
  <2>2. \A t \in 1..s.last : Traced(t)
    BY DEF TracedTo
  <2>3. TracedTo(s.head)
    BY <1>1, <2>1, <2>2 DEF TracedTo, Reached
  <2> QED
    BY <1>4, <2>3 DEF Saved, Window
<1> QED
  BY <1>2, <1>3, <1>4

LEMMA EndPageTraces ==
  ASSUME PaymentConstants, IInv, TraceIInv, NEW w \in Scanners, EndPage(w)
  PROVE  TraceIInv'
<1> PICK s \in Scans : s = scan[w]
  BY DEF IInv, Typed
<1>1. UNCHANGED <<chain, tx, obs, receipts, unmatched, withheld, invoice>>
      /\ s.pc = "read" /\ s.todo = {} /\ ScanTraces(s)
  BY DEF EndPage, At, TraceIInv
<1>2. Kept
  BY <1>1, Untouched DEF Settled
<1>3. TracedTo(s.last) /\ (chain = "solana" => ReadingSolana(s))
      /\ (chain = "evm" => ReadingEvm(s) /\ Reached(s.head))
  BY <1>1 DEF ScanTraces
<1>4. cursor \in Cursors /\ CursorTraces
  BY DEF IInv, Typed, TraceIInv
<1>5. CASE chain = "solana"
  <2>1. cursor' = CursorAfter(s)
    BY <1>5 DEF EndPage
  <2>2. PICK c \in Cursors : c = cursor' /\ TracedTo(c.last) /\ Window(c.before, c.head)
    <3>1. Saved(s) \in Cursors /\ TracedTo(Saved(s).last) /\ Window(Saved(s).before, Saved(s).head)
      <4>1. Saved(s) \in Cursors
        BY DEF Saved, Scans, Cursors
      <4> QED
        BY <1>1, <1>3, <1>5, <4>1, SavedTraces
    <3> QED
      BY <1>4, <1>5, <2>1, <3>1 DEF CursorAfter, CursorTraces
  <2>3. CursorTraces'
    <3>1. TracedTo(c.last)' /\ Window(c.before, c.head)'
      BY <1>2, <2>2, TracedKept DEF Cursors
    <3> QED
      BY <2>2, <3>1 DEF CursorTraces, TracedTo, Window, Reached
  <2>4. PICK r : r = IF Again(s) THEN [s EXCEPT !.pc = "list", !.page = @ + 1]
                     ELSE [NoScan EXCEPT !.pc = "again",
                             !.todo = {t \in Transfers : obs[t] \in {"OBSERVED", "REVIEW_REQUIRED"}}]
    OBVIOUS
  <2>5. scan' = [scan EXCEPT ![w] = r]
    BY <1>5, <2>4 DEF EndPage, Set
  <2>6. r.pc \in {"list", "read"} => ScanTraces(r)'
    <3>1. CASE Again(s)
      <4>1. r \in Scans /\ r.pc = "list" /\ r.last = s.last /\ r.before = s.before /\ r.head = s.head
        <5>1. s.page + 1 \in Nat /\ s.before \in Nat
          BY DEF Scans
        <5>2. r = [s EXCEPT !.pc = "list", !.page = s.page + 1]
          BY <2>4, <3>1
        <5> QED
          BY <5>1, <5>2 DEF Scans
      <4>2. Window(r.before, r.head)
        BY <1>1, <1>3, <1>5, <4>1 DEF ReadingSolana, Window
      <4>3. ScanTraces(r)
        BY <1>3, <1>5, <4>1, <4>2 DEF ScanTraces
      <4> QED
        BY <1>2, <4>1, <4>3, ScanKept
    <3>2. CASE ~Again(s)
      BY <2>4, <3>2 DEF NoScan
    <3> QED
      BY <3>1, <3>2
  <2> QED
    BY <1>2, <2>3, <2>5, <2>6, OneScan
<1>6. CASE chain = "evm"
  <2>1. cursor' = IF s.before = s.last THEN cursor ELSE [cursor EXCEPT !.last = s.before]
    BY <1>6 DEF EndPage
  <2>2. TracedTo(s.before)
    BY <1>1, <1>3, <1>6 DEF ReadingEvm, TracedTo
  <2>3. PICK c \in Cursors : c = cursor' /\ TracedTo(c.last)
    <3>1. [cursor EXCEPT !.last = s.before] \in Cursors /\ [cursor EXCEPT !.last = s.before].last = s.before
      BY <1>4 DEF Cursors, Scans
    <3> QED
      BY <1>4, <2>1, <2>2, <3>1 DEF CursorTraces
  <2>4. CursorTraces'
    <3>1. TracedTo(c.last)'
      BY <1>2, <2>3, TracedKept
    <3> QED
      BY <1>1, <1>6, <2>3, <3>1 DEF CursorTraces, TracedTo, Reached
  <2>5. PICK r : r = IF Again(s) THEN [s EXCEPT !.pc = "list", !.page = @ + 1, !.last = s.before]
                     ELSE [NoScan EXCEPT !.pc = "deliver"]
    OBVIOUS
  <2>6. scan' = [scan EXCEPT ![w] = r]
    BY <1>6, <2>5 DEF EndPage, Set
  <2>7. r.pc \in {"list", "read"} => ScanTraces(r)'
    <3>1. CASE Again(s)
      <4>1. r \in Scans /\ r.pc = "list" /\ r.last = s.before /\ r.head = s.head
        <5>1. s.page + 1 \in Nat /\ s.before \in Nat
          BY DEF Scans
        <5>2. r = [s EXCEPT !.pc = "list", !.page = s.page + 1, !.last = s.before]
          BY <2>5, <3>1
        <5> QED
          BY <5>1, <5>2 DEF Scans
      <4>2. ScanTraces(r)
        BY <1>3, <1>6, <2>2, <4>1 DEF ScanTraces
      <4> QED
        BY <1>2, <4>1, <4>2, ScanKept
    <3>2. CASE ~Again(s)
      BY <2>5, <3>2 DEF NoScan
    <3> QED
      BY <3>1, <3>2
  <2> QED
    BY <1>2, <2>4, <2>6, <2>7, OneScan
<1> QED
  BY <1>5, <1>6 DEF TraceIInv

-----------------------------------------------------------------------------
LEMMA StartsTraced == ASSUME PaymentConstants, PayInit PROVE TraceIInv
<1>1. Landed = {}
  BY DEF PayInit, Landed
<1>2. TracedTo(0) /\ Window(0, 0)
  BY DEF TracedTo, Window, Reached
<1>3. obs \in Observations /\ InOrder
  BY <1>1 DEF PayInit, Observations, InOrder
<1>4. CursorTraces
  BY <1>2 DEF PayInit, CursorTraces
<1>5. \A w \in Scanners : ScanTraces(scan[w])
  BY DEF PayInit, NoScan, ScanTraces
<1> QED
  BY <1>3, <1>4, <1>5 DEF TraceIInv, PayInit

LEMMA StepTraces == ASSUME PaymentConstants, IInv, TraceIInv, [PayNext]_payVars PROVE TraceIInv'
<1>1. CASE UNCHANGED payVars
  <2>1. Kept
    BY <1>1, Untouched DEF payVars, Settled
  <2> QED
    BY <1>1, <2>1, AwayTraces DEF payVars
<1>2. CASE CreateOrder \/ Restart \/ Look \/ Cancel \/ Chain \/ TimeOver \/ Dies
  BY <1>2, OtherTraces, DiesTraces
<1>3. ASSUME NEW w \in Scanners,
             \/ StartScan(w) \/ List(w) \/ Read(w) \/ EndPage(w) \/ ReadAgain(w)
             \/ Expire(w) \/ Deliver(w) \/ Sweep(w) \/ CallFails(w)
      PROVE  TraceIInv'
  BY <1>3, StartTraces, ListTraces, ReadTraces, EndPageTraces, ReadAgainTraces, AsideTraces
<1> QED
  BY <1>1, <1>2, <1>3 DEF PayNext

LEMMA SkipsFollows == ASSUME PaymentConstants, IInv, TraceIInv PROVE CursorSkipsNothing
<1>1. cursor.last \in Nat /\ \A t \in 1..cursor.last : Traced(t)
  BY DEF IInv, Typed, Cursors, TraceIInv, CursorTraces, TracedTo
<1>2. ASSUME NEW t \in Transfers, t <= cursor.last PROVE Traced(t)
  BY <1>1, <1>2 DEF Transfers, PaymentConstants
<1> QED
  BY <1>2 DEF CursorSkipsNothing, Traced, Accounted

(* No cursor passes a final transfer that left no trace (payment_monitor.ts: *)
(* scanSolana, scanEvm and the cursors they save), whichever scans overlap,   *)
(* whatever the node withholds and wherever the process dies, for any number  *)
(* of transfers and scans, and pages of any size and number.                  *)
THEOREM CursorTracesAll ==
  ASSUME PaymentConstants
  PROVE  PayInit /\ [][PayNext]_payVars => []CursorSkipsNothing
<1>1. PayInit => IInv /\ TraceIInv
  BY StartsPaid, StartsTraced
<1>2. IInv /\ TraceIInv /\ [PayNext]_payVars => IInv' /\ TraceIInv'
  BY StepKeeps, StepTraces
<1>3. IInv /\ TraceIInv => CursorSkipsNothing
  BY SkipsFollows
<1> QED
  BY <1>1, <1>2, <1>3, PTL
=============================================================================

------------------------------ MODULE Payments ------------------------------
(***************************************************************************)
(* An order of the shop, its invoice and the transfers that pay it.         *)
(*                                                                         *)
(* The monitor reads the chain through an RPC node it cannot trust to be    *)
(* complete.  On Solana it pages backwards from the newest signature to the *)
(* last one it has seen; on an EVM chain forwards over finalized blocks.    *)
(* The timer's scan and an operator's may run at once, and the process may  *)
(* die anywhere.  Transfer t is the t-th that lands, for the exact amount.  *)
(* Tron, which replays its whole history, and refused transfers are left    *)
(* out; so are the rails, of which one is enabled.                          *)
(***************************************************************************)
EXTENDS Integers, FiniteSets, FiniteSetsExt

CONSTANTS
  MaxTransfers,  \* bound: transfers that land
  Scanners,      \* scans that may run at once
  PageSize,      \* signatures or blocks of a page, 100 and 500 in the code
  Pages,         \* pages of a scan, 5 in the code
  MaxWrong       \* bound: failed or withheld answers, deaths, scans that overlap another

PaymentConstants ==
  /\ MaxTransfers \in Nat /\ PageSize \in Nat \ {0} /\ Pages \in Nat \ {0} /\ MaxWrong \in Nat

VARIABLES
  chain,      \* the chain of the rail
  tx,         \* what the chain knows of each transfer
  late,       \* the invoice's time is over
  order,      \* the customer's order, in the control database
  invoice,    \* the rest is in the payment database: the invoice,
  obs,        \* its observations,
  receipts,   \* its receipts,
  told,       \* those of the outbox that were delivered,
  unmatched,  \* transfers no receipt is known of,
  cursor,     \* and how far the chain was read
  scan,       \* the running scans
  up,         \* the process runs
  withheld,   \* history: transfers the node did not show when asked
  bad         \* how many things went wrong

payVars == <<chain, tx, late, order, invoice, obs, receipts, told, unmatched, cursor, scan, up,
             withheld, bad>>

Transfers == 1..MaxTransfers
NoScan == [pc |-> "idle", todo |-> {}, page |-> 1, more |-> FALSE, last |-> 0, before |-> 0,
           head |-> 0]

PayInit ==
  /\ chain \in {"solana", "evm"}
  /\ tx = [t \in Transfers |-> [stage |-> "none", late |-> FALSE]]
  /\ late = FALSE
  /\ order = [state |-> "none", linked |-> FALSE]
  /\ invoice = [status |-> "none", cancelled |-> FALSE]
  /\ obs = [t \in Transfers |-> "none"]
  /\ receipts = {} /\ told = {} /\ unmatched = {}
  /\ cursor = [last |-> 0, before |-> 0, head |-> 0]
  /\ scan = [w \in Scanners |-> NoScan]
  /\ up = TRUE /\ withheld = {} /\ bad = 0

Landed == {t \in Transfers : tx[t].stage # "none"}
Shown == {t \in Landed : tx[t].stage # "dropped"}
Wrong == bad < MaxWrong /\ bad' = bad + 1
At(w, pc) == up /\ scan[w].pc = pc
Set(w, s) == scan' = [scan EXCEPT ![w] = s]
Newest(S) == {t \in S : Cardinality({u \in S : u > t}) < PageSize}

-----------------------------------------------------------------------------
(* The order and its invoice.                                               *)

(* finalized(): only an order that is linked to the invoice is paid. *)
PaidOrder == [order EXCEPT !.state = IF order.linked THEN "PAID" ELSE @]
Closed == invoice.cancelled \/ invoice.status \in {"CANCELLED", "EXPIRED"}
Followed == IF invoice.status = "FINALIZED" THEN PaidOrder
            ELSE [order EXCEPT !.state = IF Closed /\ @ # "PAID" THEN "CANCELLED" ELSE @]
NewInvoice == IF invoice.status = "none" THEN [invoice EXCEPT !.status = "WAITING"] ELSE invoice
Linked == [state |-> "AWAITING_PAYMENT", linked |-> TRUE]

(* createOrder(): the order, the invoice and the link are three writes in two *)
(* databases; death may come after each.                                     *)
CreateOrder ==
  /\ up /\ order.state \in {"none", "PENDING"} /\ ~late
  /\ \/ order' = Linked /\ invoice' = NewInvoice /\ UNCHANGED <<scan, up, bad>>
     \/ /\ Wrong /\ up' = FALSE /\ scan' = [w \in Scanners |-> NoScan]
        /\ order' = [order EXCEPT !.state = "PENDING"]
        /\ invoice' \in {invoice, NewInvoice}
  /\ UNCHANGED <<chain, tx, late, obs, receipts, told, unmatched, cursor, withheld>>

(* reconcile(true) when the service starts. *)
Restart ==
  /\ ~up /\ up' = TRUE
  /\ IF order.state # "PENDING" THEN order' = Followed /\ UNCHANGED invoice
     ELSE IF late THEN order' = [order EXCEPT !.state = "CANCELLED"] /\ UNCHANGED invoice
     ELSE order' = Linked /\ invoice' = NewInvoice
  /\ UNCHANGED <<chain, tx, late, obs, receipts, told, unmatched, cursor, scan, withheld, bad>>

(* reconcile() and payment(), whenever someone looks. *)
Look ==
  /\ up /\ order.linked /\ order' = Followed
  /\ UNCHANGED <<chain, tx, late, invoice, obs, receipts, told, unmatched, cursor, scan, up,
                 withheld, bad>>
Cancel ==
  /\ up /\ invoice.status = "WAITING"
  /\ invoice' = [status |-> "CANCELLED", cancelled |-> TRUE]
  /\ UNCHANGED <<chain, tx, late, order, obs, receipts, told, unmatched, cursor, scan, up,
                 withheld, bad>>

-----------------------------------------------------------------------------
(* The chain: only a customer who was shown the invoice pays.                *)
Stage(t, s) == tx' = [tx EXCEPT ![t].stage = s]
Chain ==
  /\ \/ \E t \in Transfers : /\ order.linked /\ Landed = 1..(t - 1)
                             /\ tx' = [tx EXCEPT ![t] = [stage |-> "confirmed", late |-> late]]
     \/ \E t \in Transfers : /\ tx[t].stage = "confirmed"
                             /\ \A u \in 1..(t - 1) : tx[u].stage # "confirmed"
                             /\ Stage(t, "final")
     \/ \E t \in Transfers : chain = "solana" /\ tx[t].stage = "confirmed" /\ Stage(t, "dropped")
  /\ UNCHANGED <<chain, late, order, invoice, obs, receipts, told, unmatched, cursor, scan, up,
                 withheld, bad>>
TimeOver ==
  /\ ~late /\ late' = TRUE
  /\ UNCHANGED <<chain, tx, order, invoice, obs, receipts, told, unmatched, cursor, scan, up,
                 withheld, bad>>

-----------------------------------------------------------------------------
(* observe(): one transaction, then the order is told. *)
SettledMutant == FALSE        \* a second transfer is not held back
Settled == invoice.status = "FINALIZED"
Status(t, final) ==
  IF invoice.cancelled \/ tx[t].late THEN "REVIEW_REQUIRED"
  ELSE IF final THEN "FINALIZED" ELSE "OBSERVED"
Record(t, final) ==
  LET status == Status(t, final)
      fresh == t \notin receipts /\ ~Settled
      pays == fresh /\ status = "FINALIZED"
      double == chain = "evm" /\ t \notin receipts /\ Settled
  IN
  /\ obs' = IF fresh THEN [obs EXCEPT ![t] = status] ELSE obs
  /\ invoice' = IF fresh THEN [invoice EXCEPT !.status = status] ELSE invoice
  /\ receipts' = IF pays THEN receipts \cup {t} ELSE receipts
  /\ unmatched' = IF pays THEN unmatched \ {t} ELSE IF double THEN unmatched \cup {t} ELSE unmatched
Observe(t, final) ==
  /\ Record(t, final)
  /\ order' = IF t \in receipts' THEN PaidOrder ELSE order

-----------------------------------------------------------------------------
(* scanInvoice().                                                           *)

Open == chain = "evm" \/ invoice.status \notin {"none", "FINALIZED"}
StartScan(w) ==
  /\ At(w, "idle")
  /\ IF \A v \in Scanners : scan[v].pc = "idle" THEN UNCHANGED bad ELSE Wrong
  /\ \/ /\ Open
        /\ Set(w, [NoScan EXCEPT !.pc = "list", !.last = cursor.last, !.before = cursor.before,
                                 !.head = cursor.head])
     \/ ~Open /\ Set(w, [NoScan EXCEPT !.pc = "sweep"])     \* the timer's scan only
  /\ UNCHANGED <<chain, tx, late, order, invoice, obs, receipts, told, unmatched, cursor, up,
                 withheld>>

(* A page.  Solana: the newest signatures older than `before' and newer than *)
(* `last'; `head' is the newest of all.  EVM: the next blocks, up to `before', *)
(* of those that were final (up to `head') when the scan began.               *)
Final == {t \in Landed : \A u \in 1..t : tx[u].stage \in {"final", "dropped"}}
ListSolana(w) ==
  LET s == scan[w]
      page == Newest({t \in Shown : t > s.last /\ (s.before = 0 \/ t < s.before)})
  IN Set(w, [s EXCEPT !.pc = "read", !.todo = page, !.more = Cardinality(page) = PageSize,
               !.head = IF @ = 0 THEN Max({0} \cup page) ELSE @,
               !.before = IF page = {} THEN @ ELSE Min(page)])
ListEvm(w) ==
  LET s == scan[w]
      head == IF s.page = 1 THEN Max({0} \cup Final) ELSE s.head
      end == Max({s.last, Min({s.last + PageSize, head})})
  IN Set(w, [s EXCEPT !.pc = "read", !.todo = ((s.last + 1)..end) \cap Shown,
               !.more = end < head, !.head = head, !.before = end])
List(w) ==
  /\ At(w, "list")
  /\ IF chain = "solana" THEN ListSolana(w) ELSE ListEvm(w)
  /\ UNCHANGED <<chain, tx, late, order, invoice, obs, receipts, told, unmatched, cursor, up,
                 withheld, bad>>

(* A node that does not show a transfer is believed on Solana; an EVM scan   *)
(* ends with an error, and its cursor stays.                                 *)
Current(w) == Max(scan[w].todo)
Passed(w) == Set(w, [scan[w] EXCEPT !.todo = @ \ {Current(w)}])
Read(w) ==
  /\ At(w, "read") /\ scan[w].todo # {}
  /\ LET t == Current(w) IN
     \/ /\ tx[t].stage # "dropped"
        /\ Observe(t, tx[t].stage = "final")
        /\ Passed(w) /\ UNCHANGED <<withheld, bad>>
     \/ /\ tx[t].stage = "dropped" /\ Passed(w)
        /\ UNCHANGED <<order, invoice, obs, receipts, unmatched, withheld, bad>>
     \/ /\ chain = "solana" /\ Wrong /\ Passed(w) /\ withheld' = withheld \cup {t}
        /\ UNCHANGED <<order, invoice, obs, receipts, unmatched>>
  /\ UNCHANGED <<chain, tx, late, told, cursor, up>>

(* The cursor reaches the newest signature only when all below it were read. *)
Saved(s) == IF s.more THEN [last |-> s.last, before |-> s.before, head |-> s.head]
            ELSE [last |-> IF s.head = 0 THEN s.last ELSE s.head, before |-> 0, head |-> 0]
Again(s) == s.more /\ s.page < Pages
CursorAfterMutant(s) == [last |-> s.head, before |-> 0, head |-> 0]     \* with the first page
CursorAfter(s) == IF Again(s) THEN cursor ELSE Saved(s)
EndPage(w) ==
  /\ At(w, "read") /\ scan[w].todo = {}
  /\ LET s == scan[w]
         again == Again(s)
         watched == {t \in Transfers : obs[t] \in {"OBSERVED", "REVIEW_REQUIRED"}}
     IN
     IF chain = "solana"
     THEN /\ cursor' = CursorAfter(s)
          /\ Set(w, IF again THEN [s EXCEPT !.pc = "list", !.page = @ + 1]
                    ELSE [NoScan EXCEPT !.pc = "again", !.todo = watched])
     ELSE /\ cursor' = IF s.before = s.last THEN cursor ELSE [cursor EXCEPT !.last = s.before]
          /\ Set(w, IF again THEN [s EXCEPT !.pc = "list", !.page = @ + 1, !.last = s.before]
                    ELSE [NoScan EXCEPT !.pc = "deliver"])
  /\ UNCHANGED <<chain, tx, late, order, invoice, obs, receipts, told, unmatched, up, withheld, bad>>

(* What was observed is read again: it is final now, or it is gone.          *)
Gone(t) == /\ obs' = [obs EXCEPT ![t] = IF @ = "OBSERVED" THEN "DROPPED" ELSE @]
           /\ invoice' = [invoice EXCEPT !.status = IF @ = "OBSERVED" THEN "WAITING" ELSE @]
           /\ UNCHANGED <<order, receipts, unmatched>>
ReadAgain(w) ==
  /\ At(w, "again") /\ scan[w].todo # {} /\ Passed(w)
  /\ LET t == Current(w) IN
     \/ tx[t].stage = "final" /\ Observe(t, TRUE) /\ UNCHANGED <<withheld, bad>>
     \/ tx[t].stage = "dropped" /\ Gone(t) /\ UNCHANGED <<withheld, bad>>
     \/ /\ tx[t].stage = "confirmed"
        /\ UNCHANGED <<order, invoice, obs, receipts, unmatched, withheld, bad>>
     \/ tx[t].stage # "dropped" /\ Wrong /\ Gone(t) /\ withheld' = withheld \cup {t}
  /\ UNCHANGED <<chain, tx, late, told, cursor, up>>
Expire(w) ==
  /\ At(w, "again") /\ scan[w].todo = {}
  /\ invoice' = [invoice EXCEPT !.status = IF @ = "WAITING" /\ late THEN "EXPIRED" ELSE @]
  /\ Set(w, [NoScan EXCEPT !.pc = "deliver"])
  /\ UNCHANGED <<chain, tx, late, order, obs, receipts, told, unmatched, cursor, up, withheld, bad>>

(* deliverMemories(): the order is told again before the outbox is marked.   *)
Delivered == IF receipts = told THEN order ELSE PaidOrder
Deliver(w) ==
  /\ up /\ scan[w].pc \in {"deliver", "last"}
  /\ order' = Delivered /\ told' = receipts
  /\ \/ Set(w, NoScan)
     \/ chain = "solana" /\ At(w, "deliver") /\ Set(w, [NoScan EXCEPT !.pc = "sweep"])
  /\ UNCHANGED <<chain, tx, late, invoice, obs, receipts, unmatched, cursor, up, withheld, bad>>

(* scanUnmatched(): looks for a receipt, asks the node, and writes.          *)
Sweep(w) ==
  /\ \/ /\ At(w, "sweep") /\ UNCHANGED unmatched
        /\ Set(w, [NoScan EXCEPT !.pc = "check", !.todo = {t \in Transfers : tx[t].stage = "final"}])
     \/ /\ At(w, "check") /\ UNCHANGED unmatched
        /\ IF scan[w].todo = {} THEN Set(w, [NoScan EXCEPT !.pc = "last"])
           ELSE IF Current(w) \in receipts THEN Passed(w)
           ELSE Set(w, [scan[w] EXCEPT !.pc = "file"])
     \/ /\ At(w, "file") /\ unmatched' = unmatched \cup {Current(w)}
        /\ Set(w, [scan[w] EXCEPT !.pc = "check", !.todo = @ \ {Current(w)}])
  /\ UNCHANGED <<chain, tx, late, order, invoice, obs, receipts, told, cursor, up, withheld, bad>>

CallFails(w) ==
  /\ up /\ scan[w].pc \in {"list", "read", "again", "sweep", "file"} /\ Wrong /\ Set(w, NoScan)
  /\ UNCHANGED <<chain, tx, late, order, invoice, obs, receipts, told, unmatched, cursor, up,
                 withheld>>
(* Death, also between a receipt and the order, or the order and the outbox. *)
Dies ==
  /\ up /\ Wrong /\ up' = FALSE /\ scan' = [w \in Scanners |-> NoScan]
  /\ \/ UNCHANGED <<order, invoice, obs, receipts, unmatched>>
     \/ \E w \in Scanners : /\ scan[w].pc \in {"read", "again"} /\ scan[w].todo # {}
                            /\ tx[Current(w)].stage = "final"
                            /\ Record(Current(w), TRUE) /\ UNCHANGED order
     \/ /\ \E w \in Scanners : scan[w].pc \in {"deliver", "last"}
        /\ order' = Delivered /\ UNCHANGED <<invoice, obs, receipts, unmatched>>
  /\ UNCHANGED <<chain, tx, late, told, cursor, withheld>>

PayNext ==
  \/ CreateOrder \/ Restart \/ Look \/ Cancel \/ Chain \/ TimeOver \/ Dies
  \/ \E w \in Scanners : \/ StartScan(w) \/ List(w) \/ Read(w) \/ EndPage(w) \/ ReadAgain(w)
                         \/ Expire(w) \/ Deliver(w) \/ Sweep(w) \/ CallFails(w)

-----------------------------------------------------------------------------
(* No cursor passes a transfer that is final and left no trace: whichever     *)
(* scans overlap and wherever the process dies, it has a receipt, awaits       *)
(* review or its finality, or is filed, unless the node did not show it (or    *)
(* the invoice was paid before, which the sweep reports).                      *)
CursorSkipsNothing ==
  \A t \in Transfers : t <= cursor.last /\ tx[t].stage = "final" =>
    \/ t \in receipts \cup unmatched \cup withheld
    \/ obs[t] \in {"OBSERVED", "REVIEW_REQUIRED"}
    \/ chain = "solana" /\ Settled

(* An invoice is paid once; an order is paid only if its invoice is, and is    *)
(* whenever the outbox says that it was told: two databases and every death     *)
(* between their writes.                                                        *)
PaidOnce ==
  /\ Cardinality(receipts) <= 1 /\ told \subseteq receipts
  /\ order.state = "PAID" => receipts # {}
  /\ told # {} => order.state = "PAID"
=============================================================================

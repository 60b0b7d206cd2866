------------------------------ MODULE OrderTxns ------------------------------
(***************************************************************************)
(* The order desk: every handler that reads and writes the products,       *)
(* orders, payment-verification and refund tables, cut at its awaits.      *)
(*                                                                         *)
(* A handler runs in a SQLAlchemy session of its own.  Three facts about   *)
(* that session decide what two of them can do to each other:              *)
(*   - a row is read without a lock, at READ COMMITTED, and the session    *)
(*     keeps the object it read: a later lookup returns the same object;   *)
(*   - flush() sends an UPDATE of the columns whose value changed, with    *)
(*     the value computed in Python, and the row stays locked until the    *)
(*     session commits or rolls back;                                      *)
(*   - the order reference is counted before the row is inserted, and a    *)
(*     unique constraint decides between two inserts of one reference.     *)
(* The handlers are the agent's tools (agents/tools/orders.py, crm.py,     *)
(* payments.py), the dashboard's endpoints (admin/router.py) and the       *)
(* auto-cancel sweep (main.py).  Message sending, CRM stages and audit     *)
(* events, which touch none of these tables, belong to other modules.      *)
(***************************************************************************)
EXTENDS Integers, Sequences, FiniteSets

CONSTANTS
  Sessions,     \* concurrent handlers: tool calls, requests, the sweep
  Products,     \* rows of the products table, named by SKU
  Customers,
  Carts,        \* what a customer may order: sequences of cart lines
  Scope,        \* Scope[s]: the products the requests of session s concern
  Ops,          \* the kinds of request that arrive
  MaxOrders,    \* bound: no order is begun once this many exist
  MaxReceipts,  \* bound: likewise for payment verifications
  MaxLevel,     \* bound: the highest stock level the dashboard sets
  MaxRequests,  \* bound: requests one session serves
  MaxCrashes    \* bound: sessions that die in mid-handler

VARIABLES
  products,     \* committed products rows
  orders,       \* committed orders rows, in the order of their commits
  receipts,     \* committed pending_payment_verifications rows
  refunds,      \* committed refund_requests rows: the order each names, or 0
  txn,          \* the handler each session is running
  served,       \* requests each session has taken
  crashes       \* sessions that died so far

vars == <<products, orders, receipts, refunds, txn, served, crashes>>

-----------------------------------------------------------------------------
(* Rows. *)

OpNames == {"create", "cancel", "admincancel", "autocancel", "repay",
            "approve", "resend", "flag", "level", "receipt", "refund"}
PayMethods == {"bank_transfer", "cod"}
Statuses == {"draft", "awaiting_payment", "pending_delivery", "paid", "cancelled"}
Open == {"awaiting_payment", "pending_delivery"}

ProductRow == [stock : Nat, active : BOOLEAN]
Columns == {"stock", "active"}
Line == [sku : Products, qty : Nat \ {0}]
OrderRow == [ref : Nat, cust : Customers, lines : Seq(Line),
             pay : PayMethods, status : Statuses, flagged : BOOLEAN]
ReceiptRow == [order : Nat, status : {"pending", "approved", "resend_requested"}]

ASSUME SessionsAreFinite == IsFiniteSet(Sessions)
ASSUME SessionsAreScoped == Scope \in [Sessions -> SUBSET Products]
ASSUME CartsAreCarts == Carts \subseteq (Seq(Line) \ {<<>>})
ASSUME SomeCustomer == Customers # {}
ASSUME OpsAreNames == Ops \subseteq OpNames
ASSUME BoundsAreNaturals ==
  {MaxOrders, MaxReceipts, MaxLevel, MaxRequests, MaxCrashes} \subseteq Nat

\* An order object before its columns are set.
Blank == [ref |-> 0, cust |-> CHOOSE c \in Customers : TRUE, lines |-> <<>>,
          pay |-> "bank_transfer", status |-> "draft", flagged |-> FALSE]

\* The status a payment method puts an unpaid order in.
StatusFor(pay) == IF pay = "cod" THEN "pending_delivery" ELSE "awaiting_payment"

Refs == {orders[i].ref : i \in DOMAIN orders}
OrderIds == DOMAIN orders

-----------------------------------------------------------------------------
(* Sessions.                                                               *)
(*   op, at : the handler, and the statement it executes next              *)
(*   n      : the line being worked on, or the level being set             *)
(*   obj    : the product objects; those in known have been read           *)
(*   dirty  : the product columns sent by flush and not yet committed      *)
(*   id     : the order being worked on; row is the object as it was read, *)
(*            want the object as the handler leaves it                     *)
(*   rid    : the payment verification being worked on                     *)

Txn == [op : OpNames \cup {"none"},
        at : {"idle", "check", "take", "count", "insert", "load", "restore",
              "give", "level", "status", "lookup", "resolve", "file",
              "refund", "commit"},
        n : Nat,
        obj : [Products -> ProductRow], known : SUBSET Products,
        dirty : SUBSET (Products \X Columns),
        id : Nat, row : OrderRow, want : OrderRow, rid : Nat]

Unread == [stock |-> 0, active |-> FALSE]

Idle == [op |-> "none", at |-> "idle", n |-> 0, obj |-> [p \in Products |-> Unread],
         known |-> {}, dirty |-> {}, id |-> 0, row |-> Blank, want |-> Blank, rid |-> 0]

At(s, op, at) == txn[s].op = op /\ txn[s].at = at

\* A handler that holds no order object yet, and one that holds order i as it
\* read it and means to leave it as w.
Begun(op, at, id, rid) == [Idle EXCEPT !.op = op, !.at = at, !.id = id, !.rid = rid]
Changing(op, at, n, i, w) ==
  [Idle EXCEPT !.op = op, !.at = at, !.n = n, !.id = i, !.row = orders[i], !.want = w]

\* The session goes on as t says; the request is over when t is Idle.
Continue(s, t) == txn' = [txn EXCEPT ![s] = t]

\* A request arrives at an idle session.
Begin(s, op) ==
  /\ txn[s] = Idle
  /\ op \in Ops
  /\ IF op = "autocancel" THEN UNCHANGED served
     ELSE served[s] < MaxRequests /\ served' = [served EXCEPT ![s] = @ + 1]

\* The product as the session sees it: the object it holds, else the row.
Seen(s, p) == IF p \in txn[s].known THEN txn[s].obj[p] ELSE products[p]

\* Session state t with o as the object of product p.
Holding(t, p, o) == [t EXCEPT !.obj[p] = o, !.known = @ \cup {p}]

Changed(old, new) == {c \in Columns : old[c] # new[c]}

ProductLocked(s, p) == \E t \in Sessions \ {s}, c \in Columns : <<p, c>> \in txn[t].dirty

\* The order row is written by flush on the way out of "status".
PastFlush == {"lookup", "resolve", "commit"}
HoldsOrder(t) == txn[t].id # 0 /\ txn[t].at \in PastFlush /\ txn[t].row # txn[t].want
OrderLocked(s, i) == \E t \in Sessions \ {s} : HoldsOrder(t) /\ txn[t].id = i

HoldsRef(t) == At(t, "create", "commit")
RefTaken(s, r) == \E t \in Sessions \ {s} : HoldsRef(t) /\ txn[t].want.ref = r

HoldsReceipt(t) == txn[t].rid # 0 /\ txn[t].at = "commit"
ReceiptLocked(s, v) == \E t \in Sessions \ {s} : HoldsReceipt(t) /\ txn[t].rid = v

InScope(s, i) == \A k \in DOMAIN orders[i].lines : orders[i].lines[k].sku \in Scope[s]
ReceiptInScope(s, v) == receipts[v].order # 0 => InScope(s, receipts[v].order)

-----------------------------------------------------------------------------
(* What the handlers check before they write.  A definition named for what  *)
(* it forgets, misses or takes wrongly, just before a definition, is a      *)
(* deliberately wrong variant of it, which no action uses.                  *)

CancelForgetsCancelled(op, status) == op = "admincancel" \/ status # "paid"

\* The tool and the endpoint refuse an order that is cancelled already; the
\* tool also refuses one that is paid.
MayCancel(op, status) == status \in IF op = "admincancel" THEN Open \cup {"paid"} ELSE Open

\* update_payment_method refuses a cancelled or paid order.
MayRepay(status) == status \notin {"cancelled", "paid"}

\* approve_payment_verification marks paid only what awaits payment.
MayApprove(status) == status = "awaiting_payment"

AnyRef(r) == TRUE

\* The unique constraint on (tenant_id, order_ref).
Unique(r) == r \notin Refs

RepaidByCodOnly(row, pay) ==
  [row EXCEPT !.pay = pay, !.status = IF pay = "cod" THEN StatusFor(pay) ELSE @]

\* update_order_payment_method.
Repaid(row, pay) == [row EXCEPT !.pay = pay, !.status = StatusFor(pay)]

RefundsEveryCancellation(s) == txn[s].op = "admincancel"

\* The dashboard's cancel of an order that was paid files a refund.
FilesRefund(s) == txn[s].op = "admincancel" /\ txn[s].row.status = "paid"

-----------------------------------------------------------------------------
(* Steps shared by several handlers. *)

CurrentLine(s) == txn[s].want.lines[txn[s].n]
LastLine(s) == txn[s].n = Len(txn[s].want.lines)

DecrementedShown(o, qty) ==
  [stock |-> IF o.stock > qty THEN o.stock - qty ELSE 0, active |-> o.active]

\* decrement_product_stock: never below zero, and hidden at zero.
Decremented(o, qty) ==
  LET left == IF o.stock > qty THEN o.stock - qty ELSE 0 IN
  [stock |-> left, active |-> o.active /\ left # 0]

RestoredHidden(o, qty) == [stock |-> o.stock + qty, active |-> o.active]

\* cancel_order's line: the units come back and the product is shown.
Restored(o, qty) == [stock |-> o.stock + qty, active |-> TRUE]

\* set_product_stock, and a product as the dashboard creates it.
Levelled(level) == [stock |-> level, active |-> level > 0]

\* The product the session flushes next, its new values, and the columns of
\* them the UPDATE carries.
Target(s) == IF txn[s].at = "level" THEN CHOOSE p \in txn[s].known : TRUE
             ELSE CurrentLine(s).sku
NewValues(s) ==
  LET o == txn[s].obj[Target(s)] IN
  CASE txn[s].at = "take"  -> Decremented(o, CurrentLine(s).qty)
    [] txn[s].at = "give"  -> Restored(o, CurrentLine(s).qty)
    [] txn[s].at = "level" -> Levelled(txn[s].n)
NewColumns(s) == Changed(txn[s].obj[Target(s)], NewValues(s))

\* flush(): waits for the row's lock when a column changed, sends nothing
\* when none did.
FlushProduct(s, next) ==
  /\ NewColumns(s) # {} => ~ ProductLocked(s, Target(s))
  /\ Continue(s, Holding([next EXCEPT !.dirty = @ \cup ({Target(s)} \X NewColumns(s))],
                         Target(s), NewValues(s)))

\* commit(): the changed columns of every written row become visible.
CommittedProducts(s) ==
  [p \in Products |->
     [stock  |-> IF <<p, "stock">> \in txn[s].dirty THEN txn[s].obj[p].stock
                 ELSE products[p].stock,
      active |-> IF <<p, "active">> \in txn[s].dirty THEN txn[s].obj[p].active
                 ELSE products[p].active]]

CommittedOrder(s, r) ==
  LET old == txn[s].row new == txn[s].want IN
  [r EXCEPT !.pay     = IF old.pay # new.pay THEN new.pay ELSE @,
            !.status  = IF old.status # new.status THEN new.status ELSE @,
            !.flagged = IF old.flagged # new.flagged THEN new.flagged ELSE @]

CommittedReceiptsByOp(s) ==
  IF txn[s].rid = 0 THEN receipts ELSE [receipts EXCEPT ![txn[s].rid].status = txn[s].op]

\* resolve_payment_verification stores the decision.
CommittedReceipts(s) ==
  IF txn[s].rid = 0 THEN receipts
  ELSE [receipts EXCEPT ![txn[s].rid].status =
          IF txn[s].op = "approve" THEN "approved" ELSE "resend_requested"]

-----------------------------------------------------------------------------
(* create_order (the tool) and _local_order. *)

CreateOrder(s) ==
  /\ Begin(s, "create")
  /\ Len(orders) < MaxOrders
  /\ \E cart \in Carts, pay \in PayMethods, c \in Customers :
       /\ \A k \in DOMAIN cart : cart[k].sku \in Scope[s]
       /\ Continue(s, [Idle EXCEPT !.op = "create", !.at = "check", !.n = 1,
                         !.want = [Blank EXCEPT !.cust = c, !.lines = cart, !.pay = pay,
                                                !.status = StatusFor(pay)]])
  /\ UNCHANGED <<products, orders, receipts, refunds, crashes>>

\* First pass: every line's product is active and has the stock.
CheckLine(s) ==
  /\ At(s, "create", "check")
  /\ LET p == CurrentLine(s).sku o == Seen(s, p) IN
       /\ o.active
       /\ o.stock >= CurrentLine(s).qty
       /\ Continue(s, Holding([txn[s] EXCEPT !.n = IF LastLine(s) THEN 1 ELSE @ + 1,
                                             !.at = IF LastLine(s) THEN "take" ELSE "check"],
                              p, o))
  /\ UNCHANGED <<products, orders, receipts, refunds, served, crashes>>

RetriesLine(s) ==
  /\ At(s, "create", "check")
  /\ LET o == Seen(s, CurrentLine(s).sku) IN ~ o.active \/ o.stock < CurrentLine(s).qty
  /\ UNCHANGED vars

\* A line fails the check: the exception closes the session.
RefuseLine(s) ==
  /\ At(s, "create", "check")
  /\ LET o == Seen(s, CurrentLine(s).sku) IN ~ o.active \/ o.stock < CurrentLine(s).qty
  /\ Continue(s, Idle)
  /\ UNCHANGED <<products, orders, receipts, refunds, served, crashes>>

\* Second pass: take the units from the objects the first pass read.
TakeLine(s) ==
  /\ At(s, "create", "take")
  /\ FlushProduct(s, [txn[s] EXCEPT !.n = IF LastLine(s) THEN @ ELSE @ + 1,
                                    !.at = IF LastLine(s) THEN "count" ELSE "take"])
  /\ UNCHANGED <<products, orders, receipts, refunds, served, crashes>>

\* generate_order_ref: one more than the orders that exist.
CountOrders(s) ==
  /\ At(s, "create", "count")
  /\ Continue(s, [txn[s] EXCEPT !.want.ref = Len(orders) + 1, !.at = "insert"])
  /\ UNCHANGED <<products, orders, receipts, refunds, served, crashes>>

\* The INSERT waits for a session that has inserted the same reference ...
InsertOrder(s) ==
  /\ At(s, "create", "insert")
  /\ ~ RefTaken(s, txn[s].want.ref)
  /\ Unique(txn[s].want.ref)
  /\ Continue(s, [txn[s] EXCEPT !.at = "commit"])
  /\ UNCHANGED <<products, orders, receipts, refunds, served, crashes>>

\* ... and fails on the unique constraint if that session committed.
InsertCollides(s) ==
  /\ At(s, "create", "insert")
  /\ ~ Unique(txn[s].want.ref)
  /\ Continue(s, Idle)
  /\ UNCHANGED <<products, orders, receipts, refunds, served, crashes>>

CommitNewOrder(s) ==
  /\ At(s, "create", "commit")
  /\ products' = CommittedProducts(s)
  /\ orders' = Append(orders, txn[s].want)
  /\ Continue(s, Idle)
  /\ UNCHANGED <<receipts, refunds, served, crashes>>

-----------------------------------------------------------------------------
(* cancel_order: the customer's tool, the dashboard (force) and the sweep. *)

Restoring(op, i) ==
  Changing(op, "restore", 1, i, [orders[i] EXCEPT !.status = "cancelled"])

\* The tool and the endpoint read the order.
LoadForCancel(s) ==
  \E op \in {"cancel", "admincancel"}, i \in OrderIds :
    /\ Begin(s, op)
    /\ InScope(s, i)
    /\ MayCancel(op, orders[i].status)
    /\ Continue(s, Restoring(op, i))
    /\ UNCHANGED <<products, orders, receipts, refunds, crashes>>

\* get_stale_pending_cancellations: asked for long enough ago (any flag may have
\* been), and still open.
IsStale(i) == orders[i].flagged /\ orders[i].status \in Open

\* The sweep, one task that handles one order at a time, lists the stale ones ...
ListStale(s) ==
  /\ Begin(s, "autocancel")
  /\ \A t \in Sessions : txn[t].op # "autocancel"
  /\ \E i \in OrderIds :
       /\ InScope(s, i)
       /\ IsStale(i)
       /\ Continue(s, Begun("autocancel", "load", i, 0))
  /\ UNCHANGED <<products, orders, receipts, refunds, crashes>>

\* ... and reads each again in a session of its own.
LoadStale(s) ==
  /\ At(s, "autocancel", "load")
  /\ MayCancel("autocancel", orders[txn[s].id].status)
  /\ Continue(s, Restoring("autocancel", txn[s].id))
  /\ UNCHANGED <<products, orders, receipts, refunds, served, crashes>>

\* Paid meanwhile: cancel_order raises.  Cancelled meanwhile: it returns.
StaleIsClosed(s) ==
  /\ At(s, "autocancel", "load")
  /\ ~ MayCancel("autocancel", orders[txn[s].id].status)
  /\ Continue(s, Idle)
  /\ UNCHANGED <<products, orders, receipts, refunds, served, crashes>>

\* get_product_by_sku for the next line ...
ReadLine(s) ==
  /\ txn[s].at = "restore"
  /\ LET p == CurrentLine(s).sku IN
       Continue(s, Holding([txn[s] EXCEPT !.at = "give"], p, Seen(s, p)))
  /\ UNCHANGED <<products, orders, receipts, refunds, served, crashes>>

\* ... and the flush that gives its units back and shows the product again.
GiveLine(s) ==
  /\ txn[s].at = "give"
  /\ FlushProduct(s, [txn[s] EXCEPT !.n = IF LastLine(s) THEN @ ELSE @ + 1,
                                    !.at = IF LastLine(s) THEN "status" ELSE "restore"])
  /\ UNCHANGED <<products, orders, receipts, refunds, served, crashes>>

\* The flush of the order row, shared by every handler that changes one.
FlushOrder(s) ==
  /\ txn[s].at = "status"
  /\ txn[s].row # txn[s].want => ~ OrderLocked(s, txn[s].id)
  /\ Continue(s, [txn[s] EXCEPT !.at = CASE txn[s].op = "autocancel" -> "lookup"
                                         [] txn[s].op = "approve"    -> "resolve"
                                         [] OTHER                    -> "commit"])
  /\ UNCHANGED <<products, orders, receipts, refunds, served, crashes>>

\* The sweep asks has_active_orders for the customer without the tenant the
\* function requires: the TypeError rolls the whole cancellation back.
SweepRaises(s) ==
  /\ At(s, "autocancel", "lookup")
  /\ Continue(s, Idle)
  /\ UNCHANGED <<products, orders, receipts, refunds, served, crashes>>

\* The commit of every handler but create_order.  The dashboard's cancel of a
\* paid order goes on to file the refund in a second session.
Commit(s) ==
  /\ txn[s].at = "commit"
  /\ txn[s].op # "create"
  /\ products' = CommittedProducts(s)
  /\ orders' = IF txn[s].id = 0 THEN orders
               ELSE [orders EXCEPT ![txn[s].id] = CommittedOrder(s, @)]
  /\ receipts' = CommittedReceipts(s)
  /\ Continue(s, IF FilesRefund(s) THEN Begun("admincancel", "refund", txn[s].id, 0) ELSE Idle)
  /\ UNCHANGED <<refunds, served, crashes>>

\* create_refund_request and its commit.
FileRefund(s) ==
  /\ txn[s].at = "refund"
  /\ refunds' = Append(refunds, txn[s].id)
  /\ Continue(s, Idle)
  /\ UNCHANGED <<products, orders, receipts, served, crashes>>

-----------------------------------------------------------------------------
(* The other handlers. *)

\* update_payment_method.
LoadForRepay(s) ==
  /\ Begin(s, "repay")
  /\ \E i \in OrderIds, pay \in PayMethods :
       /\ InScope(s, i)
       /\ MayRepay(orders[i].status)
       /\ Continue(s, Changing("repay", "status", 0, i, Repaid(orders[i], pay)))
  /\ UNCHANGED <<products, orders, receipts, refunds, crashes>>

\* flag_cancellation_pending: whatever the order's status.  (Asking again only
\* moves the time of the request, which is abstracted: any flag may be stale.)
LoadForFlag(s) ==
  /\ Begin(s, "flag")
  /\ \E i \in OrderIds :
       /\ InScope(s, i)
       /\ ~ orders[i].flagged
       /\ Continue(s, Changing("flag", "status", 0, i, [orders[i] EXCEPT !.flagged = TRUE]))
  /\ UNCHANGED <<products, orders, receipts, refunds, crashes>>

\* update_product_stock: the row is read, then set to an absolute level.
LoadForLevel(s) ==
  /\ Begin(s, "level")
  /\ \E p \in Scope[s], level \in 0..MaxLevel :
       Continue(s, Holding([Idle EXCEPT !.op = "level", !.at = "level", !.n = level],
                           p, products[p]))
  /\ UNCHANGED <<products, orders, receipts, refunds, crashes>>

SetLevel(s) ==
  /\ At(s, "level", "level")
  /\ FlushProduct(s, [txn[s] EXCEPT !.at = "commit"])
  /\ UNCHANGED <<products, orders, receipts, refunds, served, crashes>>

\* process_receipt_image: the customer's newest order that awaits payment is
\* read in one session (0 stands for "UNKNOWN", when there is none) ...
NewestAwaiting(c) ==
  LET mine == {i \in OrderIds : orders[i].cust = c /\ orders[i].status = "awaiting_payment"}
      newest == {i \in mine : \A j \in mine : j <= i} IN
  IF newest = {} THEN 0 ELSE CHOOSE i \in newest : TRUE

ReadReceipt(s) ==
  /\ Begin(s, "receipt")
  /\ Len(receipts) < MaxReceipts
  /\ \E c \in Customers :
       /\ NewestAwaiting(c) # 0 => InScope(s, NewestAwaiting(c))
       /\ Continue(s, Begun("receipt", "file", NewestAwaiting(c), 0))
  /\ UNCHANGED <<products, orders, receipts, refunds, crashes>>

\* ... and the pending verification is stored in a second one.
FileReceipt(s) ==
  /\ At(s, "receipt", "file")
  /\ receipts' = Append(receipts, [order |-> txn[s].id, status |-> "pending"])
  /\ Continue(s, Idle)
  /\ UNCHANGED <<products, orders, refunds, served, crashes>>

\* approve_payment_verification and request_payment_resend read the pending
\* verification first.
LoadReceipt(s) ==
  \E op \in {"approve", "resend"}, v \in DOMAIN receipts :
    /\ Begin(s, op)
    /\ ReceiptInScope(s, v)
    /\ receipts[v].status = "pending"
    /\ Continue(s, Begun(op, IF op = "approve" THEN "load" ELSE "resolve", 0, v))
    /\ UNCHANGED <<products, orders, receipts, refunds, crashes>>

ApprovesNewest(s) ==
  /\ At(s, "approve", "load")
  /\ \E c \in Customers :
       LET i == NewestAwaiting(c) IN
       /\ i # 0
       /\ Continue(s, [txn[s] EXCEPT !.at = "status", !.id = i, !.row = orders[i],
                                     !.want = [orders[i] EXCEPT !.status = "paid"]])
  /\ UNCHANGED <<products, orders, receipts, refunds, served, crashes>>

\* The approval reads the order the verification names, and marks it paid if
\* it still awaits payment.
LoadForApprove(s) ==
  /\ At(s, "approve", "load")
  /\ LET i == receipts[txn[s].rid].order IN
       Continue(s, IF i # 0 /\ MayApprove(orders[i].status)
                   THEN [txn[s] EXCEPT !.at = "status", !.id = i, !.row = orders[i],
                                       !.want = [orders[i] EXCEPT !.status = "paid"]]
                   ELSE [txn[s] EXCEPT !.at = "resolve"])
  /\ UNCHANGED <<products, orders, receipts, refunds, served, crashes>>

\* resolve_payment_verification: the flush of the verification's status.
ResolveReceipt(s) ==
  /\ txn[s].at = "resolve"
  /\ ~ ReceiptLocked(s, txn[s].rid)
  /\ Continue(s, [txn[s] EXCEPT !.at = "commit"])
  /\ UNCHANGED <<products, orders, receipts, refunds, served, crashes>>

\* request_refund: only for a paid order, or without one (0: "UNKNOWN").
LoadForRefund(s) ==
  /\ Begin(s, "refund")
  /\ \E i \in OrderIds \cup {0} :
       /\ i # 0 => InScope(s, i) /\ orders[i].status = "paid"
       /\ Continue(s, Begun("refund", "refund", i, 0))
  /\ UNCHANGED <<products, orders, receipts, refunds, crashes>>

-----------------------------------------------------------------------------
(* Failures.  PostgreSQL aborts one session of a cycle of lock waits; a      *)
(* session also dies with its connection or its process.  Either way its     *)
(* writes are undone, and what a handler meant to do next is not done.       *)

\* s waits for a row, or for a reference, that t holds.
Waits(s, t) ==
  /\ s # t
  /\ \/ /\ txn[s].at \in {"take", "give", "level"}
        /\ NewColumns(s) # {}
        /\ \E c \in Columns : <<Target(s), c>> \in txn[t].dirty
     \/ txn[s].at = "status" /\ txn[s].row # txn[s].want /\ HoldsOrder(t) /\ txn[t].id = txn[s].id
     \/ At(s, "create", "insert") /\ HoldsRef(t) /\ txn[t].want.ref = txn[s].want.ref
     \/ txn[s].at = "resolve" /\ HoldsReceipt(t) /\ txn[t].rid = txn[s].rid

InCircle(s) ==
  \E S \in SUBSET Sessions :
    /\ s \in S
    /\ \A t \in S : (\E u \in S : Waits(t, u)) /\ (\E u \in S : Waits(u, t))

DeadlockVictim(s) ==
  /\ InCircle(s)
  /\ Continue(s, Idle)
  /\ UNCHANGED <<products, orders, receipts, refunds, served, crashes>>

Die(s) ==
  /\ txn[s] # Idle
  /\ crashes < MaxCrashes
  /\ crashes' = crashes + 1
  /\ Continue(s, Idle)
  /\ UNCHANGED <<products, orders, receipts, refunds, served>>

-----------------------------------------------------------------------------
Init ==
  /\ \E level \in [Products -> 0..MaxLevel] :
       products = [p \in Products |-> Levelled(level[p])]
  /\ orders = <<>>
  /\ receipts = <<>>
  /\ refunds = <<>>
  /\ txn = [s \in Sessions |-> Idle]
  /\ served = [s \in Sessions |-> 0]
  /\ crashes = 0

\* A new request reaches session s.
Arrive(s) ==
  \/ CreateOrder(s) \/ LoadForCancel(s) \/ LoadForRepay(s) \/ LoadForFlag(s)
  \/ LoadForLevel(s) \/ ReadReceipt(s) \/ LoadReceipt(s) \/ LoadForRefund(s)

\* Session s executes its next statement.
Proceed(s) ==
  \/ CheckLine(s) \/ RefuseLine(s) \/ TakeLine(s) \/ CountOrders(s)
  \/ InsertOrder(s) \/ InsertCollides(s) \/ CommitNewOrder(s)
  \/ LoadStale(s) \/ StaleIsClosed(s) \/ ReadLine(s) \/ GiveLine(s)
  \/ FlushOrder(s) \/ SweepRaises(s) \/ Commit(s) \/ FileRefund(s)
  \/ SetLevel(s) \/ FileReceipt(s)
  \/ LoadForApprove(s) \/ ResolveReceipt(s)
  \/ DeadlockVictim(s)

Next == \E s \in Sessions : Arrive(s) \/ ListStale(s) \/ Proceed(s) \/ Die(s)

Spec == Init /\ [][Next]_vars

\* A statement in flight completes (the event loop and the database serve
\* every task), and the sweep comes round; nothing makes a customer write.
Fairness == \A s \in Sessions : WF_vars(Proceed(s)) /\ WF_vars(ListStale(s))

FairSpec == Spec /\ Fairness

-----------------------------------------------------------------------------
(* What the rows satisfy however the handlers interleave. *)

\* The rows and sessions have their types.
TypeOK ==
  /\ products \in [Products -> ProductRow]
  /\ orders \in Seq(OrderRow)
  /\ receipts \in Seq(ReceiptRow)
  /\ refunds \in Seq(Nat)
  /\ txn \in [Sessions -> Txn]
  /\ served \in [Sessions -> Nat]
  /\ crashes \in Nat

\* Order references (unique per shop) run 1, 2, 3, ... with no gap and no
\* repetition, although they are counted before they are inserted.
RefsAreDense == \A i \in OrderIds : orders[i].ref = i

\* An open order is in the status its payment method calls for, whatever
\* change of method, cancellation or approval overlapped.
PayMatchesStatus ==
  \A i \in OrderIds : orders[i].status \in Open => orders[i].status = StatusFor(orders[i].pay)

\* An order becomes paid only in the commit that approves a receipt for it.
PaidOnlyByApproval ==
  [][\A i \in OrderIds :
       orders'[i].status = "paid" /\ orders[i].status # "paid" =>
         \E v \in DOMAIN receipts :
           receipts[v].order = i /\ receipts'[v].status = "approved"]_vars

\* A refund that names an order names one that was paid for: a receipt of it
\* was decided.
RefundsAreBacked ==
  \A k \in DOMAIN refunds : refunds[k] # 0 =>
    \E v \in DOMAIN receipts : receipts[v].order = refunds[k] /\ receipts[v].status # "pending"
=============================================================================

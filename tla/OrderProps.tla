----------------------------- MODULE OrderProps -----------------------------
(***************************************************************************)
(* The properties of the order desk.  Ledger is its abstract specification *)
(* and the rows of OrderTxns are the ledger's own.                         *)
(***************************************************************************)
EXTENDS OrderTxns, FiniteSetsExt

Ledger == INSTANCE OrderLedger WITH
  Products <- Products, Customers <- Customers, Carts <- Carts, MaxLevel <- MaxLevel,
  products <- products, orders <- orders

\* Handlers that share no product and no order behave as if each were one
\* indivisible step of the ledger.
RefinesLedger == Ledger!LedgerSpec

\* Units a product holds plus units its orders hold.
Balance(p) ==
  products[p].stock
    + MapThenSumSet(LAMBDA i : IF orders[i].status = "cancelled" THEN 0
                               ELSE Ledger!Units(orders[i].lines, p), OrderIds)

\* The dashboard's change of p's level commits in this step.
LevelIsSet(p) ==
  \E s \in Sessions : At(s, "level", "commit") /\ txn'[s] = Idle /\ p \in txn[s].known
                      /\ products'[p].stock = txn[s].n

\* No unit of stock appears or vanishes: orders and cancellations move units
\* between the shelf and the orders, only the dashboard changes their number.
UnitsAreConserved ==
  [][\A p \in Products : Balance(p)' = Balance(p) \/ LevelIsSet(p)]_vars

\* A product is hidden exactly while none of it is left.
SoldOutIffHidden == \A p \in Products : products[p].active = (products[p].stock > 0)

\* create_order accepts an order only if its products have the units
\* (agents/tools/orders.py, "have enough stock").
OrdersAreStocked ==
  [][Len(orders') > Len(orders) =>
       \A p \in Products : Ledger!Units(orders'[Len(orders')].lines, p) <= products[p].stock]_vars

\* Stock grows only in a commit that cancels an order of the product, or that
\* sets its level: cancelling is idempotent.
CancelRestoresOnce ==
  [][\A p \in Products :
       products'[p].stock > products[p].stock =>
         \/ LevelIsSet(p)
         \/ \E i \in OrderIds : /\ orders[i].status # "cancelled"
                                /\ orders'[i].status = "cancelled"
                                /\ Ledger!Units(orders[i].lines, p) > 0]_vars

\* Every request that begins ends: no statement waits for ever for a row.
RequestsEnd == \A s \in Sessions : txn[s] # Idle ~> txn[s] = Idle

\* An order whose cancellation was requested is in the end closed by the sweep
\* or by someone else (main.py, "cleans up the order automatically").
StaleOrdersAreClosed ==
  \A i \in 1..MaxOrders :
    (i \in OrderIds /\ orders[i].flagged /\ orders[i].status \in Open)
      ~> (i \in OrderIds => orders[i].status \notin Open)
=============================================================================

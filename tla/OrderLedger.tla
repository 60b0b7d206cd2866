----------------------------- MODULE OrderLedger -----------------------------
(***************************************************************************)
(* What the order desk promises, each request as one indivisible step: an  *)
(* order takes its units from products that have them, a cancellation      *)
(* gives them back once, a payment is accepted for an order that awaits    *)
(* one, a payment method changes while the order is open.                  *)
(***************************************************************************)
EXTENDS Integers, Sequences, FiniteSetsExt

CONSTANTS
  Products, Customers, Carts,
  MaxLevel   \* bound: the highest stock level that is set

VARIABLES products, orders

lvars == <<products, orders>>

Unpaid == {"awaiting_payment", "pending_delivery"}
AwaitedBy(pay) == IF pay = "cod" THEN "pending_delivery" ELSE "awaiting_payment"

\* Units of product p in a sequence of cart lines.
Units(lines, p) ==
  MapThenSumSet(LAMBDA k : lines[k].qty, {k \in DOMAIN lines : lines[k].sku = p})

Place(cart, pay, c) ==
  /\ \A p \in Products : Units(cart, p) > 0 =>
       products[p].active /\ products[p].stock >= Units(cart, p)
  /\ products' = [p \in Products |->
       LET left == products[p].stock - Units(cart, p) IN
       IF Units(cart, p) = 0 THEN products[p]
       ELSE [stock |-> left, active |-> left > 0]]
  /\ orders' = Append(orders, [ref |-> Len(orders) + 1, cust |-> c, lines |-> cart, pay |-> pay,
                               status |-> AwaitedBy(pay), flagged |-> FALSE])

Cancel(i) ==
  /\ orders[i].status \in Unpaid \cup {"paid"}
  /\ orders' = [orders EXCEPT ![i].status = "cancelled"]
  /\ products' = [p \in Products |->
       LET back == Units(orders[i].lines, p) IN
       IF back = 0 THEN products[p]
       ELSE [stock |-> products[p].stock + back, active |-> TRUE]]

AcceptPayment(i) ==
  /\ orders[i].status = "awaiting_payment"
  /\ orders' = [orders EXCEPT ![i].status = "paid"]
  /\ UNCHANGED products

ChangePayment(i, pay) ==
  /\ orders[i].status \in Unpaid
  /\ orders' = [orders EXCEPT ![i].pay = pay, ![i].status = AwaitedBy(pay)]
  /\ UNCHANGED products

AskToCancel(i) ==
  /\ orders' = [orders EXCEPT ![i].flagged = TRUE]
  /\ UNCHANGED products

SetStock(p, level) ==
  /\ products' = [products EXCEPT ![p] = [stock |-> level, active |-> level > 0]]
  /\ UNCHANGED orders

LedgerInit ==
  /\ orders = <<>>
  /\ \A p \in Products : products[p].stock \in Nat /\ products[p].active = (products[p].stock > 0)

LedgerNext ==
  \/ \E cart \in Carts, pay \in {"bank_transfer", "cod"}, c \in Customers : Place(cart, pay, c)
  \/ \E i \in DOMAIN orders : Cancel(i) \/ AcceptPayment(i) \/ AskToCancel(i)
                              \/ \E pay \in {"bank_transfer", "cod"} : ChangePayment(i, pay)
  \/ \E p \in Products : \E level \in 0..MaxLevel : SetStock(p, level)

LedgerSpec == LedgerInit /\ [][LedgerNext]_lvars
=============================================================================

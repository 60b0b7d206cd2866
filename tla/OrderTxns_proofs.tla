-------------------------- MODULE OrderTxns_proofs --------------------------
(***************************************************************************)
(* Proofs about the order desk, for every set of sessions, products,       *)
(* customers and carts, and every bound.                                   *)
(***************************************************************************)
EXTENDS OrderTxns, SequenceTheorems, TLAPS

-----------------------------------------------------------------------------
(* Types.  TypeOK alone is not inductive: that a cart line names a product   *)
(* needs the line number to stay within the cart, and that the tables keep   *)
(* their types needs the row numbers a session holds to name rows.           *)

\* What the control point of a session says of its numbers.
Fits(t) ==
  /\ t.at \in {"check", "take", "restore", "give"} => t.n \in 1..Len(t.want.lines)
  /\ t.at = "level" => t.known # {}
  /\ t.id \in 0..Len(orders)
  /\ t.rid \in 0..Len(receipts)
  /\ t.op = "autocancel" /\ t.at = "load" => t.id # 0
  /\ t.op = "approve" /\ t.at = "load" => t.rid # 0
  /\ t.op = "create" => t.want.lines # <<>>

\* Orders have lines, and receipts name orders.
TablesFit ==
  /\ \A i \in OrderIds : orders[i].lines # <<>>
  /\ \A v \in DOMAIN receipts : receipts[v].order \in 0..Len(orders)

TypeInv == TypeOK /\ TablesFit /\ \A s \in Sessions : Fits(txn[s])

\* A blank order object and an idle session have their types.
LEMMA IdleIsTxn == Blank \in OrderRow /\ Idle \in Txn
<1>1. Blank \in OrderRow
  BY SomeCustomer DEF Blank, OrderRow, PayMethods, Statuses
<1>2. Idle \in Txn
  BY <1>1 DEF Idle, Txn, Unread, ProductRow
<1> QED BY <1>1, <1>2

\* A line within the cart of a session names a product.
LEMMA LineIsLine ==
  ASSUME NEW t \in Txn, t.n \in 1..Len(t.want.lines)
  PROVE  t.want.lines[t.n] \in Line
<1>1. t.want.lines \in Seq(Line)
  BY DEF Txn, OrderRow
<1> QED BY <1>1

\* Holding keeps the type of a session, and changes its objects only.
LEMMA HoldingIsTxn ==
  ASSUME NEW t \in Txn, NEW p \in Products, NEW o \in ProductRow
  PROVE  /\ Holding(t, p, o) \in Txn
         /\ Holding(t, p, o).known = t.known \cup {p}
         /\ Holding(t, p, o).op = t.op /\ Holding(t, p, o).at = t.at
         /\ Holding(t, p, o).n = t.n /\ Holding(t, p, o).id = t.id
         /\ Holding(t, p, o).row = t.row /\ Holding(t, p, o).want = t.want
         /\ Holding(t, p, o).rid = t.rid
  BY DEF Holding, Txn

\* A handler that goes on without touching a table keeps the invariant when
\* the state it goes on in is well typed and fits the tables.
LEMMA Proceeding ==
  ASSUME TypeInv, NEW s \in Sessions, NEW r \in Txn, Fits(r), Continue(s, r),
         UNCHANGED <<products, orders, receipts, refunds>>,
         served' \in [Sessions -> Nat], crashes' \in Nat
  PROVE  TypeInv'
<1>1. txn' \in [Sessions -> Txn]
  BY DEF Continue, TypeInv, TypeOK
<1>2. ASSUME NEW u \in Sessions PROVE Fits(txn[u])'
  <2>1. CASE u = s
    <3>1. txn'[u] = r
      BY <2>1 DEF Continue, TypeInv, TypeOK
    <3> QED BY <3>1 DEF Fits
  <2>2. CASE u # s
    <3>1. txn'[u] = txn[u]
      BY <2>2 DEF Continue, TypeInv, TypeOK
    <3>2. Fits(txn[u])
      BY DEF TypeInv
    <3> QED BY <3>1, <3>2 DEF Fits
  <2> QED BY <2>1, <2>2
<1>3. TypeOK'
  BY <1>1 DEF TypeInv, TypeOK
<1>4. TablesFit'
  BY DEF TypeInv, TablesFit, OrderIds
<1> QED BY <1>2, <1>3, <1>4 DEF TypeInv

\* The end of a request keeps the invariant.
LEMMA Ending ==
  ASSUME TypeInv, NEW s \in Sessions, Continue(s, Idle),
         UNCHANGED <<products, orders, receipts, refunds>>,
         served' \in [Sessions -> Nat], crashes' \in Nat
  PROVE  TypeInv'
<1>1. Fits(Idle)
  <2>1. Len(orders) \in Nat /\ Len(receipts) \in Nat
    BY DEF TypeInv, TypeOK
  <2> QED BY <2>1 DEF Fits, Idle
<1> QED BY <1>1, IdleIsTxn, Proceeding

LEMMA BeginServes ==
  ASSUME TypeInv, NEW s \in Sessions, NEW op, Begin(s, op)
  PROVE  served' \in [Sessions -> Nat] /\ txn[s] = Idle /\ op \in OpNames
  BY OpsAreNames DEF Begin, TypeInv, TypeOK

\* The product a session looks up or flushes is a product.
LEMMA LineTyped ==
  ASSUME TypeInv, NEW s \in Sessions, txn[s].at \in {"check", "take", "restore", "give"}
  PROVE  /\ txn[s] \in Txn /\ txn[s].n \in 1..Len(txn[s].want.lines)
         /\ txn[s].want.lines \in Seq(Line)
         /\ CurrentLine(s).sku \in Products
         /\ CurrentLine(s).qty \in Nat \ {0}
         /\ Seen(s, CurrentLine(s).sku) \in ProductRow
<1>1. txn[s] \in Txn /\ Fits(txn[s])
  BY DEF TypeInv, TypeOK
<1>2. txn[s].n \in 1..Len(txn[s].want.lines)
  BY <1>1 DEF Fits
<1>3. CurrentLine(s) \in Line
  BY <1>1, <1>2, LineIsLine DEF CurrentLine
<1>4. CurrentLine(s).sku \in Products /\ CurrentLine(s).qty \in Nat \ {0}
  BY <1>3 DEF Line
<1>5. Seen(s, CurrentLine(s).sku) \in ProductRow
  BY <1>1, <1>4 DEF Seen, Txn, TypeInv, TypeOK
<1>6. txn[s].want.lines \in Seq(Line)
  BY <1>1 DEF Txn, OrderRow
<1> QED BY <1>1, <1>2, <1>4, <1>5, <1>6

LEMMA FlushTyped ==
  ASSUME TypeInv, NEW s \in Sessions, txn[s].at \in {"take", "give", "level"}
  PROVE  /\ txn[s] \in Txn
         /\ Target(s) \in Products
         /\ NewValues(s) \in ProductRow
         /\ NewColumns(s) \subseteq Columns
<1>1. txn[s] \in Txn /\ Fits(txn[s])
  BY DEF TypeInv, TypeOK
<1>2. NewColumns(s) \subseteq Columns
  BY DEF NewColumns, Changed
<1>3. CASE txn[s].at = "level"
  <2>1. Target(s) \in txn[s].known
    BY <1>1, <1>3 DEF Target, Fits
  <2>2. Target(s) \in Products
    BY <1>1, <2>1 DEF Txn
  <2>3. NewValues(s) = Levelled(txn[s].n)
    BY <1>3 DEF NewValues
  <2>4. NewValues(s) \in ProductRow
    BY <1>1, <2>3 DEF Levelled, ProductRow, Txn
  <2> QED BY <1>1, <1>2, <2>2, <2>4
<1>4. CASE txn[s].at \in {"take", "give"}
  <2>1. Target(s) = CurrentLine(s).sku
    BY <1>4 DEF Target
  <2>2. Target(s) \in Products /\ CurrentLine(s).qty \in Nat \ {0}
    BY <1>4, <2>1, LineTyped
  <2> DEFINE o == txn[s].obj[Target(s)]
  <2>3. o \in ProductRow
    BY <1>1, <2>2 DEF Txn
  <2>4. NewValues(s) = Decremented(o, CurrentLine(s).qty) \/ NewValues(s) = Restored(o, CurrentLine(s).qty)
    BY <1>4 DEF NewValues
  <2>5. Decremented(o, CurrentLine(s).qty) \in ProductRow
    BY <2>2, <2>3 DEF Decremented, ProductRow
  <2>6. Restored(o, CurrentLine(s).qty) \in ProductRow
    BY <2>2, <2>3 DEF Restored, ProductRow
  <2> QED BY <1>1, <1>2, <2>2, <2>4, <2>5, <2>6
<1> QED BY <1>3, <1>4

LEMMA Flushing ==
  ASSUME TypeInv, NEW s \in Sessions, txn[s].at \in {"take", "give", "level"},
         NEW next \in Txn, Fits(next), next.at # "level", FlushProduct(s, next),
         UNCHANGED <<products, orders, receipts, refunds, served, crashes>>
  PROVE  TypeInv'
<1> DEFINE d == [next EXCEPT !.dirty = @ \cup ({Target(s)} \X NewColumns(s))]
           r == Holding(d, Target(s), NewValues(s))
<1>1. d \in Txn /\ d.op = next.op /\ d.at = next.at /\ d.n = next.n
      /\ d.id = next.id /\ d.rid = next.rid /\ d.want = next.want
  BY FlushTyped DEF Txn
<1> HIDE DEF d
<1>2. /\ r \in Txn /\ r.op = next.op /\ r.at = next.at /\ r.n = next.n
      /\ r.id = next.id /\ r.rid = next.rid /\ r.want = next.want
  BY <1>1, FlushTyped, HoldingIsTxn
<1>3. Continue(s, r)
  BY DEF FlushProduct, d
<1> HIDE DEF r
<1>4. Fits(r)
  BY <1>2 DEF Fits
<1>5. served' \in [Sessions -> Nat] /\ crashes' \in Nat
  BY DEF TypeInv, TypeOK
<1> QED BY <1>2, <1>3, <1>4, <1>5, Proceeding

-----------------------------------------------------------------------------
(* One lemma per handler step. *)

LEMMA CreateOrderTyped ==
  ASSUME TypeInv, NEW s \in Sessions, CreateOrder(s)
  PROVE  TypeInv'
<1>1. served' \in [Sessions -> Nat]
  BY BeginServes DEF CreateOrder
<1>2. PICK cart \in Carts, pay \in PayMethods, c \in Customers :
        Continue(s, [Idle EXCEPT !.op = "create", !.at = "check", !.n = 1,
                         !.want = [Blank EXCEPT !.cust = c, !.lines = cart, !.pay = pay,
                                                !.status = StatusFor(pay)]])
  BY DEF CreateOrder
<1> DEFINE o == [Blank EXCEPT !.cust = c, !.lines = cart, !.pay = pay, !.status = StatusFor(pay)]
           r == [Idle EXCEPT !.op = "create", !.at = "check", !.n = 1, !.want = o]
<1>3. cart \in Seq(Line) /\ Len(cart) \in Nat /\ 1 \in 1..Len(cart) /\ cart # <<>>
  <2>1. cart \in Seq(Line) /\ cart # <<>>
    BY CartsAreCarts
  <2> QED BY <2>1, EmptySeq
<1>4. o \in OrderRow /\ o.lines = cart
  BY <1>3, IdleIsTxn DEF OrderRow, StatusFor, PayMethods, Statuses, Blank
<1> HIDE DEF o
<1>5. r \in Txn /\ r.at = "check" /\ r.n = 1 /\ r.want = o /\ r.op = "create" /\ r.id = 0 /\ r.rid = 0
  BY <1>4, IdleIsTxn DEF Txn, OpNames, Idle
<1>6. Len(orders) \in Nat /\ Len(receipts) \in Nat
  BY DEF TypeInv, TypeOK
<1>7. Fits(r)
  BY <1>3, <1>4, <1>5, <1>6 DEF Fits
<1>8. Continue(s, r)
  BY <1>2 DEF o
<1>9. crashes' \in Nat /\ UNCHANGED <<products, orders, receipts, refunds>>
  BY DEF CreateOrder, TypeInv, TypeOK
<1> QED BY <1>1, <1>5, <1>7, <1>8, <1>9, Proceeding

LEMMA CheckLineTyped ==
  ASSUME TypeInv, NEW s \in Sessions, CheckLine(s)
  PROVE  TypeInv'
<1> DEFINE p == CurrentLine(s).sku
           o == Seen(s, p)
           n == IF LastLine(s) THEN 1 ELSE txn[s].n + 1
           at == IF LastLine(s) THEN "take" ELSE "check"
           t == [txn[s] EXCEPT !.n = n, !.at = at]
           r == Holding(t, p, o)
<1>1. txn[s].at = "check"
  BY DEF CheckLine, At
<1>2. txn[s] \in Txn /\ txn[s].n \in 1..Len(txn[s].want.lines) /\ p \in Products /\ o \in ProductRow
      /\ Len(txn[s].want.lines) \in Nat
  BY <1>1, LineTyped
<1>3. /\ t \in Txn /\ t.op = txn[s].op /\ t.id = txn[s].id /\ t.rid = txn[s].rid
      /\ t.want = txn[s].want /\ t.at \in {"take", "check"}
      /\ t.n \in 1..Len(txn[s].want.lines)
  <2>1. n \in 1..Len(txn[s].want.lines) /\ n \in Nat /\ at \in {"take", "check"}
    BY <1>2 DEF LastLine
  <2> HIDE DEF n, at
  <2> QED BY <1>2, <2>1 DEF Txn
<1> HIDE DEF t
<1>4. /\ r \in Txn /\ r.op = t.op /\ r.id = t.id /\ r.rid = t.rid
      /\ r.want = t.want /\ r.at = t.at /\ r.n = t.n
  BY <1>2, <1>3, HoldingIsTxn
<1>5. Continue(s, r)
  BY DEF CheckLine, t
<1> HIDE DEF r
<1>6. Fits(txn[s])
  BY DEF TypeInv
<1>7. Fits(r)
  BY <1>3, <1>4, <1>6 DEF Fits
<1>8. served' \in [Sessions -> Nat] /\ crashes' \in Nat /\ UNCHANGED <<products, orders, receipts, refunds>>
  BY DEF CheckLine, TypeInv, TypeOK
<1> QED BY <1>4, <1>5, <1>7, <1>8, Proceeding

LEMMA TakeLineTyped ==
  ASSUME TypeInv, NEW s \in Sessions, TakeLine(s) \/ GiveLine(s) \/ SetLevel(s)
  PROVE  TypeInv'
<1>1. CASE SetLevel(s)
  <2> DEFINE t == [txn[s] EXCEPT !.at = "commit"]
  <2>1. txn[s] \in Txn /\ Fits(txn[s]) /\ txn[s].at = "level"
    BY <1>1 DEF SetLevel, At, TypeInv, TypeOK
  <2>2. /\ t \in Txn /\ t.at = "commit" /\ t.id = txn[s].id /\ t.rid = txn[s].rid
        /\ t.op = txn[s].op /\ t.want = txn[s].want
    BY <2>1 DEF Txn
  <2>3. FlushProduct(s, t)
    BY <1>1 DEF SetLevel
  <2> HIDE DEF t
  <2>4. Fits(t)
    BY <2>1, <2>2 DEF Fits
  <2>5. UNCHANGED <<products, orders, receipts, refunds, served, crashes>>
    BY <1>1 DEF SetLevel
  <2> QED BY <2>1, <2>2, <2>3, <2>4, <2>5, Flushing
<1>2. CASE TakeLine(s) \/ GiveLine(s)
  <2> DEFINE t(done, again) == [txn[s] EXCEPT !.n = IF LastLine(s) THEN @ ELSE @ + 1,
                                              !.at = IF LastLine(s) THEN done ELSE again]
  <2>1. txn[s].at \in {"take", "give"}
    BY <1>2 DEF TakeLine, GiveLine, At
  <2>2. txn[s] \in Txn /\ txn[s].n \in 1..Len(txn[s].want.lines) /\ Len(txn[s].want.lines) \in Nat
    BY <2>1, LineTyped
  <2>3. PICK done \in {"count", "status"}, again \in {"take", "restore"} : FlushProduct(s, t(done, again))
    BY <1>2 DEF TakeLine, GiveLine
  <2> DEFINE n == IF LastLine(s) THEN txn[s].n ELSE txn[s].n + 1
             at == IF LastLine(s) THEN done ELSE again
             r == [txn[s] EXCEPT !.n = n, !.at = at]
  <2>4. /\ r \in Txn /\ r.op = txn[s].op /\ r.id = txn[s].id /\ r.rid = txn[s].rid
        /\ r.want = txn[s].want /\ r.at \in {"count", "status", "take", "restore"}
        /\ r.n \in 1..Len(txn[s].want.lines)
    <3>1. n \in 1..Len(txn[s].want.lines) /\ n \in Nat /\ at \in {"count", "status", "take", "restore"}
      BY <2>2 DEF LastLine
    <3> HIDE DEF n, at
    <3> QED BY <2>2, <3>1 DEF Txn
  <2>5. FlushProduct(s, r)
    BY <2>3
  <2> HIDE DEF t, r
  <2>6. Fits(txn[s])
    BY DEF TypeInv
  <2>7. Fits(r)
    BY <2>4, <2>6 DEF Fits
  <2>8. UNCHANGED <<products, orders, receipts, refunds, served, crashes>>
    BY <1>2 DEF TakeLine, GiveLine
  <2> QED BY <2>1, <2>4, <2>5, <2>7, <2>8, Flushing
<1> QED BY <1>1, <1>2

LEMMA ReadLineTyped ==
  ASSUME TypeInv, NEW s \in Sessions, ReadLine(s)
  PROVE  TypeInv'
<1> DEFINE p == CurrentLine(s).sku
           t == [txn[s] EXCEPT !.at = "give"]
           r == Holding(t, p, Seen(s, p))
<1>1. txn[s].at = "restore"
  BY DEF ReadLine
<1>2. txn[s] \in Txn /\ txn[s].n \in 1..Len(txn[s].want.lines) /\ p \in Products /\ Seen(s, p) \in ProductRow
  BY <1>1, LineTyped
<1>3. /\ t \in Txn /\ t.op = txn[s].op /\ t.id = txn[s].id /\ t.rid = txn[s].rid
      /\ t.want = txn[s].want /\ t.at = "give" /\ t.n = txn[s].n
  BY <1>2 DEF Txn
<1>4. Continue(s, r)
  BY DEF ReadLine
<1> HIDE DEF t
<1>5. /\ r \in Txn /\ r.op = t.op /\ r.id = t.id /\ r.rid = t.rid
      /\ r.want = t.want /\ r.at = t.at /\ r.n = t.n
  BY <1>2, <1>3, HoldingIsTxn
<1> HIDE DEF r
<1>6. Fits(txn[s])
  BY DEF TypeInv
<1>7. Fits(r)
  BY <1>2, <1>3, <1>5, <1>6 DEF Fits
<1>8. served' \in [Sessions -> Nat] /\ crashes' \in Nat /\ UNCHANGED <<products, orders, receipts, refunds>>
  BY DEF ReadLine, TypeInv, TypeOK
<1> QED BY <1>4, <1>5, <1>7, <1>8, Proceeding

\* The committed tables, as the step of a session reads them.
LEMMA TablesTyped ==
  ASSUME TypeInv
  PROVE  /\ orders \in Seq(OrderRow) /\ Len(orders) \in Nat /\ OrderIds = 1..Len(orders)
         /\ receipts \in Seq(ReceiptRow) /\ Len(receipts) \in Nat
         /\ DOMAIN receipts = 1..Len(receipts)
         /\ \A i \in OrderIds : orders[i] \in OrderRow /\ orders[i].lines # <<>>
         /\ \A v \in DOMAIN receipts : receipts[v] \in ReceiptRow /\ receipts[v].order \in 0..Len(orders)
         /\ served \in [Sessions -> Nat] /\ crashes \in Nat
<1>1. \A i \in OrderIds : orders[i] \in OrderRow
  BY DEF TypeInv, TypeOK, OrderIds
<1>2. \A v \in DOMAIN receipts : receipts[v] \in ReceiptRow
  BY DEF TypeInv, TypeOK
<1> QED BY <1>1, <1>2 DEF TypeInv, TypeOK, TablesFit, OrderIds

\* A handler that has read order i and means to leave it as w.
LEMMA ChangingTyped ==
  ASSUME TypeInv, NEW i \in OrderIds, NEW w \in OrderRow, w.lines = orders[i].lines,
         NEW op \in OpNames, NEW at \in {"restore", "status"}, NEW n \in {0, 1},
         at = "restore" => n = 1
  PROVE  Changing(op, at, n, i, w) \in Txn /\ Fits(Changing(op, at, n, i, w))
<1> DEFINE r == Changing(op, at, n, i, w)
           o == orders[i]
<1>1. o \in OrderRow /\ w.lines # <<>> /\ i \in 1..Len(orders)
      /\ Len(orders) \in Nat /\ Len(receipts) \in Nat
  BY TablesTyped
<1>2. Len(w.lines) \in Nat /\ 1 \in 1..Len(w.lines)
  <2>1. w.lines \in Seq(Line)
    BY DEF OrderRow
  <2> QED BY <1>1, <2>1, EmptySeq
<1>3. i \in Nat /\ n \in Nat
  BY <1>1
<1>4. r = [Idle EXCEPT !.op = op, !.at = at, !.n = n, !.id = i, !.row = o, !.want = w]
  BY DEF Changing
<1> HIDE DEF r, o
<1>5. r \in Txn
  BY <1>1, <1>3, <1>4, IdleIsTxn DEF Txn
<1>6. r.at = at /\ r.n = n /\ r.id = i /\ r.rid = 0 /\ r.want = w /\ r.op = op
  BY <1>4, IdleIsTxn DEF Txn, Idle
<1>7. Fits(r)
  BY <1>1, <1>2, <1>6 DEF Fits
<1> QED BY <1>5, <1>7 DEF r

\* A handler that holds no order object.
LEMMA BegunTyped ==
  ASSUME TypeInv, NEW i \in 0..Len(orders), NEW v \in 0..Len(receipts), NEW op \in OpNames,
         NEW at \in {"load", "file", "refund", "resolve"},
         op = "autocancel" /\ at = "load" => i # 0,
         op = "approve" /\ at = "load" => v # 0, op # "create"
  PROVE  Begun(op, at, i, v) \in Txn /\ Fits(Begun(op, at, i, v))
<1> DEFINE r == Begun(op, at, i, v)
<1>1. i \in Nat /\ v \in Nat
  BY TablesTyped
<1>2. r = [Idle EXCEPT !.op = op, !.at = at, !.id = i, !.rid = v]
  BY DEF Begun
<1> HIDE DEF r
<1>3. r \in Txn
  BY <1>1, <1>2, IdleIsTxn DEF Txn
<1>4. r.at = at /\ r.id = i /\ r.rid = v /\ r.op = op
  BY <1>2, IdleIsTxn DEF Txn
<1>5. Fits(r)
  BY <1>4 DEF Fits
<1> QED BY <1>3, <1>5 DEF r

\* The row an order becomes, in the object of each handler that changes one.
LEMMA WantTyped ==
  ASSUME NEW o \in OrderRow
  PROVE  /\ \A st \in Statuses : /\ [o EXCEPT !.status = st] \in OrderRow
                                 /\ [o EXCEPT !.status = st].lines = o.lines
         /\ \A pay \in PayMethods : Repaid(o, pay) \in OrderRow /\ Repaid(o, pay).lines = o.lines
         /\ [o EXCEPT !.flagged = TRUE] \in OrderRow /\ [o EXCEPT !.flagged = TRUE].lines = o.lines
<1>1. \A pay \in PayMethods : StatusFor(pay) \in Statuses
  BY DEF StatusFor, Statuses
<1>2. ASSUME NEW pay \in PayMethods
      PROVE Repaid(o, pay) \in OrderRow /\ Repaid(o, pay).lines = o.lines
  BY <1>1 DEF Repaid, OrderRow
<1>3. ASSUME NEW st \in Statuses
      PROVE [o EXCEPT !.status = st] \in OrderRow /\ [o EXCEPT !.status = st].lines = o.lines
  BY DEF OrderRow
<1>4. [o EXCEPT !.flagged = TRUE] \in OrderRow /\ [o EXCEPT !.flagged = TRUE].lines = o.lines
  BY DEF OrderRow
<1> QED BY <1>2, <1>3, <1>4

LEMMA RestoringTyped ==
  ASSUME TypeInv, NEW i \in OrderIds, NEW op \in OpNames
  PROVE  Restoring(op, i) \in Txn /\ Fits(Restoring(op, i))
<1>1. orders[i] \in OrderRow /\ "cancelled" \in Statuses
  BY TablesTyped DEF Statuses
<1> QED BY <1>1, WantTyped, ChangingTyped DEF Restoring

LEMMA OrderLoadsTyped ==
  ASSUME TypeInv, NEW s \in Sessions,
         LoadForCancel(s) \/ LoadStale(s) \/ LoadForRepay(s) \/ LoadForFlag(s)
  PROVE  TypeInv'
<1>1. UNCHANGED <<products, orders, receipts, refunds>> /\ crashes' \in Nat
  BY TablesTyped DEF LoadForCancel, LoadStale, LoadForRepay, LoadForFlag
<1>2. CASE LoadForCancel(s)
  <2>1. PICK op \in {"cancel", "admincancel"}, i \in OrderIds :
          Begin(s, op) /\ Continue(s, Restoring(op, i))
    BY <1>2 DEF LoadForCancel
  <2>2. op \in OpNames /\ served' \in [Sessions -> Nat]
    BY <2>1, BeginServes
  <2> QED BY <1>1, <2>1, <2>2, RestoringTyped, Proceeding
<1>3. CASE LoadStale(s)
  <2>1. Fits(txn[s]) /\ txn[s].op = "autocancel" /\ txn[s].at = "load"
    BY <1>3 DEF LoadStale, At, TypeInv
  <2>2. txn[s].id \in 0..Len(orders) /\ txn[s].id # 0
    BY <2>1 DEF Fits
  <2>3. txn[s].id \in OrderIds
    BY <2>2, TablesTyped
  <2>4. Continue(s, Restoring("autocancel", txn[s].id))
    BY <1>3 DEF LoadStale
  <2>5. "autocancel" \in OpNames
    BY DEF OpNames
  <2>6. served' \in [Sessions -> Nat]
    BY <1>3, TablesTyped DEF LoadStale
  <2> QED BY <1>1, <2>3, <2>4, <2>5, <2>6, RestoringTyped, Proceeding
<1>4. CASE LoadForRepay(s)
  <2>1. PICK i \in OrderIds, pay \in PayMethods :
          Continue(s, Changing("repay", "status", 0, i, Repaid(orders[i], pay)))
    BY <1>4 DEF LoadForRepay
  <2>2. Repaid(orders[i], pay) \in OrderRow /\ Repaid(orders[i], pay).lines = orders[i].lines
    BY TablesTyped, WantTyped
  <2>3. "repay" \in OpNames
    BY DEF OpNames
  <2>4. served' \in [Sessions -> Nat]
    BY <1>4, BeginServes DEF LoadForRepay
  <2> QED BY <1>1, <2>1, <2>2, <2>3, <2>4, ChangingTyped, Proceeding
<1>5. CASE LoadForFlag(s)
  <2>1. PICK i \in OrderIds :
          Continue(s, Changing("flag", "status", 0, i, [orders[i] EXCEPT !.flagged = TRUE]))
    BY <1>5 DEF LoadForFlag
  <2> DEFINE w == [orders[i] EXCEPT !.flagged = TRUE]
  <2>2. w \in OrderRow /\ w.lines = orders[i].lines
    BY TablesTyped, WantTyped
  <2>3. "flag" \in OpNames
    BY DEF OpNames
  <2>4. served' \in [Sessions -> Nat]
    BY <1>5, BeginServes DEF LoadForFlag
  <2>5. Continue(s, Changing("flag", "status", 0, i, w))
    BY <2>1
  <2> HIDE DEF w
  <2> QED BY <1>1, <2>2, <2>3, <2>4, <2>5, ChangingTyped, Proceeding
<1> QED BY <1>2, <1>3, <1>4, <1>5

\* The newest order that awaits payment is an order, or there is none.
LEMMA NewestTyped ==
  ASSUME TypeInv, NEW c
  PROVE  NewestAwaiting(c) \in 0..Len(orders)
<1> DEFINE mine == {i \in OrderIds : orders[i].cust = c /\ orders[i].status = "awaiting_payment"}
           newest == {i \in mine : \A j \in mine : j <= i}
<1>1. newest \subseteq OrderIds /\ OrderIds = 1..Len(orders) /\ Len(orders) \in Nat
  BY TablesTyped
<1>2. NewestAwaiting(c) = IF newest = {} THEN 0 ELSE CHOOSE i \in newest : TRUE
  BY DEF NewestAwaiting
<1> HIDE DEF newest
<1>3. CASE newest = {}
  BY <1>1, <1>2, <1>3
<1>4. CASE newest # {}
  <2> DEFINE last == CHOOSE i \in newest : TRUE
  <2>1. last \in newest
    BY <1>4
  <2>2. NewestAwaiting(c) = last
    BY <1>2, <1>4
  <2> HIDE DEF last
  <2>3. last \in 1..Len(orders)
    BY <1>1, <2>1
  <2> QED BY <1>1, <2>2, <2>3
<1> QED BY <1>3, <1>4

LEMMA BareLoadsTyped ==
  ASSUME TypeInv, NEW s \in Sessions,
         ListStale(s) \/ ReadReceipt(s) \/ LoadReceipt(s) \/ LoadForRefund(s)
  PROVE  TypeInv'
<1>1. UNCHANGED <<products, orders, receipts, refunds>> /\ crashes' \in Nat
  BY TablesTyped DEF ListStale, ReadReceipt, LoadReceipt, LoadForRefund
<1>2. /\ 0 \in 0..Len(orders) /\ 0 \in 0..Len(receipts)
      /\ \A i \in OrderIds : i \in 0..Len(orders) /\ i # 0
      /\ \A v \in DOMAIN receipts : v \in 0..Len(receipts) /\ v # 0
  BY TablesTyped
<1>3. ASSUME NEW i \in 0..Len(orders), NEW v \in 0..Len(receipts), NEW op,
             NEW at \in {"load", "file", "refund", "resolve"},
             op = "autocancel" /\ at = "load" => i # 0,
             op = "approve" /\ at = "load" => v # 0, op # "create",
             Begin(s, op), Continue(s, Begun(op, at, i, v))
      PROVE  TypeInv'
  <2>1. op \in OpNames /\ served' \in [Sessions -> Nat]
    BY <1>3, BeginServes
  <2>2. Begun(op, at, i, v) \in Txn /\ Fits(Begun(op, at, i, v))
    BY <1>3, <2>1, BegunTyped
  <2> QED BY <1>1, <1>3, <2>1, <2>2, Proceeding
<1>4. CASE ListStale(s)
  <2>1. PICK i \in OrderIds : Continue(s, Begun("autocancel", "load", i, 0))
    BY <1>4 DEF ListStale
  <2>2. Begin(s, "autocancel")
    BY <1>4 DEF ListStale
  <2> QED BY <1>2, <1>3, <2>1, <2>2
<1>5. CASE ReadReceipt(s)
  <2>1. PICK c \in Customers : Continue(s, Begun("receipt", "file", NewestAwaiting(c), 0))
    BY <1>5 DEF ReadReceipt
  <2>2. Begin(s, "receipt") /\ NewestAwaiting(c) \in 0..Len(orders)
    BY <1>5, NewestTyped DEF ReadReceipt
  <2> QED BY <1>2, <1>3, <2>1, <2>2
<1>6. CASE LoadReceipt(s)
  <2>1. PICK op \in {"approve", "resend"}, v \in DOMAIN receipts :
          Begin(s, op) /\ Continue(s, Begun(op, IF op = "approve" THEN "load" ELSE "resolve", 0, v))
    BY <1>6 DEF LoadReceipt
  <2> DEFINE at == IF op = "approve" THEN "load" ELSE "resolve"
  <2>2. at \in {"load", "file", "refund", "resolve"} /\ op # "autocancel" /\ op # "create"
    OBVIOUS
  <2>3. Begin(s, op) /\ Continue(s, Begun(op, at, 0, v))
    BY <2>1
  <2> HIDE DEF at
  <2> QED BY <1>2, <1>3, <2>2, <2>3
<1>7. CASE LoadForRefund(s)
  <2>1. PICK i \in OrderIds \cup {0} : Continue(s, Begun("refund", "refund", i, 0))
    BY <1>7 DEF LoadForRefund
  <2>2. Begin(s, "refund")
    BY <1>7 DEF LoadForRefund
  <2> QED BY <1>2, <1>3, <2>1, <2>2
<1> QED BY <1>4, <1>5, <1>6, <1>7

\* The steps that end a request and leave the tables alone.
LEMMA EndingsTyped ==
  ASSUME TypeInv, NEW s \in Sessions,
         RefuseLine(s) \/ InsertCollides(s) \/ StaleIsClosed(s) \/ SweepRaises(s)
           \/ DeadlockVictim(s) \/ Die(s)
  PROVE  TypeInv'
<1>1. UNCHANGED <<products, orders, receipts, refunds, served>> /\ Continue(s, Idle)
  BY DEF RefuseLine, InsertCollides, StaleIsClosed, SweepRaises, DeadlockVictim, Die
<1>2. served' \in [Sessions -> Nat]
  BY <1>1, TablesTyped
<1>3. crashes' \in Nat
  BY TablesTyped DEF RefuseLine, InsertCollides, StaleIsClosed, SweepRaises, DeadlockVictim, Die
<1> QED BY <1>1, <1>2, <1>3, Ending

\* A statement that moves the session on, or sets the order it works on.
LEMMA StatementsTyped ==
  ASSUME TypeInv, NEW s \in Sessions,
         CountOrders(s) \/ InsertOrder(s) \/ FlushOrder(s) \/ ResolveReceipt(s)
           \/ LoadForApprove(s)
  PROVE  TypeInv'
<1>1. UNCHANGED <<products, orders, receipts, refunds>> /\ served' \in [Sessions -> Nat] /\ crashes' \in Nat
  BY TablesTyped DEF CountOrders, InsertOrder, FlushOrder, ResolveReceipt, LoadForApprove
<1>2. txn[s] \in Txn /\ Fits(txn[s])
  BY DEF TypeInv, TypeOK
<1>3. ASSUME NEW at \in {"insert", "lookup", "resolve", "commit"},
             Continue(s, [txn[s] EXCEPT !.at = at])
      PROVE  TypeInv'
  <2> DEFINE r == [txn[s] EXCEPT !.at = at]
  <2>1. /\ r \in Txn /\ r.at = at /\ r.id = txn[s].id /\ r.rid = txn[s].rid
        /\ r.op = txn[s].op /\ r.want = txn[s].want
    BY <1>2 DEF Txn
  <2> HIDE DEF r
  <2>2. Fits(r)
    BY <1>2, <2>1 DEF Fits
  <2> QED BY <1>1, <1>3, <2>1, <2>2, Proceeding DEF r
<1>4. CASE CountOrders(s)
  <2> DEFINE r == [txn[s] EXCEPT !.want.ref = Len(orders) + 1, !.at = "insert"]
  <2>1. Len(orders) + 1 \in Nat
    BY TablesTyped
  <2>2. /\ r \in Txn /\ r.at = "insert" /\ r.id = txn[s].id /\ r.rid = txn[s].rid
        /\ r.op = txn[s].op /\ r.want.lines = txn[s].want.lines
    BY <1>2, <2>1 DEF Txn, OrderRow
  <2>3. Continue(s, r)
    BY <1>4 DEF CountOrders
  <2> HIDE DEF r
  <2>4. Fits(r)
    BY <1>2, <2>2 DEF Fits
  <2> QED BY <1>1, <2>2, <2>3, <2>4, Proceeding
<1>5. CASE InsertOrder(s) \/ ResolveReceipt(s)
  BY <1>3, <1>5 DEF InsertOrder, ResolveReceipt
<1>6. CASE FlushOrder(s)
  <2> DEFINE at == CASE txn[s].op = "autocancel" -> "lookup"
                     [] txn[s].op = "approve"    -> "resolve"
                     [] OTHER                    -> "commit"
  <2>1. at \in {"insert", "lookup", "resolve", "commit"}
    OBVIOUS
  <2>2. Continue(s, [txn[s] EXCEPT !.at = at])
    BY <1>6 DEF FlushOrder
  <2> HIDE DEF at
  <2> QED BY <1>3, <2>1, <2>2
<1>7. CASE LoadForApprove(s)
  <2> DEFINE i == receipts[txn[s].rid].order
             w == [orders[i] EXCEPT !.status = "paid"]
             r == [txn[s] EXCEPT !.at = "status", !.id = i, !.row = orders[i], !.want = w]
  <2>1. CASE i # 0 /\ MayApprove(orders[i].status)
    <3>1. txn[s].rid \in 0..Len(receipts) /\ txn[s].rid # 0 /\ txn[s].op = "approve"
      BY <1>2, <1>7 DEF LoadForApprove, At, Fits
    <3>2. i \in 0..Len(orders)
      BY <3>1, TablesTyped
    <3>3. i \in OrderIds /\ i \in Nat
      BY <2>1, <3>2, TablesTyped
    <3>4. orders[i] \in OrderRow /\ w \in OrderRow
      <4>1. "paid" \in Statuses
        BY DEF Statuses
      <4> QED BY <3>3, <4>1, TablesTyped, WantTyped
    <3>5. Continue(s, r)
      BY <1>7, <2>1 DEF LoadForApprove
    <3> HIDE DEF i, w
    <3>6. r \in Txn /\ r.at = "status" /\ r.id = i /\ r.rid = txn[s].rid /\ r.op = txn[s].op
      BY <1>2, <3>3, <3>4 DEF Txn
    <3> HIDE DEF r
    <3>7. Fits(r)
      BY <1>2, <3>1, <3>2, <3>6 DEF Fits
    <3> QED BY <1>1, <3>5, <3>6, <3>7, Proceeding
  <2>2. CASE ~ (i # 0 /\ MayApprove(orders[i].status))
    <3>1. Continue(s, [txn[s] EXCEPT !.at = "resolve"])
      BY <1>7, <2>2 DEF LoadForApprove
    <3> QED BY <1>3, <3>1
  <2> QED BY <2>1, <2>2
<1> QED BY <1>4, <1>5, <1>6, <1>7

\* The dashboard's change of level begins with the product it read.
LEMMA LoadForLevelTyped ==
  ASSUME TypeInv, NEW s \in Sessions, LoadForLevel(s)
  PROVE  TypeInv'
<1>1. PICK p \in Scope[s], level \in 0..MaxLevel :
        Continue(s, Holding([Idle EXCEPT !.op = "level", !.at = "level", !.n = level], p, products[p]))
  BY DEF LoadForLevel
<1> DEFINE t == [Idle EXCEPT !.op = "level", !.at = "level", !.n = level]
           r == Holding(t, p, products[p])
<1>2. p \in Products /\ products[p] \in ProductRow /\ level \in Nat
  BY SessionsAreScoped, BoundsAreNaturals DEF TypeInv, TypeOK
<1>3. "level" \in OpNames
  BY DEF OpNames
<1>4. t \in Txn
  BY <1>2, <1>3, IdleIsTxn DEF Txn
<1>5. t.at = "level" /\ t.id = 0 /\ t.rid = 0 /\ t.op = "level"
  BY IdleIsTxn DEF Txn, Idle
<1>6. Continue(s, r)
  BY <1>1
<1> HIDE DEF t
<1>7. r \in Txn /\ r.known = t.known \cup {p} /\ r.at = t.at /\ r.id = t.id /\ r.rid = t.rid /\ r.op = t.op
  BY <1>2, <1>4, HoldingIsTxn
<1> HIDE DEF r
<1>8. Len(orders) \in Nat /\ Len(receipts) \in Nat
  BY TablesTyped
<1>9. Fits(r)
  BY <1>5, <1>7, <1>8 DEF Fits
<1>10. UNCHANGED <<products, orders, receipts, refunds>> /\ served' \in [Sessions -> Nat] /\ crashes' \in Nat
  BY BeginServes, TablesTyped DEF LoadForLevel
<1> QED BY <1>6, <1>7, <1>9, <1>10, Proceeding

\* A commit keeps the invariant when the tables keep their types, none loses a
\* row, orders keep their lines, and receipts name orders.
LEMMA Committing ==
  ASSUME TypeInv, NEW s \in Sessions, NEW r \in Txn, Continue(s, r), Fits(txn[s])',
         products' \in [Products -> ProductRow],
         orders' \in Seq(OrderRow), Len(orders') >= Len(orders),
         \A i \in DOMAIN orders' : orders'[i].lines # <<>>,
         receipts' \in Seq(ReceiptRow), Len(receipts') >= Len(receipts),
         \A v \in DOMAIN receipts' : receipts'[v].order \in 0..Len(orders'),
         refunds' \in Seq(Nat), UNCHANGED <<served, crashes>>
  PROVE  TypeInv'
<1>1. txn' \in [Sessions -> Txn]
  BY DEF Continue, TypeInv, TypeOK
<1>2. ASSUME NEW u \in Sessions PROVE Fits(txn[u])'
  <2>1. CASE u = s
    BY <2>1
  <2>2. CASE u # s
    <3>1. txn'[u] = txn[u]
      BY <2>2 DEF Continue, TypeInv, TypeOK
    <3>2. Fits(txn[u])
      BY DEF TypeInv
    <3>3. /\ Len(orders) \in Nat /\ Len(orders') \in Nat
          /\ Len(receipts) \in Nat /\ Len(receipts') \in Nat
      BY TablesTyped
    <3>4. txn[u].id \in 0..Len(orders') /\ txn[u].rid \in 0..Len(receipts')
      BY <3>2, <3>3 DEF Fits
    <3> QED BY <3>1, <3>2, <3>4 DEF Fits
  <2> QED BY <2>1, <2>2
<1>3. TypeOK'
  BY <1>1 DEF TypeInv, TypeOK
<1>4. TablesFit'
  BY DEF TablesFit, OrderIds
<1> QED BY <1>2, <1>3, <1>4 DEF TypeInv

\* What a session commits has its type, and rows stay where they were.
LEMMA CommittedTyped ==
  ASSUME TypeInv, NEW s \in Sessions
  PROVE  /\ CommittedProducts(s) \in [Products -> ProductRow]
         /\ CommittedReceipts(s) \in Seq(ReceiptRow)
         /\ Len(CommittedReceipts(s)) = Len(receipts)
         /\ \A v \in DOMAIN receipts : CommittedReceipts(s)[v].order = receipts[v].order
         /\ \A o \in OrderRow : /\ CommittedOrder(s, o) \in OrderRow
                                /\ CommittedOrder(s, o).lines = o.lines
                                /\ CommittedOrder(s, o).ref = o.ref
<1>1. txn[s] \in Txn /\ Fits(txn[s])
  BY DEF TypeInv, TypeOK
<1>2. CommittedProducts(s) \in [Products -> ProductRow]
  <2>1. ASSUME NEW p \in Products
        PROVE  txn[s].obj[p] \in ProductRow /\ products[p] \in ProductRow
    BY <1>1 DEF Txn, TypeInv, TypeOK
  <2> QED BY <2>1 DEF CommittedProducts, ProductRow
<1>3. ASSUME NEW o \in OrderRow
      PROVE  /\ CommittedOrder(s, o) \in OrderRow
             /\ CommittedOrder(s, o).lines = o.lines
             /\ CommittedOrder(s, o).ref = o.ref
  <2>1. txn[s].want \in OrderRow
    BY <1>1 DEF Txn
  <2> QED BY <2>1 DEF CommittedOrder, OrderRow
<1>4. /\ CommittedReceipts(s) \in Seq(ReceiptRow)
      /\ Len(CommittedReceipts(s)) = Len(receipts)
      /\ \A v \in DOMAIN receipts : CommittedReceipts(s)[v].order = receipts[v].order
  <2>1. CASE txn[s].rid = 0
    BY <2>1, TablesTyped DEF CommittedReceipts
  <2>2. CASE txn[s].rid # 0
    <3> DEFINE v == txn[s].rid
               st == IF txn[s].op = "approve" THEN "approved" ELSE "resend_requested"
               e == [receipts[v] EXCEPT !.status = st]
    <3>1. v \in 1..Len(receipts) /\ v \in DOMAIN receipts /\ receipts[v] \in ReceiptRow
      <4>1. v \in 0..Len(receipts)
        BY <1>1 DEF Fits
      <4> QED BY <2>2, <4>1, TablesTyped
    <3>2. e \in ReceiptRow /\ e.order = receipts[v].order
      BY <3>1 DEF ReceiptRow
    <3>3. CommittedReceipts(s) = [receipts EXCEPT ![v] = e]
      BY <2>2 DEF CommittedReceipts
    <3> HIDE DEF v, e
    <3>4. /\ [receipts EXCEPT ![v] = e] \in Seq(ReceiptRow)
          /\ Len([receipts EXCEPT ![v] = e]) = Len(receipts)
      BY <3>1, <3>2, TablesTyped, ExceptSeq
    <3>5. ASSUME NEW k \in DOMAIN receipts
          PROVE  [receipts EXCEPT ![v] = e][k].order = receipts[k].order
      BY <3>2
    <3> QED BY <3>3, <3>4, <3>5
  <2> QED BY <2>1, <2>2
<1> QED BY <1>2, <1>3, <1>4

LEMMA CommitNewOrderTyped ==
  ASSUME TypeInv, NEW s \in Sessions, CommitNewOrder(s)
  PROVE  TypeInv'
<1>1. products' = CommittedProducts(s) /\ orders' = Append(orders, txn[s].want)
      /\ Continue(s, Idle) /\ UNCHANGED <<receipts, refunds, served, crashes>>
  BY DEF CommitNewOrder
<1>2. txn[s].want \in OrderRow
  BY DEF TypeInv, TypeOK, Txn
<1>3. /\ orders' \in Seq(OrderRow) /\ Len(orders') = Len(orders) + 1
      /\ \A i \in 1..Len(orders) : orders'[i] = orders[i]
      /\ orders'[Len(orders) + 1] = txn[s].want
  BY <1>1, <1>2, TablesTyped, AppendProperties
<1>4. \A i \in DOMAIN orders' : orders'[i].lines # <<>>
  <2> SUFFICES ASSUME NEW i \in DOMAIN orders' PROVE orders'[i].lines # <<>>
    OBVIOUS
  <2>1. i \in 1..Len(orders) \/ i = Len(orders) + 1
    BY <1>3, TablesTyped
  <2>2. CASE i \in 1..Len(orders)
    BY <2>2, <1>3, TablesTyped
  <2>3. CASE i = Len(orders) + 1
    <3>1. orders'[i] = txn[s].want
      BY <2>3, <1>3
    <3>2. txn[s].want.lines # <<>>
      BY DEF CommitNewOrder, At, TypeInv, Fits
    <3> QED BY <3>1, <3>2
  <2> QED BY <2>1, <2>2, <2>3
<1>5. \A v \in DOMAIN receipts' : receipts'[v].order \in 0..Len(orders')
  <2> SUFFICES ASSUME NEW v \in DOMAIN receipts PROVE receipts[v].order \in 0..Len(orders')
    BY <1>1
  <2>1. receipts[v].order \in 0..Len(orders) /\ Len(orders) \in Nat
    BY TablesTyped
  <2> QED BY <2>1, <1>3
<1>6. Fits(txn[s])'
  <2>1. Len(orders') \in Nat /\ Len(receipts') \in Nat
    BY <1>1, <1>3, TablesTyped
  <2>2. txn'[s] = Idle
    BY <1>1 DEF Continue, TypeInv, TypeOK
  <2> QED BY <2>1, <2>2 DEF Fits, Idle
<1>7. refunds' \in Seq(Nat) /\ receipts' \in Seq(ReceiptRow) /\ Len(receipts') >= Len(receipts)
  BY <1>1, TablesTyped DEF TypeInv, TypeOK
<1>8. Len(orders') >= Len(orders)
  BY <1>3, TablesTyped
<1> QED BY <1>1, <1>3, <1>4, <1>5, <1>6, <1>7, <1>8, IdleIsTxn, CommittedTyped, Committing

LEMMA CommitTyped ==
  ASSUME TypeInv, NEW s \in Sessions, Commit(s)
  PROVE  TypeInv'
<1> DEFINE i == txn[s].id
           o == CommittedOrder(s, orders[i])
           r == IF FilesRefund(s) THEN Begun("admincancel", "refund", i, 0) ELSE Idle
<1>1. /\ products' = CommittedProducts(s)
      /\ orders' = IF i = 0 THEN orders ELSE [orders EXCEPT ![i] = o]
      /\ receipts' = CommittedReceipts(s)
      /\ Continue(s, r)
      /\ UNCHANGED <<refunds, served, crashes>>
  BY DEF Commit
<1>2. i \in 0..Len(orders)
  BY DEF TypeInv, Fits
<1>3. /\ orders' \in Seq(OrderRow) /\ Len(orders') = Len(orders)
      /\ \A k \in DOMAIN orders' : orders'[k].lines # <<>>
  <2>1. CASE i = 0
    BY <1>1, <2>1, TablesTyped DEF OrderIds
  <2>2. CASE i # 0
    <3>1. i \in 1..Len(orders) /\ i \in OrderIds
      BY <1>2, <2>2, TablesTyped
    <3>2. o \in OrderRow /\ o.lines = orders[i].lines
      BY <3>1, TablesTyped, CommittedTyped
    <3> HIDE DEF i, o
    <3>3. orders' = [orders EXCEPT ![i] = o]
      BY <1>1, <2>2
    <3>4. orders' \in Seq(OrderRow) /\ Len(orders') = Len(orders)
          /\ DOMAIN orders' = OrderIds
      BY <3>1, <3>2, <3>3, TablesTyped, ExceptSeq
    <3>5. ASSUME NEW k \in OrderIds PROVE orders'[k].lines # <<>>
      BY <3>2, <3>3, TablesTyped DEF OrderIds
    <3> QED BY <3>4, <3>5
  <2> QED BY <2>1, <2>2
<1>4. /\ receipts' \in Seq(ReceiptRow) /\ Len(receipts') = Len(receipts)
      /\ \A v \in DOMAIN receipts' : receipts'[v].order \in 0..Len(orders')
  <2>1. receipts' \in Seq(ReceiptRow) /\ Len(receipts') = Len(receipts)
    BY <1>1, CommittedTyped
  <2>2. DOMAIN receipts' = DOMAIN receipts
    BY <2>1, TablesTyped
  <2>3. ASSUME NEW v \in DOMAIN receipts PROVE receipts'[v].order \in 0..Len(orders')
    BY <1>1, <1>3, CommittedTyped, TablesTyped
  <2> QED BY <2>1, <2>2, <2>3
<1>5. r \in Txn /\ Fits(r)
  <2>1. CASE FilesRefund(s)
    <3>1. "admincancel" \in OpNames
      BY DEF OpNames
    <3>2. 0 \in 0..Len(receipts)
      BY TablesTyped
    <3>3. Begun("admincancel", "refund", i, 0) \in Txn /\ Fits(Begun("admincancel", "refund", i, 0))
      BY <1>2, <3>1, <3>2, BegunTyped
    <3> QED BY <2>1, <3>3
  <2>2. CASE ~ FilesRefund(s)
    <3>1. Len(orders) \in Nat /\ Len(receipts) \in Nat
      BY TablesTyped
    <3>2. Fits(Idle)
      BY <3>1 DEF Fits, Idle
    <3> QED BY <2>2, <3>2, IdleIsTxn
  <2> QED BY <2>1, <2>2
<1> HIDE DEF r
<1>6. Fits(txn[s])'
  <2>1. txn'[s] = r
    BY <1>1 DEF Continue, TypeInv, TypeOK
  <2> QED BY <2>1, <1>3, <1>4, <1>5 DEF Fits
<1>7. refunds' \in Seq(Nat) /\ Len(orders') >= Len(orders) /\ Len(receipts') >= Len(receipts)
  BY <1>1, <1>3, <1>4, TablesTyped DEF TypeInv, TypeOK
<1> QED BY <1>1, <1>3, <1>4, <1>5, <1>6, <1>7, CommittedTyped, Committing

\* The second sessions: a refund, and a receipt to verify.
LEMMA FilingsTyped ==
  ASSUME TypeInv, NEW s \in Sessions, FileRefund(s) \/ FileReceipt(s)
  PROVE  TypeInv'
<1>1. /\ Continue(s, Idle) /\ UNCHANGED <<products, orders, served, crashes>>
      /\ products' \in [Products -> ProductRow] /\ orders' \in Seq(OrderRow)
      /\ Len(orders') >= Len(orders) /\ \A i \in DOMAIN orders' : orders'[i].lines # <<>>
  BY TablesTyped DEF FileRefund, FileReceipt, OrderIds, TypeInv, TypeOK
<1>2. txn[s].id \in 0..Len(orders) /\ txn[s].id \in Nat
  BY DEF TypeInv, Fits, TypeOK, Txn
<1>3. /\ refunds' \in Seq(Nat)
      /\ receipts' \in Seq(ReceiptRow) /\ Len(receipts') >= Len(receipts)
      /\ \A v \in DOMAIN receipts' : receipts'[v].order \in 0..Len(orders')
  <2>1. CASE FileRefund(s)
    <3>1. refunds \in Seq(Nat) /\ refunds' = Append(refunds, txn[s].id) /\ UNCHANGED receipts
      BY <2>1 DEF FileRefund, TypeInv, TypeOK
    <3>2. refunds' \in Seq(Nat)
      BY <1>2, <3>1, AppendProperties
    <3> QED BY <1>1, <3>1, <3>2, TablesTyped
  <2>2. CASE FileReceipt(s)
    <3> DEFINE new == [order |-> txn[s].id, status |-> "pending"]
    <3>1. new \in ReceiptRow /\ new.order = txn[s].id
      BY <1>2 DEF ReceiptRow
    <3>2. receipts' = Append(receipts, new) /\ UNCHANGED refunds
      BY <2>2 DEF FileReceipt
    <3> HIDE DEF new
    <3>3. /\ receipts' \in Seq(ReceiptRow) /\ Len(receipts') = Len(receipts) + 1
          /\ \A v \in 1..Len(receipts) : receipts'[v] = receipts[v]
          /\ receipts'[Len(receipts) + 1] = new
      BY <3>1, <3>2, TablesTyped, AppendProperties
    <3>4. ASSUME NEW v \in DOMAIN receipts' PROVE receipts'[v].order \in 0..Len(orders')
      <4>1. v \in DOMAIN receipts \/ v = Len(receipts) + 1
        BY <3>3, TablesTyped
      <4>2. CASE v \in DOMAIN receipts
        BY <1>1, <3>3, <4>2, TablesTyped
      <4>3. CASE v = Len(receipts) + 1
        BY <1>1, <1>2, <3>1, <3>3, <4>3
      <4> QED BY <4>1, <4>2, <4>3
    <3> QED BY <3>2, <3>3, <3>4, TablesTyped DEF TypeInv, TypeOK
  <2> QED BY <2>1, <2>2
<1>4. Fits(txn[s])'
  <2>1. Len(orders') \in Nat /\ Len(receipts') \in Nat
    BY <1>1, <1>3
  <2>2. txn'[s] = Idle
    BY <1>1 DEF Continue, TypeInv, TypeOK
  <2> QED BY <2>1, <2>2 DEF Fits, Idle
<1> QED BY <1>1, <1>3, <1>4, IdleIsTxn, Committing

\* Every step keeps the invariant.
LEMMA TypeStep == TypeInv /\ [Next]_vars => TypeInv'
<1> SUFFICES ASSUME TypeInv, [Next]_vars PROVE TypeInv'
  OBVIOUS
<1>1. CASE UNCHANGED vars
  BY <1>1 DEF vars, TypeInv, TypeOK, TablesFit, OrderIds, Fits
<1>2. ASSUME NEW s \in Sessions, Arrive(s) PROVE TypeInv'
  BY <1>2, CreateOrderTyped, OrderLoadsTyped, LoadForLevelTyped, BareLoadsTyped DEF Arrive
<1>3. ASSUME NEW s \in Sessions, Proceed(s) PROVE TypeInv'
  BY <1>3, CheckLineTyped, TakeLineTyped, ReadLineTyped, EndingsTyped, StatementsTyped,
     CommitNewOrderTyped, CommitTyped, FilingsTyped, OrderLoadsTyped DEF Proceed
<1>4. ASSUME NEW s \in Sessions, ListStale(s) \/ Die(s) PROVE TypeInv'
  BY <1>4, BareLoadsTyped, EndingsTyped
<1> QED BY <1>1, <1>2, <1>3, <1>4 DEF Next

\* The empty shop satisfies the invariant.
LEMMA TypeInit == Init => TypeInv
<1> SUFFICES ASSUME Init PROVE TypeInv
  OBVIOUS
<1>1. products \in [Products -> ProductRow]
  <2>1. PICK level \in [Products -> 0..MaxLevel] : products = [p \in Products |-> Levelled(level[p])]
    BY DEF Init
  <2>2. MaxLevel \in Nat
    BY BoundsAreNaturals
  <2> QED BY <2>1, <2>2 DEF Levelled, ProductRow
<1>2. /\ orders = <<>> /\ receipts = <<>> /\ refunds = <<>> /\ crashes = 0
      /\ txn = [s \in Sessions |-> Idle] /\ served = [s \in Sessions |-> 0]
  BY DEF Init
<1>3. TypeOK
  BY <1>1, <1>2, IdleIsTxn DEF TypeOK
<1>4. TablesFit
  BY <1>2 DEF TablesFit, OrderIds
<1>5. ASSUME NEW s \in Sessions PROVE Fits(txn[s])
  BY <1>2 DEF Fits, Idle
<1> QED BY <1>3, <1>4, <1>5 DEF TypeInv

\* The type invariant, with the row numbers and line numbers it needs to be
\* inductive.
THEOREM Typed == Spec => []TypeInv
<1> QED BY TypeInit, TypeStep, PTL DEF Spec

\* Rows and sessions keep their types in every reachable state: stock is never
\* negative, whatever overlaps (crud.decrement_product_stock clamps at zero).
THEOREM TypesHold == Spec => []TypeOK
<1>1. TypeInv => TypeOK
  BY DEF TypeInv
<1> QED BY <1>1, Typed, PTL

-----------------------------------------------------------------------------
(* References and payment methods.  Two facts of a session make the order    *)
(* tables' invariants inductive: a create that has inserted holds the next    *)
(* reference and is alone in doing so, and the change of an order object      *)
(* moves its payment method and its status together.                         *)

RowOK(o) == o.status # "draft" /\ (o.status \in Open => o.status = StatusFor(o.pay))

\* A handler leaves the payment method alone, and at most closes the order; or
\* it takes an order that matches its method to the status of the new one.
SafeChange(old, new) ==
  \/ new.pay = old.pay /\ new.status \in {old.status, "cancelled", "paid"}
  \/ old.status = StatusFor(old.pay) /\ new.status = StatusFor(new.pay)

CreatePoints == {"check", "take", "count", "insert", "commit"}

Sound(t) ==
  IF t.op = "create" THEN t.at \in CreatePoints /\ RowOK(t.want) ELSE SafeChange(t.row, t.want)

\* An INSERT has been tried, with the reference counted before it.
Counted(t) == t.op = "create" /\ t.at \in {"insert", "commit"}

RefInv ==
  /\ RefsAreDense
  /\ \A s \in Sessions : Counted(txn[s]) => txn[s].want.ref \in 1..(Len(orders) + 1)
  /\ \A s \in Sessions : HoldsRef(s) => txn[s].want.ref = Len(orders) + 1
  /\ \A s, t \in Sessions : HoldsRef(s) /\ HoldsRef(t) => s = t

RowInv == \A i \in OrderIds : RowOK(orders[i])
SoundInv == \A s \in Sessions : Sound(txn[s])

DeskInv == TypeInv /\ RefInv /\ RowInv /\ SoundInv

\* A step of s changes the state of s alone.
LEMMA Continued ==
  ASSUME TypeInv, NEW s \in Sessions, NEW r, Continue(s, r)
  PROVE  txn'[s] = r /\ \A u \in Sessions \ {s} : txn'[u] = txn[u]
BY DEF Continue, TypeInv, TypeOK

\* A flush keeps the request, the control point and the order objects of the
\* state it goes on in.
LEMMA Flushed ==
  ASSUME TypeInv, NEW s \in Sessions, txn[s].at \in {"take", "give", "level"},
         NEW next \in Txn, FlushProduct(s, next)
  PROVE  /\ txn'[s].op = next.op /\ txn'[s].at = next.at
         /\ txn'[s].row = next.row /\ txn'[s].want = next.want
         /\ txn'[s].id = next.id /\ txn'[s].rid = next.rid
         /\ \A u \in Sessions \ {s} : txn'[u] = txn[u]
<1> DEFINE d == [next EXCEPT !.dirty = @ \cup ({Target(s)} \X NewColumns(s))]
           r == Holding(d, Target(s), NewValues(s))
<1>1. d \in Txn /\ d.op = next.op /\ d.at = next.at /\ d.row = next.row /\ d.want = next.want
      /\ d.id = next.id /\ d.rid = next.rid
  BY FlushTyped DEF Txn
<1>2. Continue(s, r)
  BY DEF FlushProduct
<1> HIDE DEF d
<1>3. r.op = next.op /\ r.at = next.at /\ r.row = next.row /\ r.want = next.want
      /\ r.id = next.id /\ r.rid = next.rid
  BY <1>1, FlushTyped, HoldingIsTxn
<1> HIDE DEF r
<1> QED BY <1>2, <1>3, Continued

\* An idle session, and a handler that holds no order object, change nothing.
LEMMA BegunSound ==
  /\ Sound(Idle) /\ ~ Counted(Idle)
  /\ \A op, at, i, v : op # "create" => Sound(Begun(op, at, i, v)) /\ ~ Counted(Begun(op, at, i, v))
<1>1. Idle.op = "none" /\ Idle.row = Idle.want
  BY DEF Idle
<1>2. Sound(Idle) /\ ~ Counted(Idle)
  BY <1>1 DEF Sound, SafeChange, Counted
<1>3. ASSUME NEW op, NEW at, NEW i, NEW v, op # "create"
      PROVE  Sound(Begun(op, at, i, v)) /\ ~ Counted(Begun(op, at, i, v))
  <2> DEFINE r == Begun(op, at, i, v)
  <2>1. r.op = op /\ r.row = Idle.row /\ r.want = Idle.want
    BY IdleIsTxn DEF Begun, Txn
  <2> HIDE DEF r
  <2>2. Sound(r) /\ ~ Counted(r)
    BY <1>1, <1>3, <2>1 DEF Sound, SafeChange, Counted
  <2> QED BY <2>2 DEF r
<1> QED BY <1>2, <1>3

\* A handler that means to leave order i as w changes it soundly if w does.
LEMMA ChangingSound ==
  ASSUME NEW op, op # "create", NEW at, NEW n, NEW i, NEW w, SafeChange(orders[i], w)
  PROVE  Sound(Changing(op, at, n, i, w)) /\ ~ Counted(Changing(op, at, n, i, w))
<1> DEFINE r == Changing(op, at, n, i, w)
           o == orders[i]
<1>1. SafeChange(o, w)
  OBVIOUS
<1>2. r = [Idle EXCEPT !.op = op, !.at = at, !.n = n, !.id = i, !.row = o, !.want = w]
  BY DEF Changing
<1> HIDE DEF r, o
<1>3. r.op = op /\ r.row = o /\ r.want = w
  BY <1>2, IdleIsTxn DEF Txn
<1>4. Sound(r) /\ ~ Counted(r)
  BY <1>1, <1>3 DEF Sound, Counted
<1> QED BY <1>4 DEF r

\* A cancellation, an approval, a flag and a change of payment method are
\* changes of the kind SafeChange allows.
LEMMA ChangesAreSafe ==
  ASSUME NEW o \in OrderRow, RowOK(o)
  PROVE  /\ SafeChange(o, [o EXCEPT !.status = "cancelled"])
         /\ SafeChange(o, [o EXCEPT !.status = "paid"])
         /\ SafeChange(o, [o EXCEPT !.flagged = TRUE])
         /\ \A pay \in PayMethods : MayRepay(o.status) => SafeChange(o, Repaid(o, pay))
<1>1. /\ SafeChange(o, [o EXCEPT !.status = "cancelled"])
      /\ SafeChange(o, [o EXCEPT !.status = "paid"])
      /\ SafeChange(o, [o EXCEPT !.flagged = TRUE])
  BY DEF SafeChange, OrderRow
<1>2. ASSUME NEW pay \in PayMethods, MayRepay(o.status) PROVE SafeChange(o, Repaid(o, pay))
  <2>1. o.status \in Open
    BY <1>2 DEF RowOK, MayRepay, OrderRow, Statuses, Open
  <2>2. o.status = StatusFor(o.pay)
    BY <2>1 DEF RowOK
  <2>3. Repaid(o, pay).pay = pay /\ Repaid(o, pay).status = StatusFor(pay)
    BY DEF Repaid, OrderRow
  <2> QED BY <2>2, <2>3 DEF SafeChange
<1> QED BY <1>1, <1>2

\* A request that arrives is sound, and has counted nothing yet.
LEMMA ArrivalsSound ==
  ASSUME TypeInv, RowInv, NEW s \in Sessions, Arrive(s) \/ ListStale(s)
  PROVE  /\ Sound(txn'[s]) /\ ~ Counted(txn'[s])
         /\ \A u \in Sessions \ {s} : txn'[u] = txn[u]
<1>1. CASE CreateOrder(s)
  <2>1. PICK cart \in Carts, pay \in PayMethods, c \in Customers :
          Continue(s, [Idle EXCEPT !.op = "create", !.at = "check", !.n = 1,
                         !.want = [Blank EXCEPT !.cust = c, !.lines = cart, !.pay = pay,
                                                !.status = StatusFor(pay)]])
    BY <1>1 DEF CreateOrder
  <2> DEFINE o == [Blank EXCEPT !.cust = c, !.lines = cart, !.pay = pay, !.status = StatusFor(pay)]
             r == [Idle EXCEPT !.op = "create", !.at = "check", !.n = 1, !.want = o]
  <2>2. RowOK(o)
    BY IdleIsTxn DEF OrderRow, RowOK, StatusFor
  <2>3. Continue(s, r)
    BY <2>1
  <2> HIDE DEF o
  <2>4. r.op = "create" /\ r.at = "check" /\ r.want = o
    BY IdleIsTxn DEF Txn
  <2> HIDE DEF r
  <2>5. Sound(r) /\ ~ Counted(r)
    BY <2>2, <2>4 DEF Sound, CreatePoints, Counted
  <2> QED BY <2>3, <2>5, Continued
<1>2. ASSUME NEW i \in OrderIds, NEW op \in {"cancel", "admincancel"}, Continue(s, Restoring(op, i))
      PROVE  /\ Sound(txn'[s]) /\ ~ Counted(txn'[s])
             /\ \A u \in Sessions \ {s} : txn'[u] = txn[u]
  <2>1. SafeChange(orders[i], [orders[i] EXCEPT !.status = "cancelled"])
    BY TablesTyped, ChangesAreSafe DEF RowInv
  <2>2. Sound(Restoring(op, i)) /\ ~ Counted(Restoring(op, i))
    BY <2>1, ChangingSound DEF Restoring
  <2> QED BY <1>2, <2>2, Continued
<1>3. CASE LoadForCancel(s)
  BY <1>2, <1>3 DEF LoadForCancel
<1>4. CASE LoadForRepay(s)
  <2>1. PICK i \in OrderIds, pay \in PayMethods :
          MayRepay(orders[i].status) /\ Continue(s, Changing("repay", "status", 0, i, Repaid(orders[i], pay)))
    BY <1>4 DEF LoadForRepay
  <2>2. SafeChange(orders[i], Repaid(orders[i], pay))
    BY <2>1, TablesTyped, ChangesAreSafe DEF RowInv
  <2> QED BY <2>1, <2>2, ChangingSound, Continued
<1>5. CASE LoadForFlag(s)
  <2>1. PICK i \in OrderIds :
          Continue(s, Changing("flag", "status", 0, i, [orders[i] EXCEPT !.flagged = TRUE]))
    BY <1>5 DEF LoadForFlag
  <2>2. SafeChange(orders[i], [orders[i] EXCEPT !.flagged = TRUE])
    BY TablesTyped, ChangesAreSafe DEF RowInv
  <2> QED BY <2>1, <2>2, ChangingSound, Continued
<1>6. CASE LoadForLevel(s)
  <2>1. PICK p \in Scope[s], level \in 0..MaxLevel :
          Continue(s, Holding([Idle EXCEPT !.op = "level", !.at = "level", !.n = level], p, products[p]))
    BY <1>6 DEF LoadForLevel
  <2> DEFINE t == [Idle EXCEPT !.op = "level", !.at = "level", !.n = level]
             r == Holding(t, p, products[p])
  <2>2. p \in Products /\ products[p] \in ProductRow /\ level \in Nat
    BY SessionsAreScoped, BoundsAreNaturals DEF TypeInv, TypeOK
  <2>3. "level" \in OpNames
    BY DEF OpNames
  <2>4. t \in Txn
    BY <2>2, <2>3, IdleIsTxn DEF Txn
  <2>5. t.op = "level" /\ t.row = Idle.row /\ t.want = Idle.want
    BY IdleIsTxn DEF Txn
  <2>6. Continue(s, r)
    BY <2>1
  <2> HIDE DEF t
  <2>7. r.op = "level" /\ r.row = Idle.row /\ r.want = Idle.want
    BY <2>2, <2>4, <2>5, HoldingIsTxn
  <2>8. Idle.row = Idle.want
    BY DEF Idle
  <2> HIDE DEF r
  <2>9. Sound(r) /\ ~ Counted(r)
    BY <2>7, <2>8 DEF Sound, SafeChange, Counted
  <2> QED BY <2>6, <2>9, Continued
<1>7. CASE ListStale(s) \/ ReadReceipt(s) \/ LoadReceipt(s) \/ LoadForRefund(s)
  <2>1. PICK op \in {"autocancel", "receipt", "approve", "resend", "refund"} :
          \E at, i, v : Continue(s, Begun(op, at, i, v))
    BY <1>7 DEF ListStale, ReadReceipt, LoadReceipt, LoadForRefund
  <2> QED BY <2>1, BegunSound, Continued
<1> QED BY <1>1, <1>3, <1>4, <1>5, <1>6, <1>7 DEF Arrive

\* A step of a request keeps it sound; only the steps of an INSERT count.
LEMMA StepsSound ==
  ASSUME TypeInv, RowInv, SoundInv, NEW s \in Sessions, Proceed(s) \/ Die(s)
  PROVE  /\ Sound(txn'[s])
         /\ CountOrders(s) \/ InsertOrder(s) \/ ~ Counted(txn'[s])
         /\ \A u \in Sessions \ {s} : txn'[u] = txn[u]
<1> DEFINE Goal == /\ Sound(txn'[s])
                   /\ CountOrders(s) \/ InsertOrder(s) \/ ~ Counted(txn'[s])
                   /\ \A u \in Sessions \ {s} : txn'[u] = txn[u]
<1>1. txn[s] \in Txn /\ Sound(txn[s])
  BY DEF TypeInv, TypeOK, SoundInv
\* Steps that keep the order objects, by where they leave the session.
<1>2. ASSUME NEW r, Continue(s, r),
             r.op = txn[s].op, r.row = txn[s].row, r.want = txn[s].want,
             r.op = "create" => r.at \in {"check", "take", "count"}
      PROVE  Goal
  <2>1. Sound(r) /\ ~ Counted(r)
    BY <1>1, <1>2 DEF Sound, CreatePoints, Counted
  <2> QED BY <1>2, <2>1, Continued
<1>3. CASE CheckLine(s)
  <2> DEFINE p == CurrentLine(s).sku
             n == IF LastLine(s) THEN 1 ELSE txn[s].n + 1
             at == IF LastLine(s) THEN "take" ELSE "check"
             t == [txn[s] EXCEPT !.n = n, !.at = at]
             r == Holding(t, p, Seen(s, p))
  <2>1. txn[s].at = "check"
    BY <1>3 DEF CheckLine, At
  <2>2. p \in Products /\ Seen(s, p) \in ProductRow /\ txn[s].n \in Nat
    BY <1>1, <2>1, LineTyped DEF Txn
  <2>3. n \in Nat /\ at \in {"take", "check"}
    BY <2>2
  <2>4. Continue(s, r)
    BY <1>3 DEF CheckLine
  <2> HIDE DEF n, at
  <2>5. t \in Txn /\ t.op = txn[s].op /\ t.row = txn[s].row /\ t.want = txn[s].want /\ t.at = at
    BY <1>1, <2>3 DEF Txn
  <2> HIDE DEF t
  <2>6. r.op = txn[s].op /\ r.row = txn[s].row /\ r.want = txn[s].want /\ r.at = at
    BY <2>2, <2>5, HoldingIsTxn
  <2> HIDE DEF r
  <2> QED BY <1>2, <2>3, <2>4, <2>6
<1>4. CASE ReadLine(s)
  <2> DEFINE p == CurrentLine(s).sku
             t == [txn[s] EXCEPT !.at = "give"]
             r == Holding(t, p, Seen(s, p))
  <2>1. txn[s].at = "restore"
    BY <1>4 DEF ReadLine
  <2>2. p \in Products /\ Seen(s, p) \in ProductRow
    BY <2>1, LineTyped
  <2>3. Continue(s, r)
    BY <1>4 DEF ReadLine
  <2>4. t \in Txn /\ t.op = txn[s].op /\ t.row = txn[s].row /\ t.want = txn[s].want
    BY <1>1 DEF Txn
  <2> HIDE DEF t
  <2>5. r.op = txn[s].op /\ r.row = txn[s].row /\ r.want = txn[s].want
    BY <2>2, <2>4, HoldingIsTxn
  <2>6. r.op # "create"
    BY <1>1, <2>1, <2>5 DEF Sound, CreatePoints
  <2> HIDE DEF r
  <2> QED BY <1>2, <2>3, <2>5, <2>6
<1>5. CASE TakeLine(s) \/ GiveLine(s) \/ SetLevel(s)
  <2>1. txn[s].at \in {"take", "give", "level"} /\ txn[s].n \in Nat
    BY <1>1, <1>5 DEF TakeLine, GiveLine, SetLevel, At, Txn
  <2>2. PICK n \in Nat, at \in {"count", "take", "status", "restore", "commit"} :
          /\ FlushProduct(s, [txn[s] EXCEPT !.n = n, !.at = at])
          /\ txn[s].op = "create" => at \in {"count", "take"}
    <3>1. CASE TakeLine(s)
      <4> DEFINE n == IF LastLine(s) THEN txn[s].n ELSE txn[s].n + 1
                 at == IF LastLine(s) THEN "count" ELSE "take"
      <4>1. FlushProduct(s, [txn[s] EXCEPT !.n = n, !.at = at])
        BY <3>1 DEF TakeLine
      <4>2. n \in Nat /\ at \in {"count", "take"}
        BY <2>1
      <4> HIDE DEF n, at
      <4> QED BY <4>1, <4>2
    <3>2. CASE GiveLine(s)
      <4> DEFINE n == IF LastLine(s) THEN txn[s].n ELSE txn[s].n + 1
                 at == IF LastLine(s) THEN "status" ELSE "restore"
      <4>1. FlushProduct(s, [txn[s] EXCEPT !.n = n, !.at = at])
        BY <3>2 DEF GiveLine
      <4>2. n \in Nat /\ at \in {"status", "restore"}
        BY <2>1
      <4>3. txn[s].op # "create"
        BY <1>1, <3>2 DEF GiveLine, Sound, CreatePoints
      <4> HIDE DEF n, at
      <4> QED BY <4>1, <4>2, <4>3
    <3>3. CASE SetLevel(s)
      <4>1. FlushProduct(s, [txn[s] EXCEPT !.at = "commit"])
        BY <3>3 DEF SetLevel
      <4>2. [txn[s] EXCEPT !.at = "commit"] = [txn[s] EXCEPT !.n = txn[s].n, !.at = "commit"]
        BY <1>1 DEF Txn
      <4>3. txn[s].op # "create"
        BY <3>3 DEF SetLevel, At
      <4> QED BY <2>1, <4>1, <4>2, <4>3
    <3> QED BY <1>5, <3>1, <3>2, <3>3
  <2> DEFINE next == [txn[s] EXCEPT !.n = n, !.at = at]
  <2>3. next \in Txn /\ next.op = txn[s].op /\ next.row = txn[s].row /\ next.want = txn[s].want
        /\ next.at = at
    BY <1>1 DEF Txn
  <2>4. FlushProduct(s, next)
    BY <2>2
  <2> HIDE DEF next
  <2>5. /\ txn'[s].op = txn[s].op /\ txn'[s].at = at
        /\ txn'[s].row = txn[s].row /\ txn'[s].want = txn[s].want
        /\ \A u \in Sessions \ {s} : txn'[u] = txn[u]
    BY <2>1, <2>3, <2>4, Flushed
  <2> QED BY <1>1, <2>2, <2>5 DEF Sound, CreatePoints, Counted
<1>6. CASE CountOrders(s)
  <2> DEFINE r == [txn[s] EXCEPT !.want.ref = Len(orders) + 1, !.at = "insert"]
  <2>1. txn[s].op = "create" /\ Continue(s, r)
    BY <1>6 DEF CountOrders, At
  <2>2. /\ r.op = "create" /\ r.at = "insert"
        /\ r.want.pay = txn[s].want.pay /\ r.want.status = txn[s].want.status
    BY <1>1, <2>1 DEF Txn, OrderRow
  <2> HIDE DEF r
  <2>3. Sound(r)
    BY <1>1, <2>1, <2>2 DEF Sound, CreatePoints, RowOK
  <2> QED BY <1>6, <2>1, <2>3, Continued
<1>7. CASE InsertOrder(s)
  <2> DEFINE r == [txn[s] EXCEPT !.at = "commit"]
  <2>1. txn[s].op = "create" /\ Continue(s, r)
    BY <1>7 DEF InsertOrder, At
  <2>2. r.op = "create" /\ r.at = "commit" /\ r.want = txn[s].want
    BY <1>1, <2>1 DEF Txn
  <2> HIDE DEF r
  <2>3. Sound(r)
    BY <1>1, <2>1, <2>2 DEF Sound, CreatePoints
  <2> QED BY <1>7, <2>1, <2>3, Continued
<1>8. CASE FlushOrder(s) \/ ResolveReceipt(s)
  <2>1. txn[s].op # "create"
    BY <1>1, <1>8 DEF FlushOrder, ResolveReceipt, Sound, CreatePoints
  <2>2. PICK at : Continue(s, [txn[s] EXCEPT !.at = at])
    BY <1>8 DEF FlushOrder, ResolveReceipt
  <2> DEFINE r == [txn[s] EXCEPT !.at = at]
  <2>3. r.op = txn[s].op /\ r.row = txn[s].row /\ r.want = txn[s].want
    BY <1>1 DEF Txn
  <2> HIDE DEF r
  <2> QED BY <1>2, <2>1, <2>2, <2>3 DEF r
<1>9. CASE LoadForApprove(s)
  <2> DEFINE i == receipts[txn[s].rid].order
             w == [orders[i] EXCEPT !.status = "paid"]
             r == [txn[s] EXCEPT !.at = "status", !.id = i, !.row = orders[i], !.want = w]
             q == [txn[s] EXCEPT !.at = "resolve"]
  <2>1. txn[s].op = "approve" /\ txn[s].at = "load" /\ Fits(txn[s])
    BY <1>9 DEF LoadForApprove, At, TypeInv
  <2>2. CASE i # 0 /\ MayApprove(orders[i].status)
    <3>1. txn[s].rid \in DOMAIN receipts
      BY <2>1, TablesTyped DEF Fits
    <3>2. i \in OrderIds
      BY <2>2, <3>1, TablesTyped
    <3>3. SafeChange(orders[i], w)
      BY <3>2, TablesTyped, ChangesAreSafe DEF RowInv
    <3>4. Continue(s, r)
      BY <1>9, <2>2 DEF LoadForApprove
    <3> DEFINE o == orders[i]
    <3>5. SafeChange(o, w) /\ r = [txn[s] EXCEPT !.at = "status", !.id = i, !.row = o, !.want = w]
      BY <3>3
    <3> HIDE DEF i, o, w, r
    <3>6. r.op = "approve" /\ r.row = o /\ r.want = w
      BY <1>1, <2>1, <3>5 DEF Txn
    <3>7. Sound(r) /\ ~ Counted(r)
      BY <3>5, <3>6 DEF Sound, Counted
    <3> QED BY <3>4, <3>7, Continued
  <2>3. CASE ~ (i # 0 /\ MayApprove(orders[i].status))
    <3>1. Continue(s, q)
      BY <1>9, <2>3 DEF LoadForApprove
    <3>2. q.op = txn[s].op /\ q.row = txn[s].row /\ q.want = txn[s].want
      BY <1>1 DEF Txn
    <3> HIDE DEF q
    <3> QED BY <1>2, <2>1, <3>1, <3>2
  <2> QED BY <2>2, <2>3
<1>10. CASE LoadStale(s)
  <2>1. Fits(txn[s]) /\ txn[s].op = "autocancel" /\ txn[s].at = "load"
        /\ Continue(s, Restoring("autocancel", txn[s].id))
    BY <1>10 DEF LoadStale, At, TypeInv
  <2> DEFINE i == txn[s].id
  <2>2. i \in OrderIds
    BY <2>1, TablesTyped DEF Fits
  <2>3. SafeChange(orders[i], [orders[i] EXCEPT !.status = "cancelled"])
    BY <2>2, TablesTyped, ChangesAreSafe DEF RowInv
  <2>4. Sound(Restoring("autocancel", i)) /\ ~ Counted(Restoring("autocancel", i))
    BY <2>3, ChangingSound DEF Restoring
  <2> QED BY <2>1, <2>4, Continued
<1>11. CASE Commit(s)
  <2>1. Continue(s, Idle) \/ Continue(s, Begun("admincancel", "refund", txn[s].id, 0))
    BY <1>11 DEF Commit
  <2> QED BY <2>1, BegunSound, Continued
<1>12. CASE \/ RefuseLine(s) \/ InsertCollides(s) \/ StaleIsClosed(s) \/ SweepRaises(s)
            \/ DeadlockVictim(s) \/ Die(s) \/ CommitNewOrder(s) \/ FileRefund(s) \/ FileReceipt(s)
  <2>1. Continue(s, Idle)
    BY <1>12 DEF RefuseLine, InsertCollides, StaleIsClosed, SweepRaises, DeadlockVictim, Die,
       CommitNewOrder, FileRefund, FileReceipt
  <2> QED BY <2>1, BegunSound, Continued
<1> QED BY <1>3, <1>4, <1>5, <1>6, <1>7, <1>8, <1>9, <1>10, <1>11, <1>12 DEF Proceed

\* A safe change, merged column by column into a row another session may have
\* changed since, leaves a row that is right again.
LEMMA MergeIsSafe ==
  ASSUME TypeInv, SoundInv, NEW s \in Sessions, txn[s].op # "create",
         NEW o \in OrderRow, RowOK(o)
  PROVE  RowOK(CommittedOrder(s, o))
<1> DEFINE old == txn[s].row
           new == txn[s].want
           r == CommittedOrder(s, o)
<1> SUFFICES RowOK(r)
  OBVIOUS
<1>1. /\ old \in OrderRow /\ new \in OrderRow /\ SafeChange(old, new)
  BY DEF TypeInv, TypeOK, Txn, SoundInv, Sound
<1>2. /\ r.pay = IF old.pay # new.pay THEN new.pay ELSE o.pay
      /\ r.status = IF old.status # new.status THEN new.status ELSE o.status
  BY DEF CommittedOrder, OrderRow
<1>3. /\ o.pay \in PayMethods /\ old.pay \in PayMethods /\ new.pay \in PayMethods
  BY <1>1 DEF OrderRow
<1> HIDE DEF old, new, r
<1>4. CASE new.pay = old.pay /\ new.status \in {old.status, "cancelled", "paid"}
  BY <1>2, <1>4 DEF RowOK, Open
<1>5. CASE old.status = StatusFor(old.pay) /\ new.status = StatusFor(new.pay)
  <2>1. CASE new.pay = old.pay
    BY <1>2, <1>5, <2>1 DEF RowOK
  <2>2. CASE new.pay # old.pay
    <3>1. new.status # old.status /\ new.status # "draft"
      BY <1>3, <1>5, <2>2 DEF StatusFor, PayMethods
    <3> QED BY <1>2, <1>5, <2>2, <3>1 DEF RowOK
  <2> QED BY <2>1, <2>2
<1> QED BY <1>1, <1>4, <1>5 DEF SafeChange

\* What a step makes of the orders: nothing, a new row, or the commit of a
\* change to one of them.
LEMMA OrdersStep ==
  ASSUME TypeInv, NEW s \in Sessions, Arrive(s) \/ ListStale(s) \/ Proceed(s) \/ Die(s)
  PROVE  \/ UNCHANGED orders
         \/ CommitNewOrder(s) /\ orders' = Append(orders, txn[s].want)
         \/ /\ Commit(s) /\ txn[s].op # "create" /\ txn[s].id \in OrderIds
            /\ orders' = [orders EXCEPT ![txn[s].id] = CommittedOrder(s, orders[txn[s].id])]
<1>1. CASE Commit(s)
  <2>1. txn[s].id \in 0..Len(orders)
    BY DEF TypeInv, Fits
  <2>2. CASE txn[s].id = 0
    BY <1>1, <2>2 DEF Commit
  <2>3. CASE txn[s].id # 0
    <3>1. txn[s].id \in OrderIds
      BY <2>1, <2>3, TablesTyped
    <3> QED BY <1>1, <2>3, <3>1 DEF Commit
  <2> QED BY <2>2, <2>3
<1>2. CASE CommitNewOrder(s)
  BY <1>2 DEF CommitNewOrder
<1>3. CASE Arrive(s) \/ ListStale(s) \/ Die(s)
  BY <1>3 DEF Arrive, CreateOrder, LoadForCancel, LoadForRepay, LoadForFlag, LoadForLevel,
     ReadReceipt, LoadReceipt, LoadForRefund, ListStale, Die
<1>4. CASE Proceed(s) /\ ~ Commit(s) /\ ~ CommitNewOrder(s)
  BY <1>4 DEF Proceed, CheckLine, RefuseLine, TakeLine, CountOrders, InsertOrder, InsertCollides,
     LoadStale, StaleIsClosed, ReadLine, GiveLine, FlushOrder, SweepRaises, FileRefund, SetLevel,
     FileReceipt, LoadForApprove, ResolveReceipt, DeadlockVictim
<1> QED BY <1>1, <1>2, <1>3, <1>4

LEMMA RowStep ==
  ASSUME DeskInv, NEW s \in Sessions, Arrive(s) \/ ListStale(s) \/ Proceed(s) \/ Die(s)
  PROVE  RowInv'
<1>1. CASE UNCHANGED orders
  BY <1>1 DEF DeskInv, RowInv, OrderIds
<1>2. CASE CommitNewOrder(s) /\ orders' = Append(orders, txn[s].want)
  <2>1. txn[s].want \in OrderRow /\ RowOK(txn[s].want)
    BY <1>2 DEF CommitNewOrder, At, DeskInv, SoundInv, Sound, TypeInv, TypeOK, Txn
  <2>2. /\ orders' \in Seq(OrderRow) /\ Len(orders') = Len(orders) + 1
        /\ \A i \in 1..Len(orders) : orders'[i] = orders[i]
        /\ orders'[Len(orders) + 1] = txn[s].want
    BY <1>2, <2>1, TablesTyped, AppendProperties DEF DeskInv
  <2>3. ASSUME NEW i \in DOMAIN orders' PROVE RowOK(orders'[i])
    <3>1. i \in 1..Len(orders) \/ i = Len(orders) + 1
      BY <2>2, TablesTyped DEF DeskInv
    <3>2. CASE i \in 1..Len(orders)
      BY <2>2, <3>2, TablesTyped DEF DeskInv, RowInv
    <3>3. CASE i = Len(orders) + 1
      BY <2>1, <2>2, <3>3
    <3> QED BY <3>1, <3>2, <3>3
  <2> QED BY <2>3 DEF RowInv, OrderIds
<1>3. CASE /\ txn[s].op # "create" /\ txn[s].id \in OrderIds
           /\ orders' = [orders EXCEPT ![txn[s].id] = CommittedOrder(s, orders[txn[s].id])]
  <2> DEFINE j == txn[s].id
             o == CommittedOrder(s, orders[j])
  <2>1. RowOK(o)
    BY <1>3, TablesTyped, MergeIsSafe DEF DeskInv, RowInv
  <2>2. j \in OrderIds /\ orders' = [orders EXCEPT ![j] = o]
    BY <1>3
  <2> HIDE DEF j, o
  <2>3. DOMAIN orders' = OrderIds
    BY <2>2 DEF OrderIds
  <2>4. ASSUME NEW i \in OrderIds PROVE RowOK(orders'[i])
    <3>1. orders'[i] = IF i = j THEN o ELSE orders[i]
      BY <2>2 DEF OrderIds
    <3> QED BY <2>1, <3>1 DEF DeskInv, RowInv
  <2> QED BY <2>3, <2>4 DEF RowInv, OrderIds
<1> QED BY <1>1, <1>2, <1>3, OrdersStep DEF DeskInv

\* A step that neither inserts nor commits an order keeps the references.
LEMMA RefsKept ==
  ASSUME DeskInv, NEW s \in Sessions, ~ Counted(txn'[s]),
         \A u \in Sessions \ {s} : txn'[u] = txn[u],
         DOMAIN orders' = DOMAIN orders, Len(orders') = Len(orders),
         \A i \in OrderIds : orders'[i].ref = orders[i].ref
  PROVE  RefInv'
<1>1. RefsAreDense'
  BY DEF DeskInv, RefInv, RefsAreDense, OrderIds
<1>2. ~ HoldsRef(s)'
  BY DEF HoldsRef, At, Counted
<1>3. ASSUME NEW u \in Sessions \ {s} PROVE HoldsRef(u)' = HoldsRef(u)
  BY DEF HoldsRef, At
<1>4. \A u \in Sessions : Counted(txn[u])' => txn'[u].want.ref \in 1..(Len(orders') + 1)
  BY DEF DeskInv, RefInv
<1>5. \A u \in Sessions : HoldsRef(u)' => txn'[u].want.ref = Len(orders') + 1
  BY <1>2, <1>3 DEF DeskInv, RefInv
<1>6. \A u, t \in Sessions : HoldsRef(u)' /\ HoldsRef(t)' => u = t
  BY <1>2, <1>3 DEF DeskInv, RefInv
<1> QED BY <1>1, <1>4, <1>5, <1>6 DEF RefInv

LEMMA RefStep ==
  ASSUME DeskInv, NEW s \in Sessions, Arrive(s) \/ ListStale(s) \/ Proceed(s) \/ Die(s)
  PROVE  RefInv'
<1>1. /\ CountOrders(s) \/ InsertOrder(s) \/ ~ Counted(txn'[s])
      /\ \A u \in Sessions \ {s} : txn'[u] = txn[u]
  BY ArrivalsSound, StepsSound DEF DeskInv
<1>2. /\ Len(orders) \in Nat /\ OrderIds = 1..Len(orders)
      /\ txn[s] \in Txn
  BY TablesTyped DEF DeskInv, TypeInv, TypeOK
<1>3. ASSUME NEW u \in Sessions \ {s} PROVE HoldsRef(u)' = HoldsRef(u)
  BY <1>1 DEF HoldsRef, At
<1>4. CASE CountOrders(s)
  <2> DEFINE r == [txn[s] EXCEPT !.want.ref = Len(orders) + 1, !.at = "insert"]
  <2>1. Continue(s, r) /\ UNCHANGED orders
    BY <1>4 DEF CountOrders
  <2>2. r.at = "insert" /\ r.want.ref = Len(orders) + 1
    BY <1>2 DEF Txn, OrderRow
  <2> HIDE DEF r
  <2>3. txn'[s] = r
    BY <2>1, Continued DEF DeskInv
  <2>4. ~ HoldsRef(s)'
    BY <2>2, <2>3 DEF HoldsRef, At
  <2>5. RefsAreDense'
    BY <2>1 DEF DeskInv, RefInv, RefsAreDense, OrderIds
  <2>6. \A u \in Sessions : Counted(txn[u])' => txn'[u].want.ref \in 1..(Len(orders') + 1)
    BY <1>1, <1>2, <2>1, <2>2, <2>3 DEF DeskInv, RefInv
  <2>7. \A u \in Sessions : HoldsRef(u)' => txn'[u].want.ref = Len(orders') + 1
    BY <1>1, <1>3, <2>1, <2>4 DEF DeskInv, RefInv
  <2>8. \A u, t \in Sessions : HoldsRef(u)' /\ HoldsRef(t)' => u = t
    BY <1>3, <2>4 DEF DeskInv, RefInv
  <2> QED BY <2>5, <2>6, <2>7, <2>8 DEF RefInv
<1>5. CASE InsertOrder(s)
  <2> DEFINE r == [txn[s] EXCEPT !.at = "commit"]
             k == txn[s].want.ref
  <2>1. Continue(s, r) /\ UNCHANGED orders /\ Counted(txn[s])
        /\ Unique(k) /\ ~ RefTaken(s, k)
    BY <1>5 DEF InsertOrder, At, Counted
  <2>2. r.want = txn[s].want
    BY <1>2 DEF Txn
  <2> HIDE DEF r
  <2>3. txn'[s] = r
    BY <2>1, Continued DEF DeskInv
  <2>4. k = Len(orders) + 1
    <3>1. k \in 1..(Len(orders) + 1)
      BY <2>1 DEF DeskInv, RefInv
    <3>2. k \notin 1..Len(orders)
      BY <1>2, <2>1 DEF Unique, Refs, DeskInv, RefInv, RefsAreDense, OrderIds
    <3> QED BY <1>2, <3>1, <3>2
  <2>5. \A u \in Sessions \ {s} : ~ HoldsRef(u)
    BY <2>1, <2>4 DEF RefTaken, DeskInv, RefInv
  <2>6. RefsAreDense'
    BY <2>1 DEF DeskInv, RefInv, RefsAreDense, OrderIds
  <2>7. \A u \in Sessions : Counted(txn[u])' => txn'[u].want.ref \in 1..(Len(orders') + 1)
    BY <1>1, <1>2, <2>1, <2>2, <2>3, <2>4 DEF DeskInv, RefInv
  <2>8. \A u \in Sessions : HoldsRef(u)' => txn'[u].want.ref = Len(orders') + 1
    BY <1>3, <2>1, <2>2, <2>3, <2>4, <2>5
  <2>9. \A u, t \in Sessions : HoldsRef(u)' /\ HoldsRef(t)' => u = t
    BY <1>3, <2>5
  <2> QED BY <2>6, <2>7, <2>8, <2>9 DEF RefInv
<1>6. CASE CommitNewOrder(s)
  <2>1. Continue(s, Idle) /\ orders' = Append(orders, txn[s].want) /\ HoldsRef(s)
    BY <1>6 DEF CommitNewOrder, HoldsRef
  <2>2. txn[s].want \in OrderRow /\ txn[s].want.ref = Len(orders) + 1
    BY <1>2, <2>1 DEF Txn, DeskInv, RefInv
  <2>3. /\ Len(orders') = Len(orders) + 1
        /\ orders' \in Seq(OrderRow)
        /\ \A i \in 1..Len(orders) : orders'[i] = orders[i]
        /\ orders'[Len(orders) + 1] = txn[s].want
    BY <2>1, <2>2, TablesTyped, AppendProperties DEF DeskInv
  <2>4. txn'[s] = Idle
    BY <2>1, Continued DEF DeskInv
  <2>5. ~ HoldsRef(s)' /\ ~ Counted(txn'[s])
    BY <2>4 DEF HoldsRef, At, Idle, Counted
  <2>6. \A u \in Sessions \ {s} : ~ HoldsRef(u)
    BY <2>1 DEF DeskInv, RefInv
  <2>7. RefsAreDense'
    <3> SUFFICES ASSUME NEW i \in DOMAIN orders' PROVE orders'[i].ref = i
      BY DEF RefsAreDense, OrderIds
    <3>1. i \in 1..Len(orders) \/ i = Len(orders) + 1
      BY <1>2, <2>3
    <3>2. CASE i \in 1..Len(orders)
      BY <1>2, <2>3, <3>2 DEF DeskInv, RefInv, RefsAreDense
    <3>3. CASE i = Len(orders) + 1
      BY <2>2, <2>3, <3>3
    <3> QED BY <3>1, <3>2, <3>3
  <2>8. ASSUME NEW u \in Sessions, Counted(txn[u])' PROVE txn'[u].want.ref \in 1..(Len(orders') + 1)
    <3>1. u # s /\ txn'[u] = txn[u]
      BY <1>1, <2>5, <2>8
    <3>2. txn[u].want.ref \in 1..(Len(orders) + 1)
      BY <2>8, <3>1 DEF DeskInv, RefInv
    <3> QED BY <1>2, <2>3, <3>1, <3>2
  <2>9. \A u \in Sessions : ~ HoldsRef(u)'
    BY <1>3, <2>5, <2>6
  <2> QED BY <2>7, <2>8, <2>9 DEF RefInv
<1>7. CASE ~ CountOrders(s) /\ ~ InsertOrder(s) /\ ~ CommitNewOrder(s)
  <2>1. ~ Counted(txn'[s])
    BY <1>1, <1>7
  <2>2. CASE UNCHANGED orders
    BY <1>1, <2>1, <2>2, RefsKept
  <2>3. CASE /\ txn[s].id \in OrderIds
             /\ orders' = [orders EXCEPT ![txn[s].id] = CommittedOrder(s, orders[txn[s].id])]
    <3> DEFINE j == txn[s].id
               o == CommittedOrder(s, orders[j])
    <3>1. o \in OrderRow /\ o.ref = orders[j].ref
      BY <2>3, TablesTyped, CommittedTyped DEF DeskInv
    <3>2. j \in OrderIds /\ orders' = [orders EXCEPT ![j] = o]
      BY <2>3
    <3> HIDE DEF j, o
    <3>3. DOMAIN orders' = DOMAIN orders /\ Len(orders') = Len(orders)
      BY <1>2, <3>1, <3>2, TablesTyped, ExceptSeq DEF DeskInv
    <3>4. ASSUME NEW i \in OrderIds PROVE orders'[i].ref = orders[i].ref
      BY <3>1, <3>2 DEF OrderIds
    <3> QED BY <1>1, <2>1, <3>3, <3>4, RefsKept
  <2> QED BY <1>7, <2>2, <2>3, OrdersStep DEF DeskInv
<1> QED BY <1>4, <1>5, <1>6, <1>7

LEMMA DeskStep == DeskInv /\ [Next]_vars => DeskInv'
<1> SUFFICES ASSUME DeskInv, [Next]_vars PROVE DeskInv'
  OBVIOUS
<1>1. TypeInv'
  BY TypeStep DEF DeskInv
<1>2. CASE UNCHANGED vars
  BY <1>1, <1>2 DEF vars, DeskInv, RefInv, RowInv, SoundInv, RefsAreDense, HoldsRef, At, OrderIds
<1>3. ASSUME NEW s \in Sessions, Arrive(s) \/ ListStale(s) \/ Proceed(s) \/ Die(s) PROVE DeskInv'
  <2>1. Sound(txn'[s]) /\ \A u \in Sessions \ {s} : txn'[u] = txn[u]
    BY <1>3, ArrivalsSound, StepsSound DEF DeskInv
  <2>2. SoundInv'
    BY <2>1 DEF DeskInv, SoundInv
  <2> QED BY <1>1, <1>3, <2>2, RefStep, RowStep DEF DeskInv
<1> QED BY <1>2, <1>3 DEF Next

LEMMA DeskInit == Init => DeskInv
<1> SUFFICES ASSUME Init PROVE DeskInv
  OBVIOUS
<1>1. TypeInv
  BY TypeInit
<1>2. orders = <<>> /\ txn = [s \in Sessions |-> Idle]
  BY DEF Init
<1>3. \A s \in Sessions : Sound(txn[s]) /\ ~ Counted(txn[s])
  BY <1>2, BegunSound
<1>4. RefInv
  <2>1. RefsAreDense
    BY <1>2 DEF RefsAreDense, OrderIds
  <2>2. \A s \in Sessions : ~ HoldsRef(s)
    BY <1>3 DEF HoldsRef, At, Counted
  <2> QED BY <1>3, <2>1, <2>2 DEF RefInv
<1>5. RowInv
  BY <1>2 DEF RowInv, OrderIds
<1> QED BY <1>1, <1>3, <1>4, <1>5 DEF DeskInv, SoundInv

\* The inductive invariant holds in every reachable state.
THEOREM DeskIsSound == Spec => []DeskInv
<1> QED BY DeskInit, DeskStep, PTL DEF Spec

\* Order references run without gap or repetition, although two requests may
\* count the same number of orders before either inserts (generate_order_ref
\* and the unique constraint on orders).
THEOREM ReferencesAreDense == Spec => []RefsAreDense
<1>1. DeskInv => RefsAreDense
  BY DEF DeskInv, RefInv
<1> QED BY <1>1, DeskIsSound, PTL

\* An open order's status matches its payment method, although a change of
\* method, a cancellation and an approval that overlap are merged by column.
THEOREM StatusMatchesMethod == Spec => []PayMatchesStatus
<1>1. DeskInv => PayMatchesStatus
  BY DEF DeskInv, RowInv, RowOK, PayMatchesStatus
<1> QED BY <1>1, DeskIsSound, PTL
-----------------------------------------------------------------------------
(* Money.  Only an approval means to make an order paid, of the order that   *)
(* its receipt names; a handler that found an order paid, or files a refund  *)
(* for it, is about an order of which a receipt was decided.                 *)

Backed(i) == \E v \in DOMAIN receipts : receipts[v].order = i /\ receipts[v].status # "pending"

Honest(t) ==
  /\ t.op = "create" => t.want.status # "paid"
  /\ t.op # "create" /\ t.row.status # "paid" /\ t.want.status = "paid" =>
       t.op = "approve" /\ t.rid \in DOMAIN receipts /\ receipts[t.rid].order = t.id
  /\ t.id # 0 /\ (t.row.status = "paid" \/ t.at = "refund") => Backed(t.id)

PaidInv == \A i \in OrderIds : orders[i].status = "paid" => Backed(i)
HonestInv == \A s \in Sessions : Honest(txn[s])

MoneyInv == TypeInv /\ PaidInv /\ HonestInv /\ RefundsAreBacked

\* A receipt keeps its order, and stays decided.
ReceiptsGrow ==
  \A v \in DOMAIN receipts :
    /\ v \in DOMAIN receipts' /\ receipts'[v].order = receipts[v].order
    /\ receipts[v].status # "pending" => receipts'[v].status # "pending"

LEMMA ReceiptsOnlyGrow ==
  ASSUME TypeInv, NEW s \in Sessions, Arrive(s) \/ ListStale(s) \/ Proceed(s) \/ Die(s)
  PROVE  ReceiptsGrow
<1>1. CASE Commit(s)
  <2>1. txn[s].rid = 0 \/ txn[s].rid \in DOMAIN receipts
    BY TablesTyped DEF TypeInv, Fits
  <2>2. CASE txn[s].rid = 0
    BY <1>1, <2>2 DEF Commit, CommittedReceipts, ReceiptsGrow
  <2>3. CASE txn[s].rid # 0
    <3> DEFINE st == IF txn[s].op = "approve" THEN "approved" ELSE "resend_requested"
    <3>1. receipts' = [receipts EXCEPT ![txn[s].rid].status = st]
      BY <1>1, <2>3 DEF Commit, CommittedReceipts
    <3>2. st # "pending"
      OBVIOUS
    <3> HIDE DEF st
    <3> QED BY <3>1, <3>2, TablesTyped DEF ReceiptsGrow, ReceiptRow
  <2> QED BY <2>2, <2>3
<1>2. CASE FileReceipt(s)
  <2> DEFINE e == [order |-> txn[s].id, status |-> "pending"]
  <2>1. e \in ReceiptRow
    BY DEF TypeInv, TypeOK, Txn, ReceiptRow
  <2>2. receipts' = Append(receipts, e)
    BY <1>2 DEF FileReceipt
  <2> QED BY <2>1, <2>2, TablesTyped, AppendProperties DEF ReceiptsGrow
<1>3. CASE Arrive(s) \/ ListStale(s) \/ Die(s)
  BY <1>3 DEF Arrive, CreateOrder, LoadForCancel, LoadForRepay, LoadForFlag, LoadForLevel,
     ReadReceipt, LoadReceipt, LoadForRefund, ListStale, Die, ReceiptsGrow
<1>4. CASE Proceed(s) /\ ~ Commit(s) /\ ~ FileReceipt(s)
  BY <1>4 DEF Proceed, CheckLine, RefuseLine, TakeLine, CountOrders, InsertOrder, InsertCollides,
     CommitNewOrder, LoadStale, StaleIsClosed, ReadLine, GiveLine, FlushOrder, SweepRaises,
     FileRefund, SetLevel, LoadForApprove, ResolveReceipt, DeadlockVictim, ReceiptsGrow
<1> QED BY <1>1, <1>2, <1>3, <1>4

\* What was true of receipts stays true.
LEMMA BackedStays ==
  ASSUME ReceiptsGrow
  PROVE  /\ \A i : Backed(i) => Backed(i)'
         /\ \A s \in Sessions : Honest(txn[s]) /\ txn'[s] = txn[s] => Honest(txn[s])'
<1>1. \A i : Backed(i) => Backed(i)'
  BY DEF Backed, ReceiptsGrow
<1> QED BY <1>1 DEF Honest, ReceiptsGrow

\* Handlers that hold no order object, or mean to leave one as w.
LEMMA BegunHonest ==
  /\ Honest(Idle)
  /\ \A op, at, i, v : op # "create" /\ (at = "refund" /\ i # 0 => Backed(i)) => Honest(Begun(op, at, i, v))
<1>1. Idle.op = "none" /\ Idle.row.status = "draft" /\ Idle.want.status = "draft" /\ Idle.id = 0
  BY DEF Idle, Blank
<1>2. Honest(Idle)
  BY <1>1 DEF Honest
<1>3. ASSUME NEW op, NEW at, NEW i, NEW v, op # "create", at = "refund" /\ i # 0 => Backed(i)
      PROVE  Honest(Begun(op, at, i, v))
  <2> DEFINE r == Begun(op, at, i, v)
  <2>1. r.op = op /\ r.at = at /\ r.id = i /\ r.row = Idle.row /\ r.want = Idle.want
    BY IdleIsTxn DEF Begun, Txn
  <2> HIDE DEF r
  <2>2. Honest(r)
    BY <1>1, <1>3, <2>1 DEF Honest
  <2> QED BY <2>2 DEF r
<1> QED BY <1>2, <1>3

LEMMA ChangingHonest ==
  ASSUME PaidInv, NEW op, op # "create", NEW at, at # "refund", NEW n, NEW i \in OrderIds, NEW w,
         w.status = "paid" => orders[i].status = "paid"
  PROVE  Honest(Changing(op, at, n, i, w))
<1> DEFINE r == Changing(op, at, n, i, w)
           o == orders[i]
<1>1. (o.status = "paid" => Backed(i)) /\ (w.status = "paid" => o.status = "paid")
  BY DEF PaidInv
<1>2. r = [Idle EXCEPT !.op = op, !.at = at, !.n = n, !.id = i, !.row = o, !.want = w]
  BY DEF Changing
<1> HIDE DEF r, o
<1>3. r.op = op /\ r.at = at /\ r.id = i /\ r.row = o /\ r.want = w
  BY <1>2, IdleIsTxn DEF Txn
<1>4. Honest(r)
  BY <1>1, <1>3 DEF Honest
<1> QED BY <1>4 DEF r
LEMMA ArrivalsHonest ==
  ASSUME TypeInv, PaidInv, NEW s \in Sessions, Arrive(s) \/ ListStale(s)
  PROVE  Honest(txn'[s])
<1>0. \A i \in OrderIds : orders[i] \in OrderRow
  BY TablesTyped
<1>1. CASE CreateOrder(s)
  <2>1. PICK cart \in Carts, pay \in PayMethods, c \in Customers :
          Continue(s, [Idle EXCEPT !.op = "create", !.at = "check", !.n = 1,
                         !.want = [Blank EXCEPT !.cust = c, !.lines = cart, !.pay = pay,
                                                !.status = StatusFor(pay)]])
    BY <1>1 DEF CreateOrder
  <2> DEFINE o == [Blank EXCEPT !.cust = c, !.lines = cart, !.pay = pay, !.status = StatusFor(pay)]
             r == [Idle EXCEPT !.op = "create", !.at = "check", !.n = 1, !.want = o]
  <2>2. o.status # "paid"
    BY IdleIsTxn DEF OrderRow, StatusFor
  <2>3. Continue(s, r)
    BY <2>1
  <2> HIDE DEF o
  <2>4. r.op = "create" /\ r.id = 0 /\ r.want = o
    BY IdleIsTxn DEF Txn, Idle
  <2> HIDE DEF r
  <2>5. Honest(r)
    BY <2>2, <2>4 DEF Honest
  <2> QED BY <2>3, <2>5, Continued
<1>2. CASE LoadForCancel(s)
  <2>1. PICK i \in OrderIds, op \in {"cancel", "admincancel"} :
          Continue(s, Changing(op, "restore", 1, i, [orders[i] EXCEPT !.status = "cancelled"]))
    BY <1>2 DEF LoadForCancel, Restoring
  <2>2. [orders[i] EXCEPT !.status = "cancelled"].status # "paid"
    BY <1>0 DEF OrderRow
  <2> DEFINE w == [orders[i] EXCEPT !.status = "cancelled"]
  <2>3. w.status = "paid" => orders[i].status = "paid"
    BY <2>2
  <2> HIDE DEF w
  <2>4. Honest(Changing(op, "restore", 1, i, w))
    BY <2>3, ChangingHonest
  <2> QED BY <2>1, <2>4, Continued DEF w
<1>3. CASE LoadForRepay(s)
  <2>1. PICK i \in OrderIds, pay \in PayMethods :
          Continue(s, Changing("repay", "status", 0, i, Repaid(orders[i], pay)))
    BY <1>3 DEF LoadForRepay
  <2>2. Repaid(orders[i], pay).status # "paid"
    BY <1>0 DEF OrderRow, Repaid, StatusFor
  <2> QED BY <2>1, <2>2, ChangingHonest, Continued
<1>4. CASE LoadForFlag(s)
  <2>1. PICK i \in OrderIds :
          Continue(s, Changing("flag", "status", 0, i, [orders[i] EXCEPT !.flagged = TRUE]))
    BY <1>4 DEF LoadForFlag
  <2>2. [orders[i] EXCEPT !.flagged = TRUE].status = orders[i].status
    BY <1>0 DEF OrderRow
  <2> DEFINE w == [orders[i] EXCEPT !.flagged = TRUE]
  <2>3. w.status = "paid" => orders[i].status = "paid"
    BY <2>2
  <2> HIDE DEF w
  <2>4. Honest(Changing("flag", "status", 0, i, w))
    BY <2>3, ChangingHonest
  <2> QED BY <2>1, <2>4, Continued DEF w
<1>5. CASE LoadForLevel(s)
  <2>1. PICK p \in Scope[s], level \in 0..MaxLevel :
          Continue(s, Holding([Idle EXCEPT !.op = "level", !.at = "level", !.n = level], p, products[p]))
    BY <1>5 DEF LoadForLevel
  <2> DEFINE t == [Idle EXCEPT !.op = "level", !.at = "level", !.n = level]
             r == Holding(t, p, products[p])
  <2>2. p \in Products /\ products[p] \in ProductRow /\ level \in Nat /\ "level" \in OpNames
    BY SessionsAreScoped, BoundsAreNaturals DEF TypeInv, TypeOK, OpNames
  <2>3. t \in Txn /\ t.op = "level" /\ t.row = Idle.row /\ t.want = Idle.want /\ t.id = Idle.id
    BY <2>2, IdleIsTxn DEF Txn
  <2>4. Continue(s, r)
    BY <2>1
  <2> HIDE DEF t
  <2>5. r.op = "level" /\ r.row = Idle.row /\ r.want = Idle.want /\ r.id = Idle.id
    BY <2>2, <2>3, HoldingIsTxn
  <2>6. Idle.id = 0 /\ Idle.want.status = "draft"
    BY DEF Idle, Blank
  <2> HIDE DEF r
  <2>7. Honest(r)
    BY <2>5, <2>6 DEF Honest
  <2> QED BY <2>4, <2>7, Continued
<1>6. CASE ListStale(s) \/ ReadReceipt(s) \/ LoadReceipt(s)
  <2>1. PICK op \in {"autocancel", "receipt", "approve", "resend"}, at \in {"load", "file", "resolve"} :
          \E i, v : Continue(s, Begun(op, at, i, v))
    BY <1>6 DEF ListStale, ReadReceipt, LoadReceipt
  <2> QED BY <2>1, BegunHonest, Continued
<1>7. CASE LoadForRefund(s)
  <2>1. PICK i \in OrderIds \cup {0} : /\ i # 0 => orders[i].status = "paid"
                                       /\ Continue(s, Begun("refund", "refund", i, 0))
    BY <1>7 DEF LoadForRefund
  <2>2. i # 0 => Backed(i)
    BY <2>1 DEF PaidInv
  <2> QED BY <2>1, <2>2, BegunHonest, Continued
<1> QED BY <1>1, <1>2, <1>3, <1>4, <1>5, <1>6, <1>7 DEF Arrive

\* A step that keeps what the session is about.
Keeps(t, r) ==
  /\ r.op = t.op /\ r.id = t.id /\ r.rid = t.rid /\ r.row = t.row
  /\ r.want.status = t.want.status /\ r.at # "refund"

LEMMA StepsKeep ==
  ASSUME TypeInv, NEW s \in Sessions,
         \/ CheckLine(s) \/ ReadLine(s) \/ TakeLine(s) \/ GiveLine(s) \/ SetLevel(s)
         \/ CountOrders(s) \/ InsertOrder(s) \/ FlushOrder(s) \/ ResolveReceipt(s)
  PROVE  Keeps(txn[s], txn'[s])
<1>0. txn[s] \in Txn
  BY DEF TypeInv, TypeOK
<1>1. CASE CheckLine(s)
  <2> DEFINE p == CurrentLine(s).sku
             n == IF LastLine(s) THEN 1 ELSE txn[s].n + 1
             at == IF LastLine(s) THEN "take" ELSE "check"
             t == [txn[s] EXCEPT !.n = n, !.at = at]
             r == Holding(t, p, Seen(s, p))
  <2>1. txn[s].at = "check"
    BY <1>1 DEF CheckLine, At
  <2>2. p \in Products /\ Seen(s, p) \in ProductRow /\ n \in Nat /\ at \in {"take", "check"}
    BY <1>0, <2>1, LineTyped DEF Txn
  <2>3. Continue(s, r)
    BY <1>1 DEF CheckLine
  <2> HIDE DEF n, at
  <2>4. t \in Txn /\ Keeps(txn[s], t)
    BY <1>0, <2>2 DEF Txn, Keeps
  <2> HIDE DEF t
  <2>5. Keeps(txn[s], r)
    BY <2>2, <2>4, HoldingIsTxn DEF Keeps
  <2> HIDE DEF r
  <2> QED BY <2>3, <2>5, Continued
<1>2. CASE ReadLine(s)
  <2> DEFINE p == CurrentLine(s).sku
             t == [txn[s] EXCEPT !.at = "give"]
             r == Holding(t, p, Seen(s, p))
  <2>1. p \in Products /\ Seen(s, p) \in ProductRow
    BY <1>2, LineTyped DEF ReadLine
  <2>2. Continue(s, r)
    BY <1>2 DEF ReadLine
  <2>3. t \in Txn /\ Keeps(txn[s], t)
    BY <1>0 DEF Txn, Keeps
  <2> HIDE DEF t
  <2>4. Keeps(txn[s], r)
    BY <2>1, <2>3, HoldingIsTxn DEF Keeps
  <2> HIDE DEF r
  <2> QED BY <2>2, <2>4, Continued
<1>3. CASE TakeLine(s) \/ GiveLine(s) \/ SetLevel(s)
  <2>1. txn[s].at \in {"take", "give", "level"}
    BY <1>3 DEF TakeLine, GiveLine, SetLevel, At
  <2>2. PICK next \in Txn : FlushProduct(s, next) /\ Keeps(txn[s], next)
    <3>1. ASSUME NEW n \in Nat, NEW at \in {"count", "take", "status", "restore"}
          PROVE  LET t == [txn[s] EXCEPT !.n = n, !.at = at] IN t \in Txn /\ Keeps(txn[s], t)
      BY <1>0 DEF Txn, Keeps
    <3> DEFINE n == IF LastLine(s) THEN txn[s].n ELSE txn[s].n + 1
    <3>2. n \in Nat
      BY <1>0 DEF Txn
    <3>3. CASE TakeLine(s)
      <4> DEFINE at == IF LastLine(s) THEN "count" ELSE "take"
      <4>1. FlushProduct(s, [txn[s] EXCEPT !.n = n, !.at = at]) /\ at \in {"count", "take"}
        BY <3>3 DEF TakeLine
      <4> HIDE DEF n, at
      <4> QED BY <3>1, <3>2, <4>1
    <3>4. CASE GiveLine(s)
      <4> DEFINE at == IF LastLine(s) THEN "status" ELSE "restore"
      <4>1. FlushProduct(s, [txn[s] EXCEPT !.n = n, !.at = at]) /\ at \in {"status", "restore"}
        BY <3>4 DEF GiveLine
      <4> HIDE DEF n, at
      <4> QED BY <3>1, <3>2, <4>1
    <3>5. CASE SetLevel(s)
      <4> DEFINE t == [txn[s] EXCEPT !.at = "commit"]
      <4>1. FlushProduct(s, t)
        BY <3>5 DEF SetLevel
      <4>2. t \in Txn /\ Keeps(txn[s], t)
        BY <1>0 DEF Txn, Keeps
      <4> QED BY <4>1, <4>2
    <3> QED BY <1>3, <3>3, <3>4, <3>5
  <2> QED BY <2>1, <2>2, Flushed DEF Keeps
<1>4. CASE CountOrders(s)
  <2> DEFINE r == [txn[s] EXCEPT !.want.ref = Len(orders) + 1, !.at = "insert"]
  <2>1. Continue(s, r)
    BY <1>4 DEF CountOrders
  <2>2. Keeps(txn[s], r)
    BY <1>0 DEF Txn, OrderRow, Keeps
  <2> HIDE DEF r
  <2> QED BY <2>1, <2>2, Continued
<1>5. CASE InsertOrder(s) \/ FlushOrder(s) \/ ResolveReceipt(s)
  <2>1. PICK at \in {"commit", "lookup", "resolve"} : Continue(s, [txn[s] EXCEPT !.at = at])
    BY <1>5 DEF InsertOrder, FlushOrder, ResolveReceipt
  <2> DEFINE r == [txn[s] EXCEPT !.at = at]
  <2>2. Keeps(txn[s], r)
    BY <1>0, <2>1 DEF Txn, Keeps
  <2> HIDE DEF r
  <2> QED BY <2>1, <2>2, Continued DEF r
<1> QED BY <1>1, <1>2, <1>3, <1>4, <1>5

LEMMA StepsHonest ==
  ASSUME TypeInv, PaidInv, HonestInv, NEW s \in Sessions, Proceed(s) \/ Die(s)
  PROVE  Honest(txn'[s])
<1>0. txn[s] \in Txn /\ Fits(txn[s]) /\ Honest(txn[s])
  BY DEF TypeInv, TypeOK, HonestInv
<1>1. ASSUME Keeps(txn[s], txn'[s]) PROVE Honest(txn'[s])
  BY <1>0, <1>1 DEF Keeps, Honest
<1>2. CASE LoadForApprove(s)
  <2> DEFINE i == receipts[txn[s].rid].order
             w == [orders[i] EXCEPT !.status = "paid"]
             r == [txn[s] EXCEPT !.at = "status", !.id = i, !.row = orders[i], !.want = w]
             q == [txn[s] EXCEPT !.at = "resolve"]
  <2>1. txn[s].op = "approve" /\ txn[s].rid \in DOMAIN receipts
    BY <1>0, <1>2, TablesTyped DEF LoadForApprove, At, Fits
  <2>2. CASE i # 0 /\ MayApprove(orders[i].status)
    <3>1. Continue(s, r)
      BY <1>2, <2>2 DEF LoadForApprove
    <3> DEFINE o == orders[i]
    <3>2. o.status # "paid" /\ r = [txn[s] EXCEPT !.at = "status", !.id = i, !.row = o, !.want = w]
      BY <2>2 DEF MayApprove
    <3> HIDE DEF i, o, w, r
    <3>3. r.op = "approve" /\ r.row = o /\ r.want = w /\ r.id = i /\ r.rid = txn[s].rid /\ r.at = "status"
      BY <1>0, <2>1, <3>2 DEF Txn
    <3>4. Honest(r)
      BY <2>1, <3>2, <3>3 DEF Honest, i
    <3> QED BY <3>1, <3>4, Continued
  <2>3. CASE ~ (i # 0 /\ MayApprove(orders[i].status))
    <3>1. Continue(s, q)
      BY <1>2, <2>3 DEF LoadForApprove
    <3>2. Keeps(txn[s], q)
      BY <1>0 DEF Txn, Keeps
    <3> HIDE DEF q
    <3> QED BY <1>1, <3>1, <3>2, Continued
  <2> QED BY <2>2, <2>3
<1>3. CASE LoadStale(s)
  <2> DEFINE i == txn[s].id
  <2>1. i \in OrderIds /\ Continue(s, Restoring("autocancel", i))
    BY <1>0, <1>3, TablesTyped DEF LoadStale, At, Fits
  <2>2. [orders[i] EXCEPT !.status = "cancelled"].status # "paid"
    BY <2>1, TablesTyped DEF OrderRow
  <2> HIDE DEF i
  <2>3. Honest(Restoring("autocancel", i))
    BY <2>1, <2>2, ChangingHonest DEF Restoring
  <2> QED BY <2>1, <2>3, Continued
<1>4. CASE Commit(s)
  <2>1. CASE FilesRefund(s)
    <3>1. txn[s].id # 0 => Backed(txn[s].id)
      BY <1>0, <2>1 DEF FilesRefund, Honest
    <3> QED BY <1>4, <2>1, <3>1, BegunHonest, Continued DEF Commit
  <2>2. CASE ~ FilesRefund(s)
    BY <1>4, <2>2, BegunHonest, Continued DEF Commit
  <2> QED BY <2>1, <2>2
<1>5. CASE \/ RefuseLine(s) \/ InsertCollides(s) \/ StaleIsClosed(s) \/ SweepRaises(s)
           \/ DeadlockVictim(s) \/ Die(s) \/ CommitNewOrder(s) \/ FileRefund(s) \/ FileReceipt(s)
  <2>1. Continue(s, Idle)
    BY <1>5 DEF RefuseLine, InsertCollides, StaleIsClosed, SweepRaises, DeadlockVictim, Die,
       CommitNewOrder, FileRefund, FileReceipt
  <2> QED BY <2>1, BegunHonest, Continued
<1> QED BY <1>1, <1>2, <1>3, <1>4, <1>5, StepsKeep DEF Proceed

\* Whatever order is paid after a step was paid before it, or is paid by the
\* commit of an approval.
LEMMA Pays ==
  ASSUME TypeInv, HonestInv, NEW s \in Sessions, Arrive(s) \/ ListStale(s) \/ Proceed(s) \/ Die(s),
         NEW i \in OrderIds, orders'[i].status = "paid", orders[i].status # "paid"
  PROVE  \E v \in DOMAIN receipts : receipts[v].order = i /\ receipts'[v].status = "approved"
<1>0. txn[s] \in Txn /\ Honest(txn[s])
  BY DEF TypeInv, TypeOK, HonestInv
<1>1. ~ UNCHANGED orders
  OBVIOUS
<1>2. ~ (CommitNewOrder(s) /\ orders' = Append(orders, txn[s].want))
  <2> SUFFICES ASSUME CommitNewOrder(s), orders' = Append(orders, txn[s].want) PROVE FALSE
    OBVIOUS
  <2>1. txn[s].want \in OrderRow
    BY <1>0 DEF Txn
  <2> QED BY <2>1, TablesTyped, AppendProperties
<1>3. /\ Commit(s) /\ txn[s].op # "create" /\ txn[s].id \in OrderIds
      /\ orders' = [orders EXCEPT ![txn[s].id] = CommittedOrder(s, orders[txn[s].id])]
  BY <1>1, <1>2, OrdersStep
<1>4. i = txn[s].id /\ CommittedOrder(s, orders[i]).status = "paid"
  <2> DEFINE j == txn[s].id
             o == CommittedOrder(s, orders[j])
  <2>1. j \in OrderIds /\ orders' = [orders EXCEPT ![j] = o]
    BY <1>3
  <2> HIDE DEF j, o
  <2>2. i = j /\ o.status = "paid"
    BY <2>1 DEF OrderIds
  <2> QED BY <2>2 DEF j, o
<1>5. txn[s].row.status # "paid" /\ txn[s].want.status = "paid"
  BY <1>4, TablesTyped DEF CommittedOrder, OrderRow
<1>6. txn[s].op = "approve" /\ txn[s].rid \in DOMAIN receipts /\ receipts[txn[s].rid].order = i
  BY <1>0, <1>3, <1>4, <1>5 DEF Honest
<1>7. receipts' = [receipts EXCEPT ![txn[s].rid].status = "approved"]
  BY <1>3, <1>6, TablesTyped DEF Commit, CommittedReceipts
<1>8. receipts'[txn[s].rid].status = "approved"
  BY <1>6, <1>7, TablesTyped DEF ReceiptRow
<1> QED BY <1>6, <1>8

LEMMA MoneyStep == MoneyInv /\ [Next]_vars => MoneyInv'
<1> SUFFICES ASSUME MoneyInv, [Next]_vars PROVE MoneyInv'
  OBVIOUS
<1>0. TypeInv'
  BY TypeStep DEF MoneyInv
<1>1. CASE UNCHANGED vars
  BY <1>0, <1>1 DEF vars, MoneyInv, PaidInv, HonestInv, Honest, RefundsAreBacked, Backed, OrderIds
<1>2. ASSUME NEW s \in Sessions, Arrive(s) \/ ListStale(s) \/ Proceed(s) \/ Die(s) PROVE MoneyInv'
  <2>0. TypeInv /\ PaidInv /\ HonestInv
    BY DEF MoneyInv
  <2>1. ReceiptsGrow
    BY <1>2, <2>0, ReceiptsOnlyGrow
  <2>2. Honest(txn'[s]) /\ \A u \in Sessions \ {s} : txn'[u] = txn[u]
    <3>1. Honest(txn'[s])
      BY <1>2, <2>0, ArrivalsHonest, StepsHonest
    <3>2. \E r : Continue(s, r)
      BY <1>2 DEF Arrive, CreateOrder, LoadForCancel, LoadForRepay, LoadForFlag, LoadForLevel,
         ReadReceipt, LoadReceipt, LoadForRefund, ListStale, Die, Proceed, CheckLine, RefuseLine,
         TakeLine, CountOrders, InsertOrder, InsertCollides, CommitNewOrder, LoadStale,
         StaleIsClosed, ReadLine, GiveLine, FlushOrder, SweepRaises, Commit, FileRefund, SetLevel,
         FileReceipt, LoadForApprove, ResolveReceipt, DeadlockVictim, FlushProduct
    <3> QED BY <2>0, <3>1, <3>2, Continued
  <2>3. HonestInv'
    <3>1. ASSUME NEW u \in Sessions PROVE Honest(txn[u])'
      <4>1. Honest(txn'[u])
        BY <2>0, <2>2 DEF HonestInv
      <4> QED BY <2>1, <4>1, BackedStays DEF Honest, ReceiptsGrow
    <3> QED BY <3>1 DEF HonestInv
  <2>4. PaidInv'
    <3> SUFFICES ASSUME NEW i \in DOMAIN orders', orders'[i].status = "paid" PROVE Backed(i)'
      BY DEF PaidInv, OrderIds
    <3>1. CASE i \in OrderIds /\ orders[i].status = "paid"
      BY <2>0, <2>1, <3>1, BackedStays DEF PaidInv
    <3>2. CASE i \in OrderIds /\ orders[i].status # "paid"
      <4>1. PICK v \in DOMAIN receipts : receipts[v].order = i /\ receipts'[v].status = "approved"
        BY <1>2, <2>0, <3>2, Pays
      <4> QED BY <2>1, <4>1 DEF Backed, ReceiptsGrow
    <3>3. CASE i \notin OrderIds
      <4>1. CommitNewOrder(s) /\ orders' = Append(orders, txn[s].want)
        <5>1. CASE UNCHANGED orders
          BY <3>3, <5>1 DEF OrderIds
        <5>2. CASE \E o : orders' = [orders EXCEPT ![txn[s].id] = o]
          BY <3>3, <5>2 DEF OrderIds
        <5> QED BY <1>2, <2>0, <5>1, <5>2, OrdersStep
      <4>2. txn[s].want \in OrderRow /\ txn[s].want.status # "paid"
        BY <2>0, <4>1 DEF CommitNewOrder, At, HonestInv, Honest, TypeInv, TypeOK, Txn
      <4>3. orders'[Len(orders) + 1] = txn[s].want /\ i = Len(orders) + 1
        BY <2>0, <3>3, <4>1, <4>2, TablesTyped, AppendProperties, LenProperties
      <4> QED BY <4>2, <4>3
    <3> QED BY <3>1, <3>2, <3>3
  <2>5. RefundsAreBacked'
    <3> DEFINE Stands(i) == \E v \in DOMAIN receipts' : receipts'[v].order = i /\ receipts'[v].status # "pending"
    <3>0. \A i : Backed(i) => Stands(i)
      BY <2>1 DEF Backed, ReceiptsGrow
    <3>1. \A k \in DOMAIN refunds : refunds[k] # 0 => Stands(refunds[k])
      BY <3>0 DEF MoneyInv, RefundsAreBacked, Backed
    <3>2. CASE FileRefund(s)
      <4>1. refunds' = Append(refunds, txn[s].id) /\ (txn[s].id # 0 => Stands(txn[s].id))
        BY <2>0, <3>0, <3>2 DEF FileRefund, HonestInv, Honest
      <4>2. refunds \in Seq(Nat) /\ txn[s].id \in Nat
        BY <2>0 DEF TypeInv, TypeOK, Txn
      <4> HIDE DEF Stands
      <4>3. \A k \in DOMAIN refunds' : k \notin DOMAIN refunds => refunds'[k] = txn[s].id
        BY <4>1, <4>2, AppendProperties, LenProperties
      <4>4. \A k \in DOMAIN refunds : refunds'[k] = refunds[k]
        BY <4>1, <4>2, AppendProperties, LenProperties
      <4>5. \A k \in DOMAIN refunds' : refunds'[k] # 0 => Stands(refunds'[k])
        BY <3>1, <4>1, <4>3, <4>4
      <4> QED BY <4>5 DEF RefundsAreBacked, Stands
    <3>3. CASE UNCHANGED refunds
      BY <3>1, <3>3 DEF RefundsAreBacked
    <3>4. FileRefund(s) \/ UNCHANGED refunds
      BY <1>2 DEF Arrive, CreateOrder, LoadForCancel, LoadForRepay, LoadForFlag, LoadForLevel,
         ReadReceipt, LoadReceipt, LoadForRefund, ListStale, Die, Proceed, CheckLine, RefuseLine,
         TakeLine, CountOrders, InsertOrder, InsertCollides, CommitNewOrder, LoadStale,
         StaleIsClosed, ReadLine, GiveLine, FlushOrder, SweepRaises, Commit, SetLevel,
         FileReceipt, LoadForApprove, ResolveReceipt, DeadlockVictim, vars
    <3> QED BY <3>2, <3>3, <3>4
  <2> QED BY <1>0, <2>3, <2>4, <2>5 DEF MoneyInv
<1> QED BY <1>1, <1>2 DEF Next

LEMMA MoneyInit == Init => MoneyInv
<1> SUFFICES ASSUME Init PROVE MoneyInv
  OBVIOUS
<1>1. \A s \in Sessions : Honest(txn[s])
  BY BegunHonest DEF Init
<1> QED BY <1>1, TypeInit DEF Init, MoneyInv, PaidInv, HonestInv, RefundsAreBacked, OrderIds

\* A refund that names an order names one of which a receipt was decided, although
\* the refund is filed in another session than the one that found the order paid.
THEOREM RefundsNameBackedOrders == Spec => []RefundsAreBacked
<1>1. MoneyInv => RefundsAreBacked
  BY DEF MoneyInv
<1> QED BY <1>1, MoneyInit, MoneyStep, PTL DEF Spec

\* An order becomes paid only in the commit that approves a receipt for it, however
\* handlers that read it earlier write it later.
THEOREM ApprovalsPay == Spec => PaidOnlyByApproval
<1>1. MoneyInv /\ [Next]_vars =>
        [\A i \in OrderIds :
           orders'[i].status = "paid" /\ orders[i].status # "paid" =>
             \E v \in DOMAIN receipts :
               receipts[v].order = i /\ receipts'[v].status = "approved"]_vars
  <2> SUFFICES ASSUME MoneyInv, Next,
                      NEW i \in OrderIds, orders'[i].status = "paid", orders[i].status # "paid"
               PROVE  \E v \in DOMAIN receipts :
                        receipts[v].order = i /\ receipts'[v].status = "approved"
    OBVIOUS
  <2> QED BY Pays DEF Next, MoneyInv
<1> QED BY <1>1, MoneyInit, MoneyStep, PTL DEF Spec, PaidOnlyByApproval
=============================================================================

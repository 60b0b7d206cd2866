---------------------------- MODULE CrmDesk_proofs ----------------------------
(***************************************************************************)
(* Proofs about one customer's record, for every set of sessions and       *)
(* operations, and every bound.                                            *)
(***************************************************************************)
EXTENDS CrmDesk, SequenceTheorems, TLAPS

-----------------------------------------------------------------------------
(* Types.  TypeOK is not inductive by itself: what a commit writes has the   *)
(* type of the table's column only because each operation keeps to its own   *)
(* control points and to the rows it was asked about.                        *)

Movers == {"crm", "book", "approve", "cancel"}

\* The operations that come to a control point.
Places(op, at) ==
  /\ op # "order"
  /\ at \in {"count", "insert", "name"} => op = "book"
  /\ at = "customer" => op \in {"book", "approve", "cancel"}
  /\ at = "judge" => op = "cancel"
  /\ at = "record" => op \in Movers
  /\ at = "flush" => op \in {"approve", "cancel", "unbook", "bookstatus", "decide"}
  /\ at = "commit" => op # "refund"
  /\ at = "file" => op \in {"cancel", "refund"}
  /\ at = "tell" => op = "decide"

\* What a session's operation says of the rest of its transaction.
Fits(t) ==
  /\ t.at = "idle" => t.op = "crm" /\ ~ t.moved /\ ~ t.wrote
  /\ t.at # "idle" =>
       /\ Places(t.op, t.at)
       /\ t.op \in Movers => t.to \in Stages
       /\ t.op \in {"approve", "cancel"} => t.id \in DOMAIN orders
       /\ t.op = "refund" => t.id \in DOMAIN orders \cup {0}
       /\ t.op \in {"unbook", "bookstatus"} => t.id \in DOMAIN bookings
       /\ t.op = "decide" => t.id \in DOMAIN refunds /\ t.to \in Decisions
       /\ t.op \notin Movers => ~ t.moved
       /\ t.op \in {"crm", "refund"} => ~ t.wrote

TypeInv == TypeOK /\ \A s \in Sessions : Fits(txn[s])

LEMMA IdleFits == Idle \in Txn /\ Fits(Idle)
  BY DEF Idle, Txn, Fits, Stages, Tools

\* A session goes on, or ends, and the tables only grow.
LEMMA Proceeding ==
  ASSUME TypeInv, NEW s \in Sessions, NEW t \in Txn, Fits(t), Become(s, t),
         stage' \in Stages, history' \in Seq(Move),
         orders' \in Seq(OrderStatuses), DOMAIN orders \subseteq DOMAIN orders',
         bookings' \in Seq(Booking), DOMAIN bookings \subseteq DOMAIN bookings',
         refunds' \in Seq(Decisions \cup {"pending"}), DOMAIN refunds \subseteq DOMAIN refunds',
         announced' \subseteq Nat \X Decisions, decided' \subseteq Nat \X Decisions,
         served' \in Nat, faults' \in Nat
  PROVE  TypeInv'
<1>1. txn' = [txn EXCEPT ![s] = t] /\ txn \in [Sessions -> Txn]
  BY DEF Become, TypeInv, TypeOK
<1>2. TypeOK'
  BY <1>1 DEF TypeOK
<1>3. ASSUME NEW q \in Sessions PROVE Fits(txn[q])'
  <2>1. Fits(txn'[q])
    BY <1>1 DEF TypeInv
  <2> QED BY <2>1 DEF Fits
<1> QED BY <1>2, <1>3 DEF TypeInv

\* A step that writes no table.
LEMMA Working ==
  ASSUME TypeInv, NEW s \in Sessions, NEW t \in Txn, Fits(t), Become(s, t),
         UNCHANGED <<tables, decisions>>, served' \in Nat, faults' \in Nat
  PROVE  TypeInv'
  BY Proceeding DEF tables, decisions, TypeInv, TypeOK

\* A new request has its type.
LEMMA RequestFits ==
  ASSUME TypeInv, NEW op \in Ops \ {"order"}, NEW id \in Rows(op), NEW to \in Writes(op), NEW t,
         t = [Idle EXCEPT !.op = op, !.at = IF op = "book" THEN "count" ELSE "read",
                          !.id = id, !.to = to]
  PROVE  t \in Txn /\ Fits(t)
<1>1. op \in (Tools \cup Desk) \ {"order"}
  BY OpsAreOperations
<1>2. /\ op \in {"approve", "cancel"} => id \in DOMAIN orders
      /\ op = "refund" => id \in DOMAIN orders \cup {0}
      /\ op \in {"unbook", "bookstatus"} => id \in DOMAIN bookings
      /\ op = "decide" => id \in DOMAIN refunds
      /\ op \in {"crm", "book"} => id = 0
  BY DEF Rows, About
<1>3. id \in Nat
  BY <1>1, <1>2 DEF TypeInv, TypeOK, Tools, Desk
<1>4. /\ op \in Movers => to \in Stages
      /\ op = "decide" => to \in Decisions
      /\ to \in Stages \cup BookingStatuses \cup Decisions \cup {"none"}
  BY DEF Writes, Movers, Stages, BookingStatuses
<1>5. t \in Txn
  BY <1>1, <1>3, <1>4 DEF Idle, Txn, Stages
<1>6. t.op = op /\ t.id = id /\ t.to = to /\ ~ t.moved /\ ~ t.wrote
      /\ t.at = IF op = "book" THEN "count" ELSE "read"
  BY DEF Idle
<1>7. Places(op, t.at)
  BY <1>6 DEF Places
<1> QED BY <1>2, <1>4, <1>5, <1>6, <1>7 DEF Fits

\* What a commit writes has the type of the tables.
LEMMA CommitTyped ==
  ASSUME TypeInv, NEW s \in Sessions, Commit(s)
  PROVE  TypeInv'
<1>1. /\ txn[s] \in Txn /\ Fits(txn[s])
      /\ txn[s].at = "commit" /\ txn[s].op \in Movers \cup {"unbook", "decide"}
  BY DEF Commit, TypeInv, TypeOK, Txn, Fits, Places, Movers, Tools, Desk
<1>2. stage' \in Stages /\ history' \in Seq(Move)
  <2>1. txn[s].moved => txn[s].to \in Stages /\ [from |-> txn[s].saw, to |-> txn[s].to] \in Move
    BY <1>1 DEF Fits, Txn, Move
  <2> QED BY <2>1 DEF Commit, StageAfter, TypeInv, TypeOK
<1>3. orders' \in Seq(OrderStatuses) /\ DOMAIN orders' = DOMAIN orders
  <2>1. CASE About(txn[s].op) # "order"
    BY <2>1 DEF Commit, TypeInv, TypeOK
  <2>2. CASE About(txn[s].op) = "order"
    <3>1. txn[s].op \in {"approve", "cancel"}
      BY <1>1, <2>2 DEF About, Movers
    <3>2. \/ orders' = orders
          \/ orders' = [orders EXCEPT ![txn[s].id] = "paid"]
          \/ orders' = [orders EXCEPT ![txn[s].id] = "cancelled"]
      BY <2>2, <3>1 DEF Commit, RowAfter
    <3>3. orders \in Seq(OrderStatuses) /\ txn[s].id \in 1..Len(orders)
      BY <1>1, <3>1 DEF Fits, TypeInv, TypeOK
    <3>4. "paid" \in OrderStatuses /\ "cancelled" \in OrderStatuses
      BY DEF OrderStatuses
    <3> QED BY <3>2, <3>3, <3>4, ExceptSeq
  <2> QED BY <2>1, <2>2
<1>4. refunds' \in Seq(Decisions \cup {"pending"}) /\ DOMAIN refunds' = DOMAIN refunds
  <2>1. CASE About(txn[s].op) # "refund"
    BY <2>1 DEF Commit, TypeInv, TypeOK
  <2>2. CASE About(txn[s].op) = "refund"
    <3>1. txn[s].op = "decide" /\ txn[s].to \in Decisions
      BY <1>1, <2>2 DEF About, Movers, Fits
    <3>2. refunds' = refunds \/ refunds' = [refunds EXCEPT ![txn[s].id] = txn[s].to]
      BY <2>2, <3>1 DEF Commit, RowAfter
    <3>3. refunds \in Seq(Decisions \cup {"pending"}) /\ txn[s].id \in 1..Len(refunds)
      BY <1>1, <3>1 DEF Fits, TypeInv, TypeOK
    <3> QED BY <3>1, <3>2, <3>3, ExceptSeq
  <2> QED BY <2>1, <2>2
<1>5. bookings' \in Seq(Booking) /\ DOMAIN bookings \subseteq DOMAIN bookings'
  <2>1. CASE txn[s].op = "book"
    <3>1. [ref |-> txn[s].ref, status |-> "confirmed"] \in Booking
      BY <1>1 DEF Txn, Booking, BookingStatuses
    <3>2. bookings' = Append(bookings, [ref |-> txn[s].ref, status |-> "confirmed"])
      BY <2>1 DEF Commit, BookingsAfter
    <3> QED BY <3>1, <3>2 DEF TypeInv, TypeOK
  <2>2. CASE txn[s].op = "unbook"
    <3>1. bookings' = [bookings EXCEPT ![txn[s].id].status = "cancelled"] /\ txn[s].id \in DOMAIN bookings
      BY <1>1, <2>2 DEF Commit, BookingsAfter, Fits
    <3>2. bookings[txn[s].id] \in Booking
      BY <3>1 DEF TypeInv, TypeOK
    <3> QED BY <3>1, <3>2 DEF TypeInv, TypeOK, Booking, BookingStatuses
  <2>3. CASE txn[s].op \notin {"book", "unbook"}
    BY <2>3 DEF Commit, BookingsAfter, TypeInv, TypeOK
  <2> QED BY <2>1, <2>2, <2>3
<1>6. decided' \subseteq Nat \X Decisions
  BY <1>1 DEF Commit, TypeInv, TypeOK, Txn, Fits
<1>7. PICK t \in Txn : Become(s, t) /\ Fits(t)
  <2> DEFINE t == [txn[s] EXCEPT !.at = AfterCommit(s), !.moved = FALSE, !.wrote = FALSE]
  <2>1. CASE AfterCommit(s) = "idle"
    BY <2>1, IdleFits DEF Commit
  <2>2. CASE AfterCommit(s) # "idle"
    <3>1. \/ txn[s].op = "cancel" /\ AfterCommit(s) = "file"
          \/ txn[s].op = "decide" /\ AfterCommit(s) = "tell"
      BY <2>2 DEF AfterCommit
    <3>2. t \in Txn /\ Fits(t)
      BY <1>1, <3>1 DEF Txn, Fits, Places, Movers
    <3> QED BY <2>2, <3>2 DEF Commit
  <2> QED BY <2>1, <2>2
<1> QED
  BY <1>2, <1>3, <1>4, <1>5, <1>6, <1>7, Proceeding DEF Commit, counts, TypeInv, TypeOK

\* Each step keeps the types.
LEMMA TypesStep == TypeInv /\ [Next]_vars => TypeInv'
<1> SUFFICES ASSUME TypeInv, [Next]_vars PROVE TypeInv'
  OBVIOUS
<1>T. /\ stage \in Stages /\ history \in Seq(Move)
      /\ orders \in Seq(OrderStatuses) /\ bookings \in Seq(Booking)
      /\ refunds \in Seq(Decisions \cup {"pending"})
      /\ announced \subseteq Nat \X Decisions /\ decided \subseteq Nat \X Decisions
      /\ served \in Nat /\ faults \in Nat /\ txn \in [Sessions -> Txn]
      /\ \A s \in Sessions : txn[s] \in Txn /\ Fits(txn[s])
  BY DEF TypeInv, TypeOK
<1>1. CASE UNCHANGED vars
  BY <1>1 DEF vars, TypeInv, TypeOK, Fits
<1>2. CASE PlaceOrder
  <2>1. orders' \in Seq(OrderStatuses) /\ DOMAIN orders \subseteq DOMAIN orders'
    BY <1>2, <1>T DEF PlaceOrder, OrderStatuses
  <2> QED BY <1>2, <1>T, <2>1 DEF PlaceOrder, decisions, counts, TypeInv, TypeOK, Fits
<1>3. ASSUME NEW s \in Sessions, Arrive(s) PROVE TypeInv'
  <2>1. PICK op \in Ops \ {"order"} : \E id \in Rows(op), to \in Writes(op) :
          Become(s, [Idle EXCEPT !.op = op, !.at = IF op = "book" THEN "count" ELSE "read",
                                 !.id = id, !.to = to])
    BY <1>3 DEF Arrive
  <2>2. PICK id \in Rows(op), to \in Writes(op) :
          Become(s, [Idle EXCEPT !.op = op, !.at = IF op = "book" THEN "count" ELSE "read",
                                 !.id = id, !.to = to])
    BY <2>1
  <2> DEFINE t == [Idle EXCEPT !.op = op, !.at = IF op = "book" THEN "count" ELSE "read",
                               !.id = id, !.to = to]
  <2>3. t \in Txn /\ Fits(t)
    BY RequestFits
  <2> QED BY <1>3, <1>T, <2>2, <2>3, Working DEF Arrive
<1>4. ASSUME NEW s \in Sessions, Die(s) PROVE TypeInv'
  BY <1>4, <1>T, IdleFits, Working DEF Die, End, counts
<1>5. ASSUME NEW s \in Sessions, ReadForMove(s) PROVE TypeInv'
  <2>0. txn[s] \in Txn /\ Fits(txn[s]) /\ stage \in Stages
        /\ txn[s].op = "crm" /\ txn[s].at = "read"
    BY <1>5, <1>T DEF ReadForMove, At
  <2> DEFINE t == [txn[s] EXCEPT !.saw = stage, !.at = "record"]
  <2>1. t \in Txn /\ Fits(t)
    BY <2>0 DEF Txn, Fits, Places, Movers
  <2> QED BY <1>5, <1>T, <2>1, IdleFits, Working DEF ReadForMove, End, counts
<1>6. ASSUME NEW s \in Sessions, Record(s) PROVE TypeInv'
  <2>0. txn[s] \in Txn /\ Fits(txn[s]) /\ stage \in Stages
        /\ txn[s].at = "record"
    BY <1>6, <1>T DEF Record
  <2> DEFINE t == [txn[s] EXCEPT !.moved = TRUE, !.at = "commit"]
  <2>1. t \in Txn /\ Fits(t)
    BY <2>0 DEF Txn, Fits, Places, Movers, Tools, Desk
  <2> QED BY <1>6, <1>T, <2>1, Working DEF Record, counts
<1>7. ASSUME NEW s \in Sessions, Count(s) PROVE TypeInv'
  <2>0. txn[s] \in Txn /\ Fits(txn[s]) /\ stage \in Stages
        /\ txn[s].op = "book" /\ txn[s].at = "count"
    BY <1>7, <1>T DEF Count, At
  <2> DEFINE t == [txn[s] EXCEPT !.ref = Len(bookings) + 1, !.at = "insert"]
  <2>1. Len(bookings) + 1 \in Nat
    BY <1>T
  <2>2. t \in Txn /\ Fits(t)
    BY <2>0, <2>1 DEF Txn, Fits, Places, Movers
  <2> QED BY <1>7, <1>T, <2>2, Working DEF Count, counts
<1>8. ASSUME NEW s \in Sessions, Insert(s) PROVE TypeInv'
  <2>0. txn[s] \in Txn /\ Fits(txn[s]) /\ stage \in Stages
        /\ txn[s].op = "book" /\ txn[s].at = "insert"
    BY <1>8, <1>T DEF Insert, At
  <2>1. PICK at \in {"name", "customer"} : Become(s, [txn[s] EXCEPT !.wrote = TRUE, !.at = at])
    BY <1>8 DEF Insert
  <2> DEFINE t == [txn[s] EXCEPT !.wrote = TRUE, !.at = at]
  <2>2. t \in Txn /\ Fits(t)
    BY <2>0 DEF Txn, Fits, Places, Movers
  <2> QED BY <1>8, <1>T, <2>1, <2>2, Working DEF Insert, counts
<1>9. ASSUME NEW s \in Sessions, InsertCollides(s) PROVE TypeInv'
  BY <1>9, <1>T, IdleFits, Working DEF InsertCollides, End, counts
<1>10. ASSUME NEW s \in Sessions, Name(s) PROVE TypeInv'
  <2>0. txn[s] \in Txn /\ Fits(txn[s]) /\ stage \in Stages
        /\ txn[s].at = "name"
    BY <1>10, <1>T DEF Name
  <2> DEFINE t == [txn[s] EXCEPT !.named = TRUE, !.saw = stage, !.at = "customer"]
  <2>1. t \in Txn /\ Fits(t)
    BY <2>0 DEF Txn, Fits, Places, Movers, Tools, Desk
  <2> QED BY <1>10, <1>T, <2>1, Working DEF Name, counts
<1>11. ASSUME NEW s \in Sessions, ReadForBooking(s) PROVE TypeInv'
  <2>0. txn[s] \in Txn /\ Fits(txn[s]) /\ stage \in Stages
        /\ txn[s].op = "book" /\ txn[s].at = "customer"
    BY <1>11, <1>T DEF ReadForBooking, At
  <2> DEFINE saw == IF txn[s].named THEN txn[s].saw ELSE stage
             t == [txn[s] EXCEPT !.saw = saw, !.at = IF saw = "closed_won" THEN "commit" ELSE "record"]
  <2>1. saw \in Stages
    BY <1>T DEF Txn
  <2>2. t \in Txn /\ Fits(t)
    BY <2>0, <2>1 DEF Txn, Fits, Places, Movers
  <2> QED BY <1>11, <1>T, <2>2, Working DEF ReadForBooking, counts
<1>12. ASSUME NEW s \in Sessions, ReadOrder(s) PROVE TypeInv'
  <2>0. txn[s] \in Txn /\ Fits(txn[s]) /\ stage \in Stages
        /\ txn[s].op \in {"approve", "cancel", "refund"} /\ txn[s].at = "read"
    BY <1>12, <1>T DEF ReadOrder, At
  <2> DEFINE was == Found(s)
             next == CASE txn[s].op = "approve" -> IF was = "awaiting" THEN "flush" ELSE "idle"
                       [] txn[s].op = "cancel"  -> IF was = "cancelled" THEN "customer" ELSE "flush"
                       [] OTHER                 -> IF was \in {"none", "paid"} THEN "file" ELSE "idle"
             t == [txn[s] EXCEPT !.was = was, !.at = next]
  <2>1. was \in OrderStatuses \cup {"none"}
    <3>1. orders \in Seq(OrderStatuses) /\ txn[s].id \in DOMAIN orders \cup {0}
      BY <2>0, <1>T DEF Fits
    <3> QED BY <3>1 DEF Found
  <2>2. next # "idle" => t \in Txn /\ Fits(t)
    BY <2>0, <2>1 DEF Txn, Fits, Places, Movers
  <2> HIDE DEF next
  <2> QED BY <1>12, <1>T, <2>2, IdleFits, Working DEF ReadOrder, End, counts, next
<1>13. ASSUME NEW s \in Sessions, Flush(s) PROVE TypeInv'
  <2>0. txn[s] \in Txn /\ Fits(txn[s]) /\ stage \in Stages
        /\ txn[s].at = "flush"
    BY <1>13, <1>T DEF Flush
  <2> DEFINE at == IF About(txn[s].op) = "order" THEN "customer" ELSE "commit"
             t == [txn[s] EXCEPT !.wrote = TRUE, !.at = at]
  <2>2. at = IF txn[s].op \in {"approve", "cancel"} THEN "customer" ELSE "commit"
    BY <2>0 DEF Fits, Places, About
  <2>3. at \in {"customer", "commit"}
    BY <2>2
  <2> HIDE DEF at
  <2>4. t \in Txn
    BY <2>0, <2>3 DEF Txn
  <2>5. t.at = at /\ t.op = txn[s].op /\ t.to = txn[s].to /\ t.id = txn[s].id /\ t.moved = txn[s].moved
    BY <2>0 DEF Txn
  <2>1. t \in Txn /\ Fits(t)
    BY <2>0, <2>2, <2>4, <2>5 DEF Fits, Places, Movers
  <2> QED BY <1>13, <1>T, <2>1, Working DEF Flush, counts, at
<1>14. ASSUME NEW s \in Sessions, ReadCustomer(s) PROVE TypeInv'
  <2>0. txn[s] \in Txn /\ Fits(txn[s]) /\ stage \in Stages
        /\ txn[s].op \in {"approve", "cancel"} /\ txn[s].at = "customer"
    BY <1>14, <1>T DEF ReadCustomer, At
  <2> DEFINE t == [txn[s] EXCEPT !.saw = stage,
                                 !.at = IF txn[s].op = "approve" THEN "record" ELSE "judge"]
  <2>1. t \in Txn /\ Fits(t)
    BY <2>0 DEF Txn, Fits, Places, Movers
  <2> QED BY <1>14, <1>T, <2>1, Working DEF ReadCustomer, counts
<1>15. ASSUME NEW s \in Sessions, Judge(s) PROVE TypeInv'
  <2>0. txn[s] \in Txn /\ Fits(txn[s]) /\ stage \in Stages
        /\ txn[s].at = "judge"
    BY <1>15, <1>T DEF Judge
  <2>1. PICK at \in {"record", "commit"} : Become(s, [txn[s] EXCEPT !.at = at])
    BY <1>15 DEF Judge, Goes
  <2>2. [txn[s] EXCEPT !.at = at] \in Txn /\ Fits([txn[s] EXCEPT !.at = at])
    BY <2>0 DEF Txn, Fits, Places, Movers, Tools, Desk
  <2> QED BY <1>15, <1>T, <2>1, <2>2, Working DEF Judge, counts
<1>16. ASSUME NEW s \in Sessions, ReadBooking(s) PROVE TypeInv'
  <2>0. txn[s] \in Txn /\ Fits(txn[s]) /\ stage \in Stages
        /\ txn[s].op \in {"unbook", "bookstatus"} /\ txn[s].at = "read"
    BY <1>16, <1>T DEF ReadBooking, At
  <2>1. [txn[s] EXCEPT !.at = "flush"] \in Txn /\ Fits([txn[s] EXCEPT !.at = "flush"])
    BY <2>0 DEF Txn, Fits, Places, Movers
  <2> QED BY <1>16, <1>T, <2>1, IdleFits, Working DEF ReadBooking, End, Goes, counts
<1>17. ASSUME NEW s \in Sessions, AnswerStatus(s) PROVE TypeInv'
  BY <1>17, <1>T, IdleFits, Working DEF AnswerStatus, End, counts
<1>18. ASSUME NEW s \in Sessions, ReadRefund(s) PROVE TypeInv'
  <2>0. txn[s] \in Txn /\ Fits(txn[s]) /\ stage \in Stages
        /\ txn[s].op = "decide" /\ txn[s].at = "read"
    BY <1>18, <1>T DEF ReadRefund, At
  <2> DEFINE t == [txn[s] EXCEPT !.was = refunds[txn[s].id], !.at = "flush"]
  <2>1. refunds[txn[s].id] \in Decisions \cup {"pending"}
    BY <1>T, <2>0 DEF Fits
  <2>2. t \in Txn /\ Fits(t)
    BY <2>0, <2>1 DEF Txn, Fits, Places, Movers
  <2> QED BY <1>18, <1>T, <2>2, IdleFits, Working DEF ReadRefund, End, counts
<1>19. ASSUME NEW s \in Sessions, Tell(s) PROVE TypeInv'
  <2>1. <<txn[s].id, txn[s].to>> \in Nat \X Decisions
    BY <1>19, <1>T DEF Tell, Txn, Fits, Places, Tools, Desk
  <2>2. announced' \subseteq Nat \X Decisions /\ faults' \in Nat
    BY <1>19, <1>T, <2>1 DEF Tell
  <2> QED BY <1>19, <1>T, <2>2, IdleFits, Proceeding DEF Tell, End, tables
<1>20. ASSUME NEW s \in Sessions, File(s) PROVE TypeInv'
  <2>1. refunds' \in Seq(Decisions \cup {"pending"}) /\ DOMAIN refunds \subseteq DOMAIN refunds'
    BY <1>20, <1>T DEF File
  <2> QED BY <1>20, <1>T, <2>1, IdleFits, Proceeding DEF File, End, decisions, counts
<1>21. ASSUME NEW s \in Sessions, Commit(s) PROVE TypeInv'
  BY <1>21, <1>T, CommitTyped
<1> QED
  BY <1>1, <1>2, <1>3, <1>4, <1>5, <1>6, <1>7, <1>8, <1>9, <1>10, <1>11, <1>12, <1>13, <1>14,
     <1>15, <1>16, <1>17, <1>18, <1>19, <1>20, <1>21 DEF Next, Proceed

LEMMA TypesInit == Init => TypeInv
<1>1. Idle \in Txn /\ Fits(Idle)
  BY IdleFits
<1> QED BY <1>1 DEF Init, TypeInv, TypeOK, Stages

\* The tables and the sessions keep their types, whatever arrives.
THEOREM TypesHold == Spec => []TypeOK
<1>1. TypeInv => TypeOK
  BY DEF TypeInv
<1> QED BY <1>1, TypesInit, TypesStep, PTL DEF Spec

\* A session goes on at another control point, or ends; one that books keeps its
\* reference number and its insert.
Onward(s, t) ==
  /\ Become(s, t) /\ t.at # "tell"
  /\ t.op = "book" => /\ txn[s].op = "book" /\ t.ref = txn[s].ref /\ t.wrote = txn[s].wrote
                      /\ {t.at, txn[s].at} \cap {"count", "insert"} = {}

LEMMA GoesOn ==
  ASSUME TypeInv, NEW s \in Sessions, Proceed(s),
         ~ Count(s), ~ Insert(s), ~ Tell(s), ~ Commit(s)
  PROVE  \E t : Onward(s, t)
<1>T. txn[s] \in Txn /\ Fits(txn[s]) /\ Idle.at = "idle" /\ Idle.op = "crm"
  BY DEF TypeInv, TypeOK, Idle
<1>0. ASSUME End(s) PROVE \E t : Onward(s, t)
  BY <1>0, <1>T DEF End, Onward
<1>1. CASE ReadForMove(s)
  <2> DEFINE t == [txn[s] EXCEPT !.saw = stage, !.at = "record"]
  <2>1. t.at # "tell" /\ t.op = txn[s].op /\ t.ref = txn[s].ref /\ t.at \notin {"count", "insert"}
    BY <1>T DEF Txn
  <2>2. Become(s, t) => Onward(s, t)
    BY <1>T, <1>1, <2>1 DEF Onward, Txn, Fits, Places, ReadForMove, At
  <2> QED BY <1>0, <1>1, <2>2 DEF ReadForMove
<1>2. CASE Record(s)
  <2> DEFINE t == [txn[s] EXCEPT !.moved = TRUE, !.at = "commit"]
  <2>1. t.at # "tell" /\ t.op = txn[s].op /\ t.ref = txn[s].ref /\ t.at \notin {"count", "insert"}
    BY <1>T DEF Txn
  <2>2. Become(s, t) => Onward(s, t)
    BY <1>T, <1>2, <2>1 DEF Onward, Txn, Fits, Places, Record
  <2> QED BY <1>0, <1>2, <2>2 DEF Record
<1>3. CASE InsertCollides(s)
  BY <1>0, <1>3 DEF InsertCollides
<1>4. CASE Name(s)
  <2> DEFINE t == [txn[s] EXCEPT !.named = TRUE, !.saw = stage, !.at = "customer"]
  <2>1. t.at # "tell" /\ t.op = txn[s].op /\ t.ref = txn[s].ref /\ t.at \notin {"count", "insert"}
    BY <1>T DEF Txn
  <2>2. Become(s, t) => Onward(s, t)
    BY <1>T, <1>4, <2>1 DEF Onward, Txn, Fits, Places, Name
  <2> QED BY <1>0, <1>4, <2>2 DEF Name
<1>5. CASE ReadForBooking(s)
  <2> DEFINE t == [txn[s] EXCEPT !.saw = IF txn[s].named THEN txn[s].saw ELSE stage, !.at = IF (IF txn[s].named THEN txn[s].saw ELSE stage) = "closed_won" THEN "commit" ELSE "record"]
  <2>1. t.at # "tell" /\ t.op = txn[s].op /\ t.ref = txn[s].ref /\ t.at \notin {"count", "insert"}
    BY <1>T DEF Txn
  <2>2. Become(s, t) => Onward(s, t)
    BY <1>T, <1>5, <2>1 DEF Onward, Txn, Fits, Places, ReadForBooking, At
  <2> QED BY <1>0, <1>5, <2>2 DEF ReadForBooking
<1>6. CASE ReadOrder(s)
  <2>1. End(s) \/ \E at : at \in {"flush", "customer", "file"}
                        /\ Become(s, [txn[s] EXCEPT !.was = Found(s), !.at = at])
    BY <1>6 DEF ReadOrder, At
  <2>2. txn[s].op # "book"
    BY <1>6 DEF ReadOrder, At
  <2>3. ASSUME NEW at \in {"flush", "customer", "file"},
               Become(s, [txn[s] EXCEPT !.was = Found(s), !.at = at])
        PROVE  \E t : Onward(s, t)
    <3> DEFINE t == [txn[s] EXCEPT !.was = Found(s), !.at = at]
    <3>1. t.at # "tell" /\ t.op # "book"
      BY <1>T, <2>2 DEF Txn
    <3>2. Onward(s, t)
      BY <2>3, <3>1 DEF Onward
    <3> QED BY <3>2
  <2> QED BY <1>0, <2>1, <2>3
<1>7. CASE Flush(s)
  <2> DEFINE t == [txn[s] EXCEPT !.wrote = TRUE, !.at = IF About(txn[s].op) = "order" THEN "customer" ELSE "commit"]
  <2>1. t.at # "tell" /\ t.op = txn[s].op /\ t.ref = txn[s].ref /\ t.at \notin {"count", "insert"}
    BY <1>T DEF Txn
  <2>2. Become(s, t) => Onward(s, t)
    BY <1>T, <1>7, <2>1 DEF Onward, Txn, Fits, Places, Flush
  <2> QED BY <1>0, <1>7, <2>2 DEF Flush
<1>8. CASE ReadCustomer(s)
  <2> DEFINE t == [txn[s] EXCEPT !.saw = stage, !.at = IF txn[s].op = "approve" THEN "record" ELSE "judge"]
  <2>1. t.at # "tell" /\ t.op = txn[s].op /\ t.ref = txn[s].ref /\ t.at \notin {"count", "insert"}
    BY <1>T DEF Txn
  <2>2. Become(s, t) => Onward(s, t)
    BY <1>T, <1>8, <2>1 DEF Onward, Txn, Fits, Places, ReadCustomer, At
  <2> QED BY <1>0, <1>8, <2>2 DEF ReadCustomer
<1>9. CASE Judge(s)
  <2>1. PICK at \in {"record", "commit"} : Become(s, [txn[s] EXCEPT !.at = at])
    BY <1>9 DEF Judge, Goes
  <2>2. txn[s].op # "book"
    BY <1>9, <1>T DEF Judge, Fits, Places
  <2> DEFINE t == [txn[s] EXCEPT !.at = at]
  <2>3. t.at # "tell" /\ t.op # "book"
    BY <1>T, <2>2 DEF Txn
  <2>4. Onward(s, t)
    BY <2>1, <2>3 DEF Onward
  <2> QED BY <2>4
<1>10. CASE ReadBooking(s)
  <2> DEFINE t == [txn[s] EXCEPT !.at = "flush"]
  <2>1. t.at # "tell" /\ t.op = txn[s].op /\ t.ref = txn[s].ref /\ t.at \notin {"count", "insert"}
    BY <1>T DEF Txn
  <2>2. Become(s, t) => Onward(s, t)
    BY <1>T, <1>10, <2>1 DEF Onward, Txn, Fits, Places, ReadBooking, Goes, At
  <2> QED BY <1>0, <1>10, <2>2 DEF ReadBooking, Goes
<1>11. CASE AnswerStatus(s)
  BY <1>0, <1>11 DEF AnswerStatus
<1>12. CASE ReadRefund(s)
  <2> DEFINE t == [txn[s] EXCEPT !.was = refunds[txn[s].id], !.at = "flush"]
  <2>1. t.at # "tell" /\ t.op = txn[s].op /\ t.ref = txn[s].ref /\ t.at \notin {"count", "insert"}
    BY <1>T DEF Txn
  <2>2. Become(s, t) => Onward(s, t)
    BY <1>T, <1>12, <2>1 DEF Onward, Txn, Fits, Places, ReadRefund, At
  <2> QED BY <1>0, <1>12, <2>2 DEF ReadRefund
<1>13. CASE File(s)
  BY <1>0, <1>13 DEF File
<1> QED
  BY <1>1, <1>2, <1>3, <1>4, <1>5, <1>6, <1>7, <1>8, <1>9, <1>10, <1>11, <1>12, <1>13 DEF Proceed

-----------------------------------------------------------------------------
(* The stage.  Every commit that writes it inserts the history row with it.  *)

LEMMA StageStep == TypeInv /\ StageIsLastMove /\ [Next]_vars => StageIsLastMove'
<1> SUFFICES ASSUME TypeInv, StageIsLastMove, [Next]_vars PROVE StageIsLastMove'
  OBVIOUS
<1>1. CASE UNCHANGED <<stage, history>>
  BY <1>1 DEF StageIsLastMove
<1>2. ASSUME NEW s \in Sessions, Commit(s) PROVE StageIsLastMove'
  <2>1. CASE ~ txn[s].moved
    BY <1>2, <2>1 DEF Commit, StageAfter, StageIsLastMove
  <2>2. CASE txn[s].moved
    <3> DEFINE m == [from |-> txn[s].saw, to |-> txn[s].to]
    <3>1. stage' = txn[s].to /\ history' = Append(history, m)
      BY <1>2, <2>2 DEF Commit, StageAfter
    <3>2. history \in Seq(Move)
      BY DEF TypeInv, TypeOK
    <3>3. history' # <<>> /\ Last(history') = m
      BY <3>1, <3>2 DEF Last
    <3> QED BY <3>1, <3>3 DEF StageIsLastMove
  <2> QED BY <2>1, <2>2
<1>3. ASSUME NEW s \in Sessions, Proceed(s), ~ Commit(s) PROVE UNCHANGED <<stage, history>>
  BY <1>3 DEF Proceed, ReadForMove, Record, Count, Insert, InsertCollides, Name, ReadForBooking,
     ReadOrder, Flush, ReadCustomer, Judge, ReadBooking, AnswerStatus, ReadRefund, Tell, File, tables
<1> QED BY <1>1, <1>2, <1>3 DEF Next, PlaceOrder, Arrive, Die, tables, vars

\* The customer's stage is the one the newest history row moved to, however many
\* sessions judge their moves on a stage that has changed since.
THEOREM StageFollowsHistory == Spec => []StageIsLastMove
<1>1. Init => StageIsLastMove
  BY DEF Init, StageIsLastMove
<1> QED BY <1>1, TypesInit, TypesStep, StageStep, PTL DEF Spec

-----------------------------------------------------------------------------
(* Decisions on refunds.  What is about to be told is committed already.     *)

ToldInv ==
  /\ AnnouncedIsDecided
  /\ \A s \in Sessions : txn[s].at = "tell" => <<txn[s].id, txn[s].to>> \in decided

LEMMA ToldStep == TypeInv /\ ToldInv /\ [Next]_vars => ToldInv'
<1> SUFFICES ASSUME TypeInv, ToldInv, [Next]_vars PROVE ToldInv'
  OBVIOUS
<1>T. txn \in [Sessions -> Txn] /\ Idle.at = "idle"
  BY DEF TypeInv, TypeOK, Idle
<1>1. CASE UNCHANGED vars
  BY <1>1 DEF ToldInv, AnnouncedIsDecided, vars
<1>2. CASE PlaceOrder
  BY <1>2 DEF ToldInv, AnnouncedIsDecided, PlaceOrder, decisions
\* A session that goes on, but not to tell the customer.
<1>3. ASSUME NEW s \in Sessions, NEW t, Become(s, t), t.at # "tell", announced' = announced, decided \subseteq decided'
      PROVE  ToldInv'
  BY <1>3, <1>T DEF ToldInv, AnnouncedIsDecided, Become
<1>4. ASSUME NEW s \in Sessions, Arrive(s) PROVE ToldInv'
  <2>1. PICK op, id, to :
          Become(s, [Idle EXCEPT !.op = op, !.at = IF op = "book" THEN "count" ELSE "read",
                                 !.id = id, !.to = to])
    BY <1>4 DEF Arrive
  <2> DEFINE t == [Idle EXCEPT !.op = op, !.at = IF op = "book" THEN "count" ELSE "read",
                               !.id = id, !.to = to]
  <2>2. t.at # "tell"
    BY DEF Idle
  <2> QED BY <1>3, <1>4, <2>1, <2>2 DEF Arrive, decisions
<1>5. ASSUME NEW s \in Sessions, Die(s) PROVE ToldInv'
  BY <1>3, <1>5, <1>T DEF Die, End, decisions
<1>6. ASSUME NEW s \in Sessions, Commit(s) PROVE ToldInv'
  <2>1. decided \subseteq decided' /\ announced' = announced
    BY <1>6 DEF Commit
  <2>2. CASE AfterCommit(s) # "tell"
    <3> DEFINE t == [txn[s] EXCEPT !.at = AfterCommit(s), !.moved = FALSE, !.wrote = FALSE]
    <3>1. t.at = AfterCommit(s)
      BY <1>T DEF Txn
    <3> QED BY <1>3, <1>6, <1>T, <2>1, <2>2, <3>1 DEF Commit
  <2>3. CASE AfterCommit(s) = "tell"
    <3>1. <<txn[s].id, txn[s].to>> \in decided'
      BY <1>6, <2>3 DEF Commit, AfterCommit
    <3>2. txn' = [txn EXCEPT ![s] = [txn[s] EXCEPT !.at = "tell", !.moved = FALSE, !.wrote = FALSE]]
      BY <1>6, <2>3 DEF Commit, Become
    <3> QED BY <1>T, <2>1, <3>1, <3>2 DEF ToldInv, AnnouncedIsDecided, Txn
  <2> QED BY <2>2, <2>3
<1>7. ASSUME NEW s \in Sessions, Tell(s) PROVE ToldInv'
  <2>1. announced' \subseteq decided' /\ decided' = decided
    BY <1>7 DEF Tell, ToldInv, AnnouncedIsDecided
  <2>2. txn' = [txn EXCEPT ![s] = Idle]
    BY <1>7 DEF Tell, End, Become
  <2> QED BY <1>T, <2>1, <2>2 DEF ToldInv, AnnouncedIsDecided
<1>8. ASSUME NEW s \in Sessions, Proceed(s), ~ Commit(s), ~ Tell(s) PROVE ToldInv'
  <2>1. announced' = announced /\ decided' = decided
    BY <1>8 DEF Proceed, ReadForMove, Record, Count, Insert, InsertCollides, Name, ReadForBooking,
       ReadOrder, Flush, ReadCustomer, Judge, ReadBooking, AnswerStatus, ReadRefund, File, decisions
  <2>2. CASE Count(s) \/ Insert(s)
    BY <1>T, <2>1, <2>2 DEF Count, Insert, Become, Txn, ToldInv, AnnouncedIsDecided
  <2>3. CASE ~ Count(s) /\ ~ Insert(s)
    BY <1>3, <1>8, <2>1, <2>3, GoesOn DEF Onward
  <2> QED BY <2>2, <2>3
<1> QED BY <1>1, <1>2, <1>4, <1>5, <1>6, <1>7, <1>8 DEF Next

\* A customer is told only of a decision that was stored before.
THEOREM ToldIsStored == Spec => []AnnouncedIsDecided
<1>1. Init => ToldInv
  BY DEF Init, ToldInv, AnnouncedIsDecided, Idle
<1>2. ToldInv => AnnouncedIsDecided
  BY DEF ToldInv
<1> QED BY <1>1, <1>2, TypesInit, TypesStep, ToldStep, PTL DEF Spec

-----------------------------------------------------------------------------
(* Booking references.  An insert has the number after the last booking, and *)
(* only one session holds it: another insert of it waits, and then fails.    *)

Books(s) == txn[s].op = "book"

BookInv ==
  /\ \A s \in Sessions : Books(s) =>
       /\ txn[s].at # "count" => txn[s].ref \in 1..(Len(bookings) + 1)
       /\ txn[s].at \notin {"count", "insert"} => txn[s].wrote
       /\ txn[s].wrote => txn[s].ref = Len(bookings) + 1 /\ txn[s].at \notin {"count", "insert"}
  /\ \A s, q \in Sessions :
       Books(s) /\ txn[s].wrote /\ Books(q) /\ txn[q].wrote => s = q

RefInv == BookingRefsAreDense /\ BookInv

\* A session that does not book leaves the references alone, ...
LEMMA NotBooking ==
  ASSUME TypeInv, RefInv, NEW s \in Sessions, NEW t, Become(s, t),
         t.op # "book", bookings' = bookings
  PROVE  RefInv'
<1>1. ASSUME NEW q \in Sessions, Books(q)' PROVE q # s /\ txn'[q] = txn[q] /\ Books(q)
  BY <1>1 DEF Become, Books, TypeInv, TypeOK
<1>2. BookInv'
  BY <1>1 DEF RefInv, BookInv
<1> QED BY <1>2 DEF RefInv, BookingRefsAreDense

\* ... and so does one that goes on with its booking.
LEMMA StillBooking ==
  ASSUME TypeInv, RefInv, NEW s \in Sessions, NEW t, Onward(s, t), bookings' = bookings
  PROVE  RefInv'
<1>1. CASE t.op # "book"
  BY <1>1, NotBooking DEF Onward
<1>2. CASE t.op = "book"
  <2>0. txn' = [txn EXCEPT ![s] = t] /\ txn \in [Sessions -> Txn]
    BY DEF Onward, Become, TypeInv, TypeOK
  <2>1. Books(s) /\ txn[s].wrote /\ t.wrote /\ t.ref = txn[s].ref /\ t.at \notin {"count", "insert"}
    BY <1>2, <2>0 DEF Onward, Books, RefInv, BookInv, TypeInv, Fits
  <2>2. ASSUME NEW q \in Sessions, Books(q)'
        PROVE  /\ Books(q) /\ txn'[q].ref = txn[q].ref /\ txn'[q].wrote = txn[q].wrote
               /\ txn'[q].at \in {"count", "insert"} => txn'[q].at = txn[q].at
               /\ txn[q].at \in {"count", "insert"} => txn'[q].at = txn[q].at
    <3>1. CASE q = s
      <4>1. txn'[q] = t /\ txn[s].at \notin {"count", "insert"}
        BY <1>2, <2>0, <3>1 DEF Onward
      <4> QED BY <2>1, <3>1, <4>1
    <3>2. CASE q # s
      BY <2>0, <2>2, <3>2 DEF Books
    <3> QED BY <3>1, <3>2
  <2>3. BookInv'
    BY <2>2 DEF RefInv, BookInv
  <2> QED BY <2>3 DEF RefInv, BookingRefsAreDense
<1> QED BY <1>1, <1>2

LEMMA RefStep == TypeInv /\ RefInv /\ [Next]_vars => RefInv'
<1> SUFFICES ASSUME TypeInv, RefInv, [Next]_vars PROVE RefInv'
  OBVIOUS
<1>T. /\ txn \in [Sessions -> Txn] /\ Idle.op = "crm" /\ bookings \in Seq(Booking)
      /\ \A s \in Sessions : Fits(txn[s])
  BY DEF TypeInv, TypeOK, Idle
<1>1. CASE UNCHANGED vars
  BY <1>1 DEF RefInv, BookInv, BookingRefsAreDense, Books, vars
<1>2. CASE PlaceOrder
  BY <1>2 DEF RefInv, BookInv, BookingRefsAreDense, Books, PlaceOrder
<1>3. ASSUME NEW s \in Sessions, End(s), bookings' = bookings PROVE RefInv'
  BY <1>3, <1>T, NotBooking DEF End
<1>4. ASSUME NEW s \in Sessions, Arrive(s) PROVE RefInv'
  <2>1. PICK op, id, to :
          Become(s, [Idle EXCEPT !.op = op, !.at = IF op = "book" THEN "count" ELSE "read",
                                 !.id = id, !.to = to])
    BY <1>4 DEF Arrive
  <2> DEFINE t == [Idle EXCEPT !.op = op, !.at = IF op = "book" THEN "count" ELSE "read",
                               !.id = id, !.to = to]
  <2>2. t.op = op /\ ~ t.wrote /\ (op = "book" => t.at = "count")
    BY DEF Idle
  <2>3. bookings' = bookings /\ txn' = [txn EXCEPT ![s] = t]
    BY <1>4, <2>1 DEF Arrive, tables, Become
  <2>4. BookInv'
    BY <1>T, <2>2, <2>3 DEF RefInv, BookInv, Books
  <2> QED BY <2>3, <2>4 DEF RefInv, BookingRefsAreDense
<1>5. ASSUME NEW s \in Sessions, Die(s) \/ Tell(s) PROVE RefInv'
  BY <1>3, <1>5 DEF Die, Tell, tables
<1>6. ASSUME NEW s \in Sessions, Count(s) PROVE RefInv'
  <2> DEFINE t == [txn[s] EXCEPT !.ref = Len(bookings) + 1, !.at = "insert"]
  <2>1. /\ t.op = "book" /\ t.ref = Len(bookings) + 1 /\ t.at = "insert" /\ ~ t.wrote
        /\ Len(bookings) + 1 \in 1..(Len(bookings) + 1)
    BY <1>6, <1>T DEF Count, At, Txn, RefInv, BookInv, Books
  <2>2. bookings' = bookings /\ txn' = [txn EXCEPT ![s] = t]
    BY <1>6 DEF Count, tables, Become
  <2>3. BookInv'
    BY <1>T, <2>1, <2>2 DEF RefInv, BookInv, Books
  <2> QED BY <2>2, <2>3 DEF RefInv, BookingRefsAreDense
<1>7. ASSUME NEW s \in Sessions, Insert(s) PROVE RefInv'
  <2>1. PICK at \in {"name", "customer"} : Become(s, [txn[s] EXCEPT !.wrote = TRUE, !.at = at])
    BY <1>7 DEF Insert
  <2> DEFINE t == [txn[s] EXCEPT !.wrote = TRUE, !.at = at]
  <2>2. t.op = "book" /\ t.ref = txn[s].ref /\ t.at = at /\ t.wrote
    BY <1>7, <1>T DEF Insert, At, Txn
  <2>3. txn[s].ref \in 1..(Len(bookings) + 1) /\ txn[s].ref \notin DOMAIN bookings
    BY <1>7 DEF Insert, At, RefTaken, RefInv, BookInv, Books, BookingRefsAreDense
  <2>4. txn[s].ref = Len(bookings) + 1
    BY <1>T, <2>3
  <2>5. bookings' = bookings /\ txn' = [txn EXCEPT ![s] = t]
    BY <1>7, <2>1 DEF Insert, tables, Become
  <2>6. ASSUME NEW q \in Sessions, q # s, Books(q), txn[q].wrote PROVE FALSE
    <3>1. txn[q].ref = txn[s].ref
      BY <2>4, <2>6 DEF RefInv, BookInv
    <3> QED BY <1>7, <2>6, <3>1 DEF Insert, RefPending, Others, At, Books
  <2>7. BookInv'
    BY <1>T, <2>2, <2>3, <2>4, <2>5, <2>6 DEF RefInv, BookInv, Books
  <2> QED BY <2>5, <2>7 DEF RefInv, BookingRefsAreDense
<1>8. ASSUME NEW s \in Sessions, Commit(s) PROVE RefInv'
  <2>1. PICK t : Become(s, t) /\ t.op # "book"
    <3> DEFINE t == [txn[s] EXCEPT !.at = AfterCommit(s), !.moved = FALSE, !.wrote = FALSE]
    <3>1. CASE AfterCommit(s) = "idle"
      BY <1>8, <1>T, <3>1 DEF Commit
    <3>2. CASE AfterCommit(s) # "idle"
      <4>1. t.op = txn[s].op
        BY <1>T DEF Txn
      <4>2. txn[s].op # "book"
        BY <3>2 DEF AfterCommit
      <4> QED BY <1>8, <3>2, <4>1, <4>2 DEF Commit
    <3> QED BY <3>1, <3>2
  <2>2. CASE txn[s].op = "book"
    <3> DEFINE b == [ref |-> txn[s].ref, status |-> "confirmed"]
    <3>1. bookings' = Append(bookings, b)
      BY <1>8, <2>2 DEF Commit, BookingsAfter
    <3>2. txn[s].ref = Len(bookings) + 1 /\ txn[s].wrote
      BY <1>8, <2>2 DEF Commit, RefInv, BookInv, Books
    <3>3. /\ Len(bookings') = Len(bookings) + 1
          /\ \A i \in DOMAIN bookings : i \in DOMAIN bookings' /\ bookings'[i] = bookings[i]
          /\ bookings'[Len(bookings) + 1].ref = Len(bookings) + 1
          /\ DOMAIN bookings' = DOMAIN bookings \cup {Len(bookings) + 1}
      BY <1>T, <3>1, <3>2
    <3>4. BookingRefsAreDense'
      BY <3>3 DEF RefInv, BookingRefsAreDense
    <3>5. ASSUME NEW q \in Sessions, Books(q)' PROVE q # s /\ txn'[q] = txn[q] /\ Books(q)
      BY <1>T, <2>1, <3>5 DEF Become, Books
    <3>6. ASSUME NEW q \in Sessions, Books(q)' PROVE ~ txn[q].wrote
      BY <2>2, <3>2, <3>5, <3>6 DEF RefInv, BookInv, Books
    <3>7. Len(bookings) \in Nat
      BY <1>T
    <3>8. BookInv'
      BY <3>3, <3>5, <3>6, <3>7 DEF RefInv, BookInv
    <3> QED BY <3>4, <3>8 DEF RefInv
  <2>3. CASE txn[s].op # "book"
    <3>1. /\ DOMAIN bookings' = DOMAIN bookings /\ Len(bookings') = Len(bookings)
          /\ \A i \in DOMAIN bookings : bookings'[i].ref = bookings[i].ref
      <4>1. CASE txn[s].op = "unbook"
        <5>1. bookings' = [bookings EXCEPT ![txn[s].id].status = "cancelled"]
          BY <1>8, <4>1 DEF Commit, BookingsAfter
        <5> QED BY <1>T, <5>1 DEF Booking
      <4>2. CASE txn[s].op # "unbook"
        BY <1>8, <2>3, <4>2 DEF Commit, BookingsAfter
      <4> QED BY <4>1, <4>2
    <3>2. ASSUME NEW q \in Sessions, Books(q)' PROVE txn'[q] = txn[q] /\ Books(q)
      BY <1>T, <2>1, <3>2 DEF Become, Books
    <3>3. {bookings'[i].ref : i \in DOMAIN bookings'} = {bookings[i].ref : i \in DOMAIN bookings}
      BY <3>1
    <3>4. BookingRefsAreDense'
      BY <3>1, <3>3 DEF RefInv, BookingRefsAreDense
    <3>5. BookInv'
      BY <3>1, <3>2 DEF RefInv, BookInv
    <3> QED BY <3>4, <3>5 DEF RefInv
  <2> QED BY <2>2, <2>3
<1>9. ASSUME NEW s \in Sessions, Proceed(s), ~ Count(s), ~ Insert(s), ~ Tell(s), ~ Commit(s)
      PROVE  RefInv'
  <2>1. PICK t : Onward(s, t)
    BY <1>9, GoesOn
  <2>2. bookings' = bookings
    BY <1>9 DEF Proceed, ReadForMove, Record, InsertCollides, Name, ReadForBooking,
       ReadOrder, Flush, ReadCustomer, Judge, ReadBooking, AnswerStatus, ReadRefund, File, tables
  <2> QED BY <2>1, <2>2, StillBooking
<1> QED BY <1>1, <1>2, <1>4, <1>5, <1>6, <1>7, <1>8, <1>9 DEF Next

\* Booking references run 1, 2, 3, ... without gap or repetition, however the
\* counts and the inserts of sessions interleave.
THEOREM ReferencesAreDense == Spec => []BookingRefsAreDense
<1>1. Init => RefInv
  BY DEF Init, RefInv, BookInv, BookingRefsAreDense, Books, Idle
<1>2. RefInv => BookingRefsAreDense
  BY DEF RefInv
<1> QED BY <1>1, <1>2, TypesInit, TypesStep, RefStep, PTL DEF Spec

-----------------------------------------------------------------------------
(* Nobody waits for ever.  Sessions take the row they are about, or a booking's *)
(* reference, before the customer's row, and wait for nothing once they hold    *)
(* the customer's: waits never close a circle.                                  *)

HoldsCustomer(s) == txn[s].moved \/ txn[s].named

\* Where a session is when it holds the customer's row, or its own; bookings read
\* nothing first.
Keeps(t) ==
  /\ t.moved => t.at = "commit"
  /\ t.named => t.op = "book" /\ t.at \in {"customer", "record", "commit"}
  /\ t.wrote => t.at \in {"name", "customer", "judge", "record", "commit"}
  /\ t.at = "idle" => t = Idle
  /\ t.at = "read" => t.op # "book"

LocksInv ==
  /\ \A s \in Sessions : Keeps(txn[s])
  /\ \A s, q \in Sessions : HoldsCustomer(s) /\ HoldsCustomer(q) => s = q

\* What a step makes of a session: it takes the customer's row if that is free.
LocksMove(s, t) ==
  /\ Become(s, t) /\ Keeps(t)
  /\ t.moved \/ t.named => HoldsCustomer(s) \/ ~ CustomerLocked(s)

LEMMA LocksMoved ==
  ASSUME TypeInv, LocksInv, NEW s \in Sessions, NEW t, LocksMove(s, t)
  PROVE  LocksInv'
<1>1. txn' = [txn EXCEPT ![s] = t] /\ txn \in [Sessions -> Txn]
  BY DEF LocksMove, Become, TypeInv, TypeOK
<1>2. \A q \in Sessions : Keeps(txn[q])'
  <2>1. \A q \in Sessions : Keeps(txn'[q])
    BY <1>1 DEF LocksMove, LocksInv
  <2> QED BY <2>1 DEF Keeps
<1>3. \A q \in Sessions \ {s} : HoldsCustomer(q)' <=> HoldsCustomer(q)
  BY <1>1 DEF HoldsCustomer
<1>4. ASSUME HoldsCustomer(s)', NEW q \in Sessions \ {s}, HoldsCustomer(q) PROVE FALSE
  <2>1. t.moved \/ t.named
    BY <1>1, <1>4 DEF HoldsCustomer
  <2>2. CustomerLocked(s)
    BY <1>4 DEF HoldsCustomer, CustomerLocked, Others
  <2> QED BY <1>4, <2>1, <2>2 DEF LocksMove, LocksInv
<1> QED BY <1>2, <1>3, <1>4 DEF LocksInv

LEMMA IdleKeeps == Keeps(Idle) /\ ~ Idle.moved /\ ~ Idle.named
  BY DEF Idle, Keeps

LEMMA LocksTurn ==
  ASSUME TypeInv, LocksInv, NEW s \in Sessions, Arrive(s) \/ Proceed(s) \/ Die(s)
  PROVE  \E t : LocksMove(s, t)
<1>T. /\ txn[s] \in Txn /\ Fits(txn[s]) /\ Keeps(txn[s]) /\ stage \in Stages
      /\ HoldsCustomer(s) <=> txn[s].moved \/ txn[s].named
  BY DEF TypeInv, TypeOK, LocksInv, HoldsCustomer
<1>0. ASSUME End(s) PROVE \E t : LocksMove(s, t)
  BY <1>0, IdleKeeps DEF End, LocksMove
<1>1. CASE Arrive(s)
  <2>1. PICK op \in Ops \ {"order"} : \E id \in Rows(op), to \in Writes(op) :
          Become(s, [Idle EXCEPT !.op = op, !.at = IF op = "book" THEN "count" ELSE "read",
                                 !.id = id, !.to = to])
    BY <1>1 DEF Arrive
  <2>2. PICK id \in Rows(op), to \in Writes(op) :
          Become(s, [Idle EXCEPT !.op = op, !.at = IF op = "book" THEN "count" ELSE "read",
                                 !.id = id, !.to = to])
    BY <2>1
  <2> DEFINE t == [Idle EXCEPT !.op = op, !.at = IF op = "book" THEN "count" ELSE "read",
                               !.id = id, !.to = to]
  <2>3. /\ ~ t.moved /\ ~ t.named /\ ~ t.wrote /\ t.at # "idle"
        /\ t.at = "read" => t.op # "book"
    BY DEF Idle
  <2> HIDE DEF t
  <2>4. LocksMove(s, t)
    BY <2>2, <2>3 DEF LocksMove, Keeps, t
  <2> QED BY <2>4
<1>2. CASE ReadForMove(s)
  <2> DEFINE t == [txn[s] EXCEPT !.saw = stage, !.at = "record"]
  <2>1. /\ t.at = "record"
        /\ t.op = txn[s].op /\ t.moved = txn[s].moved /\ t.named = txn[s].named
        /\ t.wrote = txn[s].wrote
    BY <1>T DEF Txn
  <2>2. Become(s, t) \/ End(s)
    BY <1>2 DEF ReadForMove
  <2> HIDE DEF t
  <2>3. Become(s, t) => LocksMove(s, t)
    BY <1>T, <1>2, <2>1 DEF ReadForMove, At, Keeps, LocksMove
  <2> QED BY <1>0, <2>2, <2>3
<1>3. CASE Record(s)
  <2> DEFINE t == [txn[s] EXCEPT !.moved = TRUE, !.at = "commit"]
  <2>1. /\ t.at = "commit" /\ t.op = txn[s].op /\ t.moved /\ t.named = txn[s].named
        /\ t.wrote = txn[s].wrote
    BY <1>T DEF Txn
  <2>2. LocksMove(s, t)
    BY <1>T, <1>3, <2>1 DEF Record, Keeps, LocksMove
  <2> QED BY <2>2
<1>4. CASE Count(s)
  <2> DEFINE t == [txn[s] EXCEPT !.ref = Len(bookings) + 1, !.at = "insert"]
  <2>1. /\ t.at = "insert"
        /\ t.op = txn[s].op /\ t.moved = txn[s].moved /\ t.named = txn[s].named
        /\ t.wrote = txn[s].wrote
    BY <1>T DEF Txn
  <2>2. Become(s, t)
    BY <1>4 DEF Count
  <2> HIDE DEF t
  <2>3. LocksMove(s, t)
    BY <1>T, <1>4, <2>1, <2>2 DEF Count, At, Keeps, LocksMove
  <2> QED BY <2>3
<1>5. CASE Insert(s)
  <2>1. PICK at \in {"name", "customer"} : Become(s, [txn[s] EXCEPT !.wrote = TRUE, !.at = at])
    BY <1>5 DEF Insert
  <2> DEFINE t == [txn[s] EXCEPT !.wrote = TRUE, !.at = at]
  <2>2. t.at = at /\ t.op = txn[s].op /\ t.moved = txn[s].moved /\ t.named = txn[s].named
    BY <1>T DEF Txn
  <2>3. LocksMove(s, t)
    BY <1>T, <1>5, <2>1, <2>2 DEF Insert, At, Keeps, LocksMove
  <2> QED BY <2>3
<1>6. CASE InsertCollides(s) \/ AnswerStatus(s) \/ Tell(s) \/ File(s) \/ Die(s)
  BY <1>0, <1>6 DEF InsertCollides, AnswerStatus, Tell, File, Die
<1>7. CASE Name(s)
  <2> DEFINE t == [txn[s] EXCEPT !.named = TRUE, !.saw = stage, !.at = "customer"]
  <2>1. /\ t.at = "customer" /\ t.op = txn[s].op /\ t.moved = txn[s].moved /\ t.named
        /\ t.wrote = txn[s].wrote
    BY <1>T DEF Txn
  <2>2. txn[s].op = "book"
    BY <1>T, <1>7 DEF Name, Fits, Places
  <2>3. LocksMove(s, t)
    BY <1>T, <1>7, <2>1, <2>2 DEF Name, Keeps, LocksMove
  <2> QED BY <2>3
<1>8. CASE ReadForBooking(s)
  <2> DEFINE saw == IF txn[s].named THEN txn[s].saw ELSE stage
             at == IF saw = "closed_won" THEN "commit" ELSE "record"
             t == [txn[s] EXCEPT !.saw = saw, !.at = at]
  <2>1. /\ t.at = at /\ at \in {"commit", "record"}
        /\ t.op = txn[s].op /\ t.moved = txn[s].moved /\ t.named = txn[s].named
        /\ t.wrote = txn[s].wrote
    BY <1>T DEF Txn
  <2>2. Become(s, t)
    BY <1>8 DEF ReadForBooking
  <2> HIDE DEF saw, at, t
  <2>3. LocksMove(s, t)
    BY <1>T, <1>8, <2>1, <2>2 DEF ReadForBooking, At, Keeps, LocksMove
  <2> QED BY <2>3
<1>9. CASE ReadOrder(s)
  <2>1. ASSUME NEW at \in {"flush", "customer", "file"},
               Become(s, [txn[s] EXCEPT !.was = Found(s), !.at = at])
        PROVE  \E t : LocksMove(s, t)
    <3> DEFINE t == [txn[s] EXCEPT !.was = Found(s), !.at = at]
    <3>1. /\ t.at = at
          /\ t.op = txn[s].op /\ t.moved = txn[s].moved /\ t.named = txn[s].named
          /\ t.wrote = txn[s].wrote
      BY <1>T DEF Txn
    <3>2. Become(s, t)
      BY <2>1
    <3> HIDE DEF t
    <3>3. LocksMove(s, t)
      BY <1>T, <1>9, <2>1, <3>1, <3>2 DEF ReadOrder, At, Keeps, LocksMove
    <3> QED BY <3>3
  <2>2. End(s) \/ \E at \in {"flush", "customer", "file"} :
                    Become(s, [txn[s] EXCEPT !.was = Found(s), !.at = at])
    BY <1>9 DEF ReadOrder, At
  <2> QED BY <1>0, <2>1, <2>2
<1>10. CASE Flush(s)
  <2> DEFINE at == IF About(txn[s].op) = "order" THEN "customer" ELSE "commit"
             t == [txn[s] EXCEPT !.wrote = TRUE, !.at = at]
  <2>1. t.at = at /\ t.op = txn[s].op /\ t.moved = txn[s].moved /\ t.named = txn[s].named
    BY <1>T DEF Txn
  <2>2. at \in {"customer", "commit"} /\ Become(s, t)
    BY <1>10 DEF Flush
  <2> HIDE DEF at, t
  <2>3. LocksMove(s, t)
    BY <1>T, <1>10, <2>1, <2>2 DEF Flush, Keeps, LocksMove
  <2> QED BY <2>3
<1>11. CASE ReadCustomer(s)
  <2> DEFINE at == IF txn[s].op = "approve" THEN "record" ELSE "judge"
             t == [txn[s] EXCEPT !.saw = stage, !.at = at]
  <2>1. /\ t.at = at /\ at \in {"record", "judge"}
        /\ t.op = txn[s].op /\ t.moved = txn[s].moved /\ t.named = txn[s].named
        /\ t.wrote = txn[s].wrote
    BY <1>T DEF Txn
  <2>2. Become(s, t)
    BY <1>11 DEF ReadCustomer
  <2> HIDE DEF at, t
  <2>3. LocksMove(s, t)
    BY <1>T, <1>11, <2>1, <2>2 DEF ReadCustomer, At, Keeps, LocksMove
  <2> QED BY <2>3
<1>12. CASE Judge(s)
  <2>1. PICK at \in {"record", "commit"} : Become(s, [txn[s] EXCEPT !.at = at])
    BY <1>12 DEF Judge, Goes
  <2> DEFINE t == [txn[s] EXCEPT !.at = at]
  <2>2. /\ t.at = at
        /\ t.op = txn[s].op /\ t.moved = txn[s].moved /\ t.named = txn[s].named
        /\ t.wrote = txn[s].wrote
    BY <1>T DEF Txn
  <2> HIDE DEF t
  <2>3. LocksMove(s, t)
    BY <1>T, <1>12, <2>1, <2>2 DEF Judge, Keeps, LocksMove, t
  <2> QED BY <2>3
<1>13. CASE ReadBooking(s)
  <2> DEFINE t == [txn[s] EXCEPT !.at = "flush"]
  <2>1. /\ t.at = "flush"
        /\ t.op = txn[s].op /\ t.moved = txn[s].moved /\ t.named = txn[s].named
        /\ t.wrote = txn[s].wrote
    BY <1>T DEF Txn
  <2>2. Become(s, t) \/ End(s)
    BY <1>13 DEF ReadBooking, Goes
  <2> HIDE DEF t
  <2>3. Become(s, t) => LocksMove(s, t)
    BY <1>T, <1>13, <2>1 DEF ReadBooking, At, Keeps, LocksMove
  <2> QED BY <1>0, <2>2, <2>3
<1>14. CASE ReadRefund(s)
  <2> DEFINE t == [txn[s] EXCEPT !.was = refunds[txn[s].id], !.at = "flush"]
  <2>1. /\ t.at = "flush"
        /\ t.op = txn[s].op /\ t.moved = txn[s].moved /\ t.named = txn[s].named
        /\ t.wrote = txn[s].wrote
    BY <1>T DEF Txn
  <2>2. Become(s, t) \/ End(s)
    BY <1>14 DEF ReadRefund
  <2> HIDE DEF t
  <2>3. Become(s, t) => LocksMove(s, t)
    BY <1>T, <1>14, <2>1 DEF ReadRefund, At, Keeps, LocksMove
  <2> QED BY <1>0, <2>2, <2>3
<1>15. CASE Commit(s)
  <2> DEFINE t == [txn[s] EXCEPT !.at = AfterCommit(s), !.moved = FALSE, !.wrote = FALSE]
  <2>1. CASE AfterCommit(s) = "idle"
    BY <1>0, <1>15, <2>1 DEF Commit, End
  <2>2. CASE AfterCommit(s) # "idle"
    <3>1. txn[s].op # "book" /\ Become(s, t)
      BY <1>15, <2>2 DEF AfterCommit, Commit
    <3>2. t.at = AfterCommit(s) /\ ~ t.moved /\ ~ t.wrote /\ t.named = txn[s].named /\ t.op = txn[s].op
      BY <1>T DEF Txn
    <3> HIDE DEF t
    <3>3. LocksMove(s, t)
      BY <1>T, <2>2, <3>1, <3>2 DEF Keeps, LocksMove
    <3> QED BY <3>3
  <2> QED BY <2>1, <2>2
<1> QED
  BY <1>1, <1>2, <1>3, <1>4, <1>5, <1>6, <1>7, <1>8, <1>9, <1>10, <1>11, <1>12, <1>13, <1>14, <1>15
     DEF Proceed

LEMMA LocksInvariant == Spec => [](TypeInv /\ LocksInv)
<1>1. Init => LocksInv
  BY IdleKeeps DEF Init, LocksInv, HoldsCustomer
<1>2. TypeInv /\ LocksInv /\ [Next]_vars => LocksInv'
  <2> SUFFICES ASSUME TypeInv, LocksInv, [Next]_vars PROVE LocksInv'
    OBVIOUS
  <2>1. CASE UNCHANGED vars \/ PlaceOrder
    BY <2>1 DEF vars, PlaceOrder, LocksInv, HoldsCustomer, Keeps
  <2>2. ASSUME NEW s \in Sessions, Arrive(s) \/ Proceed(s) \/ Die(s) PROVE LocksInv'
    BY <2>2, LocksTurn, LocksMoved
  <2> QED BY <2>1, <2>2 DEF Next
<1> QED BY <1>1, <1>2, TypesInit, TypesStep, PTL DEF Spec

\* A session at work is ready unless it waits for a row or for a reference: the
\* sessions that Proceed of the model can serve.
Ready(s) ==
  /\ txn[s] # Idle
  /\ txn[s].at \in {"record", "name"} => ~ CustomerLocked(s)
  /\ txn[s].at = "insert" => ~ RefPending(s)
  /\ txn[s].at = "flush" => ~ RowLocked(s)

SomebodyGoesOn == (\E s \in Sessions : txn[s] # Idle) => \E s \in Sessions : Ready(s)

LEMMA SomebodyReady ==
  ASSUME LocksInv
  PROVE  SomebodyGoesOn
<1> SUFFICES ASSUME NEW s \in Sessions, txn[s] # Idle PROVE \E q \in Sessions : Ready(q)
  BY DEF SomebodyGoesOn
<1>1. CASE \E q \in Sessions : HoldsCustomer(q)
  <2>1. PICK q \in Sessions : HoldsCustomer(q)
    BY <1>1
  <2>2. txn[q] # Idle /\ txn[q].at \in {"customer", "record", "commit"}
    BY <2>1, IdleKeeps DEF HoldsCustomer, LocksInv, Keeps
  <2>3. ~ CustomerLocked(q)
    BY <2>1 DEF CustomerLocked, Others, HoldsCustomer, LocksInv
  <2> QED BY <2>2, <2>3 DEF Ready
<1>2. CASE /\ \A q \in Sessions : ~ HoldsCustomer(q)
           /\ \E q \in Sessions : txn[q].wrote
  <2>1. PICK q \in Sessions : txn[q].wrote
    BY <1>2
  <2>2. txn[q] # Idle /\ txn[q].at \in {"name", "customer", "judge", "record", "commit"}
    BY <2>1 DEF LocksInv, Keeps, Idle
  <2>3. ~ CustomerLocked(q)
    BY <1>2 DEF CustomerLocked, Others, HoldsCustomer
  <2> QED BY <2>2, <2>3 DEF Ready
<1>3. CASE \A q \in Sessions : ~ HoldsCustomer(q) /\ ~ txn[q].wrote
  <2>1. ~ CustomerLocked(s) /\ ~ RowLocked(s) /\ ~ RefPending(s)
    BY <1>3 DEF CustomerLocked, RowLocked, RefPending, Others, HoldsCustomer
  <2> QED BY <2>1 DEF Ready
<1> QED BY <1>1, <1>2, <1>3

\* While any request is at work one of them is ready, however many sessions there
\* are: a session that holds the customer's row waits for nobody, one that holds a
\* row or a reference waits only for the customer's, and the others for those.
THEOREM NobodyBlocksAll == Spec => []SomebodyGoesOn
<1>1. LocksInv => SomebodyGoesOn
  BY SomebodyReady
<1> QED BY <1>1, LocksInvariant, PTL

\* The step of a session that is ready, where there are two the one that goes on.
Successor(s) ==
  LET t == txn[s]
      Into(k) == [txn EXCEPT ![s] = k]
      Only(k) == <<stage, history, orders, bookings, refunds, announced, decided, Into(k),
                   served, faults>>
      was == Found(s)
      saw == IF t.named THEN t.saw ELSE stage
  IN CASE t.at = "read" /\ t.op = "crm" ->
            Only(IF Allowed(stage, t.to) THEN [t EXCEPT !.saw = stage, !.at = "record"] ELSE Idle)
       [] t.at = "read" /\ t.op = "approve" ->
            Only(IF was = "awaiting" THEN [t EXCEPT !.was = was, !.at = "flush"] ELSE Idle)
       [] t.at = "read" /\ t.op = "cancel" ->
            Only([t EXCEPT !.was = was, !.at = IF was = "cancelled" THEN "customer" ELSE "flush"])
       [] t.at = "read" /\ t.op = "refund" ->
            Only(IF was \in {"none", "paid"} THEN [t EXCEPT !.was = was, !.at = "file"] ELSE Idle)
       [] t.at = "read" /\ t.op \in {"unbook", "bookstatus"} ->
            Only(IF t.op = "unbook" /\ bookings[t.id].status = "cancelled" THEN Idle
                 ELSE [t EXCEPT !.at = "flush"])
       [] t.at = "read" /\ t.op = "decide" ->
            Only(IF t.to = "resolved" \/ MayDecide(t.id)
                 THEN [t EXCEPT !.was = refunds[t.id], !.at = "flush"] ELSE Idle)
       [] t.at = "record" -> Only([t EXCEPT !.moved = TRUE, !.at = "commit"])
       [] t.at = "count" -> Only([t EXCEPT !.ref = Len(bookings) + 1, !.at = "insert"])
       [] t.at = "insert" ->
            Only(IF RefTaken(t.ref) THEN Idle ELSE [t EXCEPT !.wrote = TRUE, !.at = "customer"])
       [] t.at = "name" -> Only([t EXCEPT !.named = TRUE, !.saw = stage, !.at = "customer"])
       [] t.at = "customer" /\ t.op = "book" ->
            Only([t EXCEPT !.saw = saw, !.at = IF saw = "closed_won" THEN "commit" ELSE "record"])
       [] t.at = "customer" /\ t.op # "book" ->
            Only([t EXCEPT !.saw = stage, !.at = IF t.op = "approve" THEN "record" ELSE "judge"])
       [] t.at = "judge" ->
            Only([t EXCEPT !.at =
                    IF ~ Active(s) /\ t.saw \in {"awaiting_payment", "closed_won"}
                    THEN "record" ELSE "commit"])
       [] t.at = "flush" ->
            Only([t EXCEPT !.wrote = TRUE,
                           !.at = IF About(t.op) = "order" THEN "customer" ELSE "commit"])
       [] t.at = "file" ->
            <<stage, history, orders, bookings, Append(refunds, "pending"), announced, decided,
              Into(Idle), served, faults>>
       [] t.at = "tell" ->
            <<stage, history, orders, bookings, refunds, announced \cup {<<t.id, t.to>>}, decided,
              Into(Idle), served, faults>>
       [] t.at = "commit" /\ t.op = "bookstatus" -> Only(Idle)
       [] t.at = "commit" /\ t.op # "bookstatus" ->
            <<StageAfter(s),
              IF t.moved THEN Append(history, [from |-> t.saw, to |-> t.to]) ELSE history,
              IF About(t.op) = "order" THEN RowAfter(s, orders) ELSE orders,
              BookingsAfter(s),
              IF About(t.op) = "refund" THEN RowAfter(s, refunds) ELSE refunds,
              announced,
              IF t.op = "decide" THEN decided \cup {<<t.id, t.to>>} ELSE decided,
              Into(IF AfterCommit(s) = "idle" THEN Idle
                   ELSE [t EXCEPT !.at = AfterCommit(s), !.moved = FALSE, !.wrote = FALSE]),
              served, faults>>

\* A session that is ready has a step to take.
THEOREM ReadyHasStep ==
  ASSUME TypeInv, LocksInv, NEW s \in Sessions, Ready(s), vars' = Successor(s)
  PROVE  Proceed(s)
<1> DEFINE t == txn[s]
<1> USE DEF vars, tables, decisions, counts, At, Become, End, Goes, Successor
<1>T. t \in Txn /\ t.at # "idle" /\ Places(t.op, t.at) /\ (t.at = "read" => t.op # "book")
  BY DEF Ready, TypeInv, TypeOK, Fits, LocksInv, Keeps
<1>1. CASE t.at = "read" /\ t.op = "crm"
  BY <1>1 DEF ReadForMove, Proceed
<1>2. CASE t.at = "read" /\ t.op \in {"approve", "cancel", "refund"}
  <2>1. ReadOrder(s)
    BY <1>2 DEF ReadOrder
  <2> QED BY <2>1 DEF Proceed
<1>3. CASE t.at = "read" /\ t.op \in {"unbook", "bookstatus"}
  BY <1>3 DEF ReadBooking, Proceed
<1>4. CASE t.at = "read" /\ t.op = "decide"
  BY <1>4 DEF ReadRefund, Proceed
<1>5. CASE t.at = "record"
  BY <1>5 DEF Record, Ready, Proceed
<1>6. CASE t.at = "count"
  BY <1>T, <1>6 DEF Count, Places, Proceed
<1>7. CASE t.at = "insert"
  BY <1>T, <1>7 DEF Insert, InsertCollides, Places, Ready, Proceed
<1>8. CASE t.at = "name"
  BY <1>8 DEF Name, Ready, Proceed
<1>9. CASE t.at = "customer" /\ t.op = "book"
  BY <1>9 DEF ReadForBooking, Proceed
<1>10. CASE t.at = "customer" /\ t.op # "book"
  BY <1>T, <1>10 DEF ReadCustomer, Places, Proceed
<1>11. CASE t.at = "judge"
  BY <1>11 DEF Judge, Proceed
<1>12. CASE t.at = "flush"
  BY <1>12 DEF Flush, Ready, Proceed
<1>13. CASE t.at = "file"
  BY <1>13 DEF File, Proceed
<1>14. CASE t.at = "tell"
  BY <1>14 DEF Tell, Proceed
<1>15. CASE t.at = "commit" /\ t.op = "bookstatus"
  BY <1>15 DEF AnswerStatus, Proceed
<1>16. CASE t.at = "commit" /\ t.op # "bookstatus"
  <2>1. Commit(s)
    BY <1>16 DEF Commit
  <2> QED BY <2>1 DEF Proceed
<1>17. t.at \in {"read", "record", "count", "insert", "name", "customer", "judge", "flush",
               "file", "tell", "commit"}
  BY <1>T DEF Txn
<1>18. t.at = "read" => t.op \in {"crm", "approve", "cancel", "refund", "unbook", "bookstatus", "decide"}
  BY <1>T DEF Txn, Tools, Desk, Places
<1> QED
  BY <1>1, <1>2, <1>3, <1>4, <1>5, <1>6, <1>7, <1>8, <1>9, <1>10, <1>11, <1>12, <1>13, <1>14,
     <1>15, <1>16, <1>17, <1>18
=============================================================================

------------------------------ MODULE CrmDesk ------------------------------
(***************************************************************************)
(* One customer's record: the stage in the sales funnel and its history,   *)
(* bookings, and the decisions on refund requests.  Tools of an agent      *)
(* turn, which may run side by side, and dashboard requests read rows      *)
(* without locks and write them later; an UPDATE locks its row until the   *)
(* transaction ends.  Orders are only as detailed as the stage needs:      *)
(* OrderTxns has their lines, stock and payment.                           *)
(***************************************************************************)
EXTENDS Naturals, Sequences, SequencesExt

CONSTANTS
  Sessions,     \* database sessions at work
  Ops,          \* operations that may arrive
  MaxOrders,    \* bound: orders of the customer
  MaxRequests,  \* bound: requests that arrive
  MaxFaults     \* bound: sessions that die, messages that fail

VARIABLES
  stage,      \* customers.crm_stage
  history,    \* stage_history, in order of commit
  orders,     \* orders[i]: status of the customer's i-th order
  bookings,   \* bookings[b]: its reference number and status
  refunds,    \* refunds[r]: status of the r-th refund request
  announced,  \* decisions on refunds that the customer was told
  decided,    \* decisions on refunds that were committed (history)
  txn,        \* what each session works on
  served, faults

tables == <<stage, history, orders, bookings, refunds>>
decisions == <<announced, decided>>
counts == <<served, faults>>
vars == <<stage, history, orders, bookings, refunds, announced, decided, txn, served, faults>>

-----------------------------------------------------------------------------
Stages == {"lead", "interested", "awaiting_payment", "closed_won"}
OrderStatuses == {"awaiting", "paid", "cancelled"}
BookingStatuses == {"confirmed", "completed", "cancelled"}
Decisions == {"approved", "rejected", "resolved"}

\* The funnel of update_crm.
ValidTransitions ==
  [lead |-> {"interested"},
   interested |-> {"awaiting_payment", "closed_won"},
   awaiting_payment |-> {"closed_won", "interested"},
   closed_won |-> {"interested"}]

Tools == {"order", "crm", "book", "unbook", "refund"}
Desk == {"approve", "cancel", "bookstatus", "decide"}

ASSUME OpsAreOperations == Ops \subseteq Tools \cup Desk
ASSUME BoundsAreNaturals ==
  {MaxOrders, MaxRequests, MaxFaults} \subseteq Nat

Move == [from : Stages, to : Stages]
Booking == [ref : Nat, status : BookingStatuses]

(* A session's transaction.                                                *)
(*   id     : the order, booking or refund request it is about, or 0       *)
(*   to     : the stage, status or decision it writes                      *)
(*   was    : that row's status, as read                                   *)
(*   saw    : the customer's stage, as read                                *)
(*   moved  : the history row is inserted, so the customer's row is locked *)
(*   named  : the customer's row is locked by a change of name             *)
(*   wrote  : row id is written and locked                                 *)
(*   ref    : the reference number counted, and inserted if wrote          *)
Txn == [op : Tools \cup Desk,
        at : {"idle", "read", "count", "insert", "name", "customer", "judge", "record",
              "flush", "commit", "file", "tell"},
        id : Nat, to : Stages \cup BookingStatuses \cup Decisions \cup OrderStatuses \cup {"none"},
        was : OrderStatuses \cup BookingStatuses \cup Decisions \cup {"pending", "none"},
        saw : Stages, moved : BOOLEAN, named : BOOLEAN, wrote : BOOLEAN, ref : Nat]

Idle == [op |-> "crm", at |-> "idle", id |-> 0, to |-> "none", was |-> "none", saw |-> "lead",
         moved |-> FALSE, named |-> FALSE, wrote |-> FALSE, ref |-> 0]

At(s, op, at) == txn[s].op \in op /\ txn[s].at = at
Become(s, t) == txn' = [txn EXCEPT ![s] = t]
Goes(s, at) == Become(s, [txn[s] EXCEPT !.at = at])
End(s) == Become(s, Idle)

-----------------------------------------------------------------------------
(* Row locks, and the unique key of booking references. *)

Others(s) == Sessions \ {s}

\* A definition named for what it forgets or does wrongly, just before a
\* definition, is a deliberately wrong variant of it, which no action uses.
LockedEvenByItself(s) == \E q \in Sessions : txn[q].moved \/ txn[q].named

CustomerLocked(s) == \E q \in Others(s) : txn[q].moved \/ txn[q].named

About(op) ==
  CASE op \in {"approve", "cancel", "refund"} -> "order"
    [] op \in {"unbook", "bookstatus"}        -> "booking"
    [] op = "decide"                          -> "refund"
    [] OTHER                                  -> "none"

RowLocked(s) ==
  \E q \in Others(s) : txn[q].wrote /\ txn[q].id = txn[s].id /\ About(txn[q].op) = About(txn[s].op)

RefPending(s) == \E q \in Others(s) : At(q, {"book"}, txn[q].at) /\ txn[q].wrote /\ txn[q].ref = txn[s].ref

TakenByOpenBookings(ref) == \E b \in DOMAIN bookings : bookings[b].ref = ref /\ bookings[b].status = "confirmed"

RefTaken(ref) == \E b \in DOMAIN bookings : bookings[b].ref = ref

-----------------------------------------------------------------------------
(* Requests. *)

\* The rows an operation may be about, and what it may be asked to write.  A refund
\* may be asked for without saying of which order.
Rows(op) ==
  CASE op = "refund"             -> DOMAIN orders \cup {0}
    [] op \in {"approve", "cancel"} -> DOMAIN orders
    [] About(op) = "booking" -> DOMAIN bookings
    [] About(op) = "refund"  -> DOMAIN refunds
    [] OTHER                 -> {0}

Writes(op) ==
  CASE op = "crm"               -> Stages
    [] op \in {"book", "approve"} -> {"closed_won"}
    [] op = "cancel"            -> {"interested"}
    [] op = "unbook"            -> {"cancelled"}
    [] op = "bookstatus"        -> BookingStatuses
    [] op = "decide"            -> Decisions
    [] OTHER                    -> {"none"}

\* An order is placed (OrderTxns): the tool does not touch the stage.
PlaceOrder ==
  /\ "order" \in Ops /\ Len(orders) < MaxOrders
  /\ orders' = Append(orders, "awaiting")
  /\ UNCHANGED <<stage, history, bookings, refunds, decisions, txn, counts>>

Arrive(s) ==
  /\ txn[s] = Idle
  /\ served < MaxRequests /\ served' = served + 1
  /\ \E op \in Ops \ {"order"} : \E id \in Rows(op), to \in Writes(op) :
       Become(s, [Idle EXCEPT !.op = op, !.at = IF op = "book" THEN "count" ELSE "read",
                              !.id = id, !.to = to])
  /\ UNCHANGED <<tables, decisions, faults>>

-----------------------------------------------------------------------------
(* update_crm: the row is read, the move judged, and written later. *)

Allowed(from, to) == to \in ValidTransitions[from]

ReadForMove(s) ==
  /\ At(s, {"crm"}, "read")
  /\ IF Allowed(stage, txn[s].to)
     THEN Become(s, [txn[s] EXCEPT !.saw = stage, !.at = "record"])
     ELSE End(s)
  /\ UNCHANGED <<tables, decisions, counts>>

\* record_stage_change and update_customer: the history row, from the stage as
\* it was read, and then the UPDATE, which waits for the row.
Record(s) ==
  /\ txn[s].at = "record" /\ ~ CustomerLocked(s)
  /\ Become(s, [txn[s] EXCEPT !.moved = TRUE, !.at = "commit"])
  /\ UNCHANGED <<tables, decisions, counts>>

-----------------------------------------------------------------------------
(* book_meeting. *)

Count(s) ==
  /\ At(s, {"book"}, "count")
  /\ Become(s, [txn[s] EXCEPT !.ref = Len(bookings) + 1, !.at = "insert"])
  /\ UNCHANGED <<tables, decisions, counts>>

\* The insert waits for another of the same reference; the name of a customer
\* who gave one is written next, which locks and refreshes the row.
Insert(s) ==
  /\ At(s, {"book"}, "insert") /\ ~ RefPending(s) /\ ~ RefTaken(txn[s].ref)
  /\ \E next \in {"name", "customer"} : Become(s, [txn[s] EXCEPT !.wrote = TRUE, !.at = next])
  /\ UNCHANGED <<tables, decisions, counts>>

InsertCollides(s) ==
  /\ At(s, {"book"}, "insert") /\ ~ RefPending(s) /\ RefTaken(txn[s].ref)
  /\ End(s)
  /\ UNCHANGED <<tables, decisions, counts>>

Name(s) ==
  /\ txn[s].at = "name" /\ ~ CustomerLocked(s)
  /\ Become(s, [txn[s] EXCEPT !.named = TRUE, !.saw = stage, !.at = "customer"])
  /\ UNCHANGED <<tables, decisions, counts>>

\* The customer is read, unless the session has the object already.  A booking
\* moves the stage only if it is not the last one yet.
ReadForBooking(s) ==
  LET saw == IF txn[s].named THEN txn[s].saw ELSE stage IN
  /\ At(s, {"book"}, "customer")
  /\ Become(s, [txn[s] EXCEPT !.saw = saw, !.at = IF saw = "closed_won" THEN "commit" ELSE "record"])
  /\ UNCHANGED <<tables, decisions, counts>>

-----------------------------------------------------------------------------
(* approve_payment_verification, admin_cancel_order and request_refund. *)

Found(s) == IF txn[s].id = 0 THEN "none" ELSE orders[txn[s].id]

ReadOrder(s) ==
  LET was == Found(s)
      next == CASE txn[s].op = "approve" -> IF was = "awaiting" THEN "flush" ELSE "idle"
                [] txn[s].op = "cancel"  -> IF was = "cancelled" THEN "customer" ELSE "flush"
                [] OTHER                 -> IF was \in {"none", "paid"} THEN "file" ELSE "idle"
  IN
  /\ At(s, {"approve", "cancel", "refund"}, "read")
  /\ IF next = "idle" THEN End(s) ELSE Become(s, [txn[s] EXCEPT !.was = was, !.at = next])
  /\ UNCHANGED <<tables, decisions, counts>>

\* Before it moves the stage, a session writes its row.
Flush(s) ==
  /\ txn[s].at = "flush" /\ ~ RowLocked(s)
  /\ Become(s, [txn[s] EXCEPT !.wrote = TRUE,
                              !.at = IF About(txn[s].op) = "order" THEN "customer" ELSE "commit"])
  /\ UNCHANGED <<tables, decisions, counts>>

ReadCustomer(s) ==
  /\ At(s, {"approve", "cancel"}, "customer")
  /\ Become(s, [txn[s] EXCEPT !.saw = stage,
                              !.at = IF txn[s].op = "approve" THEN "record" ELSE "judge"])
  /\ UNCHANGED <<tables, decisions, counts>>

\* The orders as the session that cancels one of them sees them.
Active(s) == \E i \in DOMAIN orders : orders[i] = "awaiting" /\ ~ (txn[s].wrote /\ txn[s].id = i)

\* A cancellation that leaves no active order sends the customer back.
Judge(s) ==
  /\ txn[s].at = "judge"
  /\ Goes(s, IF ~ Active(s) /\ txn[s].saw \in {"awaiting_payment", "closed_won"} THEN "record" ELSE "commit")
  /\ UNCHANGED <<tables, decisions, counts>>

-----------------------------------------------------------------------------
(* cancel_meeting, and the status a dashboard sets. *)

ReadBooking(s) ==
  /\ At(s, {"unbook", "bookstatus"}, "read")
  /\ IF txn[s].op = "unbook" /\ bookings[txn[s].id].status = "cancelled" THEN End(s) ELSE Goes(s, "flush")
  /\ UNCHANGED <<tables, decisions, counts>>

\* update_admin_booking_status answers with the status it flushed; the session
\* closes without a commit.
AnswerStatus(s) ==
  /\ At(s, {"bookstatus"}, "commit")
  /\ End(s)
  /\ UNCHANGED <<tables, decisions, counts>>

-----------------------------------------------------------------------------
(* Decisions on a refund request. *)

MayDecide(r) == refunds[r] = "pending"

\* The legacy "resolve" does not look at the status.
ReadRefund(s) ==
  /\ At(s, {"decide"}, "read")
  /\ IF txn[s].to = "resolved" \/ MayDecide(txn[s].id)
     THEN Become(s, [txn[s] EXCEPT !.was = refunds[txn[s].id], !.at = "flush"])
     ELSE End(s)
  /\ UNCHANGED <<tables, decisions, counts>>

TellsBeforeCommit(s) ==
  /\ At(s, {"decide"}, "commit") /\ txn[s].to # "resolved"
  /\ announced' = announced \cup {<<txn[s].id, txn[s].to>>}
  /\ End(s)
  /\ UNCHANGED <<tables, decided, counts>>

\* The customer is told after the commit, in another session, which may fail.
Tell(s) ==
  /\ txn[s].at = "tell"
  /\ \/ announced' = announced \cup {<<txn[s].id, txn[s].to>>} /\ UNCHANGED faults
     \/ faults < MaxFaults /\ faults' = faults + 1 /\ UNCHANGED announced
  /\ End(s)
  /\ UNCHANGED <<tables, decided, served>>

\* A refund request is filed: by its tool, or after a paid order's cancellation.
File(s) ==
  /\ txn[s].at = "file"
  /\ refunds' = Append(refunds, "pending")
  /\ End(s)
  /\ UNCHANGED <<stage, history, orders, bookings, decisions, counts>>

-----------------------------------------------------------------------------
(* Commits. *)

SkipsUnchanged(s) == IF txn[s].moved /\ txn[s].saw # txn[s].to THEN txn[s].to ELSE stage

\* update_customer refreshes the object after each write, so the second of an
\* approval's two writes sends the stage although the first found it unchanged.
StageAfter(s) == IF txn[s].moved THEN txn[s].to ELSE stage

RowAfter(s, rows) ==
  IF ~ txn[s].wrote THEN rows
  ELSE [rows EXCEPT ![txn[s].id] = CASE txn[s].op = "approve" -> "paid"
                                     [] txn[s].op = "cancel"  -> "cancelled"
                                     [] OTHER                 -> txn[s].to]

BookingsAfter(s) ==
  CASE txn[s].op = "book"   -> Append(bookings, [ref |-> txn[s].ref, status |-> "confirmed"])
    [] txn[s].op = "unbook" -> [bookings EXCEPT ![txn[s].id].status = "cancelled"]
    [] OTHER                -> bookings

AfterCommit(s) ==
  CASE txn[s].op = "cancel" /\ txn[s].was = "paid"       -> "file"
    [] txn[s].op = "decide" /\ txn[s].to # "resolved"    -> "tell"
    [] OTHER                                             -> "idle"

Commit(s) ==
  /\ txn[s].at = "commit" /\ txn[s].op # "bookstatus"
  /\ stage' = StageAfter(s)
  /\ history' = IF txn[s].moved THEN Append(history, [from |-> txn[s].saw, to |-> txn[s].to]) ELSE history
  /\ orders' = IF About(txn[s].op) = "order" THEN RowAfter(s, orders) ELSE orders
  /\ refunds' = IF About(txn[s].op) = "refund" THEN RowAfter(s, refunds) ELSE refunds
  /\ bookings' = BookingsAfter(s)
  /\ decided' = IF txn[s].op = "decide" THEN decided \cup {<<txn[s].id, txn[s].to>>} ELSE decided
  /\ Become(s, IF AfterCommit(s) = "idle" THEN Idle
               ELSE [txn[s] EXCEPT !.at = AfterCommit(s), !.moved = FALSE, !.wrote = FALSE])
  /\ UNCHANGED <<announced, counts>>

\* A session's connection or process is lost: its transaction is undone.
Die(s) ==
  /\ txn[s] # Idle
  /\ faults < MaxFaults /\ faults' = faults + 1
  /\ End(s)
  /\ UNCHANGED <<tables, decisions, served>>

-----------------------------------------------------------------------------
Init ==
  /\ stage = "lead" /\ history = <<>>
  /\ orders = <<>> /\ bookings = <<>> /\ refunds = <<>>
  /\ announced = {} /\ decided = {}
  /\ txn = [s \in Sessions |-> Idle]
  /\ served = 0 /\ faults = 0

Proceed(s) ==
  \/ ReadForMove(s) \/ Record(s)
  \/ Count(s) \/ Insert(s) \/ InsertCollides(s) \/ Name(s) \/ ReadForBooking(s)
  \/ ReadOrder(s) \/ Flush(s) \/ ReadCustomer(s) \/ Judge(s)
  \/ ReadBooking(s) \/ AnswerStatus(s) \/ ReadRefund(s) \/ Tell(s) \/ File(s)
  \/ Commit(s)

Next == PlaceOrder \/ \E s \in Sessions : Arrive(s) \/ Proceed(s) \/ Die(s)

Spec == Init /\ [][Next]_vars

\* The database serves every statement whose lock is free.
FairSpec == Spec /\ \A s \in Sessions : WF_vars(Proceed(s))

-----------------------------------------------------------------------------
(* Properties. *)

TypeOK ==
  /\ stage \in Stages /\ history \in Seq(Move)
  /\ orders \in Seq(OrderStatuses) /\ bookings \in Seq(Booking)
  /\ refunds \in Seq(Decisions \cup {"pending"})
  /\ announced \subseteq Nat \X Decisions /\ decided \subseteq Nat \X Decisions
  /\ txn \in [Sessions -> Txn]
  /\ served \in Nat /\ faults \in Nat

\* Booking references run 1, 2, 3, ...: two bookings that count the same number
\* do not both commit (uq_bookings_tenant_booking_ref).
BookingRefsAreDense == {bookings[b].ref : b \in DOMAIN bookings} = DOMAIN bookings

\* The stage is the one that the newest history row moved to, whatever sessions
\* overlapped and whatever stage they had read.
StageIsLastMove == stage = IF history = <<>> THEN "lead" ELSE Last(history).to

\* A customer is told only decisions that stand in the database or stood there.
AnnouncedIsDecided == announced \subseteq decided

\* Every request ends: no two sessions wait for each other's rows.
RequestsEnd == \A s \in Sessions : txn[s] # Idle ~> txn[s] = Idle

\* The stage moves along the funnel (agents/tools/crm.py, "Enforces sequential
\* progression through the funnel").
StageFollowsFunnel ==
  [][\A s \in Sessions : At(s, {"crm"}, "commit") /\ stage' # stage => Allowed(stage, stage')]_vars

\* A refund request is decided once (admin/router.py, "Already processed").
DecidedOnce ==
  \A r \in DOMAIN refunds : ~ ({<<r, "approved">>, <<r, "rejected">>} \subseteq decided)

\* The status a dashboard is told is the booking's (admin/router.py, "Update status
\* of a booking").
BookingStatusIsStored ==
  [][\A s \in Sessions : At(s, {"bookstatus"}, "commit") /\ txn'[s] = Idle
       => bookings'[txn[s].id].status = txn[s].to]_vars
=============================================================================

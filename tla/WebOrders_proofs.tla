---------------------------- MODULE WebOrders_proofs ----------------------------
(***************************************************************************)
(* Proofs about orders in the shop's own project, for every number of      *)
(* customers, orders, watchers, reconciliations and tasks.                 *)
(***************************************************************************)
EXTENDS WebOrders, SequenceTheorems, WellFoundedInduction, TLAPS

-----------------------------------------------------------------------------
(* The invariant.  An order's status only ever moves on, so that what an    *)
(* event or an alert says of it, once true, stays true.                     *)

\* An order that had status s may have t by now.
Reached(s, t) ==
  /\ s = "pending" => t # "reserved"
  /\ s = "confirmed" => t \in {"confirmed", "cancelled"}
  /\ s = "cancelled" => t = "cancelled"

\* What an alert of this kind says is so of an order with status t.
Happened(kind, t) ==
  /\ t # "reserved"
  /\ kind = "confirmed" => t \in {"confirmed", "cancelled"}
  /\ kind = "cancelled" => t = "cancelled"

EventHolds(event, O) == event.of \in DOMAIN O /\ Reached(event.status, O[event.of].status)
AlertHolds(of, kind, O) == of \in DOMAIN O /\ Happened(kind, O[of].status)

EventsHold == \A w \in Objects : \A n \in DOMAIN watch[w].events : EventHolds(watch[w].events[n], orders)
TasksHold ==
  \A k \in Tasks :
    /\ task[k] = Done \/ task[k].left # <<>>
    /\ \A n \in DOMAIN task[k].left : AlertHolds(task[k].of, task[k].left[n], orders)
LogHolds == \A alert \in log : AlertHolds(alert.of, alert.kind, orders)

\* What is posted has a number, and no receipt yet.
Numbered ==
  \A c \in Customers :
    /\ turn[c].at = "post" => turn[c].number \in AllNumbers
    /\ turn[c].said = "receipt" => turn[c].at = "idle"

WebInv == TypeOK /\ Numbered /\ EventsHold /\ TasksHold /\ LogHolds /\ ReceiptIsStored

-----------------------------------------------------------------------------
(* Which actions write what. *)

Counts(n, bound, next) == next = n \/ (n < bound /\ next = n + 1)

Frames ==
  /\ source' = source \/ Edit
  /\ unreachable' = unreachable \/ Mutes
  /\ orders' = orders \/ Checkout \/ Update \/ \E c \in Customers : Post(c) \/ PostUnanswered(c)
  /\ drawn' = drawn \/ (drawn < Len(Numbers) /\ drawn' = drawn + 1)
  /\ turn' = turn \/ Restart \/ \E c \in Customers :
       PlaceOrder(c) \/ Proceeds(c) \/ DrawFails(c) \/ PostUnanswered(c) \/ AskStatus(c)
  /\ \/ watch' = watch
     \/ Checkout \/ Update \/ Restart \/ \E c \in Customers : Post(c) \/ PostUnanswered(c)
     \/ \E w \in Objects : Goes(w) \/ Refused(w) \/ Drops(w)
     \/ \E r \in Reconcilers : Reconciling(r)
  /\ registry' = registry \/ Restart \/ \E r \in Reconcilers : Reconciling(r)
  /\ rec' = rec \/ Tick \/ Edit \/ Restart \/ \E r \in Reconcilers : Reconciling(r)
  /\ \/ UNCHANGED <<task, log, cache, cost>>
     \/ Posted \/ Restart \/ \E w \in Objects : Hears(w)
     \/ \E k \in Tasks : Alerts(k) \/ SendFails(k)
  /\ Counts(changes, MaxChanges, changes') /\ Counts(edits, MaxEdits, edits')
  /\ Counts(faults, MaxFaults, faults')

LEMMA Framed ==
  ASSUME Next
  PROVE  Frames
<1> USE DEF Frames, Counts, settings, told, bridge, counters
<1>1. CASE Checkout BY <1>1 DEF Checkout
<1>2. CASE Update BY <1>2 DEF Update
<1>3. CASE Posted BY <1>3 DEF Posted
<1>18. CASE Mutes BY <1>18 DEF Mutes
<1>4. CASE Tick BY <1>4 DEF Tick
<1>5. CASE Edit BY <1>5 DEF Edit
<1>6. CASE Restart BY <1>6 DEF Restart, Fault
<1>7. ASSUME NEW c \in Customers, PlaceOrder(c) PROVE Frames
  BY <1>7 DEF PlaceOrder
<1>8. ASSUME NEW c \in Customers, DrawNumber(c) PROVE Frames
  BY <1>8 DEF DrawNumber, Proceeds
<1>9. ASSUME NEW c \in Customers, Post(c) PROVE Frames
  BY <1>9 DEF Post, Proceeds
<1>10. ASSUME NEW c \in Customers, DrawFails(c) PROVE Frames
  BY <1>10 DEF DrawFails, Fault
<1>11. ASSUME NEW c \in Customers, PostUnanswered(c) PROVE Frames
  BY <1>11 DEF PostUnanswered, Fault
<1>12. ASSUME NEW c \in Customers, AskStatus(c) PROVE Frames
  BY <1>12 DEF AskStatus
<1>13. ASSUME NEW w \in Objects, Goes(w) PROVE Frames
  BY <1>13 DEF Goes, Joins, Hears, Reconnects, Closes
<1>14. ASSUME NEW w \in Objects, Refused(w) \/ Drops(w) PROVE Frames
  BY <1>14 DEF Refused, Drops, Fault
<1>15. ASSUME NEW k \in Tasks, Alerts(k) PROVE Frames
  BY <1>15 DEF Alerts, Check, Send
<1>16. ASSUME NEW k \in Tasks, SendFails(k) PROVE Frames
  BY <1>16 DEF SendFails, Fault
<1>17. ASSUME NEW r \in Reconcilers, Reconciling(r) PROVE Frames
  BY <1>17 DEF Reconciling, ReadsRows, Reconciles, Awaited
<1> QED BY <1>1, <1>2, <1>3, <1>4, <1>5, <1>6, <1>7, <1>8, <1>9, <1>10, <1>11, <1>12, <1>13,
           <1>14, <1>15, <1>16, <1>17, <1>18 DEF Next, Proceeds

-----------------------------------------------------------------------------
(* The table. *)

\* No order goes, or changes its number or its customer, and its status only
\* moves on.
Grown ==
  /\ DOMAIN orders \subseteq DOMAIN orders'
  /\ \A i \in DOMAIN orders :
       /\ orders'[i].number = orders[i].number /\ orders'[i].by = orders[i].by
       /\ orders'[i].status = orders[i].status \/ orders'[i].status \in Follows(orders[i].status)

OrdersTyped == orders \in Seq(Order) /\ Len(orders) <= MaxOrders

LEMMA AddsOne ==
  ASSUME OrdersTyped, NEW number \in AllNumbers, NEW by \in Customers \cup {Nobody}, NEW status \in Statuses,
         Len(orders) < MaxOrders, Adds(number, by, status)
  PROVE  /\ OrdersTyped' /\ Grown
         /\ Len(orders) + 1 \in DOMAIN orders'
         /\ orders'[Len(orders) + 1] = [number |-> number, by |-> by, status |-> status]
<1> DEFINE o == [number |-> number, by |-> by, status |-> status]
<1>1. o \in Order
  BY DEF Order
<1>2. orders' = Append(orders, o) /\ orders \in Seq(Order) /\ MaxOrders \in Nat
  BY BoundsAreNaturals DEF Adds, OrdersTyped
<1> HIDE DEF o
<1>3. /\ orders' \in Seq(Order) /\ Len(orders') = Len(orders) + 1
      /\ \A i \in 1..Len(orders) : orders'[i] = orders[i]
      /\ orders'[Len(orders) + 1] = o /\ Len(orders) \in Nat
  BY <1>1, <1>2
<1>4. DOMAIN orders = 1..Len(orders) /\ DOMAIN orders' = 1..(Len(orders) + 1)
  BY <1>2, <1>3
<1> QED BY <1>2, <1>3, <1>4 DEF o, Grown, OrdersTyped

LEMMA FollowsTyped ==
  ASSUME NEW s, NEW t \in Follows(s)
  PROVE  t \in Statuses /\ t # "reserved" /\ s # "cancelled" /\ (s = "confirmed" => t # "pending")
<1>1. CASE s \in {"reserved", "pending", "confirmed"}
  BY <1>1 DEF Follows, Statuses
<1>2. CASE s \notin {"reserved", "pending", "confirmed"}
  BY <1>2 DEF Follows
<1> QED BY <1>1, <1>2

LEMMA UpdatesOne ==
  ASSUME OrdersTyped, Update
  PROVE  OrdersTyped' /\ Grown
<1>0. PICK i \in DOMAIN orders : \E status \in Follows(orders[i].status) :
        orders' = [orders EXCEPT ![i].status = status]
  BY DEF Update
<1>1. PICK status \in Follows(orders[i].status) : orders' = [orders EXCEPT ![i].status = status]
  BY <1>0
<1>2. orders[i] \in Order /\ status \in Statuses
  <2>1. orders[i] \in Order
    BY <1>0 DEF OrdersTyped
  <2>2. status \in Statuses
    BY <1>1, FollowsTyped
  <2> QED BY <2>1, <2>2
<1>3. orders' = [orders EXCEPT ![i] = [orders[i] EXCEPT !.status = status]]
  BY <1>1
<1>4. [orders[i] EXCEPT !.status = status] \in Order
  BY <1>2 DEF Order
<1>5. orders' \in Seq(Order) /\ Len(orders') = Len(orders)
  BY <1>3, <1>4 DEF OrdersTyped
<1>6. /\ DOMAIN orders' = DOMAIN orders
      /\ \A j \in DOMAIN orders : j # i => orders'[j] = orders[j]
      /\ orders'[i] = [orders[i] EXCEPT !.status = status]
  BY <1>3
<1>7. orders'[i].number = orders[i].number /\ orders'[i].by = orders[i].by /\ orders'[i].status = status
  BY <1>2, <1>6 DEF Order
<1> QED BY <1>1, <1>5, <1>6, <1>7 DEF Grown, OrdersTyped

\* The number drawn is one the project hands out.
LEMMA DrawnIsNumber ==
  ASSUME drawn \in 0..Len(Numbers), drawn < Len(Numbers)
  PROVE  Numbers[drawn + 1] \in AllNumbers
  BY NumbersInOrder

-----------------------------------------------------------------------------
(* What was so of an order still is.                                       *)

LEMMA ReachedFurther ==
  ASSUME Grown, NEW i \in DOMAIN orders
  PROVE  /\ i \in DOMAIN orders'
         /\ \A s \in Statuses : Reached(s, orders[i].status) => Reached(s, orders'[i].status)
         /\ \A kind : Happened(kind, orders[i].status) => Happened(kind, orders'[i].status)
<1>1. orders'[i].status = orders[i].status \/ orders'[i].status \in Follows(orders[i].status)
  BY DEF Grown
<1>2. CASE orders'[i].status = orders[i].status
  BY <1>2 DEF Grown
<1>3. CASE orders'[i].status \in Follows(orders[i].status)
  <2> DEFINE s == orders[i].status  t == orders'[i].status
  <2>1. t \in Statuses /\ t # "reserved" /\ s # "cancelled" /\ (s = "confirmed" => t # "pending")
    BY <1>3, FollowsTyped
  <2> QED BY <2>1 DEF Reached, Happened, Grown, Statuses
<1> QED BY <1>1, <1>2, <1>3

LEMMA TableStep ==
  ASSUME TypeOK, Numbered, Next
  PROVE  OrdersTyped' /\ Grown
<1>1. OrdersTyped
  BY DEF OrdersTyped, TypeOK
<1>2. CASE orders' = orders
  BY <1>1, <1>2 DEF OrdersTyped, Grown
<1>3. CASE Checkout
  <2>1. PICK by \in Customers \cup {Nobody}, status \in {"reserved", "pending"} : Adds(Numbers[drawn + 1], by, status)
    BY <1>3 DEF Checkout
  <2>2. Len(orders) < MaxOrders /\ Numbers[drawn + 1] \in AllNumbers
    BY <1>3, DrawnIsNumber DEF Checkout, TypeOK
  <2>3. status \in Statuses
    BY DEF Statuses
  <2> QED BY <1>1, <2>1, <2>2, <2>3, AddsOne
<1>4. CASE Update
  BY <1>1, <1>4, UpdatesOne
<1>5. ASSUME NEW c \in Customers, Post(c) \/ PostUnanswered(c), orders' # orders PROVE OrdersTyped' /\ Grown
  <2>1. Len(orders) < MaxOrders /\ Adds(turn[c].number, c, "pending")
    BY <1>1, <1>5, BoundsAreNaturals DEF Post, PostUnanswered, OrdersTyped
  <2>2. turn[c].number \in AllNumbers
    BY <1>5 DEF Numbered, Post, PostUnanswered
  <2> QED BY <1>1, <2>1, <2>2, AddsOne DEF Statuses
<1> QED BY <1>2, <1>3, <1>4, <1>5, Framed DEF Frames

-----------------------------------------------------------------------------
(* The turns. *)

LEMMA Said ==
  ASSUME TypeOK, NEW c \in Customers, NEW answer \in Answers,
         NEW number \in AllNumbers \cup {Nothing}, NEW i \in 0..MaxOrders,
         Says(c, answer, number, i)
  PROVE  /\ turn' \in [Customers -> Turn] /\ \A d \in Customers \ {c} : turn'[d] = turn[d]
         /\ turn'[c].at = "idle" /\ turn'[c].said = answer /\ turn'[c].number = number
<1> DEFINE t == [at |-> "idle", number |-> number, said |-> answer, of |-> i]
<1>1. t \in Turn
  BY DEF Turn
<1>2. turn' = [turn EXCEPT ![c] = t] /\ turn \in [Customers -> Turn]
  BY DEF Says, TypeOK
<1> QED BY <1>1, <1>2

LEMMA Drawing ==
  ASSUME TypeOK, NEW c \in Customers, NEW number \in AllNumbers, turn[c].said # "receipt", Drew(c, number)
  PROVE  /\ turn' \in [Customers -> Turn] /\ \A d \in Customers \ {c} : turn'[d] = turn[d]
         /\ turn'[c].number = number /\ turn'[c].said # "receipt"
<1>0. turn \in [Customers -> Turn] /\ turn[c] \in Turn
  BY DEF TypeOK
<1>1. turn' = [turn EXCEPT ![c] = [turn[c] EXCEPT !.at = "post", !.number = number]]
  BY <1>0 DEF Drew
<1> DEFINE t == [turn[c] EXCEPT !.at = "post", !.number = number]
<1>2. t \in Turn /\ t.number = number /\ t.said = turn[c].said
  BY <1>0 DEF Turn
<1> HIDE DEF t
<1>3. turn' = [turn EXCEPT ![c] = t]
  BY <1>1 DEF t
<1> QED BY <1>0, <1>2, <1>3

\* The newest of the orders found is one of them.
LEMMA NewestIsFound ==
  ASSUME NEW n \in Nat, NEW I \in SUBSET (1..n), I # {}
  PROVE  Newest(I) \in I
<1> DEFINE U == {m \in Nat : \A j \in I : j <= m}
<1>1. n \in U
  OBVIOUS
<1> DEFINE R == OpToRel(<, Nat)
<1>2. IsWellFoundedOn(R, Nat)
  BY NatLessThanWellFounded
<1>3. \A x, y \in Nat : y < x => <<y, x>> \in R
  BY DEF OpToRel
<1>4. U \in SUBSET Nat /\ U # {}
  BY <1>1
<1> HIDE DEF R, U
<1>5. PICK m \in U : \A k \in U : ~ (<<k, m>> \in R)
  BY <1>2, <1>4, WFMin
<1>6. m \in Nat /\ \A j \in I : j <= m
  BY <1>5 DEF U
<1>7. m \in I
  <2> SUFFICES ASSUME m \notin I PROVE FALSE
    OBVIOUS
  <2>1. \A j \in I : j \in Nat /\ j >= 1 /\ j <= m - 1
    BY <1>6
  <2>4. PICK j \in I : TRUE
    OBVIOUS
  <2>5. m - 1 \in Nat /\ m - 1 < m
    BY <1>6, <2>1, <2>4
  <2>2. m - 1 \in U /\ m - 1 < m
    BY <2>1, <2>5 DEF U
  <2>3. m - 1 \in Nat
    BY <2>2 DEF U
  <2> QED BY <1>3, <1>5, <1>6, <2>2, <2>3
<1> QED BY <1>6, <1>7 DEF Newest

\* A receipt is of an order that is in the table.
Receipted(c) == \E i \in DOMAIN orders : orders[i].number = turn[c].number /\ orders[i].by = c

\* One turn's answer changes; a receipt that stays is of an order that stays.
LEMMA TurnsStay ==
  ASSUME TypeOK, Numbered, ReceiptIsStored, Grown, NEW c \in Customers,
         \A d \in Customers \ {c} : turn'[d] = turn[d],
         turn'[c].at = "post" => turn'[c].number \in AllNumbers,
         turn'[c].said = "receipt" => turn'[c].at = "idle" /\ Receipted(c)'
  PROVE  Numbered' /\ ReceiptIsStored'
<1>1. Numbered'
  BY DEF Numbered
<1>2. ASSUME NEW d \in Customers, turn'[d].said = "receipt"
      PROVE  \E i \in DOMAIN orders' : orders'[i].number = turn'[d].number /\ orders'[i].by = d
  <2>1. CASE d = c
    BY <1>2, <2>1 DEF Receipted
  <2>2. CASE d # c
    <3>1. PICK i \in DOMAIN orders : orders[i].number = turn[d].number /\ orders[i].by = d
      BY <1>2, <2>2 DEF ReceiptIsStored
    <3> QED BY <2>2, <3>1 DEF Grown
  <2> QED BY <2>1, <2>2
<1> QED BY <1>1, <1>2 DEF ReceiptIsStored

LEMMA TurnStep ==
  ASSUME TypeOK, Numbered, ReceiptIsStored, Next
  PROVE  turn' \in [Customers -> Turn] /\ Numbered' /\ ReceiptIsStored'
<1> DEFINE Right == turn' \in [Customers -> Turn] /\ Numbered' /\ ReceiptIsStored'
<1>0. Grown /\ turn \in [Customers -> Turn]
  BY TableStep DEF TypeOK
<1>1. CASE turn' = turn
  <2>1. Numbered'
    BY <1>1 DEF Numbered
  <2>2. ReceiptIsStored'
    BY <1>0, <1>1 DEF ReceiptIsStored, Grown
  <2> QED BY <1>0, <1>1, <2>1, <2>2
<1>2. CASE Restart
  <2>1. turn' = [c \in Customers |-> Quiet] /\ Quiet \in Turn /\ Quiet.said = "nothing" /\ Quiet.at = "idle"
    BY <1>2, BoundsAreNaturals DEF Restart, Quiet, Turn, Answers
  <2>2. turn' \in [Customers -> Turn] /\ \A c \in Customers : turn'[c].said = "nothing" /\ turn'[c].at = "idle"
    BY <2>1
  <2> QED BY <2>2 DEF Numbered, ReceiptIsStored
<1>3. ASSUME NEW c \in Customers, NEW answer \in Answers \ {"receipt"},
             NEW number \in AllNumbers \cup {Nothing}, NEW i \in 0..MaxOrders, Says(c, answer, number, i)
      PROVE  Right
  BY <1>0, <1>3, Said, TurnsStay
<1>4. ASSUME NEW c \in Customers, turn[c].at # "idle", NEW number \in AllNumbers, Drew(c, number)
      PROVE  Right
  <2>1. turn[c].said # "receipt"
    BY <1>4 DEF Numbered
  <2> QED BY <1>0, <1>4, <2>1, Drawing, TurnsStay
<1>5. Nothing \in AllNumbers \cup {Nothing} /\ 0 \in 0..MaxOrders /\ "error" \in Answers \ {"receipt"}
  BY BoundsAreNaturals DEF Answers
<1>6. ASSUME NEW c \in Customers, PlaceOrder(c) PROVE Right
  <2>1. CASE source = Off
    BY <1>3, <1>5, <1>6, <2>1 DEF PlaceOrder, Configured
  <2>2. CASE source # Off
    <3> DEFINE t == [Quiet EXCEPT !.at = "number"]
    <3>1. t \in Turn /\ t.at = "number" /\ t.said = "nothing"
      BY BoundsAreNaturals DEF Quiet, Turn, Answers
    <3>2. turn' = [turn EXCEPT ![c] = t]
      BY <1>6, <2>2 DEF PlaceOrder, Configured
    <3> HIDE DEF t
    <3>3. turn' \in [Customers -> Turn] /\ turn'[c] = t /\ \A d \in Customers \ {c} : turn'[d] = turn[d]
      BY <1>0, <3>1, <3>2
    <3> QED BY <1>0, <3>1, <3>3, TurnsStay
  <2> QED BY <2>1, <2>2
<1>7. ASSUME NEW c \in Customers, DrawNumber(c) PROVE Right
  <2>1. CASE source = Off
    BY <1>3, <1>5, <1>7, <2>1 DEF DrawNumber, Configured
  <2>2. CASE source # Off
    <3>1. drawn < Len(Numbers) /\ Drew(c, Numbers[drawn + 1]) /\ turn[c].at # "idle"
      BY <1>7, <2>2 DEF DrawNumber, Configured
    <3>2. Numbers[drawn + 1] \in AllNumbers
      BY <3>1, DrawnIsNumber DEF TypeOK
    <3> QED BY <1>4, <3>1, <3>2
  <2> QED BY <2>1, <2>2
<1>8. ASSUME NEW c \in Customers, DrawFails(c) PROVE Right
  <2>1. PICK number \in Fallbacks : Drew(c, number)
    BY <1>8 DEF DrawFails
  <2>2. number \in AllNumbers /\ turn[c].at # "idle"
    BY <1>8 DEF DrawFails, AllNumbers
  <2> QED BY <1>4, <2>1, <2>2
<1>9. ASSUME NEW c \in Customers, Post(c) PROVE Right
  <2>0. turn[c].number \in AllNumbers
    BY <1>9 DEF Post, Numbered
  <2>1. CASE Taken(turn[c].number) \/ Len(orders) >= MaxOrders
    <3>1. Says(c, "error", turn[c].number, 0)
      BY <1>9, <2>1 DEF Post, SaysRefused
    <3> QED BY <1>3, <1>5, <2>0, <3>1
  <2>2. CASE ~ (Taken(turn[c].number) \/ Len(orders) >= MaxOrders)
    <3>1. Adds(turn[c].number, c, "pending") /\ Says(c, "receipt", turn[c].number, Len(orders) + 1)
      BY <1>9, <2>2 DEF Post
    <3>2. Len(orders) < MaxOrders /\ Len(orders) + 1 \in 0..MaxOrders
      BY <2>2, BoundsAreNaturals DEF TypeOK
    <3>3. /\ Len(orders) + 1 \in DOMAIN orders'
          /\ orders'[Len(orders) + 1] = [number |-> turn[c].number, by |-> c, status |-> "pending"]
      BY <2>0, <3>1, <3>2, AddsOne DEF OrdersTyped, TypeOK, Statuses
    <3>4. /\ turn' \in [Customers -> Turn] /\ \A d \in Customers \ {c} : turn'[d] = turn[d]
          /\ turn'[c].at = "idle" /\ turn'[c].number = turn[c].number
      BY <2>0, <3>1, <3>2, Said DEF Answers
    <3>5. Receipted(c)'
      BY <3>3, <3>4 DEF Receipted
    <3> QED BY <1>0, <3>4, <3>5, TurnsStay
  <2> QED BY <2>1, <2>2
<1>10. ASSUME NEW c \in Customers, PostUnanswered(c) PROVE Right
  <2>1. turn[c].number \in AllNumbers /\ Says(c, "error", turn[c].number, 0)
    BY <1>10 DEF PostUnanswered, Numbered
  <2> QED BY <1>3, <1>5, <2>1
<1>11. ASSUME NEW c \in Customers, AskStatus(c) PROVE Right
  <2>1. PICK number \in {orders[i].number : i \in DOMAIN orders} \cup {Nothing} :
          IF source = Off THEN Says(c, "error", number, 0)
          ELSE IF Matching(c, number) = {} THEN Says(c, "nothing", number, 0)
          ELSE Says(c, "status", number, Newest(Matching(c, number)))
    BY <1>11 DEF AskStatus, Configured
  <2>2. number \in AllNumbers \cup {Nothing}
    <3>1. \A i \in DOMAIN orders : orders[i] \in Order
      BY DEF TypeOK
    <3> QED BY <2>1, <3>1 DEF Order
  <2>3. CASE source = Off
    BY <1>3, <1>5, <2>1, <2>2, <2>3
  <2>4. CASE source # Off /\ Matching(c, number) = {}
    BY <1>3, <1>5, <2>1, <2>2, <2>4 DEF Answers
  <2>5. CASE source # Off /\ Matching(c, number) # {}
    <3>1. Matching(c, number) \in SUBSET (1..Len(orders)) /\ Len(orders) \in Nat /\ Len(orders) <= MaxOrders
      BY DEF Matching, TypeOK
    <3>2. Newest(Matching(c, number)) \in 1..Len(orders)
      BY <2>5, <3>1, NewestIsFound
    <3>3. Newest(Matching(c, number)) \in 0..MaxOrders
      BY <3>1, <3>2, BoundsAreNaturals
    <3>4. Says(c, "status", number, Newest(Matching(c, number)))
      BY <2>1, <2>5
    <3> QED BY <1>3, <2>2, <3>3, <3>4 DEF Answers
  <2> QED BY <2>3, <2>4, <2>5
<1> QED BY <1>1, <1>2, <1>6, <1>7, <1>8, <1>9, <1>10, <1>11, Framed DEF Frames, Proceeds

-----------------------------------------------------------------------------
(* The watchers. *)

\* What a watcher has heard has happened.
Hearsay(r, O) == r \in Watch /\ \A n \in DOMAIN r.events : EventHolds(r.events[n], O)

LEMMA EventStays ==
  ASSUME Grown, NEW event \in Event, EventHolds(event, orders)
  PROVE  EventHolds(event, orders')
<1>1. event.status \in Statuses
  BY DEF Event
<1> QED BY <1>1, ReachedFurther DEF EventHolds

LEMMA HearsayStays ==
  ASSUME Grown, NEW r, Hearsay(r, orders)
  PROVE  Hearsay(r, orders')
<1>1. r.events \in Seq(Event)
  BY DEF Hearsay, Watch
<1>2. ASSUME NEW n \in DOMAIN r.events PROVE EventHolds(r.events[n], orders')
  <2>1. r.events[n] \in Event
    BY <1>1
  <2> QED BY <2>1, EventStays DEF Hearsay
<1> QED BY <1>2 DEF Hearsay

LEMMA HearsayOf ==
  ASSUME TypeOK, EventsHold, NEW w \in Objects
  PROVE  Hearsay(watch[w], orders) /\ watch[w] \in Watch
  BY DEF Hearsay, EventsHold, TypeOK

LEMMA HearsMore ==
  ASSUME NEW O, NEW r, Hearsay(r, O), NEW event \in Event, EventHolds(event, O)
  PROVE  Hearsay([r EXCEPT !.events = Append(@, event)], O)
<1> DEFINE x == [r EXCEPT !.events = Append(@, event)]
<1>1. r \in Watch /\ r.events \in Seq(Event)
  BY DEF Hearsay, Watch
<1>2. Append(r.events, event) \in Seq(Event)
  BY <1>1
<1>3. x \in Watch /\ x.events = Append(r.events, event)
  BY <1>1, <1>2 DEF Watch
<1>4. ASSUME NEW n \in DOMAIN x.events PROVE EventHolds(x.events[n], O)
  <2>1. x.events[n] = event \/ (n \in DOMAIN r.events /\ x.events[n] = r.events[n])
    <3> HIDE DEF x
    <3> QED BY <1>1, <1>3
  <2> HIDE DEF x
  <2> QED BY <2>1 DEF Hearsay
<1> QED BY <1>3, <1>4 DEF Hearsay

\* The first event is dealt with.
LEMMA HearsLess ==
  ASSUME NEW O, NEW r, Hearsay(r, O), r.events # <<>>
  PROVE  /\ Hearsay([r EXCEPT !.events = Tail(@)], O)
         /\ Head(r.events) \in Event /\ EventHolds(Head(r.events), O)
<1> DEFINE x == [r EXCEPT !.events = Tail(@)]
<1>1. r \in Watch /\ r.events \in Seq(Event)
  BY DEF Hearsay, Watch
<1>2. Tail(r.events) \in Seq(Event) /\ 1 \in DOMAIN r.events /\ Head(r.events) = r.events[1]
  BY <1>1
<1>3. x \in Watch /\ x.events = Tail(r.events)
  BY <1>1, <1>2 DEF Watch
<1>4. ASSUME NEW n \in DOMAIN x.events PROVE EventHolds(x.events[n], O)
  <2>1. n + 1 \in DOMAIN r.events /\ x.events[n] = r.events[n + 1]
    <3> HIDE DEF x
    <3> QED BY <1>1, <1>3
  <2> HIDE DEF x
  <2> QED BY <2>1 DEF Hearsay
<1>5. Head(r.events) \in Event
  BY <1>1, <1>2
<1> QED BY <1>2, <1>3, <1>4, <1>5 DEF Hearsay

\* It is enough that each watcher's record fits.
LEMMA WatchersFit ==
  ASSUME DOMAIN watch' = Objects, watch' = [w \in Objects |-> watch'[w]],
         \A w \in Objects : Hearsay(watch'[w], orders')
  PROVE  watch' \in [Objects -> Watch] /\ EventsHold'
<1>1. watch' \in [Objects -> Watch]
  BY DEF Hearsay
<1>2. EventsHold'
  BY DEF Hearsay, EventsHold
<1> QED BY <1>1, <1>2

\* A change of the table is sent to every watcher that has joined.
LEMMA AllHear ==
  ASSUME TypeOK, EventsHold, Grown, NEW event \in Event, EventHolds(event, orders'), Emits(event)
  PROVE  watch' \in [Objects -> Watch] /\ EventsHold'
<1>1. ASSUME NEW w \in Objects PROVE Hearsay(watch'[w], orders')
  <2>1. watch'[w] = [watch[w] EXCEPT !.events = Append(@, event)] \/ watch'[w] = watch[w]
    BY DEF Emits
  <2>2. Hearsay(watch[w], orders')
    BY HearsayOf, HearsayStays
  <2> QED BY <2>1, <2>2, HearsMore
<1> QED BY <1>1, WatchersFit DEF Emits

\* One watcher changes.
LEMMA OneHears ==
  ASSUME TypeOK, EventsHold, Grown, NEW w \in Objects, NEW r, Hearsay(r, orders'),
         watch' = [watch EXCEPT ![w] = r]
  PROVE  watch' \in [Objects -> Watch] /\ EventsHold'
<1>1. ASSUME NEW v \in Objects PROVE Hearsay(watch'[v], orders')
  <2>1. v = w \/ watch'[v] = watch[v]
    BY DEF TypeOK
  <2>2. Hearsay(watch[v], orders')
    BY HearsayOf, HearsayStays
  <2>3. watch'[w] = r
    BY DEF TypeOK
  <2> QED BY <2>1, <2>2, <2>3
<1> QED BY <1>1, WatchersFit DEF TypeOK

LEMMA Becoming ==
  ASSUME TypeOK, EventsHold, Grown, NEW w \in Objects,
         NEW life \in {"unused", "connecting", "joined", "deaf", "down", "closing", "dead"},
         Becomes(w, life)
  PROVE  watch' \in [Objects -> Watch] /\ EventsHold'
<1> DEFINE none == <<>>
           r == [watch[w] EXCEPT !.life = life, !.events = none]
<1>0. none \in Seq(Event)
  OBVIOUS
<1> HIDE DEF none
<1>1. watch[w] \in Watch /\ watch \in [Objects -> Watch]
  BY DEF TypeOK
<1>2. r \in Watch /\ r.events = none
  BY <1>0, <1>1 DEF Watch
<1>3. watch' = [watch EXCEPT ![w] = r]
  BY <1>1 DEF Becomes, none
<1> HIDE DEF r
<1>4. Hearsay(r, orders')
  BY <1>2 DEF Hearsay, none
<1> QED BY <1>3, <1>4, OneHears

LEMMA NewObjectIsFree ==
  ASSUME NEW r \in Reconcilers, \E w \in Objects : Free(r, w)
  PROVE  NewObject(r) \in Objects
  BY DEF NewObject

LEMMA Starting ==
  ASSUME TypeOK, EventsHold, Grown, NEW r \in Reconcilers, NEW key \in Keys \cup {Off},
         NEW listed \in Objects \cup {Nobody}, Starts(r, key, listed)
  PROVE  /\ watch' \in [Objects -> Watch] /\ EventsHold'
         /\ registry' \in Objects \cup {Nobody} /\ rec' \in [Reconcilers -> Reconciliation]
<1>1. rec' \in [Reconcilers -> Reconciliation]
  <2>1. Idle \in Reconciliation
    BY DEF Idle, Reconciliation
  <2> QED BY <2>1 DEF Starts, Leave, TypeOK
<1>2. CASE key = Off
  <2>1. watch' = watch /\ registry' = listed
    BY <1>2 DEF Starts
  <2>2. \A w \in Objects : Hearsay(watch'[w], orders')
    BY <2>1, HearsayOf, HearsayStays
  <2> QED BY <1>1, <2>1, <2>2, WatchersFit DEF TypeOK
<1>3. CASE key # Off
  <2> DEFINE x == [Unused EXCEPT !.life = "connecting", !.key = key]
  <2>1. x \in Watch /\ x.events = <<>>
    <3> DEFINE none == <<>>
    <3>1. none \in Seq(Event)
      OBVIOUS
    <3>2. Unused = [life |-> "unused", key |-> Off, events |-> none]
      BY DEF Unused
    <3> HIDE DEF none
    <3>3. x \in Watch /\ x.events = none
      BY <3>1, <3>2 DEF Watch
    <3> QED BY <3>3 DEF none
  <2>2. Hearsay(x, orders')
    BY <2>1 DEF Hearsay
  <2>3. watch' = [watch EXCEPT ![NewObject(r)] = x] /\ registry' = NewObject(r) /\ NewObject(r) \in Objects
    BY <1>3, NewObjectIsFree DEF Starts
  <2> HIDE DEF x
  <2> QED BY <1>1, <2>2, <2>3, OneHears
<1> QED BY <1>2, <1>3

LEMMA Stopping ==
  ASSUME TypeOK, EventsHold, Grown, NEW r \in Reconcilers, NEW key \in Keys \cup {Off},
         NEW w \in Objects, NEW listed \in Objects \cup {Nobody}, Stops(r, key, w, listed)
  PROVE  /\ watch' \in [Objects -> Watch] /\ EventsHold'
         /\ registry' \in Objects \cup {Nobody} /\ rec' \in [Reconcilers -> Reconciliation]
<1>1. CASE Alive(w)
  <2>1. Becomes(w, "closing") /\ registry' = listed
    BY <1>1 DEF Stops
  <2>2. rec' = [rec EXCEPT ![r] = [at |-> "task", key |-> key, of |-> w]]
    BY <1>1 DEF Stops
  <2>3. rec' \in [Reconcilers -> Reconciliation]
    BY <2>2 DEF Reconciliation, TypeOK
  <2> QED BY <2>1, <2>3, Becoming
<1>2. CASE ~ Alive(w)
  BY <1>2, Starting DEF Stops
<1> QED BY <1>1, <1>2

\* A reconciliation that has read the rows has the key they have.
LEMMA ReadKey ==
  ASSUME TypeOK, NEW r \in Reconcilers, rec' = [rec EXCEPT ![r].at = "rows", ![r].key = source]
  PROVE  rec' \in [Reconcilers -> Reconciliation]
<1> DEFINE x == [rec[r] EXCEPT !.at = "rows", !.key = source]
<1>1. rec[r] \in Reconciliation /\ rec \in [Reconcilers -> Reconciliation] /\ source \in Keys \cup {Off}
  BY DEF TypeOK
<1>2. x \in Reconciliation
  BY <1>1 DEF Reconciliation
<1>3. rec' = [rec EXCEPT ![r] = x]
  BY <1>1
<1> HIDE DEF x
<1> QED BY <1>1, <1>2, <1>3

LEMMA BridgeStays ==
  ASSUME TypeOK, EventsHold, Grown, watch' = watch
  PROVE  watch' \in [Objects -> Watch] /\ EventsHold'
<1>1. \A w \in Objects : Hearsay(watch'[w], orders')
  BY HearsayOf, HearsayStays
<1> QED BY <1>1, WatchersFit DEF TypeOK

LEMMA RecStep ==
  ASSUME TypeOK, EventsHold, Grown, NEW r \in Reconcilers, Reconciling(r)
  PROVE  /\ watch' \in [Objects -> Watch] /\ EventsHold'
         /\ registry' \in Objects \cup {Nobody} /\ rec' \in [Reconcilers -> Reconciliation]
<1>0. rec[r] \in Reconciliation /\ rec[r].key \in Keys \cup {Off} /\ registry \in Objects \cup {Nobody}
  BY DEF TypeOK, Reconciliation
<1>1. CASE ReadsRows(r)
  BY <1>0, <1>1, ReadKey, BridgeStays DEF ReadsRows
<1>2. CASE Reconciles(r)
  <2> DEFINE key == rec[r].key
  <2>1. CASE registry = Nobody
    <3>1. Starts(r, key, Nobody)
      BY <1>2, <2>1 DEF Reconciles
    <3> QED BY <1>0, <3>1, Starting
  <2>2. CASE registry # Nobody /\ key = Off
    <3>1. Stops(r, Off, registry, Nobody) /\ registry \in Objects
      BY <1>0, <1>2, <2>2 DEF Reconciles
    <3> QED BY <3>1, Stopping
  <2>3. CASE registry # Nobody /\ key # Off /\ SameFingerprint(key, registry)
    <3>1. Leave(r) /\ registry' = registry /\ watch' = watch
      BY <1>2, <2>3 DEF Reconciles
    <3>2. rec' \in [Reconcilers -> Reconciliation]
      BY <3>1 DEF Leave, Idle, Reconciliation, TypeOK
    <3> QED BY <1>0, <3>1, <3>2, BridgeStays
  <2>4. CASE registry # Nobody /\ key # Off /\ ~ SameFingerprint(key, registry)
    <3>1. Stops(r, key, registry, registry) /\ registry \in Objects
      BY <1>0, <1>2, <2>4 DEF Reconciles
    <3> QED BY <1>0, <3>1, Stopping
  <2> QED BY <2>1, <2>2, <2>3, <2>4
<1>3. CASE Awaited(r)
  <2>1. Starts(r, rec[r].key, registry)
    BY <1>3 DEF Awaited
  <2> QED BY <1>0, <2>1, Starting
<1> QED BY <1>1, <1>2, <1>3 DEF Reconciling

LEMMA WatchStep ==
  ASSUME TypeOK, Numbered, EventsHold, Next
  PROVE  watch' \in [Objects -> Watch] /\ EventsHold'
<1> DEFINE Right == watch' \in [Objects -> Watch] /\ EventsHold'
<1>0. Grown /\ OrdersTyped'
  BY TableStep
<1>1. CASE watch' = watch
  BY <1>0, <1>1, BridgeStays
\* An order that is added, or changed, has the status of which its event tells.
<1>2. ASSUME NEW number \in AllNumbers, NEW by \in Customers \cup {Nobody}, NEW status \in Statuses,
             Len(orders) < MaxOrders, Adds(number, by, status)
      PROVE  Right
  <2> DEFINE event == [of |-> Len(orders) + 1, status |-> status]
  <2>1. /\ Len(orders) + 1 \in DOMAIN orders'
        /\ orders'[Len(orders) + 1] = [number |-> number, by |-> by, status |-> status]
    BY <1>2, AddsOne DEF OrdersTyped, TypeOK
  <2>2. event \in Event
    BY <1>2, BoundsAreNaturals DEF Event, TypeOK
  <2>3. EventHolds(event, orders')
    BY <2>1 DEF EventHolds, Reached
  <2>4. Emits(event)
    BY <1>2 DEF Adds
  <2> QED BY <1>0, <2>2, <2>3, <2>4, AllHear
<1>3. CASE Checkout
  <2>1. PICK by \in Customers \cup {Nobody}, status \in {"reserved", "pending"} : Adds(Numbers[drawn + 1], by, status)
    BY <1>3 DEF Checkout
  <2>2. Len(orders) < MaxOrders /\ Numbers[drawn + 1] \in AllNumbers /\ status \in Statuses
    BY <1>3, DrawnIsNumber DEF Checkout, TypeOK, Statuses
  <2> QED BY <1>2, <2>1, <2>2
<1>4. CASE Update
  <2>1. PICK i \in DOMAIN orders : \E status \in Follows(orders[i].status) :
          /\ orders' = [orders EXCEPT ![i].status = status]
          /\ Emits([of |-> i, status |-> status])
    BY <1>4 DEF Update
  <2>2. PICK status \in Follows(orders[i].status) :
          /\ orders' = [orders EXCEPT ![i].status = status]
          /\ Emits([of |-> i, status |-> status])
    BY <2>1
  <2>3. orders[i] \in Order /\ i \in 1..MaxOrders
    BY <2>1, BoundsAreNaturals DEF TypeOK
  <2>4. i \in DOMAIN orders' /\ orders'[i].status = status
    BY <2>1, <2>2, <2>3 DEF Order
  <2>5. [of |-> i, status |-> status] \in Event /\ EventHolds([of |-> i, status |-> status], orders')
    BY <2>2, <2>3, <2>4, FollowsTyped DEF Event, EventHolds, Reached
  <2> QED BY <1>0, <2>2, <2>5, AllHear
<1>5. CASE Restart
  <2>1. watch' = [w \in Objects |-> Unused]
    BY <1>5 DEF Restart
  <2>2. Hearsay(Unused, orders')
    <3>1. <<>> \in Seq(Event)
      OBVIOUS
    <3> QED BY <3>1 DEF Hearsay, Unused, Watch
  <2> QED BY <2>1, <2>2, WatchersFit
<1>6. ASSUME NEW c \in Customers, Post(c) \/ PostUnanswered(c), watch' # watch PROVE Right
  <2>1. Len(orders) < MaxOrders /\ Adds(turn[c].number, c, "pending")
    BY <1>6, BoundsAreNaturals DEF Post, PostUnanswered, TypeOK
  <2>2. turn[c].number \in AllNumbers
    BY <1>6 DEF Numbered, Post, PostUnanswered
  <2> QED BY <1>2, <2>1, <2>2 DEF Statuses
<1>7. ASSUME NEW w \in Objects, Hears(w) PROVE Right
  <2>1. watch[w].events # <<>> /\ watch' = [watch EXCEPT ![w].events = Tail(@)]
    BY <1>7 DEF Hears
  <2>2. watch' = [watch EXCEPT ![w] = [watch[w] EXCEPT !.events = Tail(@)]]
    BY <2>1
  <2>3. Hearsay([watch[w] EXCEPT !.events = Tail(@)], orders')
    BY <1>0, <2>1, HearsayOf, HearsayStays, HearsLess
  <2> QED BY <1>0, <2>2, <2>3, OneHears
<1>8. ASSUME NEW w \in Objects, Joins(w) \/ Refused(w) \/ Drops(w) \/ Reconnects(w) \/ Closes(w)
      PROVE  Right
  <2>1. \E life \in {"unused", "connecting", "joined", "deaf", "down", "closing", "dead"} : Becomes(w, life)
    BY <1>8 DEF Joins, Refused, Drops, Reconnects, Closes
  <2> QED BY <1>0, <2>1, Becoming
<1>9. ASSUME NEW r \in Reconcilers, Reconciling(r) PROVE Right
  BY <1>0, <1>9, RecStep
<1> QED BY <1>1, <1>3, <1>4, <1>5, <1>6, <1>7, <1>8, <1>9, Framed DEF Frames, Goes

LEMMA RegistryStep ==
  ASSUME TypeOK, Numbered, EventsHold, Next
  PROVE  registry' \in Objects \cup {Nobody} /\ rec' \in [Reconcilers -> Reconciliation]
<1> DEFINE Right == registry' \in Objects \cup {Nobody} /\ rec' \in [Reconcilers -> Reconciliation]
<1>0. Grown /\ registry \in Objects \cup {Nobody} /\ rec \in [Reconcilers -> Reconciliation]
  BY TableStep DEF TypeOK
<1>1. CASE registry' = registry /\ rec' = rec
  BY <1>0, <1>1
<1>2. CASE Restart
  BY <1>2 DEF Restart, Idle, Reconciliation
<1>3. CASE Tick
  BY <1>0, <1>3, ReadKey DEF Tick, Reconcilers
<1>4. CASE Edit
  <2> DEFINE r == CHOOSE r \in Requests : rec[r].at = "idle"
  <2>1. r \in Reconcilers
    BY <1>4 DEF Edit, Reconcilers
  <2>2. rec' = [rec EXCEPT ![r].at = "asked"] /\ registry' = registry
    BY <1>4 DEF Edit
  <2> HIDE DEF r
  <2>3. rec[r] \in Reconciliation
    BY <1>0, <2>1
  <2>4. rec' \in [Reconcilers -> Reconciliation]
    BY <1>0, <2>1, <2>2, <2>3 DEF Reconciliation
  <2> QED BY <1>0, <2>2, <2>4
<1>5. ASSUME NEW r \in Reconcilers, Reconciling(r) PROVE Right
  BY <1>0, <1>5, RecStep
<1>6. (registry' = registry /\ rec' = rec) \/ Restart \/ Tick \/ Edit \/ \E r \in Reconcilers : Reconciling(r)
  <2>1. CASE Tick BY <2>1
  <2>2. CASE Edit BY <2>2
  <2> QED BY Framed DEF Frames
<1> QED BY <1>1, <1>2, <1>3, <1>4, <1>5, <1>6

-----------------------------------------------------------------------------
(* The tasks, and what was told. *)

LEMMA DoneTyped ==
  Done \in TaskRecord /\ Done.left = <<>> /\ Done.sends = FALSE
<1> DEFINE none == <<>>
<1>1. none \in Seq(AlertKinds)
  OBVIOUS
<1>2. Done = [of |-> 0, left |-> none, sends |-> FALSE]
  BY DEF Done
<1> HIDE DEF none
<1>3. Done \in TaskRecord /\ Done.left = none /\ Done.sends = FALSE
  BY <1>1, <1>2, BoundsAreNaturals DEF TaskRecord
<1> QED BY <1>3 DEF none

\* What a task still has to tell has happened.
Tells(r, O) ==
  /\ r \in TaskRecord
  /\ r = Done \/ r.left # <<>>
  /\ \A n \in DOMAIN r.left : AlertHolds(r.of, r.left[n], O)

LEMMA DoneTells == ASSUME NEW O PROVE Tells(Done, O)
  BY DoneTyped DEF Tells

LEMMA TellsStill ==
  ASSUME Grown, NEW r, Tells(r, orders)
  PROVE  Tells(r, orders')
  BY ReachedFurther DEF Tells, AlertHolds

LEMMA TellsOf ==
  ASSUME TypeOK, TasksHold, NEW k \in Tasks
  PROVE  Tells(task[k], orders) /\ task[k] \in TaskRecord
  BY DEF Tells, TasksHold, TypeOK

\* The alerts an event calls for have happened.
LEMMA CalledFor ==
  ASSUME NEW s \in Statuses
  PROVE  /\ AlertsFor(s) \in Seq(AlertKinds)
         /\ \A n \in DOMAIN AlertsFor(s), t \in Statuses : Reached(s, t) => Happened(AlertsFor(s)[n], t)
<1>0. <<"confirmed", "admin_alert">> \in Seq(AlertKinds) /\ <<"pending", "admin_alert">> \in Seq(AlertKinds)
      /\ <<"cancelled">> \in Seq(AlertKinds)
  BY DEF AlertKinds
<1>1. CASE s = "reserved"
  <2>1. AlertsFor(s) = <<>>
    BY <1>1 DEF AlertsFor
  <2>2. <<>> \in Seq(AlertKinds)
    OBVIOUS
  <2> QED BY <2>1, <2>2
<1>2. CASE s = "pending"
  <2>1. AlertsFor(s) = <<"pending", "admin_alert">>
    BY <1>2 DEF AlertsFor
  <2>2. \A n \in DOMAIN AlertsFor(s) : AlertsFor(s)[n] \in {"pending", "admin_alert"}
    BY <2>1
  <2>3. \A t : Reached(s, t) => Happened("pending", t) /\ Happened("admin_alert", t)
    BY <1>2 DEF Reached, Happened
  <2>4. AlertsFor(s) \in Seq(AlertKinds)
    BY <1>0, <2>1
  <2>5. ASSUME NEW n \in DOMAIN AlertsFor(s), NEW t \in Statuses, Reached(s, t)
        PROVE  Happened(AlertsFor(s)[n], t)
    BY <2>2, <2>3, <2>5
  <2> QED BY <2>4, <2>5
<1>3. CASE s = "confirmed"
  <2>1. AlertsFor(s) = <<"confirmed", "admin_alert">>
    BY <1>3 DEF AlertsFor
  <2>2. \A n \in DOMAIN AlertsFor(s) : AlertsFor(s)[n] \in {"confirmed", "admin_alert"}
    BY <2>1
  <2>3. \A t : Reached(s, t) => Happened("confirmed", t) /\ Happened("admin_alert", t)
    BY <1>3 DEF Reached, Happened
  <2>4. AlertsFor(s) \in Seq(AlertKinds)
    BY <1>0, <2>1
  <2>5. ASSUME NEW n \in DOMAIN AlertsFor(s), NEW t \in Statuses, Reached(s, t)
        PROVE  Happened(AlertsFor(s)[n], t)
    BY <2>2, <2>3, <2>5
  <2> QED BY <2>4, <2>5
<1>4. CASE s = "cancelled"
  <2>1. AlertsFor(s) = <<"cancelled">>
    BY <1>4 DEF AlertsFor
  <2> QED BY <1>0, <1>4, <2>1 DEF Reached, Happened
<1> QED BY <1>1, <1>2, <1>3, <1>4 DEF Statuses

\* It is enough that each task's record fits.
LEMMA TasksFit ==
  ASSUME DOMAIN task' = Tasks, task' = [k \in Tasks |-> task'[k]],
         \A k \in Tasks : Tells(task'[k], orders')
  PROVE  task' \in [Tasks -> TaskRecord] /\ TasksHold'
<1>1. task' \in [Tasks -> TaskRecord]
  BY DEF Tells
<1>2. TasksHold'
  BY DEF Tells, TasksHold
<1> QED BY <1>1, <1>2

LEMMA OneTask ==
  ASSUME TypeOK, TasksHold, Grown, NEW k \in Tasks, NEW r, Tells(r, orders'),
         task' = [task EXCEPT ![k] = r]
  PROVE  task' \in [Tasks -> TaskRecord] /\ TasksHold'
<1>1. ASSUME NEW j \in Tasks PROVE Tells(task'[j], orders')
  <2>1. j = k \/ task'[j] = task[j]
    BY DEF TypeOK
  <2>2. Tells(task[j], orders')
    BY TellsOf, TellsStill
  <2>3. task'[k] = r
    BY DEF TypeOK
  <2> QED BY <2>1, <2>2, <2>3
<1> QED BY <1>1, TasksFit DEF TypeOK

LEMMA TaskStarted ==
  ASSUME TypeOK, TasksHold, OrdersTyped', Grown, NEW event \in Event, EventHolds(event, orders'),
         StartsTask(event)
  PROVE  task' \in [Tasks -> TaskRecord] /\ TasksHold'
<1> DEFINE left == AlertsFor(event.status)
           r == [of |-> event.of, left |-> left, sends |-> FALSE]
<1>0. event.status \in Statuses /\ event.of \in 1..MaxOrders
  BY DEF Event
<1>1. left \in Seq(AlertKinds) /\ \A n \in DOMAIN left, t \in Statuses : Reached(event.status, t) => Happened(left[n], t)
  BY <1>0, CalledFor
<1>2. orders'[event.of].status \in Statuses
  <2>1. event.of \in DOMAIN orders' /\ orders' \in Seq(Order)
    BY DEF EventHolds, OrdersTyped
  <2>2. orders'[event.of] \in Order
    BY <2>1
  <2> QED BY <2>2 DEF Order
<1>3. CASE left = <<>>
  <2>1. task' = task
    BY <1>3 DEF StartsTask
  <2>2. \A k \in Tasks : Tells(task'[k], orders')
    BY <2>1, TellsOf, TellsStill
  <2> QED BY <2>1, <2>2, TasksFit DEF TypeOK
<1>4. CASE left # <<>>
  <2> DEFINE k == CHOOSE k \in Tasks : task[k] = Done
  <2>1. k \in Tasks /\ task' = [task EXCEPT ![k] = r]
    BY <1>4 DEF StartsTask
  <2> HIDE DEF k, left
  <2>2. r \in TaskRecord /\ r.left = left /\ r.of = event.of
    BY <1>0, <1>1, BoundsAreNaturals DEF TaskRecord
  <2> HIDE DEF r
  <2>3. Tells(r, orders')
    BY <1>1, <1>2, <1>4, <2>2 DEF Tells, AlertHolds, EventHolds
  <2> QED BY <2>1, <2>3, OneTask
<1> QED BY <1>3, <1>4

\* The first alert of a task at work is one that has happened.
LEMMA FirstHolds ==
  ASSUME TypeOK, TasksHold, NEW k \in Tasks, task[k] # Done
  PROVE  /\ First(k) \in Alert /\ AlertHolds(First(k).of, First(k).kind, orders)
         /\ task[k].left # <<>> /\ task[k].left \in Seq(AlertKinds)
<1>1. Tells(task[k], orders) /\ task[k].left \in Seq(AlertKinds)
  BY TellsOf DEF TaskRecord
<1>2. task[k].left # <<>>
  BY <1>1 DEF Tells
<1>3. 1 \in DOMAIN task[k].left /\ Head(task[k].left) = task[k].left[1] /\ Head(task[k].left) \in AlertKinds
  BY <1>1, <1>2
<1>4. AlertHolds(task[k].of, Head(task[k].left), orders)
  BY <1>1, <1>3 DEF Tells
<1>5. task[k].of \in 1..MaxOrders
  BY <1>4, BoundsAreNaturals DEF AlertHolds, TypeOK
<1> QED BY <1>1, <1>2, <1>3, <1>4, <1>5 DEF First, Alert

LEMMA GoesOn ==
  ASSUME TypeOK, TasksHold, Grown, NEW k \in Tasks, task[k] # Done, Onward(k)
  PROVE  task' \in [Tasks -> TaskRecord] /\ TasksHold'
<1>0. task[k].left # <<>> /\ task[k].left \in Seq(AlertKinds) /\ task[k] \in TaskRecord
  BY FirstHolds, TellsOf
<1>1. CASE Len(task[k].left) = 1
  <2>1. task' = [task EXCEPT ![k] = Done]
    BY <1>1 DEF Onward
  <2> QED BY <2>1, DoneTells, OneTask
<1>2. CASE Len(task[k].left) # 1
  <2> DEFINE r == [task[k] EXCEPT !.left = Tail(@), !.sends = FALSE]
             rest == Tail(task[k].left)
  <2>1. /\ rest \in Seq(AlertKinds) /\ rest # <<>>
        /\ \A n \in DOMAIN rest : n + 1 \in DOMAIN task[k].left /\ rest[n] = task[k].left[n + 1]
    <3> DEFINE all == task[k].left
    <3>1. all \in Seq(AlertKinds) /\ all # <<>> /\ Len(all) # 1 /\ rest = Tail(all)
      BY <1>0, <1>2
    <3> HIDE DEF all, rest
    <3>5. Len(all) \in Nat /\ Len(all) # 0
      BY <3>1, EmptySeq, LenProperties
    <3>6. Len(all) \in Nat /\ Len(all) > 1
      <4>1. \A n \in Nat : n # 0 /\ n # 1 => n > 1
        OBVIOUS
      <4> QED BY <3>1, <3>5, <4>1
    <3>7. Len(rest) = Len(all) - 1 /\ rest \in Seq(AlertKinds)
      BY <3>1, HeadTailProperties
    <3>2. Len(all) \in Nat /\ Len(all) > 1 /\ Len(rest) = Len(all) - 1 /\ rest \in Seq(AlertKinds)
      BY <3>6, <3>7
    <3>3. rest # <<>>
      BY <3>2
    <3>4. \A n \in DOMAIN rest : n + 1 \in DOMAIN all /\ rest[n] = all[n + 1]
      BY <3>1, <3>2
    <3> QED BY <3>2, <3>3, <3>4 DEF all
  <2>2. task' = [task EXCEPT ![k] = r]
    BY <1>2 DEF Onward
  <2>3. r = [task[k] EXCEPT !.left = rest, !.sends = FALSE]
    OBVIOUS
  <2> HIDE DEF rest, r
  <2>4. r \in TaskRecord /\ r.left = rest /\ r.of = task[k].of
    BY <1>0, <2>1, <2>3 DEF TaskRecord
  <2>5. Tells(task[k], orders')
    BY TellsOf, TellsStill
  <2>6. Tells(r, orders')
    BY <2>1, <2>4, <2>5 DEF Tells
  <2> QED BY <2>2, <2>6, OneTask
<1> QED BY <1>1, <1>2

\* Whoever was told of an order was told what still has happened.
LEMMA LogStays ==
  ASSUME TypeOK, LogHolds, Grown, NEW alert, log' \subseteq log \cup {alert},
         AlertHolds(alert.of, alert.kind, orders)
  PROVE  LogHolds'
  BY ReachedFurther DEF LogHolds, AlertHolds

LEMMA AlertStep ==
  ASSUME TypeOK, Numbered, EventsHold, TasksHold, LogHolds, Next
  PROVE  /\ task' \in [Tasks -> TaskRecord] /\ TasksHold' /\ LogHolds'
         /\ log' \subseteq Alert /\ cache' \subseteq Alert /\ cost' \subseteq Alert
<1> DEFINE Right == /\ task' \in [Tasks -> TaskRecord] /\ TasksHold' /\ LogHolds'
                    /\ log' \subseteq Alert /\ cache' \subseteq Alert /\ cost' \subseteq Alert
<1>0. Grown /\ OrdersTyped' /\ log \subseteq Alert /\ cache \subseteq Alert /\ cost \subseteq Alert
  BY TableStep DEF TypeOK
<1>1. log' = log => LogHolds'
  BY <1>0, ReachedFurther DEF LogHolds, AlertHolds
<1>2. CASE UNCHANGED <<task, log, cache, cost>>
  <2>1. \A k \in Tasks : Tells(task'[k], orders')
    BY <1>0, <1>2, TellsOf, TellsStill
  <2> QED BY <1>0, <1>1, <1>2, <2>1, TasksFit DEF TypeOK
<1>3. CASE Posted
  <2>1. PICK i \in DOMAIN orders : StartsTask([of |-> i, status |-> orders[i].status])
    BY <1>3 DEF Posted
  <2>2. orders' = orders /\ log' = log /\ cache' = cache /\ cost' = cost
    BY <1>3 DEF Posted, told
  <2>3. orders[i] \in Order /\ i \in 1..MaxOrders
    BY <2>1, BoundsAreNaturals DEF TypeOK
  <2>4. [of |-> i, status |-> orders[i].status] \in Event /\ EventHolds([of |-> i, status |-> orders[i].status], orders')
    BY <2>1, <2>2, <2>3 DEF Event, EventHolds, Reached, Order
  <2> QED BY <1>0, <1>1, <2>1, <2>2, <2>4, TaskStarted
<1>4. ASSUME NEW w \in Objects, Hears(w) PROVE Right
  <2>1. /\ watch[w].events # <<>> /\ StartsTask(Head(watch[w].events))
        /\ log' = log /\ cache' = cache /\ cost' = cost
    BY <1>4 DEF Hears, told
  <2>2. Head(watch[w].events) \in Event /\ EventHolds(Head(watch[w].events), orders')
    BY <1>0, <2>1, HearsayOf, HearsayStays, HearsLess
  <2> QED BY <1>0, <1>1, <2>1, <2>2, TaskStarted
<1>5. CASE Restart
  <2>1. /\ task' = [k \in Tasks |-> Done] /\ cache' = {} /\ log' = log
        /\ cost' = cost \cup UNION {Owes(k) : k \in Tasks}
    BY <1>5 DEF Restart
  <2>2. \A k \in Tasks : Tells(task'[k], orders')
    BY <2>1, DoneTells
  <2>3. ASSUME NEW k \in Tasks, NEW i \in DOMAIN task[k].left
        PROVE  [of |-> task[k].of, kind |-> task[k].left[i]] \in Alert
    <3>1. Tells(task[k], orders) /\ task[k].left \in Seq(AlertKinds)
      BY TellsOf DEF TaskRecord
    <3>2. task[k].left[i] \in AlertKinds /\ AlertHolds(task[k].of, task[k].left[i], orders)
      BY <3>1 DEF Tells
    <3>3. task[k].of \in 1..MaxOrders
      BY <3>2, BoundsAreNaturals DEF AlertHolds, TypeOK
    <3> QED BY <3>2, <3>3 DEF Alert
  <2>4. cost' \subseteq Alert
    BY <1>0, <2>1, <2>3 DEF Owes
  <2> QED BY <1>0, <1>1, <2>1, <2>2, <2>4, TasksFit
<1>6. ASSUME NEW k \in Tasks, Check(k) PROVE Right
  <2>1. task[k] # Done /\ log' = log /\ cost' = cost
    BY <1>6 DEF Check
  <2>2. cache' \subseteq Alert
    BY <1>0, <1>6, <2>1, FirstHolds DEF Check
  <2> DEFINE past == Recipient(First(k)) = Nobody \/ AlreadySent(First(k))
  <2>3. CASE past
    <3>1. Onward(k)
      BY <1>6, <2>3 DEF Check, Unsent
    <3> QED BY <1>0, <1>1, <2>1, <2>2, <3>1, GoesOn
  <2>4. CASE ~ past
    <3> DEFINE r == [task[k] EXCEPT !.sends = TRUE]
    <3>1. task' = [task EXCEPT ![k] = r]
      BY <1>6, <2>4 DEF Check
    <3>2. Tells(task[k], orders') /\ task[k] \in TaskRecord
      BY <1>0, TellsOf, TellsStill
    <3>3. r \in TaskRecord /\ r.left = task[k].left /\ r.of = task[k].of
      BY <3>2 DEF TaskRecord
    <3> HIDE DEF r
    <3>4. task[k].left # <<>>
      BY <2>1, <3>2 DEF Tells
    <3>5. Tells(r, orders')
      BY <3>2, <3>3, <3>4 DEF Tells
    <3> QED BY <1>0, <1>1, <2>1, <2>2, <3>1, <3>5, OneTask
  <2> QED BY <2>3, <2>4
<1>7. ASSUME NEW k \in Tasks, Send(k) \/ SendFails(k) PROVE Right
  <2>1. task[k] # Done /\ Onward(k)
    BY <1>7, DoneTyped DEF Send, SendFails, Unsent
  <2>2. First(k) \in Alert /\ AlertHolds(First(k).of, First(k).kind, orders)
    BY <2>1, FirstHolds
  <2>3. log' \subseteq log \cup {First(k)} /\ cache' \subseteq cache \cup {First(k)} /\ cost' \subseteq cost \cup {First(k)}
    BY <1>7 DEF Send, SendFails
  <2> QED BY <1>0, <2>1, <2>2, <2>3, LogStays, GoesOn
<1> QED BY <1>2, <1>3, <1>4, <1>5, <1>6, <1>7, Framed DEF Frames, Alerts

\* A task lets go of the first of its alerts at most.
LEMMA OwesRest ==
  ASSUME TypeOK, TasksHold, NEW k \in Tasks, task[k] # Done, Onward(k)
  PROVE  \A alert \in Owes(k) \ Owes(k)' : alert = First(k)
<1> DEFINE all == task[k].left  rest == Tail(task[k].left)
<1>1. all # <<>> /\ all \in Seq(AlertKinds) /\ task[k] \in TaskRecord
  BY FirstHolds, TellsOf
<1>2. First(k) = [of |-> task[k].of, kind |-> all[1]]
  BY <1>1 DEF First
<1> SUFFICES ASSUME NEW i \in DOMAIN task[k].left, i # 1
             PROVE  [of |-> task[k].of, kind |-> task[k].left[i]] \in Owes(k)'
  BY <1>2 DEF Owes
<1> DEFINE r == [task[k] EXCEPT !.left = rest, !.sends = FALSE]
<1>3. /\ Len(all) # 1 /\ i - 1 \in DOMAIN rest /\ rest[i - 1] = all[i]
  <2> HIDE DEF all, rest
  <2>1. Len(all) \in Nat /\ i \in 1..Len(all) /\ i # 1
    BY <1>1 DEF all
  <2>2. Len(all) > 1
    BY <2>1
  <2>3. Len(rest) = Len(all) - 1 /\ rest \in Seq(AlertKinds) /\ \A n \in 1..Len(rest) : rest[n] = all[n + 1]
    BY <1>1, <2>2 DEF all, rest
  <2> QED BY <2>1, <2>2, <2>3
<1>4. task' = [task EXCEPT ![k] = r]
  BY <1>3 DEF Onward
<1>5. task'[k] = r
  BY <1>4 DEF TypeOK
<1> HIDE DEF r, rest
<1>6. r.left = rest /\ r.of = task[k].of
  BY <1>1 DEF r, TaskRecord
<1>7. [of |-> task[k].of, kind |-> rest[i - 1]] \in Owes(k)'
  BY <1>3, <1>5, <1>6 DEF Owes
<1> QED BY <1>3, <1>7

\* Who starts is a task that owed nothing.
LEMMA StartsFree ==
  ASSUME TypeOK, NEW event, StartsTask(event), NEW k \in Tasks
  PROVE  task'[k] = task[k] \/ Owes(k) = {}
<1> DEFINE j == CHOOSE j \in Tasks : task[j] = Done
<1>1. CASE AlertsFor(event.status) = <<>>
  BY <1>1 DEF StartsTask
<1>2. CASE AlertsFor(event.status) # <<>>
  <2>1. j \in Tasks /\ task[j] = Done
    BY <1>2 DEF StartsTask
  <2>2. k = j \/ task'[k] = task[k]
    BY <1>2, <2>1 DEF StartsTask, TypeOK
  <2>3. DOMAIN Done.left = {}
    BY DoneTyped
  <2>4. k = j => Owes(k) = {}
    BY <2>1, <2>3 DEF Owes
  <2> QED BY <2>2, <2>4
<1> QED BY <1>1, <1>2

LEMMA LetGoStep ==
  ASSUME WebInv, [Next]_vars, NEW k \in Tasks, NEW alert \in Owes(k) \ Owes(k)'
  PROVE  alert \in log' \cup cost' \/ AlreadySent(alert)' \/ Mute(alert)
<1> DEFINE Right == alert \in log' \cup cost' \/ AlreadySent(alert)' \/ Mute(alert)
<1>0. TypeOK /\ TasksHold
  BY DEF WebInv
<1>1. task'[k] # task[k]
  BY DEF Owes
<1>2. ~ UNCHANGED <<task, log, cache, cost>> /\ Next
  BY <1>1 DEF vars, told
<1>3. CASE Posted
  BY <1>0, <1>1, <1>3, StartsFree DEF Posted
<1>4. ASSUME NEW w \in Objects, Hears(w) PROVE Right
  BY <1>0, <1>1, <1>4, StartsFree DEF Hears
<1>5. CASE Restart
  BY <1>5 DEF Restart
<1>6. ASSUME NEW q \in Tasks, Alerts(q) \/ SendFails(q) PROVE Right
  <2>1. q = k
    BY <1>0, <1>1, <1>6 DEF Alerts, Check, Send, SendFails, Unsent, Onward, TypeOK
  <2>2. task[k] # Done
    BY <1>6, <2>1, DoneTyped DEF Alerts, Check, Send, SendFails
  <2>3. Onward(k) => alert = First(k)
    BY <1>0, <2>2, OwesRest
  <2>4. CASE Check(k)
    <3>1. CASE Recipient(First(k)) = Nobody
      BY <2>3, <2>4, <3>1 DEF Check, Unsent, Mute
    <3>2. CASE Recipient(First(k)) # Nobody /\ AlreadySent(First(k))
      BY <2>3, <2>4, <3>2 DEF Check, AlreadySent
    <3>3. CASE Recipient(First(k)) # Nobody /\ ~ AlreadySent(First(k))
      <4> DEFINE r == [task[k] EXCEPT !.sends = TRUE]
      <4>1. task'[k] = r
        BY <1>0, <2>4, <3>3 DEF Check, TypeOK
      <4>2. task[k] \in TaskRecord
        BY <1>0, TellsOf
      <4>3. r.left = task[k].left /\ r.of = task[k].of
        BY <4>2 DEF TaskRecord
      <4> HIDE DEF r
      <4>4. Owes(k)' = Owes(k)
        BY <4>1, <4>3 DEF Owes
      <4> QED BY <4>4
    <3> QED BY <3>1, <3>2, <3>3
  <2>5. CASE Send(k)
    BY <2>3, <2>5 DEF Send, Unsent, Mute
  <2>6. CASE SendFails(k)
    BY <2>3, <2>6 DEF SendFails, Unsent
  <2> QED BY <1>6, <2>1, <2>4, <2>5, <2>6 DEF Alerts
<1> QED BY <1>2, <1>3, <1>4, <1>5, <1>6, Framed DEF Frames

-----------------------------------------------------------------------------
(* The invariant holds, and the properties follow. *)

LEMMA WebInit ==
  Init => WebInv
<1> SUFFICES ASSUME Init PROVE WebInv
  OBVIOUS
<1>1. /\ source \in Keys \cup {Off} /\ unreachable \subseteq Customers \cup {Shop}
      /\ registry \in Objects \cup {Nobody}
      /\ changes \in 0..MaxChanges /\ edits \in 0..MaxEdits /\ faults \in 0..MaxFaults
  BY SourceIsKeyed, BoundsAreNaturals DEF Init
<1>2. orders \in Seq(Order) /\ Len(orders) <= MaxOrders /\ drawn \in 0..Len(Numbers)
  BY NumbersInOrder, BoundsAreNaturals DEF Init
<1>3. turn \in [Customers -> Turn] /\ Numbered /\ ReceiptIsStored
  BY BoundsAreNaturals DEF Init, Quiet, Turn, Answers, Numbered, ReceiptIsStored
<1>4. watch \in [Objects -> Watch] /\ EventsHold
  <2> DEFINE none == <<>>
  <2>1. none \in Seq(Event) /\ none = <<>>
    OBVIOUS
  <2> HIDE DEF none
  <2>2. Unused = [life |-> "unused", key |-> Off, events |-> none] /\ watch = [w \in Objects |-> Unused]
    BY <2>1 DEF Unused, Init
  <2>3. Unused \in Watch /\ Unused.events = none
    BY <2>1, <2>2 DEF Watch
  <2> QED BY <2>1, <2>2, <2>3 DEF EventsHold
<1>5. rec \in [Reconcilers -> Reconciliation]
  BY DEF Init, Idle, Reconciliation
<1>6. task \in [Tasks -> TaskRecord] /\ TasksHold
  BY DoneTyped DEF Init, TasksHold
<1>7. LogHolds /\ \A S \in {log, cache, cost} : S \subseteq Alert
  BY DEF Init, LogHolds
<1> QED BY <1>1, <1>2, <1>3, <1>4, <1>5, <1>6, <1>7 DEF WebInv, TypeOK

LEMMA WebStep ==
  WebInv /\ [Next]_vars => WebInv'
<1> SUFFICES ASSUME WebInv, [Next]_vars PROVE WebInv'
  OBVIOUS
<1> USE DEF WebInv
<1>1. CASE Next
  <2>1. OrdersTyped'
    BY <1>1, TableStep
  <2>2. /\ turn' \in [Customers -> Turn] /\ Numbered' /\ ReceiptIsStored'
        /\ watch' \in [Objects -> Watch] /\ EventsHold'
        /\ registry' \in Objects \cup {Nobody} /\ rec' \in [Reconcilers -> Reconciliation]
    BY <1>1, TurnStep, WatchStep, RegistryStep
  <2>3. /\ task' \in [Tasks -> TaskRecord] /\ TasksHold' /\ LogHolds'
        /\ log' \subseteq Alert /\ cache' \subseteq Alert /\ cost' \subseteq Alert
    BY <1>1, AlertStep
  <2>4. Frames
    BY <1>1, Framed
  <2>5. source' \in Keys \cup {Off}
    <3>1. source' = source \/ Edit
      BY <2>4 DEF Frames
    <3> QED BY <3>1 DEF Edit, TypeOK
  <2>6. drawn' \in 0..Len(Numbers)
    <3>1. drawn' = drawn \/ (drawn < Len(Numbers) /\ drawn' = drawn + 1)
      BY <2>4 DEF Frames
    <3> QED BY <3>1, NumbersInOrder DEF TypeOK
  <2>7. changes' \in 0..MaxChanges /\ edits' \in 0..MaxEdits /\ faults' \in 0..MaxFaults
    <3>1. /\ Counts(changes, MaxChanges, changes') /\ Counts(edits, MaxEdits, edits')
          /\ Counts(faults, MaxFaults, faults')
      BY <2>4 DEF Frames
    <3> QED BY <3>1, BoundsAreNaturals DEF Counts, TypeOK
  <2>9. unreachable' \subseteq Customers \cup {Shop}
    <3>1. unreachable' = unreachable \/ Mutes
      BY <2>4 DEF Frames
    <3> QED BY <3>1 DEF Mutes, TypeOK
  <2>8. TypeOK'
    BY <2>1, <2>2, <2>3, <2>5, <2>6, <2>7, <2>9 DEF TypeOK, OrdersTyped
  <2> QED BY <2>2, <2>3, <2>8
<1>2. CASE UNCHANGED vars
  <2>1. /\ UNCHANGED <<source, unreachable, orders, drawn, turn, registry, watch, rec, task, log, cache, cost>>
        /\ UNCHANGED <<changes, edits, faults>>
    BY <1>2 DEF vars, settings, bridge, told, counters
  <2>2. TypeOK'
    BY <2>1 DEF TypeOK
  <2>3. Numbered' /\ ReceiptIsStored' /\ LogHolds'
    BY <2>1 DEF Numbered, ReceiptIsStored, LogHolds
  <2>4. EventsHold' /\ TasksHold'
    BY <2>1 DEF EventsHold, TasksHold
  <2> QED BY <2>2, <2>3, <2>4
<1> QED BY <1>1, <1>2

LEMMA WebKept == Spec => []WebInv
  BY WebInit, WebStep, PTL DEF Spec

\* The table, turns, watchers, reconciliations, tasks and alerts have their types.
THEOREM TypesHold == Spec => []TypeOK
<1>1. WebInv => TypeOK
  BY DEF WebInv
<1> QED BY <1>1, WebKept, PTL

\* Who was given a receipt has the order it names in the shop's table, although
\* its number was drawn by one call and it was posted by another.
THEOREM ReceiptsAreStored == Spec => []ReceiptIsStored
<1>1. WebInv => ReceiptIsStored
  BY DEF WebInv
<1> QED BY <1>1, WebKept, PTL

\* Whatever order tasks are run in, nobody is told of an order what has not
\* happened to it.
THEOREM AlertsAreTrue == Spec => []AlertsFollowOrders
<1>1. ASSUME WebInv PROVE AlertsFollowOrders
  <2>1. ASSUME NEW alert \in log
        PROVE  CASE alert.kind = "confirmed" -> orders[alert.of].status \in {"confirmed", "cancelled"}
                 [] alert.kind = "cancelled" -> orders[alert.of].status = "cancelled"
                 [] OTHER                    -> orders[alert.of].status # "reserved"
    BY <1>1 DEF WebInv, LogHolds, AlertHolds, Happened
  <2> QED BY <2>1 DEF AlertsFollowOrders
<1> QED BY <1>1, WebKept, PTL

\* A task lets go of no alert that is not sent, unless nobody can be texted, this text
\* failed or the process ended: the safety half of HeardIsTold.
THEOREM AlertsAreNotDropped == Spec => NothingIsLetGo
<1>1. ASSUME WebInv, [Next]_vars
      PROVE  \A k \in Tasks : \A alert \in Owes(k) \ Owes(k)' :
               alert \in log' \cup cost' \/ AlreadySent(alert)' \/ Mute(alert)
  BY <1>1, LetGoStep
<1> QED BY <1>1, WebKept, PTL DEF Spec, NothingIsLetGo
=============================================================================

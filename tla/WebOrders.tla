------------------------------- MODULE WebOrders -------------------------------
(***************************************************************************)
(* Orders that live in the shop's Supabase project (supabase/client.py,    *)
(* supabase/realtime_orders.py, agents/tools/supabase_orders.py).          *)
(*                                                                         *)
(* The agent's turns place orders and ask for their status over HTTP; the  *)
(* shop's website and staff write the same table.  A watcher hears of what *)
(* changes and starts a task per event, the optional database webhook      *)
(* starts one more, and each task texts the customer and the shop.         *)
(* Reconciliations start and stop watchers as the dashboard edits the      *)
(* source.  Each task's log and customers are module Outbound's.           *)
(*                                                                         *)
(* Left out: other tenants, prices and texts, the heartbeat, photos.       *)
(***************************************************************************)
EXTENDS Naturals, Sequences, FiniteSets

CONSTANTS
  Customers,    \* each has a turn, one at a time (the webhook's lock)
  Numbers,      \* what next_web_order_number answers, one after the other
  Fallbacks,    \* what get_next_order_number may draw when that fails
  Nothing,      \* no number
  Contains,     \* Contains[n]: the numbers whose text the text of n contains
  Keys, Start,  \* API keys, and Start[k]: what the fingerprint takes of k
  Initially,    \* bound: what the source may be at first
  Objects,      \* WebOrdersRealtimeWatcher objects
  Requests,     \* tasks of request_orders_realtime_reconcile
  Tasks,        \* bound: tasks of handle_order_update_event at once
  MaxOrders,    \* bound: orders in the table
  MaxChanges, MaxEdits,    \* bounds: what shop, customers and dashboard do in all; the last
  Faults,       \* what may go wrong: "number", "lost", "refused", "dropped", "text", "restart"
  MaxFaults     \* bound: how often

Nobody == "nobody"
Shop == "shop"
Off == "off"
Manager == "manager"
Reconcilers == Requests \cup {Manager}
AllNumbers == {Numbers[i] : i \in DOMAIN Numbers} \cup Fallbacks

ASSUME NumbersInOrder == Numbers \in Seq(AllNumbers)
ASSUME BoundsAreNaturals == {MaxOrders, MaxChanges, MaxEdits, MaxFaults} \subseteq Nat
ASSUME SourceIsKeyed == Initially \subseteq Keys \cup {Off}
ASSUME NothingIsNoNumber == Nothing \notin AllNumbers
ASSUME ContainsItself == \A n \in AllNumbers : n \in Contains[n]
ASSUME KeysHaveStarts == DOMAIN Start = Keys /\ Off \notin Keys
ASSUME NamesAreFree ==
  Nobody \notin Objects /\ Manager \notin Requests /\ {Nobody, Shop} \cap Customers = {}

VARIABLES
  source,     \* the key of the catalog_sources row, or Off when it is not enabled
  unreachable,\* customers who opted out, and the shop while it cannot be texted
  orders,     \* web_orders, oldest first
  drawn,      \* how many numbers the project has handed out
  turn,       \* the tool calls of the customers' turns
  registry,   \* _orders_watchers[source_id]
  watch,      \* the watcher objects
  rec,        \* the reconciliations
  task,       \* the tasks of handle_order_update_event
  log,        \* alerts in message_log
  cache,      \* _sent_order_alerts
  cost,       \* alerts lost to a failed send or a restart (history)
  changes, edits, faults

settings == <<source, unreachable>>
told == <<log, cache, cost>>
bridge == <<registry, watch, rec>>
counters == <<changes, edits, faults>>
vars == <<settings, orders, drawn, turn, bridge, task, told, counters>>

Statuses == {"reserved", "pending", "confirmed", "cancelled"}
Order == [number : AllNumbers, by : Customers \cup {Nobody}, status : Statuses]
Event == [of : 1..MaxOrders, status : Statuses]
AlertKinds == {"confirmed", "pending", "cancelled", "admin_alert"}
Alert == [of : 1..MaxOrders, kind : AlertKinds]

Fault(kind) ==
  /\ kind \in Faults
  /\ faults < MaxFaults /\ faults' = faults + 1
  /\ UNCHANGED <<changes, edits>>

-----------------------------------------------------------------------------
(* The table.  Every change is sent down the sockets that have joined.       *)

Emits(event) ==
  watch' = [w \in Objects |-> IF watch[w].life = "joined"
                              THEN [watch[w] EXCEPT !.events = Append(@, event)] ELSE watch[w]]

Taken(number) == \E i \in DOMAIN orders : orders[i].number = number

Adds(number, by, status) ==
  /\ orders' = Append(orders, [number |-> number, by |-> by, status |-> status])
  /\ Emits([of |-> Len(orders) + 1, status |-> status])

\* The website's checkout, which may hold the stock first; by is Nobody when the
\* order has no phone that can be texted.
Checkout ==
  /\ changes < MaxChanges /\ Len(orders) < MaxOrders /\ drawn < Len(Numbers)
  /\ drawn' = drawn + 1 /\ changes' = changes + 1
  /\ \E by \in Customers \cup {Nobody}, status \in {"reserved", "pending"} :
       Adds(Numbers[drawn + 1], by, status)
  /\ UNCHANGED <<settings, turn, registry, rec, task, told, edits, faults>>

Follows(status) ==
  CASE status = "reserved"  -> {"pending", "cancelled"}
    [] status = "pending"   -> {"pending", "confirmed", "cancelled"}
    [] status = "confirmed" -> {"confirmed", "cancelled"}
    [] OTHER                -> {}

\* The shop's staff; an update of another column sends the same status again.
Update ==
  /\ changes < MaxChanges /\ changes' = changes + 1
  /\ \E i \in DOMAIN orders : \E status \in Follows(orders[i].status) :
       /\ orders' = [orders EXCEPT ![i].status = status]
       /\ Emits([of |-> i, status |-> status])
  /\ UNCHANGED <<settings, drawn, turn, registry, rec, task, told, edits, faults>>

\* A customer opts out, for good; the shop's number is removed or configured.
Mutes ==
  /\ changes < MaxChanges /\ changes' = changes + 1
  /\ \/ \E c \in Customers \ unreachable : unreachable' = unreachable \cup {c}
     \/ unreachable' = IF Shop \in unreachable THEN unreachable \ {Shop} ELSE unreachable \cup {Shop}
  /\ UNCHANGED <<source, orders, drawn, turn, bridge, task, told, edits, faults>>

-----------------------------------------------------------------------------
(* The agent's tools.  A turn's record:                                      *)
(*   at    : idle, about to draw a number, or to post the order              *)
(*   number: drawn, or asked about;  said : what the tool last answered      *)

Answers == {"nothing", "receipt", "status", "error"}
Turn == [at : {"idle", "number", "post"}, number : AllNumbers \cup {Nothing}, said : Answers,
         of : 0..MaxOrders]
Quiet == [at |-> "idle", number |-> Nothing, said |-> "nothing", of |-> 0]

\* (A definition named for what it forgets or does wrongly, just before a
\* definition, is a deliberately wrong variant of it, which no action uses.)
Says(c, answer, number, i) ==
  turn' = [turn EXCEPT ![c] = [at |-> "idle", number |-> number, said |-> answer, of |-> i]]

\* get_supabase_credentials reads the tenant's source on every call: an edit on
\* the dashboard counts from the next request of the same order on.
Configured == source # Off

\* create_web_order, up to the RPC for the number.
PlaceOrder(c) ==
  /\ turn[c].at = "idle" /\ Len(orders) < MaxOrders /\ changes < MaxChanges
  /\ changes' = changes + 1
  /\ IF ~ Configured THEN Says(c, "error", Nothing, 0)
     ELSE turn' = [turn EXCEPT ![c] = [Quiet EXCEPT !.at = "number"]]
  /\ UNCHANGED <<settings, orders, drawn, bridge, task, told, edits, faults>>

Drew(c, number) == turn' = [turn EXCEPT ![c].at = "post", ![c].number = number]

\* get_next_order_number, which resolves the credentials anew.
DrawNumber(c) ==
  /\ turn[c].at = "number"
  /\ IF ~ Configured THEN Says(c, "error", Nothing, 0) /\ UNCHANGED drawn
     ELSE drawn < Len(Numbers) /\ drawn' = drawn + 1 /\ Drew(c, Numbers[drawn + 1])
  /\ UNCHANGED <<settings, orders, bridge, task, told, counters>>

DrawFails(c) ==
  /\ turn[c].at = "number" /\ Configured
  /\ Fault("number")
  /\ \E number \in Fallbacks : Drew(c, number)
  /\ UNCHANGED <<settings, orders, drawn, bridge, task, told>>

SaysReceiptAnyway(c) == Says(c, "receipt", turn[c].number, 0)

\* Any answer but 200 and 201 is an error.  (A full table stands for any cause.)
SaysRefused(c) == Says(c, "error", turn[c].number, 0)

Post(c) ==
  /\ turn[c].at = "post"
  /\ IF Taken(turn[c].number) \/ Len(orders) >= MaxOrders
       THEN SaysRefused(c) /\ UNCHANGED <<orders, watch>>
       ELSE /\ Adds(turn[c].number, c, "pending")
            /\ Says(c, "receipt", turn[c].number, Len(orders) + 1)
  /\ UNCHANGED <<settings, drawn, registry, rec, task, told, counters>>

\* The order is stored and its answer is lost: the agent is told of an error.
PostUnanswered(c) ==
  /\ turn[c].at = "post" /\ ~ Taken(turn[c].number) /\ Len(orders) < MaxOrders
  /\ Fault("lost")
  /\ Adds(turn[c].number, c, "pending")
  /\ Says(c, "error", turn[c].number, 0)
  /\ UNCHANGED <<settings, drawn, registry, rec, task, told>>

\* get_order_status: by the number's text, or the customer's phone.
Matching(c, number) ==
  {i \in DOMAIN orders : orders[i].by = c \/ (number # Nothing /\ number \in Contains[orders[i].number])}

Newest(I) == CHOOSE i \in I : \A j \in I : j <= i

AskStatus(c) ==
  /\ turn[c].at = "idle" /\ orders # <<>>
  /\ changes < MaxChanges /\ changes' = changes + 1
  /\ \E number \in {orders[i].number : i \in DOMAIN orders} \cup {Nothing} :
       IF ~ Configured THEN Says(c, "error", number, 0)
       ELSE IF Matching(c, number) = {} THEN Says(c, "nothing", number, 0)
       ELSE Says(c, "status", number, Newest(Matching(c, number)))
  /\ UNCHANGED <<settings, orders, drawn, bridge, task, told, edits, faults>>

-----------------------------------------------------------------------------
(* Events.  A task's record:                                                 *)
(*   of, left : the order's number, and the alerts it still has to do        *)
(*   sends    : the first of them was found not to be sent                   *)

TaskRecord == [of : 0..MaxOrders, left : Seq(AlertKinds), sends : BOOLEAN]
Done == [of |-> 0, left |-> <<>>, sends |-> FALSE]

TellsOfHolds(status) ==
  CASE status = "confirmed" -> <<"confirmed", "admin_alert">>
    [] status = "cancelled" -> <<"cancelled">>
    [] OTHER                -> <<"pending", "admin_alert">>

\* handle_order_update_event: the customer's text, then the shop's.
AlertsFor(status) ==
  CASE status = "confirmed" -> <<"confirmed", "admin_alert">>
    [] status = "pending"   -> <<"pending", "admin_alert">>
    [] status = "cancelled" -> <<"cancelled">>
    [] OTHER                -> <<>>

StartsTask(event) ==
  IF AlertsFor(event.status) = <<>> THEN UNCHANGED task
  ELSE /\ \E k \in Tasks : task[k] = Done
       /\ task' = [task EXCEPT ![CHOOSE k \in Tasks : task[k] = Done] =
                     [of |-> event.of, left |-> AlertsFor(event.status), sends |-> FALSE]]

\* A postgres_changes message: one more task, and nothing keeps their order.
Hears(w) ==
  /\ watch[w].life = "joined" /\ watch[w].events # <<>>
  /\ StartsTask(Head(watch[w].events))
  /\ watch' = [watch EXCEPT ![w].events = Tail(@)]
  /\ UNCHANGED <<settings, orders, drawn, turn, registry, rec, told, counters>>

\* supabase_orders_webhook: the project posts a row as it stands.
Posted ==
  /\ changes < MaxChanges /\ changes' = changes + 1
  /\ \E i \in DOMAIN orders : StartsTask([of |-> i, status |-> orders[i].status])
  /\ UNCHANGED <<settings, orders, drawn, turn, bridge, told, edits, faults>>

First(k) == [of |-> task[k].of, kind |-> Head(task[k].left)]
Owes(k) == {[of |-> task[k].of, kind |-> task[k].left[i]] : i \in DOMAIN task[k].left}

\* The words that stand for an alert in the log: any kind but the first two is
\* looked up as a cancellation, and the shop's own text is never found.
LoggedAs(kind) == IF kind \in {"confirmed", "pending"} THEN kind ELSE "cancelled"

AlreadySent(alert) == alert \in cache \/ [alert EXCEPT !.kind = LoggedAs(@)] \in log

Onward(k) == task' = [task EXCEPT ![k] = IF Len(task[k].left) = 1 THEN Done
                                         ELSE [task[k] EXCEPT !.left = Tail(@), !.sends = FALSE]]

ReturnsEarly(k) == task' = [task EXCEPT ![k] = Done]

\* Whether the customer's text is sent does not keep the shop's from being sent.
Unsent(k) == Onward(k)

Recipient(alert) == IF alert.kind = "admin_alert" THEN Shop ELSE orders[alert.of].by

Check(k) ==
  /\ task[k] # Done /\ ~ task[k].sends
  /\ CASE Recipient(First(k)) = Nobody -> Unsent(k) /\ UNCHANGED cache
       [] Recipient(First(k)) # Nobody /\ AlreadySent(First(k)) ->
            Onward(k) /\ cache' = cache \cup {First(k)}
       [] OTHER -> task' = [task EXCEPT ![k].sends = TRUE] /\ UNCHANGED cache
  /\ UNCHANGED <<settings, orders, drawn, turn, bridge, log, cost, counters>>

\* Nobody is texted who opted out, nor a shop without a number; that is no error.
Send(k) ==
  /\ task[k].sends
  /\ IF Recipient(First(k)) \in unreachable THEN Unsent(k) /\ UNCHANGED <<log, cache>>
     ELSE log' = log \cup {First(k)} /\ cache' = cache \cup {First(k)} /\ Onward(k)
  /\ UNCHANGED <<settings, orders, drawn, turn, bridge, cost, counters>>

\* The exception is caught per text.
SendFails(k) ==
  /\ task[k].sends
  /\ Fault("text")
  /\ cost' = cost \cup {First(k)}
  /\ Unsent(k)
  /\ UNCHANGED <<settings, orders, drawn, turn, bridge, log, cache>>

-----------------------------------------------------------------------------
(* The connection.                                                           *)
(*   life : of the task; deaf: connected, the subscription was refused;      *)
(*          closing once it is cancelled                                     *)

Watch == [life : {"unused", "connecting", "joined", "deaf", "down", "closing", "dead"},
          key : Keys \cup {Off}, events : Seq(Event)]
Unused == [life |-> "unused", key |-> Off, events |-> <<>>]
Running == {w \in Objects : watch[w].life \in {"connecting", "joined", "deaf", "down"}}
Alive(w) == watch[w].life \notin {"unused", "dead"}

Becomes(w, life) == watch' = [watch EXCEPT ![w].life = life, ![w].events = <<>>]

Joins(w) ==
  /\ watch[w].life = "connecting"
  /\ Becomes(w, "joined")
  /\ UNCHANGED <<settings, orders, drawn, turn, registry, rec, task, told, counters>>

\* An answer to phx_join that is not ok is ignored: the socket stays.
Refused(w) ==
  /\ watch[w].life = "connecting"
  /\ Fault("refused")
  /\ Becomes(w, "deaf")
  /\ UNCHANGED <<settings, orders, drawn, turn, registry, rec, task, told>>

\* phx_error, or the connection is lost; nothing catches up on what was missed.
Drops(w) ==
  /\ watch[w].life \in {"joined", "deaf"}
  /\ Fault("dropped")
  /\ Becomes(w, "down")
  /\ UNCHANGED <<settings, orders, drawn, turn, registry, rec, task, told>>

Reconnects(w) ==
  /\ watch[w].life = "down"
  /\ Becomes(w, "connecting")
  /\ UNCHANGED <<settings, orders, drawn, turn, registry, rec, task, told, counters>>

\* The cancelled task leaves its loop.
Closes(w) ==
  /\ watch[w].life = "closing"
  /\ Becomes(w, "dead")
  /\ UNCHANGED <<settings, orders, drawn, turn, registry, rec, task, told, counters>>

-----------------------------------------------------------------------------
(* Reconciling. *)

\*   at : about to read the rows, with the rows, awaiting the cancelled task
Reconciliation == [at : {"idle", "asked", "rows", "task"}, key : Keys \cup {Off},
                   of : Objects \cup {Nobody}]
Idle == [at |-> "idle", key |-> Off, of |-> Nobody]

\* The slot of a watcher that has ended may stand for a new one.
Free(r, w) ==
  /\ ~ Alive(w)
  /\ registry = w => rec[r].of = w
  /\ \A q \in Reconcilers \ {r} : rec[q].of # w
NewObject(r) == CHOOSE w \in Objects : Free(r, w)

Leave(r) == rec' = [rec EXCEPT ![r] = Idle]

Starts(r, key, listed) ==
  /\ IF key = Off THEN UNCHANGED watch /\ registry' = listed
     ELSE /\ \E w \in Objects : Free(r, w)
          /\ registry' = NewObject(r)
          /\ watch' = [watch EXCEPT ![NewObject(r)] = [Unused EXCEPT !.life = "connecting", !.key = key]]
  /\ Leave(r)

\* stop() cancels the task and awaits it.
Stops(r, key, w, listed) ==
  IF Alive(w)
    THEN /\ Becomes(w, "closing")
         /\ rec' = [rec EXCEPT ![r] = [at |-> "task", key |-> key, of |-> w]]
         /\ registry' = listed
    ELSE Starts(r, key, listed)

ReadsRows(r) ==
  /\ rec[r].at = "asked"
  /\ rec' = [rec EXCEPT ![r].at = "rows", ![r].key = source]
  /\ UNCHANGED <<settings, orders, drawn, turn, registry, watch, task, told, counters>>

IgnoresKey(key, w) == TRUE

\* The fingerprint takes the first twelve characters of the key.
SameFingerprint(key, w) == Start[watch[w].key] = Start[key]

Reconciles(r) ==
  /\ rec[r].at = "rows"
  /\ LET key == rec[r].key IN
     CASE registry = Nobody -> Starts(r, key, Nobody)
       [] registry # Nobody /\ key = Off -> Stops(r, Off, registry, Nobody)
       [] registry # Nobody /\ key # Off /\ SameFingerprint(key, registry) ->
            Leave(r) /\ UNCHANGED <<registry, watch>>
       [] OTHER -> Stops(r, key, registry, registry)
  /\ UNCHANGED <<settings, orders, drawn, turn, task, told, counters>>

Awaited(r) ==
  /\ rec[r].at = "task" /\ ~ Alive(rec[r].of)
  /\ Starts(r, rec[r].key, registry)
  /\ UNCHANGED <<settings, orders, drawn, turn, task, told, counters>>

\* The manager's next round, up to where it has read the rows.
Tick ==
  /\ rec[Manager].at = "idle"
  /\ rec' = [rec EXCEPT ![Manager].at = "rows", ![Manager].key = source]
  /\ UNCHANGED <<settings, orders, drawn, turn, registry, watch, task, told, counters>>

\* The dashboard connects, switches off or gives the source another key.
Edit ==
  /\ changes < MaxChanges /\ changes' = changes + 1
  /\ edits < MaxEdits /\ edits' = edits + 1
  /\ \E key \in (Keys \cup {Off}) \ {source} : source' = key
  /\ \E r \in Requests : rec[r].at = "idle"
  /\ rec' = [rec EXCEPT ![CHOOSE r \in Requests : rec[r].at = "idle"].at = "asked"]
  /\ UNCHANGED <<unreachable, orders, drawn, turn, registry, watch, task, told, faults>>

\* The process ends and starts again; tool calls under way end without a word.
Restart ==
  /\ Fault("restart")
  /\ turn' = [c \in Customers |-> Quiet]
  /\ registry' = Nobody /\ watch' = [w \in Objects |-> Unused]
  /\ rec' = [r \in Reconcilers |-> Idle]
  /\ cost' = cost \cup UNION {Owes(k) : k \in Tasks}
  /\ task' = [k \in Tasks |-> Done]
  /\ cache' = {}
  /\ UNCHANGED <<settings, orders, drawn, log>>

Init ==
  /\ source \in Initially /\ unreachable = {}
  /\ orders = <<>> /\ drawn = 0
  /\ turn = [c \in Customers |-> Quiet]
  /\ registry = Nobody /\ watch = [w \in Objects |-> Unused]
  /\ rec = [r \in Reconcilers |-> Idle]
  /\ task = [k \in Tasks |-> Done]
  /\ log = {} /\ cache = {} /\ cost = {}
  /\ changes = 0 /\ edits = 0 /\ faults = 0

Proceeds(c) == DrawNumber(c) \/ Post(c)
Goes(w) == Joins(w) \/ Hears(w) \/ Reconnects(w) \/ Closes(w)
Alerts(k) == Check(k) \/ Send(k)
Reconciling(r) == ReadsRows(r) \/ Reconciles(r) \/ Awaited(r)

Next ==
  \/ Checkout \/ Update \/ Mutes \/ Posted \/ Tick \/ Edit \/ Restart
  \/ \E c \in Customers :
       PlaceOrder(c) \/ Proceeds(c) \/ DrawFails(c) \/ PostUnanswered(c) \/ AskStatus(c)
  \/ \E w \in Objects : Goes(w) \/ Refused(w) \/ Drops(w)
  \/ \E k \in Tasks : Alerts(k) \/ SendFails(k)
  \/ \E r \in Reconcilers : Reconciling(r)

Spec == Init /\ [][Next]_vars

\* The event loop runs its tasks and HTTP calls end; the manager comes round.
FairSpec ==
  /\ Spec
  /\ WF_vars(Tick)
  /\ \A c \in Customers : WF_vars(Proceeds(c))
  /\ \A w \in Objects : WF_vars(Goes(w))
  /\ \A k \in Tasks : WF_vars(Alerts(k))
  /\ \A r \in Reconcilers : WF_vars(Reconciling(r))

-----------------------------------------------------------------------------
TypeOK ==
  /\ source \in Keys \cup {Off} /\ registry \in Objects \cup {Nobody}
  /\ unreachable \subseteq Customers \cup {Shop}
  /\ orders \in Seq(Order) /\ Len(orders) <= MaxOrders
  /\ drawn \in 0..Len(Numbers)
  /\ turn \in [Customers -> Turn]
  /\ watch \in [Objects -> Watch]
  /\ rec \in [Reconcilers -> Reconciliation]
  /\ task \in [Tasks -> TaskRecord]
  /\ \A S \in {log, cache, cost} : S \subseteq Alert
  /\ changes \in 0..MaxChanges /\ edits \in 0..MaxEdits /\ faults \in 0..MaxFaults

\* A receipt names an order of this customer that is in the table, although the
\* number is drawn and the order posted in two calls, either of which may fail.
ReceiptIsStored ==
  \A c \in Customers : turn[c].said = "receipt" =>
    \E i \in DOMAIN orders : orders[i].number = turn[c].number /\ orders[i].by = c

\* What customers and shop were told has happened, although events are told by
\* tasks that overtake each other, and a stock hold is told to nobody.
AlertsFollowOrders ==
  \A alert \in log :
    CASE alert.kind = "confirmed" -> orders[alert.of].status \in {"confirmed", "cancelled"}
      [] alert.kind = "cancelled" -> orders[alert.of].status = "cancelled"
      [] OTHER                    -> orders[alert.of].status # "reserved"

\* Whoever opted out, has no phone, or runs a shop without a number.
Mute(alert) == Recipient(alert) \in unreachable \cup {Nobody}

\* No alert that an event calls for is let go unless it is sent or counts as sent,
\* nobody can be texted, this very text failed or the process ended: a customer whose
\* text is not sent, for whatever reason, cannot cost the shop its own.
NothingIsLetGo ==
  [][\A k \in Tasks : \A alert \in Owes(k) \ Owes(k)' :
       alert \in log' \cup cost' \/ AlreadySent(alert)' \/ Mute(alert)]_vars

\* Every event that is heard is dealt with to the end, and none of its alerts let go.
HeardIsTold ==
  /\ \A k \in Tasks : []<>(task[k] = Done)
  /\ NothingIsLetGo

Watched ==
  IF source = Off THEN registry = Nobody
  ELSE registry # Nobody /\ watch[registry].key = source /\ registry \in Running

\* Once the dashboard leaves the source alone, it is watched with the key it has,
\* whatever reconciliations overlapped (realtime_orders.py:768, "Sync active
\* web_orders realtime watchers to match enabled Supabase sources").
WatchedInTheEnd == <>[]Watched

\* (realtime_orders.py:38, "Deduplicate notifications per order number so
\* multiple events don't spam the customer.")
TextedOnce == \A k \in Tasks : task[k].sends => First(k) \notin log

\* Who asks about a number that is in the table is told of that order
\* (supabase_orders.py:201-202, "The order number (e.g. "ATG-15" or "ATG-102938")
\* or phone number. If blank, automatically checks using the customer's").
AnswersWhatIsAsked ==
  \A c \in Customers :
    turn[c].said = "status" /\ turn[c].number # Nothing /\ Taken(turn[c].number)
      => orders[turn[c].of].number = turn[c].number
=============================================================================

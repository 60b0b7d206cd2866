# WhatsApp Sales Agent: specification and proofs

TLA+ models of the WhatsApp sales agent (a FastAPI service with PostgreSQL, an
LLM agent, a dashboard, background loops and a Node bridge), the TLC
configurations that check them on small instances, and TLAPS proofs of what
holds for every instance.

    tlc -config orders_interleaved.cfg MCOrderTxns.tla     # one run
    tlapm OrderTxns_proofs.tla                             # proofs, and likewise the other
                                                           # modules named *_proofs

## 1. The system and its parts

| Component | Code | State it keeps | Operations | Talks to |
|---|---|---|---|---|
| Order desk | `agents/tools/orders.py`, `payments.py`, `crm.py`, order, receipt and stock endpoints of `admin/router.py`, the sweep of `main.py`, `db/crud.py` | rows of `products`, `orders`, `pending_payment_verifications`, `refund_requests` | create, cancel (tool, dashboard, sweep), change payment method, flag for cancellation, set stock, file, approve or send back a receipt, file a refund | database; messaging after the commit |
| Webhook ingest and agent turn | `webhook/router.py`, `webhook/bridge.py`, `agents/graph.py` | `processed_messages`, `customers`, `sessions`, `message_log`; a lock per customer in memory | claim a message id, find or create the customer, log, wait for the lock, build the snapshot, run the graph, reply | order desk and bookings through tools; messaging |
| CRM stages | `agents/tools/crm.py`, `events/recorder.py` | `customers.crm_stage`, `stage_history` | move a stage (tool, dashboard, sweep, booking) | order desk |
| Bookings | `agents/tools/bookings.py`, booking endpoints | `bookings` | book, cancel, change status | CRM stages |
| Messaging and broadcast | `messaging/service.py`, `messaging/outbound.py`, `whatsapp/` | `message_log`, `outbound_campaigns` | send with opt-out and window checks, broadcast, retry | WhatsApp, bridge |
| Catalog sync | `catalog_sync/service.py`, `database.py`, `extractors.py`, `http.py` | `catalog_sources`, synced `products` | claim a source, fetch, upsert, hide what vanished | shop database or website |
| Catalog realtime | `catalog_sync/realtime.py` | listener tasks, pending triggers | supervise listeners, debounce, ask for a sync | catalog sync |
| Web order alerts | `supabase/realtime_orders.py`, `supabase/client.py` | cache of alerts sent, `message_log` | receive a change, deduplicate, alert owner and customer | Supabase, messaging |
| WhatsApp bridge | `wa-bridge/index.js`, `pg-auth-state.js` | a socket per tenant, stored keys | start, stop, reconnect, forward inbound, send | webhook ingest, dashboard |
| Rate limiter | `rate_limit.py` | timestamps per key in memory | admit or refuse a request | every endpoint |
| Dashboard (rest) | `admin/router.py`, `static/admin/admin.js`, `templates/` | settings, tenants, product texts | edit rows | every table |
| Authentication, crypto, tenancy | `auth/router.py`, `crypto.py`, `dependencies.py` | none between requests | resolve the tenant of a request | |
| Analytics | `analytics/` | none (reads) | aggregate | every table |
| LLM, vision | `llm/client.py`, `vision/extractor.py`, `agents/sales_agent.py` | none | choose tools, read receipts | external services |

How they interact: the bridge or Meta posts messages to the webhook; a background
task per message ingests it and runs one agent turn under the customer's lock;
tools of the turn open database sessions of their own on orders, products,
customers and bookings; dashboard requests and the loops of `main.py` (the
auto-cancel sweep, catalog sync, realtime listeners) write the same rows with no
lock but the database's; everything that leaves goes through
`messaging/service.py`.

What is hard: handlers read rows without locks and write them later
(check-then-act), several handlers of different origin write one row, a
transaction is split by a commit in its middle, in-memory state (customer locks,
alert cache, rate limits, sockets) is lost by a restart while the database is
not, messages arrive twice or late, and background loops swallow exceptions.

### What makes each part correct

| Component | Properties |
|---|---|
| Order desk | units are conserved; a product is hidden exactly when none is left; a cancellation restores once; only an approved receipt makes an order paid; status and payment method agree; references are dense; refunds follow paid orders; every request ends; handlers that share nothing implement the ledger |
| Ingest and turn | a message is ingested whole or not at all, answered at most once, by a turn that has seen the newest replies before it; what was ingested is answered; no one waits for a lock for ever; together they implement the inbox |
| CRM stages, bookings, decisions | the stage is where the last recorded move led; booking references have no gap; nobody is told of a decision that is not stored; every request ends |
| Messaging | who had opted out gets nothing; an alert is not repeated; a request reports one text at most per recipient; what is reported as sent was sent; no set of senders waits on itself |
| Catalog sync | one sync per source at a time, but for slow ones; no source is stuck "syncing"; nothing of a removed source comes back; the products shown are in the end those the shop has |
| Realtime | what a watcher has heard of is synced; in the end the source is watched as configured; a shutdown ends |
| Web orders | a receipt is for a stored order; what is told has happened; what a watcher hears of is told to whoever can be texted; in the end the source is watched with its key |
| Bridge | a tenant nobody wants off has a session or one in the making, and comes back, unless the boot could not ask for the tenants; a pairing is not lost; no second scan |

## 2. Modules

    OrderLedger          what the order desk promises, one indivisible step per request
    OrderTxns            the handlers, cut at their awaits, over PostgreSQL's row locks
    OrderProps           the properties of OrderTxns, and the refinement of OrderLedger
    Inbox                what the conversation promises: a message recorded, due, one turn
                         of its customer at a time, a reply at most
    Conversation         inbound messages: ingest, the lock per customer, the turn
    CrmDesk              a customer's stage, bookings, and decisions on refunds
    Outbound             what the business sends: alerts, notify, broadcast
    CatalogSync          keeping a source's products like the shop
    Watchers             live updates of a Supabase source: watchers and reconciliations
    WebOrders            orders in the shop's Supabase project, and the alerts about them
    BridgeSession        one tenant's WhatsApp session in the Node bridge

    MC<module>           constants for TLC
    <module>_proofs      theorems, of every module above but Watchers; OrderProps_proofs
                         is about OrderTxns and OrderLedger together, and
                         Conversation_proofs about Conversation and Inbox

The modules share no variables. Each stands for the rows or the event loop of one part,
and what others do to it is an action whose occasion is left free: a tool call of a
turn is a request that arrives in `OrderTxns`, `CrmDesk` or `WebOrders`; an order's
effect on a synced product is `SellOrReturn` of `CatalogSync`; a watcher's request for
a sync is `Ask` there, and the sync it gets is a few actions of `Watchers`; a text of
`WebOrders` is one `Send`, whose transaction is in `Outbound`. A definition whose name
says what it forgets or does wrongly (`ClaimableAlways`, `IgnoresKey`) is a
deliberately wrong variant of the definition after it. No action uses it; putting it in
that definition's place must make a property fail.

### OrderTxns

Rows: `products`, `orders`, `receipts` (pending_payment_verifications) and
`refunds` are the committed tables. `txn[s]` is the handler a session runs: its
operation, the statement it executes next, the objects it holds (SQLAlchemy's
identity map), the product columns it has flushed and not committed, and the order
object as read (`row`) and as the handler leaves it (`want`).

| Action | Code |
|---|---|
| `CreateOrder`, `CheckLine`/`RefuseLine`, `TakeLine`, `CountOrders`, `InsertOrder`/`InsertCollides`, `CommitNewOrder` | `create_order` and `_local_order` of `agents/tools/orders.py`; the two passes over the lines are separate loops, as in the code |
| `LoadForCancel`, `ReadLine`, `GiveLine`, `FlushOrder`, `Commit`, `FileRefund` | `cancel_order` (tool), `admin_cancel_order`; the refund is filed in a second session after the commit |
| `ListStale`, `LoadStale`, `StaleIsClosed`, `SweepRaises` | `_auto_cancel_stale_pending` of `main.py` |
| `LoadForRepay`, `LoadForFlag`, `LoadForLevel`/`SetLevel` | `update_payment_method`, `flag_cancellation_pending`, the stock endpoint |
| `ReadReceipt`/`FileReceipt` | `process_receipt_image`, two sessions |
| `LoadReceipt`, `LoadForApprove`, `ResolveReceipt` | approve and request-resend |
| `LoadForRefund` | `request_refund` |
| `DeadlockVictim`, `Die` | PostgreSQL aborts one transaction of a cycle; a process or connection is lost |

A flush sends the columns whose value changed, waits for the row's lock if another
session holds it, and sends the value computed from the object read earlier: that is
what lets two handlers lose each other's work. The order reference is counted before
it is inserted; the unique constraint decides.

Abstracted: prices, addresses and texts; the fuzzy resolution of a SKU (a cart is
of resolved products); the year in a reference; that a request names an order of
its customer (any order may be named); CRM stages, audit events and notifications,
which touch none of these tables; the Shopify branch, which is never configured
together with local products; and the `website_link` refusals, which change
nothing.
Product editing and deletion are left out; the decision of a refund, and a refund asked for
without saying of which order, are `CrmDesk`'s.

`OrderLedger` is what the desk promises: one step creates an order and takes its units,
one cancels it and gives them back, one sets a level. `OrderProps` instantiates it with
the rows of `OrderTxns` (`Ledger == INSTANCE OrderLedger WITH products <- products, ...`):
every commit must be one of its steps and everything else a stutter
(`RefinesLedger`).

### Conversation

`run[r]` is a background task that processes the messages of one webhook request, one
after the other; its steps are the awaits of `_process_message_background`.

| Action | Code |
|---|---|
| `Receive` | `receive_webhook` accepts a request; what it carries may have been delivered before |
| `Resolve` | the tenant lookup, outside every `try`: an error drops the request's remaining messages |
| `CheckMessage`, `ClaimMessage`/`ClaimCollides`, `LookUpCustomer`, `UpsertCustomer`/`CustomerCollides`, `CommitIngest`, `IngestFails` | the ingest transaction: the claim of the message id by primary key, the customer found or inserted, the log row |
| `Enter`, `StartTurn`, `Leave` | `async with` the customer's lock; settings and history are read inside it, of the history the `HistoryLimit` newest rows by `created_at` (`limit=100`) |
| `Think`, `TurnFails` | the agent graph up to the reply |
| `Respond`, `Send`, `LogReply` | `respond_node` and `send_text_message`: the opt-out is read afresh, the reply is sent and then logged |
| `SetActive`, `Restart` | the dashboard's pause; the process dies, and with it tasks, transactions and locks |

`processed`, `known`, `optedOut` and `log` are committed rows, `lock` and `run` are memory.
An uncommitted insert of a key makes another insert of it wait (`ClaimPending`,
`CustomerPending`) and then collide. `sent` is what WhatsApp delivered, which no row
records if the process dies in between.

Abstracted: texts; the 24 hour window, which is open during a turn since the message
has just arrived; the consent state before opting in, since customers are created
opted in; the sessions table; what the tools write.

A row carries the time at which its transaction started, as `now()` gives it: `clock` counts
the transactions, so no two rows have the same time. The limit of the history is a constant
here; a conversation longer than it has turns that were not shown all of it.

`Inbox` is what all this promises: a message is recorded once and is then due; its turn
begins while its customer has no other, with the `Limit` newest rows of the customer's
thread, and ends with one reply or none. When it replies it has seen every reply given to
that customer, but for those with `Limit` newer rows among what it has seen (`Informed`):
the code cuts the history at its old end, and that is all a turn may miss. A restart
forgets what was due or in progress.
`Promise == INSTANCE Inbox WITH thread <- Thread, ...` reads the rows off the log, and what is
due (`Due`) and in progress (`InProgress`) off the runners.
A text that WhatsApp got and no row records, because the process died in between, is
therefore no answer there; `RefinesInbox` says that every step of `Conversation` is one
of `Inbox` or a stutter.

### CrmDesk

One customer's row. `txn[s]` is a database session's transaction: the row it is about
(`id`), that row's status and the customer's stage as it read them (`was`, `saw`), the
stage, status or decision it will write (`to`), and what it holds locked (`moved`,
`named`, `wrote`).

| Action | Code |
|---|---|
| `ReadForMove`, `Record` | `update_crm`: the move is judged on the row as read; `record_stage_change` and `update_customer` write it, behind the row's lock |
| `Count`, `Insert`/`InsertCollides`, `Name`, `ReadForBooking` | `book_meeting`: the reference counted, inserted under its unique key; the customer renamed, which refreshes the object; the stage |
| `ReadOrder`, `Flush`, `ReadCustomer`, `Judge` | approving a receipt, cancelling an order and `request_refund`, as far as they concern the stage; a refund may be asked for without saying of which order, and is then filed whatever was paid |
| `ReadBooking`, `AnswerStatus` | `cancel_meeting`; the dashboard's status, which is flushed, answered and never committed |
| `ReadRefund`, `Tell`, `File` | approve, reject and the legacy resolve of a refund request; telling the customer in another session; filing |
| `Commit`, `Die` | what the session changed is merged into the rows; its connection or process is lost |

An order is awaiting, paid or cancelled here; `PlaceOrder` stands for what `OrderTxns`
does in full. Left out: the sweep's move of the stage, which is rolled back with the
rest of its transaction (`sweep_fails.cfg`); times and texts of bookings.

### Outbound

`job[h]` is a request or an event's task and the target it has come to; `created` and
`logged` are what its session has inserted and not committed.

| Action | Code |
|---|---|
| `Arrive`, `Respond` | an order event, `/admin/notify`, `/admin/outbound/send`, an inbound message, an opt-out; the response |
| `SkipTarget`, `Dedupe`, `Undelivered` | `normalize_wa_id` and the numbers seen; `_already_sent_order_alert`, in memory and by the words of the log |
| `Find`/`FindFails`, `Create`/`CreateCollides`, `DeadlockVictim` | `get_or_create_customer`: an INSERT waits for another of its key, fails if that one commits, and may close a cycle |
| `Compose`, `Block`, `Deliver`, `SendFails` | the LLM's text of a broadcast; `send_text_message` with the opt-out on the object read earlier; the client's attempts, whose answer may be lost |
| `Commit` | alerts and ingest commit per text, `notify` per recipient; a broadcast never does |
| `Restart` | sessions and the cache are gone |

`delivered` is what WhatsApp delivered and `told` what a response reported; no row
records either by itself. Left out: images that follow a text, wording.

### CatalogSync

`sync[t]` is a background task of an app process, `running` the processes with the source
in `_running`, `source` the `catalog_sources` row and `rows` its products. `site` is what
the shop says of its products and `shop` which kind of shop it is: a store whose
platform lists them, a website of pages, a database table. Each reader names a product
by an external id of its own, so `rows` are per id.

| Action | Code |
|---|---|
| `Tick`, `Ask` | `sync_due_sources` each minute; the dashboard and the realtime listener; both through `trigger_sync` |
| `Claim`/`Skip` | the conditional UPDATE of `sync_source`, and the hashes read with it |
| `FetchTable` | `fetch_rows`: all or an error |
| `FetchStore` | `try_shopify`, `try_woocommerce`: a page of the list that fails ends it |
| `FetchPages` | `extract_generic`, also when a store's probe fails: a page may fail, one with a known hash is not read again |
| `ReadRows`, `CommitRows` | `apply_scraped_products` in one transaction: rows read, columns that changed written, so an order may sell in between |
| `Raise`, `RecordError`, `Crash` | an exception after the claim; its recording, unless the database is out of reach too |
| `RemoveProducts`, `RemoveSource`, `RemovalFails` | `remove_catalog_source`: products deleted, then the source, in one transaction that a sync's updates wait for (`Blocked`) and may deadlock with (`Deadlocked`) |
| `Age` | the interval or `STALE_SYNC_AFTER` passes |
| `Edit`, `SellOrReturn`, `Toggle`, `Restart` | the shop changes; the order desk; the dashboard pauses the source; a process dies |

Time is the age of `sync_started_at`: never, recent, or old. Old stands for "the
interval has passed" or, for a source that is syncing, for the 45 minutes; no rule
of the code compares anything else. A row keeps whether it is shown, which is
`active` and stock together, since `_apply_fields` sets both; counts above zero are alike
here. Left out: prices and texts; several sources and the limit of two syncs a process.

### Watchers

`watcher[w]` is a `RealtimeWatcher` with its task and its debounce timer, `registry` what
`_watchers` has, `rec[r]` a reconciliation: the manager's or one that an edit asked for.

| Action | Code |
|---|---|
| `Joins`, `Refused`, `Drops`, `Reconnects`, `Closes` | `_run` and `_session`; after a drop a sync is scheduled |
| `Hears`, `RunsOut`, `Fires` | `_schedule_sync` and `_fire_after`, which asks again while it is refused |
| `Tick`, `ReadsRows`, `Reconciles`, `Awaited` | the manager's round and the reconciliation, cut where `stop()` awaits the timer and then the task |
| `Edit` | add, change, pause or remove on the dashboard |
| `Shutdown`, `Finally`, `Exit` | the lifespan cancels the manager, which may swallow it inside `stop()` |
| `Change`, `Syncs`, `Synced`, `SyncFails` | the shop changes; the sync of this process |

`news` says what of the shop no sync has read: nothing, something, or something a
watcher has heard of. Left out: several sources, the heartbeat, lengths of backoffs.

### WebOrders

`orders` is the shop's table, `turn[c]` a customer's tool calls, `watch[w]` a watcher with
the events down its socket, `task[k]` the task of an event with the alerts left to do.

| Action | Code |
|---|---|
| `PlaceOrder`, `DrawNumber`/`DrawFails`, `Post`/`PostUnanswered` | `create_web_order`: the number drawn in one call, or at random when that fails, the order posted in another |
| `AskStatus` | `get_order_status`, by text of the number or by phone |
| `Checkout`, `Update`, `Posted` | website, staff, the database webhook; an order may have no phone that can be texted |
| `Mutes` | a customer opts out, which nothing takes back; the shop's number is removed from the settings or configured |
| `Hears`, `Check`, `Send`, `SendFails` | a task per event; `handle_order_update_event`: the customer's text, then the shop's; nothing is sent, logged or cached, and nothing fails, when the order has no phone, who it is for opted out, or the shop has no number |
| `Joins`, `Refused`, `Drops`, `Reconnects`, `Closes` | a watcher's loop; a refused subscription is ignored |
| `Tick`, `ReadsRows`, `Reconciles`, `Awaited`, `Edit`, `Restart` | reconciliations, with the fingerprint's twelve characters of the key; the dashboard; the process |

Left out: customers that share a phone number, the heartbeat, photos, prices, wording.
Nothing catches up on events missed while no watcher is connected, in the code as here.

### BridgeSession

`sock[k]` is the k-th call of `createSession` with its socket, `entry` the tenant's entry
in `sessions`, `store` the stored credentials and `saving` those a `saveCreds` is writing.

| Action | Code |
|---|---|
| `Boot`, `Connect`/`ConnectReturns`, `Connected` | the boot's sessions: the active tenants, of which this is one, or when that query fails those of `WA_WEB_TENANT_IDS`, which may not name it; `ensureSession` with its in-flight guard |
| `Wiped`, `ReadCreds`, `Make` | `createSession`, cut at its awaits; a failed query counts as no credentials |
| `Qr`, `Scan`, `Open`, `Drop`, `LoggedOut` | `connection.update`; every close but a disconnect's makes a new session |
| `Renew`, `Save` | `creds.update` and the write, behind the row's lock |
| `Receive`, `Reply` | an inbound message and the address its answer goes to |
| `Disconnect`, `SignOff`, `Disconnected` | `/disconnect`: `logout()`, or `end()`, then the wipe |
| `Unlink`, `Restart` | the tenant removes the device; the process dies |

`started` says that the boot or a connect of this process has started the tenant's session;
a tenant the boot left out (`LeftOut`) has none until a dashboard request, since nothing in
the bridge asks for the tenants again. `unpaired` is history: the pairing was given up, or a
restart cut off its saving. Left out: images of QR codes, media, other tenants, which share
nothing.

## 3. Runs

| Run | Question | Instance | Properties |
|---|---|---|---|
| `orders_apart` | do handlers with no product in common implement the ledger when interleaved? | 2 sessions, one with two products and two-line carts in both orders, the other with a third; every operation that moves units; 3 requests, 2 orders, a crash | `RefinesLedger`, `UnitsAreConserved`, `CancelRestoresOnce`, `SoldOutIffHidden`, `RefsAreDense` |
| `orders_interleaved` | what survives every interleaving on one product and the same orders? | 2 sessions, 1 product, 2 orders, 1 receipt, every operation but the stock endpoint and the customer's cancellation; the dashboard's and the sweep's go through the same code | `TypeOK`, `PayMatchesStatus`, `RefundsAreBacked`, `PaidOnlyByApproval` |
| `orders_locks` | do requests that lock two products in opposite orders end? | 2 sessions, 2 products, 2 orders, fairness | `RequestsEnd` |
| `oversell_race` | are orders accepted only when stocked? (no) | 2 sessions, 1 product with one unit | `OrdersAreStocked` fails |
| `chat_interleaved` | is a message ingested whole and answered at most once, and are a customer's turns serial, as the inbox promises? | 2 runners, 4 messages of one customer, one an opt-out, alone and in a batch, 3 requests, a restart, pauses, every failure of two of the messages, a history of 2 rows | `IngestIsWhole`, `AnsweredOnce`, `TurnSeesNewestReplies`, `RefinesInbox` |
| `chat_ends` | does a failure that concerns one message hold up the others? | 2 runners, requests that mix two customers in both orders, fairness; what concerns `m1` may fail | `RequestsEnd`, `IngestedIsAnswered` |
| `crm_desk` | what of one customer survives tools and dashboard at once? | 2 sessions, all nine operations, 2 orders, 4 requests, 1 fault, fairness | `StageIsLastMove`, `BookingRefsAreDense`, `AnnouncedIsDecided`, `RequestsEnd` |
| `outbound_alerts` | what is promised when alerts, notify, a broadcast and an opt-out meet over the same new customers? | 2 handlers, 2 customers (one with two spellings of his number) and a bad number, 2 attempts a send, 3 requests, 2 faults, a restart | `SomethingGoesOn`, `ReportsAreTrue`, `OptOutIsRespected`, `AlertedOnce`, `OncePerRequest` |
| `catalog_mirrors` | one sync at a time, none stuck, and the shop mirrored in the end? | 2 processes, 2 tasks, each kind of shop, 2 products with four ids, one remembered by hash, one that may be missed, 2 events, 1 slow sync, fairness | `OneSyncUnlessSlow`, `NothingComesBack`, `SyncingEnds`, `MirrorsInTheEnd` |
| `watchers` | is what was heard synced, and the source watched as configured? | 2 watcher objects, 2 configurations, 1 reconciliation beside the manager's, 1 edit, 1 fault of any kind, fairness | `HeardIsSynced`, `ManagedInTheEnd`, `ShutdownEnds` |
| `web_orders` | are customers and shop told the truth, and all of it? | 1 customer, 1 order, 2 keys that differ early, 2 watcher objects, 2 tasks, 3 changes by website, staff, webhook and who opts out, 1 edit, 1 fault of any kind, fairness | `ReceiptIsStored`, `AlertsFollowOrders`, `HeardIsTold`, `WatchedInTheEnd` |
| `bridge_sessions` | is a tenant ever left without a session, or its pairing lost? | 3 sockets, 2 dashboard requests that overlap, 1 contact, 1 fault (also of the boot's query), a restart, fairness | `NeverAbandoned`, `PairingIsKept`, `NoSecondScan`, `ComesBack` |

`oversell_race` shows that stock is checked on an object read without a lock and
decremented from it later, so two orders for the last unit are both accepted.

Other disagreements between the code and what it says were met on the way. Each has a
configuration that TLC refutes with a short trace, beside the runs above.

| Configuration | Property | What the trace shows |
|---|---|---|
| `restored_twice` | `CancelRestoresOnce` | two overlapping cancellations both find the order open and both return its units |
| `sweep_fails` | `StaleOrdersAreClosed` | the sweep calls `has_active_orders` without its required keyword inside the transaction that cancels; every automatic cancellation is rolled back |
| `chat_first_lost` | `LoserIsDuplicate` | any `IntegrityError` of ingest is read as a duplicate message, also that of the key on customers: a new customer's second message is lost |
| `crm_funnel` | `StageFollowsFunnel` | a move judged on the stage as read is written over a later stage |
| `crm_decided_twice` | `DecidedOnce` | two decisions both find a refund request pending |
| `crm_status_lost` | `BookingStatusIsStored` | the dashboard's booking status is answered and never committed |
| `broadcast_unlogged` | `SentIsLogged` | a broadcast's log rows are rolled back |
| `catalog_stays_hidden` | `SyncRefreshesStock` | an unchanged page is skipped, and with it the stock that "is refreshed on every sync" |
| `catalog_orphans` | `RemovedLeavesNothing` | what a sync inserts while its source is removed stays for sale |
| `watch_two` | `OneWatcher` | overlapping reconciliations both start a watcher (3 objects) |
| `watch_missed` | `CatchesUp` | a change after the catch-up sync and before the next join is missed |
| `web_key` | `WatchedInTheEnd` | keys that begin alike, as JWTs do: a new key never reaches the watcher |
| `web_spam` | `TextedOnce` | two tasks both find an alert not sent |
| `web_asked` | `AnswersWhatIsAsked` | who asks for order 1 is told of order 12 |
| `bridge_off` | `OffStaysOff` | a session in the making opens after the disconnect |
| `bridge_two` | `OneSocket` | the session of the boot, or of a reconnect, and that of a connect each make a socket |
| `bridge_over` | `ConnectOverrides` | a connect that finds nothing to do returns without lifting the disconnect |
| `bridge_jid` | `RepliesReachTheirJid` | the jid cache goes with a reconnect while the agent composes |

Why these bounds are enough. A conflict is between the session that holds an object and the
one that changed its row, or between two that wait for each other's rows: two sessions,
runners, handlers, tasks or processes show each. Two units tell taking all from taking some;
two orders or bookings make one count the other's insert; a third message lets one wait
behind another in a request; a history of two rows is full when the second turn begins, so
that a third misses the reply of the first; the two runners of `chat_interleaved` may change
places, which `SYMMETRY` uses and no definition can tell; four requests are an order's
receipt or booking, a refund, and two that meet over it. Two watcher objects are the one
being stopped and the one that replaces it; three sockets are the boot's, the one that
replaces it, and one more for a close or a connect in between. A crash, a restart or a fault
may strike at any step, and a second adds nothing that the first does not leave behind,
except to sends, which are retried, and to syncs, where two events combine any two of a
page's change, a sell-out, a miss, a restart, a crash, a removal and a pause.
`CHECK_DEADLOCK FALSE` because what arrives is bounded: the system of a run may stop when
all is served.

The bounds limit what arrives or befalls, never what a handler in flight does:
`MaxOrders`, `MaxReceipts`, `MaxLevel`, `MaxRequests`, `MaxCrashes`, `MaxRestarts`,
`MaxFaults`, `MaxEvents`, `MaxSlow` (syncs that outlast the stale limit), `MaxEdits`,
`MaxChanges`; and `MaxSockets`, beyond which no request, close or restart that needs
one more socket happens.

Fairness, all of it weak and none assumed of customers, dashboard, WhatsApp, crashes or
faults:

| Module | Fair | Because |
|---|---|---|
| `OrderTxns` | `Proceed(s)`, `ListStale(s)` | the event loop runs ready tasks, the database serves a statement whose lock is free; the sweep comes round every 30 minutes |
| `Conversation` | each runner's `Step` | the event loop; `asyncio.Lock` serves in order of arrival |
| `CrmDesk` | `Proceed(s)` | as `OrderTxns` |
| `CatalogSync` | each task's `Step`, `Tick`, `Age`, `RemoveSource` | the sync loop never ends and catches what a tick raises; time passes; a removal's transaction ends |
| `Watchers` | tasks and timers, reconciliations, `Tick`, `Finally`, `Exit`, `Syncs`, `Synced` | the event loop; the manager's rounds; a sync ends |
| `WebOrders` | tasks, watchers, reconciliations, `Tick`, `DrawNumber` and `Post` | the event loop; HTTP calls end |
| `BridgeSession` | `Boot`, `Creating`, `Save`, `Answering` | promises settle, queries are answered |

`Outbound` assumes none: `SomethingGoesOn` says of each state that some handler is
`Ready`, which is enough for it to have a step (`ReadyHasStep`).

## 4. Proofs

Every theorem is for all values of the constants that the named assumptions allow; TLC
evaluates those in every run. Each proof has the usual three facts (`...Init`, `...Step`,
the implication), one step per action.

`OrderTxns_proofs`, for every finite set of sessions and all products, customers and carts:

- `TypesHold`: `TypeOK`. Not inductive as it stands: a session indexes its cart by
  `n` and the tables by `id` and `rid`. `TypeInv` adds that these indices fit, by
  control point (`Fits`), and that receipts name orders (`TablesFit`).
- `ReferencesAreDense`: `RefsAreDense`. Inductive with `RefInv`: a counted
  reference is at most one more than the orders there are, a session that has
  inserted holds exactly that number, and only one session holds it, since an
  insert waits for another of the same reference and fails if it committed.
- `StatusMatchesMethod`: `PayMatchesStatus`. A commit merges the columns a
  handler changed into whatever the row has become, so status and method may come
  from different handlers. `RowInv` (a row's method and status agree) and
  `SoundInv` (what a handler read agreed, and what it writes agrees and is complete
  where it must be) carry it.
- `RefundsNameBackedOrders`: `RefundsAreBacked`, and `ApprovalsPay`: `PaidOnlyByApproval`.
  Both from `MoneyInv`: a paid order has a decided receipt (`PaidInv`); a handler that
  found an order paid, or is about to file a refund for it, is about such an order, and
  only an approval means to make an order paid, the one its receipt names
  (`HonestInv`). Decided receipts stay decided (`ReceiptsGrow`), which carries what a
  handler knew over the steps of the others.

`OrderProps_proofs`, for any number of sessions, products, customers, carts and bounds,
under a condition on the constants that `orders_apart` meets: sessions have no product in
common (`Separate`). It is needed: with a product in common, `restored_twice`
refutes `CancelRestoresOnce`, and `oversell_race` shows two orders for one unit.

- `ShelvesHold`: `ShelfInv`, on which everything here rests. `Fine` says of a handler
  that it looks only at its own products and their orders (`Scoped`), that it means to
  leave the order as its code changes it (`Meant`), and that what it holds of a product
  is the committed row in every column it has not sent (`Synced`). With every order
  having lines of one scope (`FromCarts`) a row changes only under the hands of the one
  session whose scope it is in, so what is fine stays fine while others work. `Shown`
  is inductive with it only: stock and visibility are sent as separate columns, and a
  column that is not sent keeps whatever the row has.
- `SoldOutIsHidden`: `SoldOutIffHidden`, and `CancellationsRestoreOnce`: `CancelRestoresOnce`.
  Stock grows in a commit only if its handler restores, and then the order it read as
  open is open still, since no other session may touch it.
- `ObjectsAreExact`: `ExactInv`. Of a handler that takes or restores, each object it
  holds is the committed row, moved by the units of the lines done so far, and the
  lines checked so far are in stock. This one needs that no cart names a product on two
  lines (`NoRepeats`): the code checks line by line against the same stock, so such a
  cart could pass with more than there is.
- `UnitsStay`: `UnitsAreConserved`, and `DeskRefinesLedger`: `RefinesLedger`, that is
  `Spec => Ledger!LedgerSpec`. A commit of such a handler moves exactly the units of its
  order (`ExactInv` at the last line), every other commit moves none, everything else
  stutters (`LedgerMoves`). The ledger's guards follow from what the handler read, kept
  by `Fine`. `Units` and `Balance` sum over finite sets by picking elements one at a time:
  `SumsExist`, `SumPulls` and `SumsAgree` show that the order of picking does not
  matter, by induction on finite sets as a statement about the set of all subsets
  (`SubsetsByParts`).
- `DeskGoesOn`: while a request is at work one of them can go on. This one needs no
  `Separate`: sessions may share whatever they like and lock it in any order, and there
  need only be finitely many. Who is `Blocked` waits for a session at work
  (`BlockedWaits`, with `PlacedInv`: an idle session holds nothing and a handler is where
  its operation leads); if all wait, some wait in a circle (`SomeWaitInCircle`, by
  induction on the set of sessions), and who waits in a circle is a victim the database
  may pick. `Ready` stands in for ENABLED: `ReadyHasStep` names the next state of a ready
  session at every control point and shows that `Proceed` leads there.

`Conversation_proofs`, for every set of runners, messages, customers and faults:

- `TypesHold`: `TypeOK`, with `TypeInv`: a runner that works has a message.
- `RepliesAreSeen`: `TurnSeesNewestReplies`, whatever the limit of the history. `LockInv`
  says who is in a customer's queue (the runners between `Enter` and `Leave`, each once) and
  that who works is its head; so nobody else logs a reply to that customer while the agent
  works on what it read.
- `IngestsAreWhole`: `IngestIsWhole`, and `AnswersAreSingle`: `AnsweredOnce`. `ClaimInv`: a
  message has one runner at most from its claim to the end of its turn, is processed
  from the commit on, and has no reply until then.
- `KeepsPromise`: `RefinesInbox`, that is `Spec => Promise!InboxSpec`. `PromiseInv` joins the
  invariants above with `RowsAreTheirs` (a row of the log is of the sender of its
  message). What one runner's step does to what is due and in progress is what it does
  to that runner's part (`PartsOf`, `PartsStay`); a reply finds the turn it ends, with
  every reply for which there was room seen, by `TurnSeesNewestReplies`.
- `SomeoneIsServed`: while any message is processed some runner can go on, without any
  failure. Who waits for a claim waits for a runner that has made one; that one waits at
  most for a customer's row, and who holds such a row commits without waiting. Who waits
  for a turn waits for the head of the queue.
  That this head is alive is `QueueInv`: everybody in a customer's queue is in a turn of
  that customer, and there once, so no failure and no restart leaves a lock behind.
  `ReadyHasStep` as above; `Ready` leaves out that a waiting statement may fail.

`CatalogSync_proofs`, for every shop and any number of processes and tasks:

- `TypesHold`: `TypeOK`, inductive as it stands.
- `ClaimsExclude`: `OneSyncUnlessSlow`, at most `1 + slow` syncs work at once. It is not
  inductive: a claim adds a worker, and only that the source was claimable says there
  is room. `ClaimInv` is stronger by one while the source can be claimed (`Room`). A
  claim uses that place up; a sync that ends gives one up and may make the source
  claimable; time makes a source claimable only with no worker, or by a slow sync,
  which is counted.
- `RemovedStaysRemoved`: `NothingComesBack`, step by step: a commit that inserts or
  updates needs the source, and nothing else adds a row.

`CrmDesk_proofs`, for every set of sessions and operations:

- `TypesHold`: `TypeOK`. `Fits` says which operations come to which control point
  (`Places`) and that the row a session is about is there.
- `StageFollowsHistory`: `StageIsLastMove`. A session sets the stage exactly when it adds
  the history row that says so, whatever it had read.
- `ToldIsStored`: `AnnouncedIsDecided`, with `ToldInv`: what is about to be told is
  committed.
- `ReferencesAreDense`: `BookingRefsAreDense`, with `BookInv`: a counted number is at most
  one more than the bookings there are, an inserted one is exactly that, and one session
  holds it.
- `NobodyBlocksAll`: while a request is at work some session is ready, and no session
  needs the database to break a circle. `LocksInv` is the order in which rows are
  taken: the customer's row is always the last, so who holds it waits for nobody,
  who holds another row or a reference waits at most for the customer's, and nothing
  else is waited for. `ReadyHasStep` as above.

`Outbound_proofs`, for every finite set of handlers and all customers, numbers and requests:

- `TypesHold`: `TypeOK`; `OptOutsAreRespected`: `OptOutIsRespected`; `AlertsAreSingle`:
  `AlertedOnce`; `RequestsReportOnce`: `OncePerRequest`; `ReportsHold`: `ReportsAreTrue`.
  They share one invariant. `Sound` says of a job that where it is fits its target
  (`Fits`), that it holds a refusing object when it is about to send to who had opted
  out (`Silent`), that an alert on its way was not logged when its event arrived
  (`Fresh`), and that what it will report are delivered texts of targets dealt with,
  each once, logged or about to be committed (`Honest`). Rows and deliveries only
  grow, so what is sound stays sound while others work (`SoundStays`) and one job's
  step is all each action needs. `Silent` rests on customers being created before they
  opt out: a customer object that a session itself inserted cannot be one of them.
- `SomebodyGoesOn`: `SomethingGoesOn`. A broadcast keeps every customer it inserted until
  it ends, so circles do arise; in a finite set of handlers that all wait some are in a
  circle (`SomeWaitInCircle`), which the database breaks. `ReadyHasStep` as above, with
  the next state named by `Successor`.

`WebOrders_proofs`, for any number of customers, orders, watchers, reconciliations and
tasks:

- `TypesHold`: `TypeOK`; `ReceiptsAreStored`: `ReceiptIsStored`; `AlertsAreTrue`:
  `AlertsFollowOrders`. One invariant: what is posted has a drawn number and no receipt
  yet (`Numbered`), and what an event in a socket, an alert a task has left and an alert
  that was sent say of an order was so (`EventsHold`, `TasksHold`, `LogHolds`). None is
  inductive without the others, since an alert is what its task had left and the task
  what its event said. They stay true because an order's status only moves on
  (`Reached`): a text that overtakes another may be old news, never false.
- `AlertsAreNotDropped`: `NothingIsLetGo`, the safety half of `HeardIsTold`: a task lets go of
  the first of its alerts at most (`OwesRest`), and only when that one was sent, counts as
  sent, failed, or can reach nobody.

`BridgeSession_proofs`, for any number of sockets, overlapping requests, faults and
restarts:

- `TypesHold`: `TypeOK`, with `Fits`: a socket that was made has credentials.
- `TenantsAreServed`: `NeverAbandoned`. Only a boot whose query failed starts no session,
  and that is a fault (`LeftOutStep`); once a session was started, the close of the socket
  in service makes the next call of `createSession` in the same step; a call that ends
  leaves a live socket.
- `PairingsAreKept`: `PairingIsKept`, and `ScansAreSingle`: `NoSecondScan`. Both from `PairInv`:
  until a pairing is given up, the credentials stored, or those being saved, are a
  linked device's, and a call that resumes waits for such a save or has read such
  credentials (`Resumes`). Neither is inductive alone: what a later read finds
  depends on which save it queued behind.

Only model-checked: everything under fairness (`RequestsEnd` of three modules,
`IngestedIsAnswered`, `SyncingEnds`, `MirrorsInTheEnd`, `HeardIsSynced`, `ManagedInTheEnd`,
`ShutdownEnds`, `HeardIsTold`, `WatchedInTheEnd`, `ComesBack`), which is out of the prover's
reach, as ENABLED is. Of the three `RequestsEnd` the half that can be put without either is
proved: there is always a session or runner that has a step. That `Ready` is not narrower
or wider than having a step was evaluated by TLC in all states of `orders_locks`, of
`orders_interleaved` and of `CrmDesk` with three sessions, where it is equivalent to
`ENABLED Proceed(s)`. Every invariant, refinement and action property of the passing
runs is a theorem. That a recursive definition computes what it should for every input
is out of reach as a scheme; the least element of a set of naturals and the subsets of
a finite set, stated as facts about sets, carry the inductions above. What `Watchers`
promises is all under fairness; of `HeardIsTold` the fair half is that every task ends. For
sessions that share products `RefinesLedger`,
`UnitsAreConserved` and `CancelRestoresOnce` are false, as `oversell_race` and
`restored_twice` show; `ReferencesAreDense`, `StatusMatchesMethod`, `RefundsNameBackedOrders`,
`ApprovalsPay` and `DeskGoesOn` hold of them too.

## 5. Plan and limits

Next:

1. Theorems: the types of `Watchers`, and that an object in its registry was started and
   is replaced only by a reconciliation that stops it.
2. `Watchers` composed with `CatalogSync`, instead of the sync of one process in a few
   actions: a change of the shop is followed by a sync that started after it.
3. Product editing and deletion in `OrderTxns`.

Not modelled, and why:

- The LLM's choice of tools: any order of requests is allowed instead. Prompts, wording,
  LLM and vision clients keep no state.
- The rate limiter: it reads and writes its timestamps with no await in between, so a
  unit test reaches all of it.
- The `sessions` table, the dashboard's single-row edits of settings, tenants and
  customers, and authentication: one statement each, with nothing to interleave.
- The Shopify branch of `create_order`, which excludes local products; several sources
  and the limit on syncs at once, which share only the process; the heartbeats and the
  lengths of backoffs, since a drop may come at any time.
- HTML heuristics, analytics, the front end, migrations and one-off scripts,
  cryptography: no state of their own, or none that outlives a request.

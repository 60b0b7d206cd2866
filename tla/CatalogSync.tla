------------------------------ MODULE CatalogSync ------------------------------
(***************************************************************************)
(* Keeping one source's products like the shop (catalog_sync/service.py,   *)
(* extractors.py, database.py).                                            *)
(*                                                                         *)
(* A sync is a background task of an app process: it claims the source by  *)
(* a conditional UPDATE, reads the shop, then upserts the products in one  *)
(* transaction and hides those that vanished.  A process runs one sync of  *)
(* a source at a time; a claim held too long is taken for one of a process *)
(* that died, and taken over.  Meanwhile the shop changes its pages, and   *)
(* the order desk sells the last unit of a product or gives it back.       *)
(*                                                                         *)
(* A shop is a store whose platform lists its products (Shopify or         *)
(* WooCommerce), a website of pages, or a table of a database.  A website  *)
(* is probed for the platform anew by each sync, and each reader names the *)
(* shop's products by external ids of its own.  Pages the LLM reads are    *)
(* remembered by a hash of their text, so that an unchanged page is not    *)
(* read again.  The dashboard may remove the source at any time.           *)
(*                                                                         *)
(* Left out: prices and texts, several sources and the limit on how many   *)
(* are synced at once.                                                     *)
(***************************************************************************)
EXTENDS Integers, FiniteSets

CONSTANTS
  Processes,   \* app replicas
  Tasks,       \* background tasks
  Items,       \* products of the shop
  Ids,         \* external ids: a product has one per reader that finds it
  Of, By,      \* the product an id names, and the reader that gives the id
  Hashed,      \* the ids whose page is read by the LLM and remembered by hash
  Lossy,       \* products a reader may miss while the sync goes on
  Shops,       \* bound: the kinds of shop to look at
  AtFirst,     \* bound: what a shop may say of its products at first
  MaxEvents,   \* bound: changes of the shop, sell-outs and returns, syncs
               \* asked for, pauses, failures, restarts and removals, all together
  MaxSlow      \* bound: syncs that last longer than STALE_SYNC_AFTER

ASSUME SomeProcess == Processes # {}
ASSUME TasksAreFinite == IsFiniteSet(Tasks)
Readers == {"store", "pages", "table"}

ASSUME ItemsOfTheShop == Hashed \subseteq Ids /\ Lossy \subseteq Items
ASSUME IdsNameItems == Of \in [Ids -> Items] /\ By \in [Ids -> Readers]
ASSUME KindsOfShop == Shops \subseteq Readers
ASSUME AtFirstArePages == AtFirst \subseteq {"soldout", "instock"}
ASSUME BoundsAreNaturals == MaxEvents \in Nat /\ MaxSlow \in Nat

VARIABLES
  shop,      \* what kind of shop it is: the reader meant for it
  site,      \* what the shop says of each item
  rows,      \* the products rows of this source
  removal,   \* the rows that remove_catalog_source has deleted and not committed
  source,    \* the catalog_sources row
  running,   \* the processes with this source in _running
  sync,      \* the background tasks
  events,    \* events so far
  slow       \* slow syncs so far

vars == <<shop, site, rows, removal, source, running, sync, events, slow>>

-----------------------------------------------------------------------------
Pages == {"absent", "soldout", "instock"}

\* here: the row exists; shown: active, with stock; hash: source_hash.
Row == [here : BOOLEAN, shown : BOOLEAN, hash : Pages \cup {"none"}]
NoRow == [here |-> FALSE, shown |-> FALSE, hash |-> "none"]

\* age of sync_started_at: "old" once the interval, or STALE_SYNC_AFTER for a
\* source that is syncing, has passed.
\* gone: the row is deleted.
Source == [status : {"pending", "syncing", "ok", "error", "gone"},
           age : {"never", "recent", "old"}, enabled : BOOLEAN]

\*   known : the hashes read with the claim, for the reader
\*   seen  : what was read of each id, or that its page has not changed
\*   old   : the rows the sync computes from
Task == [at : {"idle", "claim", "fetch", "read", "commit", "fail"},
         proc : Processes,
         known : [Ids -> Pages \cup {"none"}],
         seen : [Ids -> Pages \cup {"unchanged"}],
         old : [Ids -> Row]]

AsTask(at, p) ==
  [at |-> at, proc |-> p, known |-> [x \in Ids |-> "none"],
   seen |-> [x \in Ids |-> "absent"], old |-> [x \in Ids |-> NoRow]]

Removal == [begun : BOOLEAN, ids : SUBSET Ids]
NoRemoval == [begun |-> FALSE, ids |-> {}]
Gone == source.status = "gone"

\* A task that is not running belongs to no process.
Idle == AsTask("idle", CHOOSE p \in Processes : TRUE)

Event == events < MaxEvents /\ events' = events + 1

\* The tasks that hold the claim, or think they do.
Working(t) == sync[t].at \in {"fetch", "read", "commit", "fail"}

\* The task goes on to record its error.
Fails(t) == sync' = [sync EXCEPT ![t] = AsTask("fail", sync[t].proc)]

\* The task ends: the process may sync the source again.
Done(t) ==
  /\ sync' = [sync EXCEPT ![t] = Idle]
  /\ running' = running \ {sync[t].proc}

-----------------------------------------------------------------------------
(* Asking for a sync.  (A definition named for what it forgets or does       *)
(* wrongly, just before a definition, is a deliberately wrong variant of it, *)
(* which no action uses.)                                                    *)

\* trigger_sync: not while this process is at it already.
TriggerSync(p) ==
  /\ p \notin running
  /\ \E t \in Tasks : sync[t].at = "idle"
  /\ sync' = [sync EXCEPT ![CHOOSE t \in Tasks : sync[t].at = "idle"] = AsTask("claim", p)]
  /\ running' = running \cup {p}

DueForgetsStale == ~ Gone /\ source.enabled /\ source.age # "recent" /\ source.status # "syncing"

\* is_due: never synced, or long enough ago; a source that is syncing, once
\* the sync is stale.
Due == ~ Gone /\ source.enabled /\ source.age # "recent"

\* sync_due_sources, every minute.
Tick(p) ==
  /\ Due
  /\ TriggerSync(p)
  /\ UNCHANGED <<shop, site, rows, removal, source, events, slow>>

\* add_catalog_source and the realtime listener ask for a sync whatever the
\* status; the dashboard's "sync now" (also) refuses a source that is syncing.
Ask(p) ==
  /\ ~ Gone
  /\ Event
  /\ TriggerSync(p)
  /\ UNCHANGED <<shop, site, rows, removal, source, slow>>

-----------------------------------------------------------------------------
(* sync_source. *)

ClaimableAlways == ~ Gone

\* The conditional UPDATE's WHERE.
Claimable == ~ Gone /\ (source.status # "syncing" \/ source.age # "recent")

Claim(t) ==
  /\ sync[t].at = "claim"
  /\ Claimable
  /\ source' = [source EXCEPT !.status = "syncing", !.age = "recent"]
  /\ sync' = [sync EXCEPT ![t].at = "fetch", ![t].known = [x \in Ids |-> rows[x].hash]]
  /\ UNCHANGED <<shop, site, rows, removal, running, events, slow>>

\* Already running elsewhere: skipped.
Skip(t) ==
  /\ sync[t].at = "claim"
  /\ ~ Claimable
  /\ Done(t)
  /\ UNCHANGED <<shop, site, rows, removal, source, events, slow>>

\* What a reader returns of each id, when it misses the items of lost.
Listed(t, reader, lost) ==
  [x \in Ids |->
     IF By[x] # reader \/ Of[x] \in lost THEN "absent"
     ELSE IF x \in Hashed /\ site[Of[x]] # "absent" /\ sync[t].known[x] = site[Of[x]]
       THEN "unchanged"
     ELSE site[Of[x]]]

IsEmpty(seen) == \A x \in Ids : seen[x] = "absent"

\* A shop without products is an error, not an empty shop.
Reads(t, seen) ==
  IF IsEmpty(seen) THEN Fails(t)
  ELSE sync' = [sync EXCEPT ![t] = [AsTask("read", sync[t].proc) EXCEPT !.seen = seen]]

\* fetch_rows raises on whatever goes wrong: it misses nothing.
FetchTable(t) ==
  /\ sync[t].at = "fetch" /\ shop = "table"
  /\ Reads(t, Listed(t, "table", {}))
  /\ UNCHANGED <<shop, site, rows, removal, source, running, events, slow>>

\* try_shopify and try_woocommerce: a page of the list that does not load ends
\* it, as the last page does.
FetchStore(t) ==
  /\ sync[t].at = "fetch" /\ shop = "store"
  /\ \E lost \in SUBSET Lossy :
       /\ IF lost = {} THEN UNCHANGED events ELSE Event
       /\ ~ IsEmpty(Listed(t, "store", lost))
       /\ Reads(t, Listed(t, "store", lost))
  /\ UNCHANGED <<shop, site, rows, removal, source, running, slow>>

\* extract_generic, when no platform answers, its probe fails or lists nothing.
FetchPages(t) ==
  /\ sync[t].at = "fetch" /\ shop # "table"
  /\ \E lost \in SUBSET Lossy :
       /\ IF lost = {} /\ (shop = "store" => IsEmpty(Listed(t, "store", {})))
            THEN UNCHANGED events ELSE Event
       /\ Reads(t, Listed(t, "pages", lost))
  /\ UNCHANGED <<shop, site, rows, removal, source, running, slow>>

\* The apply transaction reads the source's rows, ...
ReadRows(t) ==
  /\ sync[t].at = "read"
  /\ sync' = [sync EXCEPT ![t].at = "commit", ![t].old = rows]
  /\ UNCHANGED <<shop, site, rows, removal, source, running, events, slow>>

AppliedShowsSoldOut(row, page, x) ==
  CASE page = "unchanged" -> row
    [] page = "absent"    -> [row EXCEPT !.shown = FALSE]
    [] OTHER -> [here |-> TRUE, shown |-> TRUE, hash |-> IF x \in Hashed THEN page ELSE "none"]

\* apply_scraped_products for one id: an unchanged page leaves the row as it
\* is, what the reader does not list is hidden, the rest is as the shop says.
Applied(row, page, x) ==
  CASE page = "unchanged" -> row
    [] page = "absent"    -> [row EXCEPT !.shown = FALSE]
    [] OTHER -> [here |-> TRUE, shown |-> page = "instock",
                 hash |-> IF x \in Hashed THEN page ELSE "none"]

New(t, x) == Applied(sync[t].old[x], sync[t].seen[x], x)

Inserts(t) == {x \in Ids : New(t, x).here /\ ~ sync[t].old[x].here}

\* last_synced_at, at least, of what was read; the shown that was not.
Updates(t) == {x \in Ids : sync[t].old[x].here
                            /\ (sync[t].seen[x] # "absent" \/ sync[t].old[x].shown)}

WritesAnyway(t) == \A x \in Inserts(t) : ~ rows[x].here

\* No row it inserts is there by now (the SKU would be taken), and the source
\* and the rows it updates still are.
MayWrite(t) ==
  /\ \A x \in Inserts(t) : ~ rows[x].here
  /\ ~ Gone

\* A row it updates is deleted by a removal that has not committed.
Blocked(t) == sync[t].at = "commit" /\ Updates(t) \cap removal.ids # {}

\* ... and writes the columns that changed.
CommitRows(t) ==
  /\ sync[t].at = "commit"
  /\ MayWrite(t) /\ ~ Blocked(t)
  /\ rows' = [x \in Ids |->
       LET old == sync[t].old[x] new == New(t, x) IN
       [here  |-> rows[x].here \/ new.here,
        shown |-> IF old.shown # new.shown THEN new.shown ELSE rows[x].shown,
        hash  |-> IF old.hash # new.hash THEN new.hash ELSE rows[x].hash]]
  /\ source' = [source EXCEPT !.status = "ok"]
  /\ Done(t)
  /\ UNCHANGED <<shop, site, removal, events, slow>>

\* The sync's inserts keep the removal from deleting the source, and the removal
\* keeps the sync's updates waiting.
Deadlocked(t) == Blocked(t) /\ Inserts(t) # {}

\* An exception after the claim: the write fails, or is the victim of a
\* deadlock; the shop or the database is out of reach.
Raise(t) ==
  /\ \/ sync[t].at = "commit" /\ (~ MayWrite(t) \/ Deadlocked(t)) /\ UNCHANGED events
     \/ sync[t].at \in {"fetch", "read", "commit"} /\ Event
  /\ Fails(t)
  /\ UNCHANGED <<shop, site, rows, removal, source, running, slow>>

\* The error is recorded, whoever holds the claim by now, ...
RecordError(t) ==
  /\ sync[t].at = "fail"
  /\ source' = IF Gone THEN source ELSE [source EXCEPT !.status = "error"]
  /\ Done(t)
  /\ UNCHANGED <<shop, site, rows, removal, events, slow>>

\* ... unless the database is out of reach: the task dies, the claim stays.
Crash(t) ==
  /\ sync[t].at \in {"claim", "fail"}
  /\ Event
  /\ Done(t)
  /\ UNCHANGED <<shop, site, rows, removal, source, slow>>

-----------------------------------------------------------------------------
(* Removing the source: products first, then its row, in one transaction.    *)

\* remove_catalog_source deletes the products it sees, or makes them manual
\* ones: they are no longer rows of this source.
RemoveProducts ==
  /\ ~ Gone /\ ~ removal.begun
  /\ Event
  /\ removal' = [begun |-> TRUE, ids |-> {x \in Ids : rows[x].here}]
  /\ UNCHANGED <<shop, site, rows, source, running, sync, slow>>

\* It deletes the source and commits.  Rows inserted meanwhile stay, and lose
\* their source (ON DELETE SET NULL).
RemoveSource ==
  /\ removal.begun
  /\ removal' = NoRemoval
  /\ rows' = [x \in Ids |-> IF x \in removal.ids THEN NoRow ELSE rows[x]]
  /\ source' = [status |-> "gone", age |-> "never", enabled |-> FALSE]
  /\ UNCHANGED <<shop, site, running, sync, events, slow>>

\* It is the victim of a deadlock, or its process dies.
RemovalFails ==
  /\ removal.begun
  /\ \/ (\E t \in Tasks : Deadlocked(t)) /\ UNCHANGED events
     \/ Event
  /\ removal' = NoRemoval
  /\ UNCHANGED <<shop, site, rows, source, running, sync, slow>>

-----------------------------------------------------------------------------
(* Around the sync. *)

\* The interval passes, or STALE_SYNC_AFTER; the latter with a sync still at
\* work only if that sync is slow: there is no deadline on it.
Age ==
  /\ ~ Gone /\ source.age = "recent"
  /\ source' = [source EXCEPT !.age = "old"]
  /\ IF source.status = "syncing" /\ \E t \in Tasks : Working(t)
       THEN slow < MaxSlow /\ slow' = slow + 1
       ELSE UNCHANGED slow
  /\ UNCHANGED <<shop, site, rows, removal, running, sync, events>>

\* What the readers used on this kind of shop may find.
Sold == {Of[x] : x \in {x \in Ids : By[x] = shop \/ (By[x] = "pages" /\ shop = "store")}}

\* The shop changes what it says of an item.
Edit ==
  /\ Event
  /\ \E i \in Sold : \E page \in Pages \ {site[i]} : site' = [site EXCEPT ![i] = page]
  /\ UNCHANGED <<shop, rows, removal, source, running, sync, slow>>

\* decrement_product_stock sells the last unit, cancel_order returns one.
SellOrReturn ==
  /\ Event
  /\ \E x \in Ids \ removal.ids : rows[x].here /\ rows' = [rows EXCEPT ![x].shown = ~ @]
  /\ UNCHANGED <<shop, site, removal, source, running, sync, slow>>

\* The dashboard pauses or resumes the source.
Toggle ==
  /\ ~ Gone
  /\ Event
  /\ source' = [source EXCEPT !.enabled = ~ @]
  /\ UNCHANGED <<shop, site, rows, removal, running, sync, slow>>

\* A process dies with its tasks, and is started again.
Restart(p) ==
  /\ Event
  /\ sync' = [t \in Tasks |-> IF sync[t].proc = p THEN Idle ELSE sync[t]]
  /\ running' = running \ {p}
  /\ UNCHANGED <<shop, site, rows, removal, source, slow>>

Init ==
  /\ shop \in Shops
  /\ site \in [Items -> AtFirst \cup {"absent"}] /\ \A i \in Items \ Sold : site[i] = "absent"
  /\ rows = [x \in Ids |-> NoRow]
  /\ removal = NoRemoval
  /\ source = [status |-> "pending", age |-> "never", enabled |-> TRUE]
  /\ running = {}
  /\ sync = [t \in Tasks |-> Idle]
  /\ events = 0 /\ slow = 0

\* The task's next step.
Step(t) ==
  \/ Claim(t) \/ Skip(t) \/ FetchTable(t) \/ FetchStore(t) \/ FetchPages(t)
  \/ ReadRows(t) \/ CommitRows(t)
  \/ Raise(t) \/ RecordError(t) \/ Crash(t)

Next ==
  \/ \E t \in Tasks : Step(t)
  \/ \E p \in Processes : Tick(p) \/ Ask(p) \/ Restart(p)
  \/ Age \/ Edit \/ SellOrReturn \/ Toggle
  \/ RemoveProducts \/ RemoveSource \/ RemovalFails

Spec == Init /\ [][Next]_vars

\* The event loop runs its tasks, a removal's transaction ends, the sync loop
\* comes round, and time passes.
FairSpec ==
  /\ Spec
  /\ \A t \in Tasks : WF_vars(Step(t))
  /\ \A p \in Processes : WF_vars(Tick(p))
  /\ WF_vars(Age) /\ WF_vars(RemoveSource)

-----------------------------------------------------------------------------
TypeOK ==
  /\ shop \in Shops /\ site \in [Items -> Pages]
  /\ rows \in [Ids -> Row]
  /\ removal \in Removal
  /\ source \in Source
  /\ running \subseteq Processes
  /\ sync \in [Tasks -> Task]
  /\ events \in Nat /\ slow \in Nat

Workers == {t \in Tasks : Working(t)}

\* No two syncs of the source work at once (service.py, "two app replicas never
\* sync the same source at once"), but for those that outlast STALE_SYNC_AFTER:
\* each of them lets one more in, and no more.
OneSyncUnlessSlow == Cardinality(Workers) <= 1 + slow

\* A source does not stay "syncing" for ever, whatever dies in mid-sync.
SyncingEnds ==
  source.status = "syncing" ~> (source.status # "syncing" \/ ~ source.enabled)

\* The reader a sync that nothing disturbs ends up with.
StoreIsEmpty == \A x \in Ids : By[x] = "store" => site[Of[x]] = "absent"
Reader == IF shop = "store" /\ StoreIsEmpty THEN "pages" ELSE shop

Offered(x) == By[x] = Reader /\ site[Of[x]] = "instock"

Mirrors ==
  \A x \in Ids : (x \in Hashed /\ By[x] = Reader) \/ rows[x].shown = Offered(x)

NothingThere == \A x \in Ids : By[x] = Reader => site[Of[x]] = "absent"

\* Once the shop stops changing, the products shown are those it has in stock,
\* each under one id, whatever was lost, sold, read by another reader or
\* restarted on the way; but for those whose page is remembered by its hash,
\* which SyncRefreshesStock is about.
MirrorsInTheEnd == <>[](Mirrors \/ ~ source.enabled \/ NothingThere \/ Gone)

\* A sync that outlives its source brings no product of it back.
NothingComesBack == [][Gone => \A x \in Ids : rows'[x].here => rows[x].here]_vars

\* (admin/router.py:957, "Disconnect a source. Its products are deleted", or
\* become manually-managed ones.)
RemovedLeavesNothing == Gone => \A x \in Ids : ~ rows[x].here

\* After a sync every product whose page said so is in stock (service.py, "The
\* count is refreshed on every sync, so the website stays the source of truth").
SyncRefreshesStock ==
  [][\A t \in Tasks : \A x \in Ids :
       (/\ sync[t].at = "commit" /\ sync'[t].at = "idle" /\ source'.status = "ok"
        /\ sync[t].old[x] = rows[x]
        /\ \/ sync[t].seen[x] = "instock"
           \/ sync[t].seen[x] = "unchanged" /\ rows[x].hash = "instock")
         => rows'[x].shown]_vars
=============================================================================

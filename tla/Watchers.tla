-------------------------------- MODULE Watchers --------------------------------
(***************************************************************************)
(* Live updates of one Supabase source (catalog_sync/realtime.py).         *)
(*                                                                         *)
(* A watcher keeps one websocket subscribed to the shop's tables.  Changes *)
(* start a sync after a quiet period; a sync that is refused because one   *)
(* runs already is asked for again.  Reconciliations start, replace and    *)
(* stop watchers as the source is added, edited and removed: the manager's *)
(* every RECONCILE_SECONDS, and one more for each edit.  They are tasks of *)
(* one event loop, so they interleave only where they await.               *)
(*                                                                         *)
(* Left out: several sources (they share only the loop), the heartbeat,    *)
(* which message names which table, and how long the backoff lasts.        *)
(***************************************************************************)
EXTENDS Naturals, FiniteSets

CONSTANTS
  Configs,      \* what a source's fingerprint tells apart: URL, key, tables
  Initially,    \* bound: what the source may be when the app starts
  Objects,      \* RealtimeWatcher objects
  Requests,     \* tasks of request_reconcile
  MaxDelay,     \* how often a change may put the sync off (MAX_DELAY_SECONDS)
  MaxEdits,     \* bound: edits of the source on the dashboard
  Faults,       \* what may go wrong: "refused", "dropped", "sync"
  MaxFaults     \* bound: how often

Nobody == "nobody"
Off == "off"
Manager == "manager"
Reconcilers == Requests \cup {Manager}

ASSUME NamesDiffer == Nobody \notin Objects /\ Off \notin Configs /\ Manager \notin Requests
ASSUME InitiallyAConfig == Initially \subseteq Configs \cup {Off}
ASSUME ObjectsAreFinite == IsFiniteSet(Objects)

VARIABLES
  source,     \* the catalog_sources row: its config, or Off when it is not enabled
  registry,   \* _watchers[source_id]
  watcher,    \* the watcher objects
  status,     \* _status[source_id]
  rec,        \* the reconciliations
  app,        \* the app: up, stopping (the lifespan awaits its tasks), down
  deaf,       \* the manager swallowed its cancellation
  sync,       \* the sync of this source in this process
  news,       \* of the shop: all read by a sync; not all; a watcher has heard
              \* of what is not, or that it may have missed some
  edits, faults

counters == <<edits, faults>>
vars == <<source, registry, watcher, status, rec, app, deaf, sync, news, counters>>

\* "error" stands for "not_enabled" too; "stateless": an event created the entry anew, with nothing but its time.
States == {"none", "connecting", "live", "error", "stateless"}

\*   life  : of the task, closing once it is cancelled
\*   event : a change has been sent down the socket
\*   timer : the debounce task: set, run out, or asking again
\*   put   : how often changes put it off since the first
Watcher == [life : {"unused", "connecting", "joined", "down", "closing", "dead"},
            config : Configs \cup {Off}, event : BOOLEAN,
            timer : {"none", "set", "out", "again"}, put : 0..MaxDelay]

Unused == [life |-> "unused", config |-> Off, event |-> FALSE, timer |-> "none", put |-> 0]
Running == {w \in Objects : watcher[w].life \in {"connecting", "joined", "down"}}
Alive(w) == watcher[w].life \notin {"unused", "dead"}

\* (While the app runs, as everything that comes from outside.)
Fault(kind) ==
  /\ app = "up" /\ kind \in Faults
  /\ faults < MaxFaults /\ faults' = faults + 1
  /\ UNCHANGED edits

Waking(w, life) == watcher' = [watcher EXCEPT ![w].life = life, ![w].event = FALSE]

\* What was heard will not be synced on that account.
Forgets == news' = IF news = "heard" THEN "unheard" ELSE news

-----------------------------------------------------------------------------
(* The debounce.  (A definition named for what it forgets or does wrongly,   *)
(* just before a definition, is a deliberately wrong variant of it, which no *)
(* action uses.)                                                             *)

\* _schedule_sync: a change puts the sync off, unless it is overdue.  Once the
\* sync has been refused, the count starts again.
Scheduled(rw) ==
  CASE rw.timer \in {"none", "again"} -> [rw EXCEPT !.timer = "set"]
    [] rw.put >= MaxDelay            -> rw
    [] OTHER                         -> [rw EXCEPT !.timer = "set", !.put = @ + 1]

RunsOut(w) ==
  /\ watcher[w].timer = "set"
  /\ watcher' = [watcher EXCEPT ![w].timer = "out"]
  /\ UNCHANGED <<source, registry, status, rec, app, deaf, sync, news, counters>>

GivesUpWhenRefused(w) ==
  IF sync = "none"
    THEN sync' = "started" /\ watcher' = [watcher EXCEPT ![w].timer = "none", ![w].put = 0]
    ELSE UNCHANGED sync /\ watcher' = [watcher EXCEPT ![w].timer = "none", ![w].put = 0]

\* trigger_sync: refused while this process syncs the source.
AsksForSync(w) ==
  IF sync = "none"
    THEN sync' = "started" /\ watcher' = [watcher EXCEPT ![w].timer = "none", ![w].put = 0]
    ELSE UNCHANGED sync /\ watcher' = [watcher EXCEPT ![w].timer = "again", ![w].put = 0]

\* _fire_after, once the time is up; and again, every DEBOUNCE_SECONDS.
Fires(w) ==
  /\ \/ watcher[w].timer = "out"
     \/ watcher[w].timer = "again" /\ sync = "none"
  /\ AsksForSync(w)
  /\ UNCHANGED <<source, registry, status, rec, app, deaf, news, counters>>

-----------------------------------------------------------------------------
(* The connection. *)

\* _run connects, _session subscribes, _handle takes the answers.
Joins(w) ==
  /\ watcher[w].life = "connecting"
  /\ Waking(w, "joined")
  /\ status' = "live"
  /\ UNCHANGED <<source, registry, rec, app, deaf, sync, news, counters>>

\* The host does not answer, or Supabase refuses; what the dashboard then shows
\* names the reason.  It has not been live: there is nothing to catch up on.
Refused(w) ==
  /\ watcher[w].life = "connecting"
  /\ Fault("refused")
  /\ Waking(w, "down")
  /\ status' = "error"
  /\ UNCHANGED <<source, registry, rec, app, deaf, sync, news>>

\* A postgres_changes message.
Hears(w) ==
  /\ watcher[w].life = "joined"
  /\ watcher[w].event
  /\ watcher' = [watcher EXCEPT ![w] = [Scheduled(@) EXCEPT !.event = FALSE]]
  /\ status' = IF status = "none" THEN "stateless" ELSE status
  /\ news' = "heard"
  /\ UNCHANGED <<source, registry, rec, app, deaf, sync, counters>>

\* The socket closes, cleanly (the status stays) or not; what was under way is
\* lost, and a sync is scheduled to catch up.
Drops(w) ==
  /\ watcher[w].life = "joined"
  /\ Fault("dropped")
  /\ watcher' = [watcher EXCEPT ![w] = [Scheduled(@) EXCEPT !.life = "down", !.event = FALSE]]
  /\ status' \in {status, "error"}
  /\ news' = "heard"
  /\ UNCHANGED <<source, registry, rec, app, deaf, sync>>

\* After the backoff.
Reconnects(w) ==
  /\ watcher[w].life = "down"
  /\ Waking(w, "connecting")
  /\ status' = "connecting"
  /\ UNCHANGED <<source, registry, rec, app, deaf, sync, news, counters>>

\* The cancelled task has closed its socket.
Closes(w) ==
  /\ watcher[w].life = "closing"
  /\ Waking(w, "dead")
  /\ UNCHANGED <<source, registry, status, rec, app, deaf, sync, news, counters>>

-----------------------------------------------------------------------------
(* Reconciling. *)

\*   at     : about to read the rows, with the rows, awaiting the cancelled
\*            debounce, or the cancelled task; the manager's last rites
\*   config : what the row said when it was read
\*   of     : the watcher it stops
Reconciliation == [at : {"idle", "asked", "rows", "timer", "task", "final", "ended"},
                   config : Configs \cup {Off}, of : Objects \cup {Nobody}]
Idle == [at |-> "idle", config |-> Off, of |-> Nobody]

\* The slot of a watcher that has ended may stand for a new one.
Free(r, w) ==
  /\ ~ Alive(w) /\ watcher[w].timer = "none"
  /\ registry = w => rec[r].of = w
  /\ \A q \in Reconcilers \ {r} : rec[q].of # w
NewObject(r) == CHOOSE w \in Objects : Free(r, w)

\* The manager is in its finally.
ShutsDown(r) == r = Manager /\ app = "stopping" /\ ~ deaf

GoesRoundAgain(r) == rec' = [rec EXCEPT ![r] = Idle]

Leave(r) == rec' = [rec EXCEPT ![r] = IF ShutsDown(r) THEN [Idle EXCEPT !.at = "ended"] ELSE Idle]

\* Nothing is in the way any more.  (listed is what _watchers has by now.)
Starts(r, config, listed) ==
  /\ IF config = Off
       THEN UNCHANGED watcher /\ registry' = IF ShutsDown(r) THEN Nobody ELSE listed
       ELSE /\ \E w \in Objects : Free(r, w)
            /\ registry' = NewObject(r)
            /\ watcher' = [watcher EXCEPT ![NewObject(r)] = [Unused EXCEPT !.life = "connecting",
                                                                           !.config = config]]
  /\ Leave(r)

Await(r, at, config, w) == rec' = [rec EXCEPT ![r] = [at |-> at, config |-> config, of |-> w]]

\* stop(): first the debounce task is cancelled and awaited, then the task of
\* the connection, and then the status goes.
StopsTimer(r, config, w, listed) ==
  /\ watcher' = [watcher EXCEPT ![w].timer = "none", ![w].put = 0]
  /\ Forgets
  /\ Await(r, "timer", config, w)
  /\ registry' = listed
  /\ UNCHANGED status

StopsTask(r, config, w, listed) ==
  IF Alive(w)
    THEN /\ Waking(w, "closing")
         /\ Await(r, "task", config, w)
         /\ registry' = listed
         /\ UNCHANGED <<status, news>>
    ELSE status' = "none" /\ Starts(r, config, listed) /\ UNCHANGED news

Stops(r, config, w, listed) ==
  IF watcher[w].timer # "none"
    THEN StopsTimer(r, config, w, listed)
    ELSE StopsTask(r, config, w, listed)

ReadsRows(r) ==
  /\ rec[r].at = "asked"
  /\ rec' = [rec EXCEPT ![r].at = "rows", ![r].config = source]
  /\ UNCHANGED <<source, registry, watcher, status, app, deaf, sync, news, counters>>

IgnoresFingerprint(config, w) == TRUE
SameFingerprint(config, w) == watcher[w].config = config

\* The rows are there: on to the first await.  A source no longer wanted leaves
\* _watchers before its watcher is stopped, a watcher to be replaced after.
Reconciles(r) ==
  /\ rec[r].at = "rows"
  /\ LET config == rec[r].config IN
     CASE registry = Nobody -> Starts(r, config, Nobody) /\ UNCHANGED <<status, news>>
       [] registry # Nobody /\ config = Off -> Stops(r, Off, registry, Nobody)
       [] registry # Nobody /\ config # Off /\ SameFingerprint(config, registry) ->
            Leave(r) /\ UNCHANGED <<registry, watcher, status, news>>
       [] OTHER -> Stops(r, config, registry, registry)
  /\ UNCHANGED <<source, app, deaf, sync, counters>>

\* The cancelled debounce task has ended; so has the connection's.
Awaited(r) ==
  /\ \/ rec[r].at = "timer"
     \/ rec[r].at = "task" /\ ~ Alive(rec[r].of)
  /\ StopsTask(r, rec[r].config, rec[r].of, registry)
  /\ UNCHANGED <<source, app, deaf, sync, counters>>

\* The manager's next round, up to where it has read the rows.
Tick ==
  /\ app # "down" /\ rec[Manager].at = "idle"
  /\ rec' = [rec EXCEPT ![Manager].at = "rows", ![Manager].config = source]
  /\ UNCHANGED <<source, registry, watcher, status, app, deaf, sync, news, counters>>

\* add_, update_ and remove_catalog_source; the first asks for a sync as well.
Edit ==
  /\ app = "up" /\ edits < MaxEdits /\ edits' = edits + 1
  /\ \E config \in (Configs \cup {Off}) \ {source} : source' = config
  /\ \E r \in Requests : rec[r].at = "idle"
  /\ rec' = [rec EXCEPT ![CHOOSE r \in Requests : rec[r].at = "idle"].at = "asked"]
  /\ sync' \in {sync, IF source = Off THEN "started" ELSE sync}
  /\ UNCHANGED <<registry, watcher, status, app, deaf, news, faults>>

-----------------------------------------------------------------------------
(* The app is shut down: the lifespan cancels its tasks and awaits them. *)

\* stop() takes its caller's CancelledError for that of the task it awaits.
CancelIsSwallowed == rec[Manager].at \in {"timer", "task"}

Shutdown ==
  /\ app = "up"
  /\ app' = "stopping"
  /\ deaf' = CancelIsSwallowed
  /\ rec' = IF CancelIsSwallowed THEN rec
            ELSE [rec EXCEPT ![Manager] = [Idle EXCEPT !.at = "final"]]
  /\ UNCHANGED <<source, registry, watcher, status, sync, news, counters>>

\* The manager's finally.
Finally ==
  /\ rec[Manager].at = "final"
  /\ IF registry = Nobody
       THEN Starts(Manager, Off, Nobody) /\ UNCHANGED <<status, news>>
       ELSE Stops(Manager, Off, registry, registry)
  /\ UNCHANGED <<source, app, deaf, sync, counters>>

\* The process ends, with all that it held.
Exit ==
  /\ rec[Manager].at = "ended" /\ app # "down"
  /\ app' = "down"
  /\ registry' = Nobody /\ status' = "none" /\ sync' = "none" /\ Forgets
  /\ watcher' = [w \in Objects |-> Unused]
  /\ rec' = [r \in Reconcilers |-> Idle]
  /\ UNCHANGED <<source, deaf, counters>>

-----------------------------------------------------------------------------
(* The shop and the sync. *)

\* (While the app runs: what changes after is of no account to it.)
Change ==
  /\ app = "up"
  /\ news' = IF news = "heard" THEN news ELSE "unheard"
  /\ watcher' = [w \in Objects |-> [watcher[w] EXCEPT !.event = @ \/ watcher[w].life = "joined"]]
  /\ UNCHANGED <<source, registry, status, rec, app, deaf, sync, counters>>

\* The sync reads the shop; from here on it misses what changes.
Syncs ==
  /\ sync = "started" /\ sync' = "applying"
  /\ news' = "read"
  /\ UNCHANGED <<source, registry, watcher, status, rec, app, deaf, counters>>

Synced ==
  /\ sync = "applying" /\ sync' = "none"
  /\ UNCHANGED <<source, registry, watcher, status, rec, app, deaf, news, counters>>

\* It fails, or another process holds the claim: trigger_sync has said TRUE.
SyncFails ==
  /\ sync = "started" /\ sync' = "none"
  /\ Fault("sync")
  /\ Forgets
  /\ UNCHANGED <<source, registry, watcher, status, rec, app, deaf>>

Init ==
  /\ source \in Initially
  /\ registry = Nobody /\ status = "none"
  /\ watcher = [w \in Objects |-> Unused]
  /\ rec = [r \in Reconcilers |-> Idle]
  /\ app = "up" /\ deaf = FALSE
  /\ sync = "none" /\ news = "read"
  /\ edits = 0 /\ faults = 0

Reconciling(r) == ReadsRows(r) \/ Reconciles(r) \/ Awaited(r)
Goes(w) == Joins(w) \/ Hears(w) \/ Reconnects(w) \/ Closes(w)

Next ==
  \/ \E w \in Objects : Goes(w) \/ RunsOut(w) \/ Fires(w) \/ Refused(w) \/ Drops(w)
  \/ \E r \in Reconcilers : Reconciling(r)
  \/ Tick \/ Edit \/ Shutdown \/ Finally \/ Exit
  \/ Change \/ Syncs \/ Synced \/ SyncFails

Spec == Init /\ [][Next]_vars

\* The event loop runs its tasks and timers, the manager comes round, and a
\* sync ends.
FairSpec ==
  /\ Spec
  /\ \A w \in Objects : WF_vars(Goes(w)) /\ WF_vars(RunsOut(w)) /\ WF_vars(Fires(w))
  /\ \A r \in Reconcilers : WF_vars(Reconciling(r))
  /\ WF_vars(Tick) /\ WF_vars(Finally) /\ WF_vars(Exit)
  /\ WF_vars(Syncs) /\ WF_vars(Synced)

-----------------------------------------------------------------------------
TypeOK ==
  /\ source \in Configs \cup {Off} /\ registry \in Objects \cup {Nobody}
  /\ watcher \in [Objects -> Watcher]
  /\ status \in States
  /\ rec \in [Reconcilers -> Reconciliation]
  /\ app \in {"up", "stopping", "down"} /\ deaf \in BOOLEAN
  /\ sync \in {"none", "started", "applying"}
  /\ news \in {"read", "unheard", "heard"}
  /\ edits \in 0..MaxEdits /\ faults \in 0..MaxFaults

\* What a watcher has heard of is synced, or a sync of it failed or its watcher
\* was stopped; however the shop goes on changing (realtime.py:43, "the debounce
\* retries until the running one finishes").
HeardIsSynced == news = "heard" ~> news # "heard"

Managed ==
  IF source = Off THEN registry = Nobody
  ELSE registry # Nobody /\ watcher[registry].config = source /\ registry \in Running

\* Once the dashboard leaves the source alone, the manager watches it as it is
\* configured, whatever the reconciliations that overlapped did to each other.
ManagedInTheEnd == <>[](Managed \/ app # "up")

\* A shutdown ends, unless the manager was stopping a watcher when it was
\* cancelled: then it swallowed the cancellation and the lifespan awaits it.
ShutdownEnds == app = "stopping" ~> (app = "down" \/ deaf)

\* (realtime.py:261, "keep one watcher per enabled Supabase source".)
OneWatcher == Cardinality(Running) <= 1

\* (realtime.py:161, "We were receiving changes and dropped - catch up on
\* anything missed".)
CatchesUp ==
  [](news = "read" /\ (\E w \in Objects : watcher[w].life = "joined")
       => (news # "read" ~> (news = "read" \/ app # "up")))
=============================================================================

--------------------------- MODULE BridgeSession ---------------------------
(***************************************************************************)
(* The WhatsApp session of one tenant in the Node bridge: the sockets it   *)
(* makes, the entry it keeps for the tenant, the credentials in PostgreSQL *)
(* that let a session survive a restart, and the dashboard's connect and   *)
(* disconnect.  Tenants share no state.                                    *)
(*                                                                         *)
(* Node runs one handler at a time, up to its next await: an action is     *)
(* what runs between two awaits.  A socket that is ended reports its close *)
(* before end() returns.                                                   *)
(***************************************************************************)
EXTENDS Naturals, FiniteSets

CONSTANTS
  Requests,     \* what the dashboard may ask: subset of Asks
  Dashboards,   \* slots for dashboard requests, as many as may overlap
  Contacts,     \* contacts known to WhatsApp by an @lid identifier only
  MaxSockets,   \* bound: calls of createSession
  MaxRequests,  \* bound: dashboard requests
  MaxFaults,    \* bound: connections lost, devices unlinked, queries that fail
  MaxRestarts   \* bound: restarts of the bridge

VARIABLES
  sock,           \* sock[k]: the k-th call of createSession and its socket
  entry,          \* the tenant's entry in sessions, or NoEntry
  disconnecting,  \* the tenant is in the set of that name
  inFlight,       \* the tenant is in sessionCreationInFlight
  booting,        \* the boot has not listed the tenants to start yet
  started,        \* the boot or a connect of this process started the tenant's session
  store,          \* credentials in baileys_auth_state, or 0
  saving,         \* credentials that saveCreds is writing
  device,         \* device[c]: what WhatsApp knows of credentials c
  ask,            \* ask[h]: the dashboard request h works on
  inbox,          \* contacts whose message the agent is answering
  unpaired,       \* the pairing was given up, or a restart cut its saving off
  asked, faults, restarts

tables == <<store, saving, device>>
counts == <<asked, faults, restarts>>
boot == <<booting, started>>
vars == <<sock, entry, disconnecting, inFlight, boot, store, saving, device,
          ask, inbox, unpaired, asked, faults, restarts>>

-----------------------------------------------------------------------------
Asks == {"connect", "force", "disconnect"}

\* The calls of createSession, in order.
Sockets == 1..MaxSockets

ASSUME RequestsAreAsks == Requests \subseteq Asks
ASSUME SomeSocket == MaxSockets \in Nat \ {0}
ASSUME BoundsAreNaturals == {MaxRequests, MaxFaults, MaxRestarts} \subseteq Nat

(* A socket, from the call of createSession on.                            *)
(*   creds   : its credentials, named after the socket that made them      *)
(*   behind  : writes of the row that came first to its lock               *)
(*   resumes : a device was linked when createSession was called, and the  *)
(*             query for its keys did not fail (history)                   *)
Socket == [life : {"none", "clearing", "starting", "read", "made", "open", "closed"},
           creds : Sockets \cup {0}, behind : SUBSET Sockets, resumes : BOOLEAN]

Unused == [life |-> "none", creds |-> 0, behind |-> {}, resumes |-> FALSE]
Gone == [Unused EXCEPT !.life = "closed"]

Entry == [sock : Sockets, status : {"qr_pending", "ready", "disconnected", "logged_out"},
          jidCache : SUBSET Contacts]
NoEntry == [sock |-> 0, status |-> "disconnected", jidCache |-> {}]

Ask == [at : {"idle", "creating", "logout", "clear"}, sock : Sockets \cup {0}]
Rested == [at |-> "idle", sock |-> 0]

-----------------------------------------------------------------------------
Live(k) == sock[k].life \in {"made", "open"}
Coming(k) == sock[k].life \in {"clearing", "starting", "read"}
Linked == {c \in Sockets : device[c] = "linked"}

Room(n) == Cardinality({k \in Sockets : sock[k].life = "none"}) >= n
NextIn(S) == CHOOSE k \in Sockets : S[k].life = "none" /\ \A j \in Sockets : j < k => S[j].life # "none"

\* A call of createSession, up to its first await: the read of the credentials
\* queues for the row's lock.
Created(stage) == [Unused EXCEPT !.life = stage, !.behind = saving, !.resumes = Linked # {}]
WithNew(S, stage) == [S EXCEPT ![NextIn(S)] = Created(stage)]

Without(k) == [sock EXCEPT ![k] = Gone]

-----------------------------------------------------------------------------
(* A definition named for what it forgets or does wrongly, just before a    *)
(* definition, is a deliberately wrong variant of it, which no action uses. *)

LogsOutOnEveryClose(loggedOut) == "clearing"

\* Saved keys that WhatsApp refuses are wiped before the next session starts.
Reopens(loggedOut) == IF loggedOut THEN "clearing" ELSE "starting"

ReconnectsOnlyAfterLogout(k, loggedOut, off) ==
  IF off \/ ~ loggedOut THEN Without(k) ELSE WithNew(Without(k), Reopens(loggedOut))

\* The close of socket k as connection.update handles it: nothing while the
\* tenant is being disconnected, else a new session is created.
SocketsAfterClose(k, loggedOut, off) ==
  IF off THEN Without(k) ELSE WithNew(Without(k), Reopens(loggedOut))

EntryAfterClose(loggedOut) ==
  IF disconnecting \/ entry = NoEntry THEN entry
  ELSE [entry EXCEPT !.status = IF loggedOut THEN "logged_out" ELSE "disconnected"]

Closes(k, loggedOut) ==
  /\ disconnecting \/ Room(1)
  /\ sock' = SocketsAfterClose(k, loggedOut, disconnecting)
  /\ entry' = EntryAfterClose(loggedOut)

\* The connection is lost.
Drop(k) ==
  /\ Live(k)
  /\ faults < MaxFaults /\ faults' = faults + 1
  /\ Closes(k, FALSE)
  /\ UNCHANGED <<disconnecting, inFlight, boot, tables, ask, inbox, unpaired, asked, restarts>>

\* WhatsApp refuses credentials whose device was unlinked.
LoggedOut(k) ==
  /\ Live(k) /\ device[sock[k].creds] = "revoked"
  /\ Closes(k, TRUE)
  /\ UNCHANGED <<disconnecting, inFlight, boot, tables, ask, inbox, unpaired, counts>>

-----------------------------------------------------------------------------
(* createSession. *)

\* The wipe after a logout, successful or not, and then the call.
Wiped(k) ==
  /\ sock[k].life = "clearing"
  /\ \/ store' = 0 /\ UNCHANGED faults
     \/ faults < MaxFaults /\ faults' = faults + 1 /\ UNCHANGED store
  /\ sock' = [sock EXCEPT ![k] = Created("starting")]
  /\ UNCHANGED <<entry, disconnecting, inFlight, boot, saving, device, ask, inbox, unpaired, asked, restarts>>

ReadsAtOnce(k) == sock[k].life = "starting"

\* The row's lock serves reads and writes in order of arrival.
ReadsCreds(k) == sock[k].life = "starting" /\ sock[k].behind = {}

\* No stored credentials, or a query that failed, mean fresh ones.
ReadCreds(k) ==
  /\ ReadsCreds(k)
  /\ \/ /\ sock' = [sock EXCEPT ![k].life = "read", ![k].creds = IF store = 0 THEN k ELSE store]
        /\ UNCHANGED faults
     \/ /\ faults < MaxFaults /\ faults' = faults + 1
        /\ sock' = [sock EXCEPT ![k].life = "read", ![k].creds = k, ![k].resumes = FALSE]
  /\ UNCHANGED <<entry, disconnecting, inFlight, boot, tables, ask, inbox, unpaired, asked, restarts>>

\* The socket is made and takes the tenant's entry, whoever had it.
Make(k) ==
  /\ sock[k].life = "read"
  /\ sock' = [sock EXCEPT ![k].life = "made"]
  /\ entry' = [sock |-> k, status |-> "qr_pending", jidCache |-> {}]
  /\ UNCHANGED <<disconnecting, inFlight, boot, tables, ask, inbox, unpaired, counts>>

-----------------------------------------------------------------------------
(* Events of a socket.  They look the tenant's entry up, which may belong to *)
(* another socket by then; without an entry the handler throws.              *)

SaysStatus(status) == entry' = IF entry = NoEntry THEN entry ELSE [entry EXCEPT !.status = status]

Qr(k) ==
  /\ sock[k].life = "made" /\ device[sock[k].creds] = "fresh"
  /\ SaysStatus("qr_pending")
  /\ UNCHANGED <<sock, disconnecting, inFlight, boot, tables, ask, inbox, unpaired, counts>>

\* The tenant scans the QR code: the device is linked, and its keys are saved.
Scan(k) ==
  /\ sock[k].life = "made" /\ device[sock[k].creds] = "fresh"
  /\ device' = [device EXCEPT ![sock[k].creds] = "linked"]
  /\ saving' = saving \cup {sock[k].creds}
  /\ UNCHANGED <<sock, entry, disconnecting, inFlight, boot, store, ask, inbox, unpaired, counts>>

Open(k) ==
  /\ sock[k].life = "made" /\ device[sock[k].creds] = "linked"
  /\ sock' = [sock EXCEPT ![k].life = "open"]
  /\ SaysStatus("ready")
  /\ UNCHANGED <<disconnecting, inFlight, boot, tables, ask, inbox, unpaired, counts>>

\* An open socket renews its keys.
Renew(k) ==
  /\ sock[k].life = "open"
  /\ saving' = saving \cup {sock[k].creds}
  /\ UNCHANGED <<sock, entry, disconnecting, inFlight, boot, store, device, ask, inbox, unpaired, counts>>

NeverReleases(c) == sock

\* The reads that queue behind a write go on when it has released the lock.
Released(c) == [k \in Sockets |-> [sock[k] EXCEPT !.behind = @ \ {c}]]

Save(c) ==
  /\ c \in saving
  /\ saving' = saving \ {c}
  /\ store' = c
  /\ sock' = Released(c)
  /\ UNCHANGED <<entry, disconnecting, inFlight, boot, device, ask, inbox, unpaired, counts>>

\* The tenant removes the device on the phone.
Unlink(c) ==
  /\ device[c] = "linked"
  /\ faults < MaxFaults /\ faults' = faults + 1
  /\ device' = [device EXCEPT ![c] = "revoked"]
  /\ unpaired' = TRUE
  /\ UNCHANGED <<sock, entry, disconnecting, inFlight, boot, store, saving, ask, inbox, asked, restarts>>

-----------------------------------------------------------------------------
(* Messages.  One that comes in is posted to the webhook, or lost; a reply is *)
(* sent through whichever session the tenant has by then.                     *)

Receive(k, c) ==
  /\ sock[k].life = "open" /\ entry # NoEntry /\ c \notin inbox
  /\ entry' = [entry EXCEPT !.jidCache = @ \cup {c}]
  /\ inbox' \in {inbox, inbox \cup {c}}
  /\ UNCHANGED <<sock, disconnecting, inFlight, boot, tables, ask, unpaired, counts>>

Reply(c) ==
  /\ c \in inbox
  /\ inbox' = inbox \ {c}
  /\ UNCHANGED <<sock, entry, disconnecting, inFlight, boot, tables, ask, unpaired, counts>>

-----------------------------------------------------------------------------
(* The dashboard. *)

\* A request takes a slot that is free; they are alike.
Arrives(h, op) ==
  /\ ask[h] = Rested /\ h = CHOOSE g \in Dashboards : ask[g] = Rested
  /\ op \in Requests
  /\ asked < MaxRequests /\ asked' = asked + 1

\* ensureSession has nothing to do.
Unneeded(op) ==
  \/ op = "connect" /\ entry # NoEntry /\ entry.status \in {"ready", "qr_pending"}
  \/ inFlight

ConnectReturns(h, op) ==
  /\ Arrives(h, op) /\ op # "disconnect"
  /\ Unneeded(op)
  /\ UNCHANGED <<sock, entry, disconnecting, inFlight, boot, tables, ask, inbox, unpaired, faults, restarts>>

\* ensureSession up to the await in createSession: the old socket is ended,
\* and the tenant is no longer being disconnected when its close is handled.
Ended == IF entry # NoEntry /\ Live(entry.sock) THEN SocketsAfterClose(entry.sock, FALSE, FALSE) ELSE sock

Connect(h, op) ==
  /\ Arrives(h, op) /\ op # "disconnect"
  /\ ~ Unneeded(op)
  /\ Room(2)
  /\ disconnecting' = FALSE /\ inFlight' = TRUE /\ started' = TRUE
  /\ entry' = NoEntry
  /\ sock' = WithNew(Ended, "starting")
  /\ ask' = [ask EXCEPT ![h] = [at |-> "creating", sock |-> NextIn(Ended)]]
  /\ UNCHANGED <<booting, tables, inbox, unpaired, faults, restarts>>

Connected(h) ==
  /\ ask[h].at = "creating" /\ ~ Coming(ask[h].sock)
  /\ inFlight' = FALSE
  /\ ask' = [ask EXCEPT ![h] = Rested]
  /\ UNCHANGED <<sock, entry, disconnecting, boot, tables, inbox, unpaired, counts>>

\* The session at hand is logged out, if there is one.
Disconnect(h) ==
  /\ Arrives(h, "disconnect")
  /\ disconnecting' = TRUE
  /\ entry' = entry
  /\ ask' = [ask EXCEPT ![h] = [at |-> "logout", sock |-> entry.sock]]
  /\ unpaired' = TRUE
  /\ UNCHANGED <<sock, inFlight, boot, tables, inbox, faults, restarts>>

\* logout() has ended the socket, or thrown and end() has; then the entry of the
\* tenant is deleted, also if it is another one by now.
SignOff(h) ==
  LET k == ask[h].sock IN
  /\ ask[h].at = "logout"
  /\ IF k # 0 /\ Live(k)
     THEN \E ok \in BOOLEAN :
            /\ disconnecting \/ Room(1)
            /\ sock' = SocketsAfterClose(k, ok, disconnecting)
            /\ device' = IF ok /\ device[sock[k].creds] = "linked"
                         THEN [device EXCEPT ![sock[k].creds] = "revoked"] ELSE device
     ELSE UNCHANGED <<sock, device>>
  /\ entry' = NoEntry
  /\ ask' = [ask EXCEPT ![h].at = "clear"]
  /\ UNCHANGED <<disconnecting, inFlight, boot, store, saving, inbox, unpaired, counts>>

Disconnected(h) ==
  /\ ask[h].at = "clear"
  /\ ask' = [ask EXCEPT ![h] = Rested]
  /\ \/ /\ store' = 0 /\ UNCHANGED faults
     \/ faults < MaxFaults /\ faults' = faults + 1 /\ UNCHANGED store
  /\ UNCHANGED <<sock, entry, disconnecting, inFlight, boot, saving, device, inbox, unpaired, asked, restarts>>

-----------------------------------------------------------------------------
\* getBootTenantIds lists the active tenants, of which this is one; when the query
\* fails it falls back to WA_WEB_TENANT_IDS, which may not name it.
Boot ==
  /\ booting /\ Room(1)
  /\ booting' = FALSE
  /\ \E listed \in BOOLEAN :
       /\ \/ listed /\ UNCHANGED faults
          \/ faults < MaxFaults /\ faults' = faults + 1
       /\ started' = (started \/ listed)
       /\ sock' = IF listed THEN WithNew(sock, "starting") ELSE sock
  /\ UNCHANGED <<entry, disconnecting, inFlight, tables, ask, inbox, unpaired, asked, restarts>>

\* The bridge dies, and with it its sockets and whatever it was writing.
Restart ==
  /\ ~ booting /\ Room(1)
  /\ restarts < MaxRestarts /\ restarts' = restarts + 1
  /\ sock' = [k \in Sockets |-> IF sock[k].life = "none" THEN sock[k] ELSE Gone]
  /\ entry' = NoEntry /\ saving' = {} /\ inbox' = {}
  /\ disconnecting' = FALSE /\ inFlight' = FALSE
  /\ booting' = TRUE /\ started' = FALSE
  /\ ask' = [h \in Dashboards |-> Rested]
  /\ unpaired' = (unpaired \/ saving # {})
  /\ UNCHANGED <<store, device, asked, faults>>

Init ==
  /\ sock = [k \in Sockets |-> Unused]
  /\ entry = NoEntry
  /\ disconnecting = FALSE /\ inFlight = FALSE
  /\ booting = TRUE /\ started = FALSE
  /\ store = 0 /\ saving = {}
  /\ device = [c \in Sockets |-> "fresh"]
  /\ ask = [h \in Dashboards |-> Rested]
  /\ inbox = {}
  /\ unpaired = FALSE
  /\ asked = 0 /\ faults = 0 /\ restarts = 0

Creating(k) == Wiped(k) \/ ReadCreds(k) \/ Make(k)
Answering(h) == Connected(h) \/ SignOff(h) \/ Disconnected(h)

Next ==
  \/ Boot \/ Restart
  \/ \E k \in Sockets :
       \/ Creating(k) \/ Save(k) \/ Unlink(k)
       \/ Qr(k) \/ Scan(k) \/ Open(k) \/ Renew(k) \/ Drop(k) \/ LoggedOut(k)
       \/ \E c \in Contacts : Receive(k, c)
  \/ \E c \in Contacts : Reply(c)
  \/ \E h \in Dashboards :
       \/ Answering(h) \/ Disconnect(h)
       \/ \E op \in Requests : ConnectReturns(h, op) \/ Connect(h, op)

Spec == Init /\ [][Next]_vars

\* Promises settle and queries are answered; nothing is assumed of WhatsApp,
\* the tenant or the dashboard.
FairSpec ==
  /\ Spec
  /\ WF_vars(Boot)
  /\ \A k \in Sockets : WF_vars(Creating(k)) /\ WF_vars(Save(k))
  /\ \A h \in Dashboards : WF_vars(Answering(h))

-----------------------------------------------------------------------------
(* Properties. *)

TypeOK ==
  /\ sock \in [Sockets -> Socket]
  /\ entry \in Entry \cup {NoEntry}
  /\ {disconnecting, inFlight, booting, started, unpaired} \subseteq BOOLEAN
  /\ store \in Sockets \cup {0} /\ saving \subseteq Sockets
  /\ device \in [Sockets -> {"fresh", "linked", "revoked"}]
  /\ ask \in [Dashboards -> Ask]
  /\ inbox \subseteq Contacts
  /\ {asked, faults, restarts} \subseteq Nat

\* The tenant's entry is that of a live socket; without an entry, which two
\* overlapping requests can bring about, some socket is live all the same.
InService == IF entry = NoEntry THEN \E k \in Sockets : Live(k) ELSE Live(entry.sock)

\* The boot could not ask for the tenants and did not start this one's session;
\* after that only a connect does.
LeftOut == ~ booting /\ ~ started

\* A tenant is left out by a boot whose query failed only; once its session was
\* started, and unless it is being disconnected, it is in service or a session is in
\* the making, however closes, connects and disconnects overlap.
NeverAbandoned ==
  /\ LeftOut => faults > 0
  /\ started /\ ~ disconnecting => InService \/ \E k \in Sockets : Coming(k)

\* A device that was paired is the one stored, so that a restart resumes it:
\* neither a lost connection, a failed read nor a second socket loses it.
PairingIsKept ==
  ~ unpaired /\ Linked # {} => saving # {} \/ store \in Linked

\* A session that is created once a device is paired does not ask for another
\* scan, also if the keys were still being saved.
NoSecondScan ==
  \A k \in Sockets : ~ unpaired /\ Live(k) /\ sock[k].resumes =>
    sock[k].creds \in Linked

\* A tenant comes back: unless a boot leaves it out, it is in service again and
\* again, or being disconnected.
ComesBack == []<>(disconnecting \/ LeftOut \/ InService)

\* The bridge keeps one socket per tenant (wa-bridge/index.js, "racing each other
\* into two parallel Baileys sockets").
OneSocket == \A j, k \in Sockets : Live(j) /\ Live(k) => j = k

\* A disconnected tenant receives nothing until it is connected again
\* (wa-bridge/index.js, "a disconnected tenant receives no messages").
OffStaysOff ==
  disconnecting /\ (\A h \in Dashboards : ask[h] = Rested) => \A k \in Sockets : sock[k].life # "open"

\* A connect that is answered overrides an earlier disconnect
\* (wa-bridge/index.js, "an explicit connect overrides a prior disconnect").
ConnectOverrides ==
  [][\A h \in Dashboards, op \in Requests : ConnectReturns(h, op) => ~ disconnecting]_vars

\* A reply goes to the address the contact wrote from (wa-bridge/index.js,
\* "Replies must go to the exact JID a contact messaged from").
RepliesReachTheirJid ==
  [][\A c \in inbox \ inbox' : entry.status = "ready" /\ ~ booting' => c \in entry.jidCache]_vars
=============================================================================

---------------------------- MODULE Conversation ----------------------------
(***************************************************************************)
(* Inbound messages and the agent's turns (webhook/router.py, the respond  *)
(* node of agents/graph.py).                                               *)
(*                                                                         *)
(* A webhook request is answered at once and its messages are processed by *)
(* a background runner, one after the other; the runners of several        *)
(* requests interleave at every await.  Processing a message has two       *)
(* phases: an ingest transaction, which claims the message id, finds or    *)
(* creates the customer and logs the message, and a turn of the agent      *)
(* under the customer's lock.  The lock lives in memory, the claims in the *)
(* database.  WhatsApp delivers a message once or more, in requests of one *)
(* message or several.                                                     *)
(*                                                                         *)
(* Left out: what the agent's tools write, and the receipt an image files, *)
(* which are the order desk's.                                             *)
(***************************************************************************)
EXTENDS Integers, Sequences, FiniteSets

CONSTANTS
  Runners,      \* background runners
  Messages,     \* message ids
  Customers,    \* senders
  From,         \* From[m]: the sender of m
  Stops,        \* messages whose text is an opt-out keyword
  Payloads,     \* what one request may carry: sequences of messages
  Faults,       \* what may fail: pairs of a fault and the message it befalls
  MayPause,     \* whether the dashboard pauses the agent
  HistoryLimit, \* rows of the log a turn is started with (limit=100)
  MaxRequests,  \* bound: requests delivered
  MaxRestarts   \* bound: restarts of the process

FaultNames == {"resolve", "ingest", "turn", "send"}

ASSUME SendersAreCustomers == From \in [Messages -> Customers]
ASSUME PayloadsAreMessages == Payloads \subseteq (Seq(Messages) \ {<<>>}) /\ Stops \subseteq Messages
ASSUME FaultsAreFaults == Faults \subseteq (FaultNames \X Messages) /\ MayPause \in BOOLEAN
ASSUME HistoryIsBounded == HistoryLimit \in Nat \ {0}
ASSUME BoundsAreNaturals == {MaxRequests, MaxRestarts} \subseteq Nat

VARIABLES
  processed,    \* committed processed_messages rows
  known,        \* committed customers rows
  optedOut,     \* the customers whose row says opted_out
  log,          \* committed message_log rows
  clock,        \* the time: transactions started so far
  run,          \* the runners
  lock,         \* per customer, the runners that hold (first) or await its lock
  active,       \* the setting agent_active
  sent,         \* messages whose reply WhatsApp delivered
  requests, restarts

store == <<processed, known, optedOut, log>>
bounds == <<requests, restarts>>
vars == <<store, clock, run, lock, active, sent, bounds>>

-----------------------------------------------------------------------------
(* Runners.                                                                *)
(*   queue   : the messages of the request not yet done; the first is      *)
(*             being processed                                             *)
(*   found   : the customer's row existed when it was looked up            *)
(*   started : when the open transaction began: the created_at of its rows *)
(*   history : the log rows the turn was started with                      *)

Entry == [cust : Customers, dir : {"in", "out"}, msg : Messages, at : Nat]

Run == [at : {"idle", "resolve", "check", "claim", "lookup", "upsert", "commit",
              "enter", "turn", "think", "respond", "send", "log"},
        queue : Seq(Messages), found : BOOLEAN, started : Nat,
        history : SUBSET Entry]

Fresh(at, queue) ==
  [at |-> at, queue |-> queue, found |-> FALSE, started |-> 0, history |-> {}]
Idle == Fresh("idle", <<>>)

Msg(r) == Head(run[r].queue)
Cust(r) == From[Msg(r)]
MayFail(r, fault) == <<fault, Msg(r)>> \in Faults
Rows(c) == {log[i] : i \in {j \in DOMAIN log : log[j].cust = c}}

\* The HistoryLimit newest of some rows; no two rows have the same time.  (A
\* definition named for what it forgets or does wrongly, just before a definition,
\* is a deliberately wrong variant of it, which no action uses.)
Newer(e, rows) == {f \in rows : f.at > e.at}
Oldest(rows) == {e \in rows : Cardinality({f \in rows : f.at < e.at}) < HistoryLimit}
Newest(rows) == {e \in rows : Cardinality(Newer(e, rows)) < HistoryLimit}

\* The runner goes on at a control point, or as t says.
Become(r, t) == run' = [run EXCEPT ![r] = t]
Goto(r, at) == Become(r, [run[r] EXCEPT !.at = at])

\* The message is done: the next one of the request, if there is one.
NextMessage(r) ==
  LET rest == Tail(run[r].queue) IN
  Become(r, IF rest = <<>> THEN Idle ELSE Fresh("resolve", rest))

\* The open ingest transaction of r has inserted message id m; it has inserted
\* customer c, or updated its row.
InIngest == {"lookup", "upsert", "commit"}
HoldsClaim(r, m) == run[r].at \in InIngest /\ Msg(r) = m
HoldsCustomer(r, c) == run[r].at = "commit" /\ Cust(r) = c

ClaimPending(r) == \E q \in Runners \ {r} : HoldsClaim(q, Msg(r))
CustomerPending(r) == \E q \in Runners \ {r} : HoldsCustomer(q, Cust(r))

-----------------------------------------------------------------------------
(* Phase 1: ingest. *)

\* receive_webhook: a request is accepted; WhatsApp may have sent its messages
\* before.
Receive(r) ==
  /\ run[r] = Idle
  /\ requests < MaxRequests
  /\ \E p \in Payloads : Become(r, Fresh("resolve", p))
  /\ requests' = requests + 1
  /\ UNCHANGED <<store, clock, lock, active, sent, restarts>>

\* The tenant is looked up; an error there is caught by nobody and takes the
\* request's remaining messages with it.
Resolve(r) ==
  /\ run[r].at = "resolve"
  /\ \/ Goto(r, "check")
     \/ MayFail(r, "resolve") /\ Become(r, Idle)
  /\ UNCHANGED <<store, clock, lock, active, sent, bounds>>

\* is_message_processed, the first statement of the ingest transaction.
CheckMessage(r) ==
  /\ run[r].at = "check"
  /\ IF Msg(r) \in processed THEN NextMessage(r) /\ UNCHANGED clock
     ELSE /\ Become(r, [run[r] EXCEPT !.at = "claim", !.started = clock + 1])
          /\ clock' = clock + 1
  /\ UNCHANGED <<store, lock, active, sent, bounds>>

ClaimForgetsRows(r) == FALSE

\* The primary key of processed_messages is taken.
ClaimTaken(r) == Msg(r) \in processed

ClaimsAndCommits(r) ==
  /\ run[r].at = "claim"
  /\ ~ ClaimPending(r)
  /\ ~ ClaimTaken(r)
  /\ Goto(r, "lookup")
  /\ processed' = processed \cup {Msg(r)}
  /\ UNCHANGED <<known, optedOut, log, clock, lock, active, sent, bounds>>

\* mark_message_processed: the insert waits for one of the same id, ...
ClaimMessage(r) ==
  /\ run[r].at = "claim"
  /\ ~ ClaimPending(r)
  /\ ~ ClaimTaken(r)
  /\ Goto(r, "lookup")
  /\ UNCHANGED <<store, clock, lock, active, sent, bounds>>

\* ... and fails if that one committed.
ClaimCollides(r) ==
  /\ run[r].at = "claim"
  /\ ~ ClaimPending(r)
  /\ ClaimTaken(r)
  /\ NextMessage(r)
  /\ UNCHANGED <<store, clock, lock, active, sent, bounds>>

\* get_customer_by_wa_id.
LookUpCustomer(r) ==
  /\ run[r].at = "lookup"
  /\ Become(r, [run[r] EXCEPT !.at = "upsert", !.found = Cust(r) \in known])
  /\ UNCHANGED <<store, clock, lock, active, sent, bounds>>

\* touch_last_inbound updates the row that was found, or create_customer
\* inserts one; the opt-out is an update of the same row.
UpsertCustomer(r) ==
  /\ run[r].at = "upsert"
  /\ ~ CustomerPending(r)
  /\ run[r].found \/ Cust(r) \notin known
  /\ Goto(r, "commit")
  /\ UNCHANGED <<store, clock, lock, active, sent, bounds>>

\* The customer was created meanwhile: IntegrityError, taken for a duplicate.
CustomerCollides(r) ==
  /\ run[r].at = "upsert"
  /\ ~ CustomerPending(r)
  /\ ~ run[r].found /\ Cust(r) \in known
  /\ NextMessage(r)
  /\ UNCHANGED <<store, clock, lock, active, sent, bounds>>

\* The row carries the start time of its transaction, as now() does.
Logged(r, dir) ==
  Append(log, [cust |-> Cust(r), dir |-> dir, msg |-> Msg(r), at |-> run[r].started])

CommitIngest(r) ==
  /\ run[r].at = "commit"
  /\ processed' = processed \cup {Msg(r)}
  /\ known' = known \cup {Cust(r)}
  /\ optedOut' = IF Msg(r) \in Stops THEN optedOut \cup {Cust(r)} ELSE optedOut
  /\ log' = Logged(r, "in")
  /\ Goto(r, "enter")
  /\ UNCHANGED <<clock, lock, active, sent, bounds>>

\* A database error rolls the ingest back and gives the message up.
IngestFails(r) ==
  /\ run[r].at \in {"check", "claim"} \cup InIngest
  /\ MayFail(r, "ingest")
  /\ NextMessage(r)
  /\ UNCHANGED <<store, clock, lock, active, sent, bounds>>

-----------------------------------------------------------------------------
(* Phase 2: the turn. *)

EnterUnlessBusy(r) ==
  /\ run[r].at = "enter"
  /\ IF lock[Cust(r)] = <<>> THEN Goto(r, "turn") /\ lock' = [lock EXCEPT ![Cust(r)] = <<r>>]
     ELSE NextMessage(r) /\ UNCHANGED lock
  /\ UNCHANGED <<store, clock, active, sent, bounds>>

\* async with _get_customer_lock(customer.id): asyncio.Lock is fair.
Enter(r) ==
  /\ run[r].at = "enter"
  /\ lock' = [lock EXCEPT ![Cust(r)] = Append(@, r)]
  /\ Goto(r, "turn")
  /\ UNCHANGED <<store, clock, active, sent, bounds>>

HoldsForgetsOthers(r) == TRUE

HoldsLock(r) == Head(lock[Cust(r)]) = r

\* Only the runner at the head of the queue leaves it.
Released(r) == [lock EXCEPT ![Cust(r)] = Tail(@)]

\* The lock is released on every way out.
Leave(r) == lock' = Released(r) /\ NextMessage(r)

\* The settings and the history are read; a paused agent does not answer.
StartTurn(r) ==
  /\ run[r].at = "turn"
  /\ HoldsLock(r)
  /\ IF active
     THEN UNCHANGED lock /\ Become(r, [run[r] EXCEPT !.at = "think",
                                                     !.history = Newest(Rows(Cust(r)))])
     ELSE Leave(r)
  /\ UNCHANGED <<store, clock, active, sent, bounds>>

\* The agent works, through tools.
Think(r) ==
  /\ run[r].at = "think"
  /\ Goto(r, "respond")
  /\ UNCHANGED <<store, clock, lock, active, sent, bounds>>

FailsHoldingLock(r) ==
  /\ run[r].at \in {"turn", "think"}
  /\ MayFail(r, "turn")
  /\ HoldsLock(r)
  /\ NextMessage(r)
  /\ UNCHANGED <<store, clock, lock, active, sent, bounds>>

\* The history, the LLM or a client fails; the exception is logged.
TurnFails(r) ==
  /\ run[r].at \in {"turn", "think"}
  /\ MayFail(r, "turn")
  /\ HoldsLock(r)
  /\ Leave(r)
  /\ UNCHANGED <<store, clock, active, sent, bounds>>

\* respond_node reads the customer again: nobody who opted out is sent anything.
Respond(r) ==
  /\ run[r].at = "respond"
  /\ clock' = clock + 1
  /\ IF Cust(r) \in optedOut THEN Leave(r)
     ELSE UNCHANGED lock /\ Become(r, [run[r] EXCEPT !.at = "send", !.started = clock + 1])
  /\ UNCHANGED <<store, active, sent, bounds>>

SendRetriesTurn(r) ==
  /\ run[r].at = "send"
  /\ \/ sent' = sent \cup {Msg(r)} /\ Goto(r, "log") /\ UNCHANGED lock
     \/ MayFail(r, "send") /\ Goto(r, "turn") /\ UNCHANGED <<sent, lock>>
  /\ UNCHANGED <<store, clock, active, bounds>>

\* The reply is delivered and acknowledged, or the client gives up, whether
\* the reply was delivered or not.
Send(r) ==
  /\ run[r].at = "send"
  /\ \/ sent' = sent \cup {Msg(r)} /\ Goto(r, "log") /\ UNCHANGED lock
     \/ MayFail(r, "send") /\ sent' \in {sent, sent \cup {Msg(r)}} /\ Leave(r)
  /\ UNCHANGED <<store, clock, active, bounds>>

\* record_message_out, commit, and the end of the turn.
LogReply(r) ==
  /\ run[r].at = "log"
  /\ log' = Logged(r, "out")
  /\ Leave(r)
  /\ UNCHANGED <<processed, known, optedOut, clock, active, sent, bounds>>

-----------------------------------------------------------------------------
\* The dashboard pauses or resumes the agent.
SetActive ==
  /\ MayPause
  /\ active' = ~ active
  /\ UNCHANGED <<store, clock, run, lock, sent, bounds>>

\* The process restarts: runners, their transactions and the locks are gone.
Restart ==
  /\ restarts < MaxRestarts
  /\ run' = [r \in Runners |-> Idle]
  /\ lock' = [c \in Customers |-> <<>>]
  /\ restarts' = restarts + 1
  /\ UNCHANGED <<store, clock, active, sent, requests>>

Init ==
  /\ processed = {} /\ known = {} /\ optedOut = {}
  /\ log = <<>> /\ clock = 0
  /\ run = [r \in Runners |-> Idle]
  /\ lock = [c \in Customers |-> <<>>]
  /\ active = TRUE /\ sent = {}
  /\ requests = 0 /\ restarts = 0

\* The runner's next step.
Step(r) ==
  \/ Resolve(r) \/ CheckMessage(r) \/ ClaimMessage(r) \/ ClaimCollides(r)
  \/ LookUpCustomer(r) \/ UpsertCustomer(r) \/ CustomerCollides(r) \/ CommitIngest(r)
  \/ IngestFails(r) \/ Enter(r) \/ StartTurn(r) \/ Think(r) \/ TurnFails(r)
  \/ Respond(r) \/ Send(r) \/ LogReply(r)

Next ==
  \/ \E r \in Runners : Receive(r) \/ Step(r)
  \/ SetActive \/ Restart

Spec == Init /\ [][Next]_vars

\* The event loop runs every task that can go on.
FairSpec == Spec /\ \A r \in Runners : WF_vars(Step(r))

-----------------------------------------------------------------------------
TypeOK ==
  /\ processed \subseteq Messages /\ known \subseteq Customers /\ optedOut \subseteq Customers
  /\ log \in Seq(Entry) /\ clock \in Nat
  /\ run \in [Runners -> Run]
  /\ lock \in [Customers -> Seq(Runners)]
  /\ active \in BOOLEAN /\ sent \subseteq Messages
  /\ requests \in Nat /\ restarts \in Nat

Times(dir, m) == Cardinality({i \in DOMAIN log : log[i].dir = dir /\ log[i].msg = m})

\* A message is claimed exactly when it is logged, once, for a customer there
\* is: ingest happens as a whole or not at all, whatever collides or restarts.
IngestIsWhole ==
  \A m \in Messages :
    /\ Times("in", m) = IF m \in processed THEN 1 ELSE 0
    /\ m \in processed => From[m] \in known

\* A message is answered at most once, and only if it was ingested, however
\* often it is delivered.
AnsweredOnce ==
  \A m \in Messages : Times("out", m) <= 1 /\ (Times("out", m) = 1 => m \in processed)

\* While the agent works on a turn it has seen every reply its customer got, but
\* for those with HistoryLimit newer rows before it: no turn overlaps another of
\* that customer, and the history is cut at its old end.
TurnSeesNewestReplies ==
  \A r \in Runners : run[r].at \in {"think", "respond", "send", "log"} =>
    \A e \in Rows(Cust(r)) : e.dir = "out" =>
      e \in run[r].history \/ Cardinality(Newer(e, run[r].history)) >= HistoryLimit

\* What Inbox sees: the rows, and the turns that are to come and in progress as
\* the runners have them.
Serving(r) == run[r].at \in {"think", "respond", "send", "log"}
Pending(r) == run[r].at \in {"enter", "turn"}
Turn(r) == [msg |-> Msg(r), seen |-> run[r].history]
Thread == {log[i] : i \in DOMAIN log}
Due == {Msg(r) : r \in {q \in Runners : Pending(q)}}
InProgress == {Turn(r) : r \in {q \in Runners : Serving(q)}}

Promise == INSTANCE Inbox WITH
  thread <- Thread, due <- Due, turns <- InProgress, Limit <- HistoryLimit

\* A message gets one turn at most, however often it is delivered and whatever
\* fails (router.py, "this whole function runs once per message_id"); turns of a
\* customer follow one another, each with the newest replies of those before
\* ("must reflect the previous turn's writes having fully landed").
RefinesInbox == Promise!InboxSpec

\* Every request is done in the end: no turn waits for ever for its customer.
RequestsEnd == \A r \in Runners : run[r].at # "idle" ~> run[r].at = "idle"

\* A message that was ingested is answered in the end, unless its customer
\* opts out, although it waits behind turns of others and whatever befalls them.
IngestedIsAnswered ==
  \A m \in Messages : (\A f \in FaultNames : <<f, m>> \notin Faults) =>
    (m \in processed ~> (Times("out", m) = 1 \/ From[m] \in optedOut))

\* A runner that gives up a message, other than by a restart or for lack of a
\* tenant, gives up one that is processed (router.py, "the first task owns this
\* message").
LoserIsDuplicate ==
  [][\A r \in Runners :
       (/\ run[r].at \in {"check", "claim", "upsert"}
        /\ run'[r].queue # run[r].queue
        /\ restarts' = restarts) => Msg(r) \in processed]_vars
=============================================================================

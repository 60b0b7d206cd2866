------------------------------ MODULE Outbound ------------------------------
(***************************************************************************)
(* What the business sends on its own initiative: alerts asked for by the  *)
(* shop's website (/admin/notify), broadcasts (/admin/outbound/send), and  *)
(* the alerts of web orders that a Supabase listener reports.  All of them *)
(* find or create the customer, check the opt-out on the object they read, *)
(* send through the one choke point and log what was sent.  What comes in  *)
(* meanwhile creates the same customers and opts them out.                 *)
(*                                                                         *)
(* The three differ in where they commit: an order alert runs in a session *)
(* of its own, notify commits after each recipient and goes on in the same *)
(* session after an error, and a broadcast flushes and never commits.      *)
(***************************************************************************)
EXTENDS Naturals, Sequences, FiniteSets, Functions

CONSTANTS
  Handlers,     \* concurrent requests and listener tasks
  Customers,    \* WhatsApp ids
  Numbers,      \* phone numbers as they are written
  WaId,         \* WaId[n]: the customer a number means, or Nobody
  Nobody,       \* no WhatsApp id
  Admin,        \* the shop's own number for order alerts, or Nobody
  Refs,         \* web orders and campaigns, by number
  Unnumbered,   \* the refs that stand for an order without a number
  Requests,     \* what may arrive
  Attempts,     \* attempts a WhatsApp client makes to send a text (3)
  MaxRequests,  \* bound: requests that arrive
  MaxFaults,    \* bound: sends that fail or whose answer is lost
  MaxRestarts   \* bound: restarts of the process

VARIABLES
  known,      \* committed customers rows
  optedOut,   \* those of them that are opted out
  log,        \* committed outbound message_log rows
  delivered,  \* texts that WhatsApp delivered
  cache,      \* _sent_order_alerts, in memory
  told,       \* texts that a response or a return value reported as sent
  job,        \* what each handler works on
  served, faults, restarts

vars == <<known, optedOut, log, delivered, cache, told, job, served, faults, restarts>>

-----------------------------------------------------------------------------
OrderKinds == {"pending", "confirmed", "cancelled"}
AlertKinds == OrderKinds \cup {"admin_alert"}
Kinds == AlertKinds \cup {"notify", "broadcast"}
Ops == OrderKinds \cup {"notify", "broadcast", "ingest", "stop"}

\* A text: of what kind, about what, to whom.
Text == [kind : Kinds, ref : Refs, to : Customers]

\* A request.  An order's status change names the customer's number, or none
\* that can be used; notify and broadcast name several; ingest is one message,
\* and stop one that opts out.
Request == [op : Ops, ref : Refs, to : Seq(Numbers)]

ASSUME HandlersAreFinite == IsFiniteSet(Handlers)
ASSUME NobodyIsNobody == Nobody \notin Customers
ASSUME NumbersMeanCustomers == WaId \in [Numbers -> Customers \cup {Nobody}]
ASSUME AdminIsReachable == Admin \in Customers \cup {Nobody}
ASSUME RequestsAreRequests == Requests \subseteq Request /\ \A r \in Requests : r.to # <<>>
ASSUME SomeRequest == Requests # {}
ASSUME UnnumberedAreRefs == Unnumbered \subseteq Refs
ASSUME SomeAttempt == Attempts \in Nat \ {0}
ASSUME BoundsAreNaturals == {MaxRequests, MaxFaults, MaxRestarts} \subseteq Nat

-----------------------------------------------------------------------------
(* Jobs.                                                                   *)
(*   req, n    : the request, and which of its targets is being worked on  *)
(*   refuses   : the customer object read says opted out                   *)
(*   tries     : attempts to send the current text                         *)
(*   created   : customers inserted and not committed                      *)
(*   logged    : log rows inserted and not committed                       *)
(*   broken    : a flush failed, and the session was not rolled back since *)
(*   said      : what the response will report as sent                     *)
(*   reached, silent, past : what was delivered for the request; who was   *)
(*               opted out, and what was logged of its order, when it      *)
(*               arrived (history, no step reads them)                     *)

Job == [req : Requests, n : Nat, at : {"idle", "next", "lookup", "insert", "compose", "send", "commit"},
        refuses : BOOLEAN, tries : 0..(Attempts - 1), created : SUBSET Customers,
        logged : SUBSET Text, broken : BOOLEAN, said : Seq(Text),
        reached : SUBSET Text, silent : SUBSET Customers, past : SUBSET Text]

Idle == [req |-> CHOOSE r \in Requests : TRUE, n |-> 1, at |-> "idle",
         refuses |-> FALSE, tries |-> 0, created |-> {}, logged |-> {}, broken |-> FALSE,
         said |-> <<>>, reached |-> {}, silent |-> {}, past |-> {}]

Become(h, j) == job' = [job EXCEPT ![h] = j]
Op(h) == job[h].req.op
OneSession(op) == op \in {"notify", "broadcast"}

\* normalize_wa_id, and _get_admin_notification_phone: whom a number means.
Means(n) == WaId[n]
ShopNumber == Admin

\* The texts of an order's events: three for its customer, one for the shop.
TextOf(kind, r, to) == [kind |-> kind, ref |-> r.ref, to |-> to]
Confirmation(r) == TextOf("confirmed", r, Means(r.to[1]))
Receipt(r) == TextOf("pending", r, Means(r.to[1]))
Cancellation(r) == TextOf("cancelled", r, Means(r.to[1]))
ShopAlert(r) == TextOf("admin_alert", r, ShopNumber)

\* What a request sends, one after the other; ingest has only a customer.
Targets(r) ==
  CASE r.op = "confirmed" -> <<Confirmation(r), ShopAlert(r)>>
    [] r.op = "pending"   -> <<Receipt(r), ShopAlert(r)>>
    [] r.op = "cancelled" -> <<Cancellation(r)>>
    [] OTHER              -> [k \in DOMAIN r.to |-> TextOf(r.op, r, Means(r.to[k]))]

Done(h) == job[h].n > Len(Targets(job[h].req))
Target(h) == Targets(job[h].req)[job[h].n]

OtherHolds(h, c) == \E g \in Handlers \ {h} : c \in job[g].created

-----------------------------------------------------------------------------
(* A definition named for what it forgets or takes wrongly, just before a   *)
(* definition, is a deliberately wrong variant of it, which no action uses. *)

RepeatsForgottenNumber(h) == FALSE

\* The customer has been addressed by this request under another number.
Repeats(h) ==
  OneSession(Op(h)) /\ \E k \in 1..(job[h].n - 1) : Targets(job[h].req)[k].to = Target(h).to

Skipped(h) == Target(h).to = Nobody \/ Repeats(h)

\* The words _already_sent_order_alert looks for in the log besides the order's
\* number; for any kind but the first two they are those of a cancellation.
\* The shop's own alert writes the number in another form, and never matches.
Phrase(kind) ==
  CASE kind = "confirmed" -> {"confirmed"}
    [] kind = "pending"   -> {"pending"}
    [] OTHER              -> {"cancelled"}

LoggedAs(t) == \E row \in log : row.ref = t.ref /\ row.kind \in Phrase(t.kind)
AlreadyCached(t) == \E k \in cache : k.ref = t.ref /\ k.kind = t.kind

ForgetsLog(t) == t.ref \notin Unnumbered /\ AlreadyCached(t)

\* _already_sent_order_alert.
AlreadySent(t) == t.ref \notin Unnumbered /\ (AlreadyCached(t) \/ LoggedAs(t))

BlocksOnlyReplies(h) == job[h].refuses /\ ~ OneSession(Op(h))

\* The hard block of send_text_message, on the object that was read.
Blocked(h) == job[h].refuses

-----------------------------------------------------------------------------
(* A request arrives; each order event is a task of its own. *)

Arrive(h) ==
  /\ job[h] = Idle
  /\ served < MaxRequests
  /\ \E r \in Requests : Become(h, [Idle EXCEPT !.req = r, !.at = "next",
                       !.silent = optedOut, !.past = {k \in log : k.ref = r.ref}])
  /\ served' = served + 1
  /\ UNCHANGED <<known, optedOut, log, delivered, cache, told, faults, restarts>>

Onward(j) == [j EXCEPT !.n = @ + 1, !.at = "next", !.tries = 0, !.refuses = FALSE]

SkipTarget(h) ==
  /\ job[h].at = "next" /\ ~ Done(h)
  /\ Skipped(h)
  /\ Become(h, Onward(job[h]))
  /\ UNCHANGED <<known, optedOut, log, delivered, cache, told, served, faults, restarts>>

\* An alert found in memory or in the log counts as sent.
Dedupe(h) ==
  /\ job[h].at = "next" /\ ~ Done(h) /\ ~ Skipped(h)
  /\ Target(h).kind \in AlertKinds /\ AlreadySent(Target(h))
  /\ cache' = cache \cup {Target(h)}
  /\ told' = told \cup {Target(h)}
  /\ Become(h, Onward(job[h]))
  /\ UNCHANGED <<known, optedOut, log, delivered, served, faults, restarts>>

Undelivered(h) ==
  /\ job[h].at = "next" /\ ~ Done(h) /\ ~ Skipped(h)
  /\ Target(h).kind \in AlertKinds /\ ~ AlreadySent(Target(h))
  /\ Become(h, [job[h] EXCEPT !.at = "lookup"])
  /\ UNCHANGED <<known, optedOut, log, delivered, cache, told, served, faults, restarts>>

\* An exception ends the target.  A failed flush has rolled the transaction
\* back; notify and broadcast go on in the session all the same.
KeepsSession(j, flushFailed) ==
  Onward([j EXCEPT !.broken = @ \/ flushFailed,
                   !.created = IF flushFailed THEN {} ELSE @,
                   !.logged = IF flushFailed THEN {} ELSE @])
NewSession(j) == Onward([j EXCEPT !.created = {}, !.logged = {}])

Failed(h, flushFailed) ==
  IF OneSession(Op(h)) THEN KeepsSession(job[h], flushFailed) ELSE NewSession(job[h])

FirstStop(h) ==
  CASE Op(h) = "broadcast"         -> "compose"
    [] Op(h) \in {"ingest", "stop"} -> "commit"
    [] OTHER                       -> "send"

-----------------------------------------------------------------------------
(* get_or_create_customer. *)

LooksUp(h) ==
  \/ job[h].at = "lookup"
  \/ job[h].at = "next" /\ ~ Done(h) /\ ~ Skipped(h) /\ Target(h).kind \notin AlertKinds

Find(h) ==
  LET c == Target(h).to IN
  /\ LooksUp(h) /\ ~ job[h].broken
  /\ Become(h, IF c \in known \cup job[h].created
               THEN [job[h] EXCEPT !.refuses = c \in optedOut, !.at = FirstStop(h)]
               ELSE [job[h] EXCEPT !.at = "insert"])
  /\ UNCHANGED <<known, optedOut, log, delivered, cache, told, served, faults, restarts>>

\* The session of an earlier failure answers every statement with an error.
FindFails(h) ==
  /\ LooksUp(h) /\ job[h].broken
  /\ Become(h, Failed(h, FALSE))
  /\ UNCHANGED <<known, optedOut, log, delivered, cache, told, served, faults, restarts>>

\* The INSERT waits for an uncommitted one of the same WhatsApp id ...
Create(h) ==
  LET c == Target(h).to IN
  /\ job[h].at = "insert"
  /\ c \notin known /\ ~ OtherHolds(h, c)
  /\ Become(h, [job[h] EXCEPT !.created = @ \cup {c}, !.at = FirstStop(h)])
  /\ UNCHANGED <<known, optedOut, log, delivered, cache, told, served, faults, restarts>>

\* ... and fails if that one committed.
CreateCollides(h) ==
  /\ job[h].at = "insert"
  /\ Target(h).to \in known
  /\ Become(h, Failed(h, TRUE))
  /\ UNCHANGED <<known, optedOut, log, delivered, cache, told, served, faults, restarts>>

\* Two sessions wait for each other's inserts: PostgreSQL aborts one.
Waits(h, g) == h # g /\ job[h].at = "insert" /\ Target(h).to \in job[g].created

NeverInCycle(h) == FALSE

InCycle(h) ==
  \E G \in SUBSET Handlers :
    h \in G /\ \A g \in G : (\E f \in G : Waits(g, f)) /\ (\E f \in G : Waits(f, g))

DeadlockVictim(h) ==
  /\ InCycle(h)
  /\ Become(h, Failed(h, TRUE))
  /\ UNCHANGED <<known, optedOut, log, delivered, cache, told, served, faults, restarts>>

-----------------------------------------------------------------------------
(* Composing and sending. *)

\* A broadcast has its text written by the LLM, which may fail.
Compose(h) ==
  /\ job[h].at = "compose"
  /\ \/ Become(h, [job[h] EXCEPT !.at = "send"]) /\ UNCHANGED faults
     \/ /\ faults < MaxFaults /\ faults' = faults + 1
        /\ Become(h, Failed(h, FALSE))
  /\ UNCHANGED <<known, optedOut, log, delivered, cache, told, served, restarts>>

AfterSend(h) == IF Op(h) = "broadcast" THEN Onward(job[h]) ELSE [job[h] EXCEPT !.at = "commit"]

Block(h) ==
  /\ job[h].at = "send" /\ Blocked(h)
  /\ Become(h, AfterSend(h))
  /\ UNCHANGED <<known, optedOut, log, delivered, cache, told, served, faults, restarts>>

\* The text is delivered, logged and, in a broadcast, entered in the report.
Deliver(h) ==
  /\ job[h].at = "send" /\ ~ Blocked(h)
  /\ delivered' = delivered \cup {Target(h)}
  /\ Become(h, [AfterSend(h) EXCEPT !.logged = @ \cup {Target(h)}, !.said = Append(@, Target(h)),
                                    !.reached = @ \cup {Target(h)}])
  /\ UNCHANGED <<known, optedOut, log, cache, told, served, faults, restarts>>

GivesUp(tries) == tries + 1 = Attempts

\* An attempt fails, before the text was delivered or after it.  The error of
\* the last one ends the target.
SendFails(h) ==
  /\ job[h].at = "send" /\ ~ Blocked(h)
  /\ faults < MaxFaults
  /\ faults' = faults + 1
  /\ \E got \in SUBSET {Target(h)} :
       /\ delivered' = delivered \cup got
       /\ Become(h, [(IF GivesUp(job[h].tries) THEN Failed(h, FALSE)
                      ELSE [job[h] EXCEPT !.tries = @ + 1]) EXCEPT !.reached = @ \cup got])
  /\ UNCHANGED <<known, optedOut, log, cache, told, served, restarts>>

-----------------------------------------------------------------------------
(* Commits. *)

CachesUnsent(h) == {Target(h)}

\* An alert that was sent is remembered, after its commit.
Cached(h) == IF Target(h).kind \in AlertKinds THEN job[h].logged \cap {Target(h)} ELSE {}

\* notify, an order alert and ingest commit.  A session that inserted and then
\* failed to send, in notify, commits the customer with the next recipient.
Commit(h) ==
  /\ job[h].at = "commit"
  /\ known' = known \cup job[h].created
  /\ log' = log \cup job[h].logged
  /\ cache' = cache \cup Cached(h)
  /\ optedOut' = IF Op(h) = "stop" THEN optedOut \cup {Target(h).to} ELSE optedOut
  /\ told' = IF OneSession(Op(h)) THEN told ELSE told \cup job[h].logged
  /\ Become(h, Onward([job[h] EXCEPT !.created = {}, !.logged = {}]))
  /\ UNCHANGED <<delivered, served, faults, restarts>>

\* The response of a request; a broadcast that cannot store its totals answers
\* with an error.  The session closes: what it has not committed is undone.
Respond(h) ==
  /\ job[h].at = "next" /\ Done(h)
  /\ told' = IF Op(h) = "broadcast" /\ job[h].broken THEN told ELSE told \cup Range(job[h].said)
  /\ Become(h, Idle)
  /\ UNCHANGED <<known, optedOut, log, delivered, cache, served, faults, restarts>>

\* The process dies, and with it the sessions and the memory.
Restart ==
  /\ restarts < MaxRestarts
  /\ restarts' = restarts + 1
  /\ cache' = {}
  /\ job' = [h \in Handlers |-> Idle]
  /\ UNCHANGED <<known, optedOut, log, delivered, told, served, faults>>

-----------------------------------------------------------------------------
Init ==
  /\ known = {}
  /\ optedOut = {} /\ log = {} /\ cache = {} /\ told = {}
  /\ delivered = {}
  /\ job = [h \in Handlers |-> Idle]
  /\ served = 0 /\ faults = 0 /\ restarts = 0

Proceed(h) ==
  \/ SkipTarget(h) \/ Dedupe(h) \/ Undelivered(h)
  \/ Find(h) \/ FindFails(h) \/ Create(h) \/ CreateCollides(h) \/ DeadlockVictim(h)
  \/ Compose(h) \/ Block(h) \/ Deliver(h) \/ SendFails(h)
  \/ Commit(h) \/ Respond(h)

Next == Restart \/ \E h \in Handlers : Arrive(h) \/ Proceed(h)

Spec == Init /\ [][Next]_vars

-----------------------------------------------------------------------------
(* Properties. *)

TypeOK ==
  /\ known \subseteq Customers /\ optedOut \subseteq known
  /\ log \subseteq Text /\ cache \subseteq Text /\ told \subseteq Text
  /\ delivered \subseteq Text
  /\ job \in [Handlers -> Job]
  /\ served \in Nat /\ faults \in Nat /\ restarts \in Nat

\* A customer who had opted out when a request arrived gets nothing from it,
\* whoever created the customer and whichever session read the row
\* (messaging/service.py, "Opted-out customers are never messaged").
OptOutIsRespected == \A h \in Handlers : \A k \in job[h].reached : k.to \notin job[h].silent

Same(j, k) == j.ref = k.ref /\ j.kind = k.kind

\* An order's alert that was logged when an event arrived is not sent again for
\* that event, also after a restart has emptied the cache.
AlertedOnce ==
  \A h \in Handlers : \A k \in job[h].reached, row \in job[h].past :
    k.kind \in OrderKinds /\ k.ref \notin Unnumbered => ~ Same(k, row)

\* A request reaches each customer at most once, however often and in whatever
\* form it names the number, unless the answer to an attempt was lost.
OncePerRequest ==
  \A h \in Handlers : \A i, j \in DOMAIN job[h].said : job[h].said[i] = job[h].said[j] => i = j

\* What was reported as sent was delivered, and but for broadcasts its row is
\* committed; the shop's alert of a cancelled order is taken for sent.
ReportsAreTrue ==
  \A k \in told :
    \/ k.kind = "admin_alert" /\ \E row \in log : row.ref = k.ref /\ row.kind = "cancelled"
    \/ /\ \E d \in delivered : Same(d, k)
       /\ k.kind # "broadcast" => \E row \in log : Same(row, k)

\* A handler at work can go on: nothing waits but an insert, for one of the same
\* customer that is not committed.
Ready(h) ==
  /\ job[h] # Idle
  /\ job[h].at = "insert" =>
       Target(h).to \in known \/ ~ OtherHolds(h, Target(h).to) \/ InCycle(h)

\* While anything is in progress something can go on, although sessions keep
\* customers they inserted for a whole broadcast and wait for each other's.
SomethingGoesOn == (\E h \in Handlers : job[h] # Idle) => \E h \in Handlers : Ready(h)

\* Outbound message_log rows are always written (messaging/service.py,
\* "Outbound events and message_log rows are always written").
SentIsLogged == \A k \in told : k \in delivered => k \in log
=============================================================================

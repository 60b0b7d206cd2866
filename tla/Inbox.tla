------------------------------- MODULE Inbox -------------------------------
(***************************************************************************)
(* What the conversation promises: a message that is recorded gets at most *)
(* one turn of the agent and so one reply, a customer has one turn at a    *)
(* time, and a turn begins with the newest rows of the customer's thread   *)
(* and misses no reply for which there was room among them.                *)
(* Deliveries, transactions, runners and locks are not seen.               *)
(***************************************************************************)
EXTENDS Naturals, FiniteSets

CONSTANTS
  Messages,  \* message ids
  From,      \* From[m]: the sender of m
  Limit      \* rows a turn begins with, at most

VARIABLES
  thread,    \* the rows: a message, whether it came in or went out, and its time
  due,       \* messages whose turn is still to come
  turns      \* turns in progress: the message, and the rows it has seen

ivars == <<thread, due, turns>>

Of(m) == {e \in thread : From[e.msg] = From[m]}
Has(m, dir) == \E e \in thread : e.msg = m /\ e.dir = dir
NobodyServes(m) == \A t \in turns : From[t.msg] # From[m]

Newer(e, rows) == {f \in rows : f.at > e.at}
Newest(rows) == {e \in rows : Cardinality(Newer(e, rows)) < Limit}

\* A row more; the database gives it its time.
Adds(m, dir) == \E e \in thread' : e.msg = m /\ e.dir = dir /\ thread' = thread \cup {e}

Record(m) ==
  /\ ~ Has(m, "in") /\ Adds(m, "in")
  /\ due' = due \cup {m}
  /\ UNCHANGED turns

\* A paused agent, or one that fails, does not begin.
Drop(m) ==
  /\ m \in due
  /\ due' = due \ {m}
  /\ UNCHANGED <<thread, turns>>

Begin(m) ==
  /\ m \in due /\ NobodyServes(m)
  /\ due' = due \ {m}
  /\ turns' = turns \cup {[msg |-> m, seen |-> Newest(Of(m))]}
  /\ UNCHANGED thread

GiveUp(t) ==
  /\ turns' = turns \ {t}
  /\ UNCHANGED <<thread, due>>

\* Every reply the customer has got was seen, or had no room in a full history.
Informed(t) ==
  \A e \in Of(t.msg) : e.dir = "out" => e \in t.seen \/ Cardinality(Newer(e, t.seen)) >= Limit

Reply(t) ==
  /\ Informed(t)
  /\ ~ Has(t.msg, "out") /\ Adds(t.msg, "out")
  /\ turns' = turns \ {t}
  /\ UNCHANGED due

\* What was to come, or in progress, is forgotten when the process restarts.
Forget == due' = {} /\ turns' = {} /\ UNCHANGED thread

InboxInit == thread = {} /\ due = {} /\ turns = {}

InboxNext ==
  \/ \E m \in Messages : Record(m) \/ Drop(m) \/ Begin(m)
  \/ \E t \in turns : GiveUp(t) \/ Reply(t)
  \/ Forget

InboxSpec == InboxInit /\ [][InboxNext]_ivars
=============================================================================

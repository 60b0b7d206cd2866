---------------------------- MODULE Outbound_proofs ----------------------------
(***************************************************************************)
(* Proofs about what is sent, for every set of handlers, customers,        *)
(* numbers and requests, and every bound.                                  *)
(***************************************************************************)
EXTENDS Outbound, SequenceTheorems, FiniteSetTheorems, WellFoundedInduction, TLAPS

-----------------------------------------------------------------------------
(* What a job says of itself.  Rows and deliveries only grow, so that each    *)
(* part of it, once true, stays true while others work: K are the customers  *)
(* rows, O those opted out, L the log and D what was delivered.               *)

T(j) == Targets(j.req)[j.n]
Inward(j) == j.req.op \in {"ingest", "stop"}
Working == {"lookup", "insert", "compose", "send", "commit"}

\* Where it is, and what it is at.
Fits(j, K) ==
  /\ j \in Job /\ j.n >= 1
  /\ j.at \in Working => j.n \in DOMAIN Targets(j.req) /\ T(j).to \in Customers
  /\ j.at \in Working /\ ~ Inward(j) => \A k \in 1..(j.n - 1) : Targets(j.req)[k] # T(j)
  /\ j.at = "lookup" => T(j).kind \in AlertKinds
  /\ j.at \in {"compose", "send"} => ~ Inward(j)
  /\ j.at = "commit" => j.req.op # "broadcast"
  /\ j.at = "commit" /\ Inward(j) => T(j).to \in K \cup j.created

\* Who had opted out gets nothing.
Silent(j, O) ==
  /\ j.silent \subseteq O
  /\ j.at \in {"compose", "send"} /\ T(j).to \in j.silent => j.refuses
  /\ \A k \in j.reached : k.to \notin j.silent

\* An alert that is about to be sent was not logged when the event arrived.
New(j, k) ==
  \A row \in j.past : k.kind \in OrderKinds /\ k.ref \notin Unnumbered => ~ Same(k, row)

Fresh(j, L) ==
  /\ j.past \subseteq L
  /\ j.at \in {"lookup", "insert", "compose", "send"} => New(j, T(j))
  /\ \A k \in j.reached : New(j, k)

\* What the response will report is a target dealt with, each once; it was
\* delivered and, unless the request is a broadcast, its row is written.
Dealt(j) == IF j.at = "commit" THEN j.n ELSE j.n - 1

Honest(j, L, D) ==
  /\ j.logged \subseteq D
  /\ \A i \in DOMAIN j.said :
       /\ j.said[i] \in D
       /\ \/ j.said[i].kind = "broadcast" \/ j.said[i] \in L
          \/ j.at = "commit" /\ j.said[i] \in j.logged
       /\ \E k \in 1..Dealt(j) : j.said[i] = Targets(j.req)[k]
  /\ \A i, k \in DOMAIN j.said : j.said[i] = j.said[k] => i = k

Sound(j, K, O, L, D) == Fits(j, K) /\ Silent(j, O) /\ Fresh(j, L) /\ Honest(j, L, D)

\* What may be reported.
Reported(k, L, D) ==
  \/ k.kind = "admin_alert" /\ \E row \in L : row.ref = k.ref /\ row.kind = "cancelled"
  \/ /\ \E d \in D : Same(d, k)
     /\ k.kind # "broadcast" => \E row \in L : Same(row, k)

RowsInv ==
  /\ known \subseteq Customers /\ optedOut \subseteq known
  /\ log \subseteq Text /\ cache \subseteq Text /\ told \subseteq Text /\ delivered \subseteq Text
  /\ log \subseteq delivered
  /\ served \in Nat /\ faults \in Nat /\ restarts \in Nat
  /\ \A k \in cache \cup told : Reported(k, log, delivered)

JobsInv ==
  /\ job \in [Handlers -> Job]
  /\ \A h \in Handlers : Sound(job[h], known, optedOut, log, delivered)

OutboundInv == RowsInv /\ JobsInv

-----------------------------------------------------------------------------
(* The targets of a request. *)

LEMMA TargetsTyped ==
  ASSUME NEW r \in Requests
  PROVE  /\ Len(Targets(r)) \in Nat /\ DOMAIN Targets(r) = 1..Len(Targets(r))
         /\ \A k \in DOMAIN Targets(r) :
              /\ Targets(r)[k].ref = r.ref /\ r.ref \in Refs
              /\ Targets(r)[k].to \in Customers \cup {Nobody}
              /\ r.op \notin {"ingest", "stop"} /\ Targets(r)[k].to \in Customers =>
                   Targets(r)[k] \in Text
              /\ (Targets(r)[k].kind \in AlertKinds) <=> r.op \in OrderKinds
              /\ r.op = "broadcast" => Targets(r)[k].kind = "broadcast"
         /\ r.op \in OrderKinds =>
              \A i, k \in DOMAIN Targets(r) : i # k => Targets(r)[i] # Targets(r)[k]
<1>1. r \in Request /\ r.to # <<>>
  BY RequestsAreRequests
<1>2. r.op \in Ops /\ r.ref \in Refs /\ r.to \in Seq(Numbers) /\ Len(r.to) \in Nat
      /\ DOMAIN r.to = 1..Len(r.to)
  BY <1>1 DEF Request
<1>3. \A k \in DOMAIN r.to : Means(r.to[k]) \in Customers \cup {Nobody}
  BY <1>2, NumbersMeanCustomers DEF Means
<1>4. 1 \in DOMAIN r.to
  BY <1>1, <1>2, EmptySeq
<1>5. ShopNumber \in Customers \cup {Nobody}
  BY AdminIsReachable DEF ShopNumber
<1>6. CASE r.op = "confirmed"
  <2>1. Targets(r) = <<Confirmation(r), ShopAlert(r)>>
    BY <1>6 DEF Targets
  <2> QED BY <1>2, <1>3, <1>4, <1>5, <1>6, <2>1
      DEF Confirmation, ShopAlert, TextOf, Text, Kinds, AlertKinds, OrderKinds
<1>7. CASE r.op = "pending"
  <2>1. Targets(r) = <<Receipt(r), ShopAlert(r)>>
    BY <1>7 DEF Targets
  <2> QED BY <1>2, <1>3, <1>4, <1>5, <1>7, <2>1
      DEF Receipt, ShopAlert, TextOf, Text, Kinds, AlertKinds, OrderKinds
<1>8. CASE r.op = "cancelled"
  <2>1. Targets(r) = <<Cancellation(r)>>
    BY <1>8 DEF Targets
  <2> QED BY <1>2, <1>3, <1>4, <1>5, <1>8, <2>1
      DEF Cancellation, TextOf, Text, Kinds, AlertKinds, OrderKinds
<1>9. CASE r.op \notin OrderKinds
  <2>1. Targets(r) = [k \in DOMAIN r.to |-> TextOf(r.op, r, Means(r.to[k]))]
    BY <1>9 DEF Targets, OrderKinds
  <2>2. Len(Targets(r)) = Len(r.to) /\ DOMAIN Targets(r) = 1..Len(r.to)
    BY <1>2, <2>1
  <2>3. r.op \in {"notify", "broadcast", "ingest", "stop"}
    BY <1>2, <1>9 DEF Ops
  <2> QED BY <1>2, <1>3, <1>9, <2>1, <2>2, <2>3 DEF TextOf, Text, Kinds, AlertKinds, OrderKinds
<1> QED BY <1>6, <1>7, <1>8, <1>9 DEF OrderKinds

\* What is true of a job stays true as the tables grow.
LEMMA SoundStays ==
  ASSUME NEW j, NEW K, NEW O, NEW L, NEW D, NEW KK, NEW OO, NEW LL, NEW DD,
         Sound(j, K, O, L, D),
         K \subseteq KK, O \subseteq OO, L \subseteq LL, D \subseteq DD
  PROVE  Sound(j, KK, OO, LL, DD)
<1>1. Fits(j, KK) /\ Silent(j, OO) /\ Fresh(j, LL)
  BY DEF Sound, Fits, Silent, Fresh
<1>2. Honest(j, LL, DD)
  BY DEF Sound, Honest
<1> QED BY <1>1, <1>2 DEF Sound

LEMMA ReportedStays ==
  ASSUME NEW k, NEW L, NEW D, NEW LL, NEW DD, Reported(k, L, D), L \subseteq LL, D \subseteq DD
  PROVE  Reported(k, LL, DD)
  BY DEF Reported

LEMMA IdleSound ==
  ASSUME NEW K, NEW O, NEW L, NEW D, NEW r \in Requests, NEW at \in {"idle", "next"},
         NEW S \in SUBSET Customers, S \subseteq O, NEW P \in SUBSET Text, P \subseteq L
  PROVE  /\ Idle \in Job
         /\ Sound([Idle EXCEPT !.req = r, !.at = at, !.silent = S, !.past = P], K, O, L, D)
<1>1. Idle.req \in Requests
  BY SomeRequest DEF Idle
<1>2. Idle \in Job
  BY <1>1, SomeAttempt DEF Idle, Job
<1> DEFINE j == [Idle EXCEPT !.req = r, !.at = at, !.silent = S, !.past = P]
<1>3. /\ j \in Job /\ j.at = at /\ j.n = 1 /\ j.silent = S /\ j.past = P /\ j.reached = {}
      /\ j.logged = {} /\ j.said = <<>>
  BY <1>2 DEF Idle, Job
<1> HIDE DEF j
<1>4. DOMAIN j.said = {}
  BY <1>3
<1>5. Sound(j, K, O, L, D)
  BY <1>3, <1>4 DEF Sound, Fits, Silent, Fresh, Honest, Working
<1> QED BY <1>2, <1>5 DEF j

-----------------------------------------------------------------------------
(* Going on with the next target. *)

LEMMA OnwardSound ==
  ASSUME NEW j, NEW K, NEW O, NEW L, NEW D, Sound(j, K, O, L, D),
         \A i \in DOMAIN j.said : j.said[i].kind = "broadcast" \/ j.said[i] \in L
  PROVE  Sound(Onward(j), K, O, L, D)
<1> DEFINE o == Onward(j)
<1>1. j \in Job /\ j.n \in Nat /\ j.n >= 1
  BY DEF Sound, Fits, Job
<1>2. /\ o \in Job /\ o.n = j.n + 1 /\ o.at = "next" /\ o.req = j.req
      /\ o.silent = j.silent /\ o.reached = j.reached /\ o.past = j.past
      /\ o.logged = j.logged /\ o.said = j.said
  <2>1. j.n + 1 \in Nat /\ 0 \in 0..(Attempts - 1)
    BY <1>1, SomeAttempt
  <2>2. o = [j EXCEPT !.n = j.n + 1, !.at = "next", !.tries = 0, !.refuses = FALSE]
    BY DEF Onward
  <2> HIDE DEF o
  <2> QED BY <1>1, <2>1, <2>2 DEF Job
<1> HIDE DEF o
<1>3. 1..Dealt(j) \subseteq 1..Dealt(o)
  BY <1>1, <1>2 DEF Dealt
<1>4. Fits(o, K) /\ Silent(o, O) /\ Fresh(o, L)
  BY <1>1, <1>2 DEF Sound, Fits, Silent, Fresh, New, Working
<1>5. Honest(o, L, D)
  BY <1>2, <1>3 DEF Sound, Honest
<1> QED BY <1>4, <1>5 DEF Sound, o

\* Before the commit, all that will be reported is written.
LEMMA WrittenBefore ==
  ASSUME NEW j, NEW K, NEW O, NEW L, NEW D, Sound(j, K, O, L, D), j.at # "commit"
  PROVE  \A i \in DOMAIN j.said : j.said[i].kind = "broadcast" \/ j.said[i] \in L
  BY DEF Sound, Honest

\* A session that goes on after an error, or a new one.
LEMMA LosesSound ==
  ASSUME NEW j, NEW K, NEW O, NEW L, NEW D, Sound(j, K, O, L, D), j.at # "commit",
         NEW b \in BOOLEAN, NEW C \in SUBSET j.created, NEW G \in SUBSET j.logged
  PROVE  Sound([j EXCEPT !.broken = b, !.created = C, !.logged = G], K, O, L, D)
<1> DEFINE o == [j EXCEPT !.broken = b, !.created = C, !.logged = G]
<1>1. j \in Job
  BY DEF Sound, Fits
<1>2. /\ o \in Job /\ o.n = j.n /\ o.at = j.at /\ o.req = j.req /\ o.refuses = j.refuses
      /\ o.silent = j.silent /\ o.reached = j.reached /\ o.past = j.past
      /\ o.logged \subseteq j.logged /\ o.said = j.said
  BY <1>1 DEF Job
<1> HIDE DEF o
<1>3. Fits(o, K) /\ Silent(o, O) /\ Fresh(o, L)
  BY <1>2 DEF Sound, Fits, Silent, Fresh, New, Inward, T
<1>4. Honest(o, L, D)
  BY <1>2 DEF Sound, Honest, Dealt
<1> QED BY <1>3, <1>4 DEF Sound, o

LEMMA FailedSound ==
  ASSUME NEW h \in Handlers, NEW K, NEW O, NEW L, NEW D, Sound(job[h], K, O, L, D),
         job[h].at # "commit", NEW f \in BOOLEAN
  PROVE  Sound(Failed(h, f), K, O, L, D)
<1> DEFINE j == job[h]
           C == IF f THEN {} ELSE j.created
           G == IF f THEN {} ELSE j.logged
           keep == [j EXCEPT !.broken = @ \/ f, !.created = C, !.logged = G]
           fresh == [j EXCEPT !.broken = @, !.created = {}, !.logged = {}]
<1>1. j \in Job /\ j.broken \in BOOLEAN
  BY DEF Sound, Fits, Job
<1>2. (j.broken \/ f) \in BOOLEAN /\ C \in SUBSET j.created /\ G \in SUBSET j.logged
  OBVIOUS
<1>3. Sound(keep, K, O, L, D) /\ keep.at = j.at
  BY <1>1, <1>2, LosesSound DEF Job
<1>4. Sound(fresh, K, O, L, D) /\ fresh.at = j.at
  BY <1>1, LosesSound DEF Job
<1>5. Sound(Onward(keep), K, O, L, D) /\ Sound(Onward(fresh), K, O, L, D)
  BY <1>3, <1>4, OnwardSound, WrittenBefore
<1>6. fresh = [j EXCEPT !.created = {}, !.logged = {}]
  BY <1>1 DEF Job
<1>7. KeepsSession(j, f) = Onward(keep) /\ NewSession(j) = Onward(fresh)
  BY <1>6 DEF KeepsSession, NewSession
<1> QED BY <1>5, <1>7 DEF Failed

\* A text that was delivered to a customer who had not opted out, of an order's
\* alert that was not logged before.
LEMMA ReachedSound ==
  ASSUME NEW j, NEW K, NEW O, NEW L, NEW D, Sound(j, K, O, L, D), NEW t \in Text,
         t.to \notin j.silent, New(j, t), NEW got \in SUBSET {t}
  PROVE  Sound([j EXCEPT !.reached = @ \cup got], K, O, L, D)
<1> DEFINE o == [j EXCEPT !.reached = @ \cup got]
<1>1. j \in Job
  BY DEF Sound, Fits
<1>2. /\ o \in Job /\ o.n = j.n /\ o.at = j.at /\ o.req = j.req /\ o.refuses = j.refuses
      /\ o.silent = j.silent /\ o.reached = j.reached \cup got /\ o.past = j.past
      /\ o.logged = j.logged /\ o.said = j.said /\ o.created = j.created
  BY <1>1 DEF Job
<1> HIDE DEF o
<1>3. Fits(o, K) /\ Honest(o, L, D)
  BY <1>2 DEF Sound, Fits, Inward, T, Honest, Dealt
<1>4. Silent(o, O) /\ Fresh(o, L)
  BY <1>2 DEF Sound, Silent, Fresh, New, T
<1> QED BY <1>3, <1>4 DEF Sound, o

-----------------------------------------------------------------------------
(* Steps with one target. *)

\* A job that has nothing to commit yet goes on to at.
LEMMA GoesSound ==
  ASSUME NEW j, NEW K, NEW O, NEW L, NEW D, Sound(j, K, O, L, D), j.at # "commit",
         NEW at \in Working, NEW C \in SUBSET Customers, NEW refuses \in BOOLEAN,
         j.n \in DOMAIN Targets(j.req), T(j).to \in Customers,
         ~ Inward(j) => \A k \in 1..(j.n - 1) : Targets(j.req)[k] # T(j),
         at = "lookup" => T(j).kind \in AlertKinds,
         at \in {"compose", "send"} => ~ Inward(j),
         at = "commit" => j.req.op # "broadcast",
         at = "commit" /\ Inward(j) => T(j).to \in K \cup C,
         at \in {"compose", "send"} /\ T(j).to \in j.silent => refuses,
         at \in {"lookup", "insert", "compose", "send"} => New(j, T(j))
  PROVE  Sound([j EXCEPT !.at = at, !.created = C, !.refuses = refuses], K, O, L, D)
<1> DEFINE o == [j EXCEPT !.at = at, !.created = C, !.refuses = refuses]
<1>1. j \in Job /\ j.n \in Nat /\ j.n >= 1
  BY DEF Sound, Fits, Job
<1>2. /\ o \in Job /\ o.n = j.n /\ o.at = at /\ o.req = j.req /\ o.refuses = refuses
      /\ o.silent = j.silent /\ o.reached = j.reached /\ o.past = j.past
      /\ o.logged = j.logged /\ o.said = j.said /\ o.created = C
  BY <1>1 DEF Job, Working
<1> HIDE DEF o
<1>3. T(o) = T(j) /\ Inward(o) = Inward(j) /\ \A k : New(o, k) = New(j, k)
  BY <1>2 DEF T, Inward, New
<1>4. Fits(o, K) /\ Silent(o, O) /\ Fresh(o, L)
  BY <1>1, <1>2, <1>3 DEF Sound, Fits, Silent, Fresh
<1>5. 1..Dealt(j) \subseteq 1..Dealt(o)
  BY <1>1, <1>2 DEF Dealt
<1>6. Honest(o, L, D)
  BY <1>2, <1>5 DEF Sound, Honest
<1> QED BY <1>4, <1>6 DEF Sound, o

\* A target that is not skipped is a customer's, and a text of its own.
LEMMA AtTarget ==
  ASSUME JobsInv, NEW h \in Handlers, job[h].at = "next", ~ Done(h), ~ Skipped(h)
  PROVE  LET j == job[h] IN
         /\ j.n \in DOMAIN Targets(j.req) /\ T(j).to \in Customers
         /\ ~ Inward(j) => \A k \in 1..(j.n - 1) : Targets(j.req)[k] # T(j)
<1> DEFINE j == job[h]
<1>1. j.req \in Requests /\ j.n \in Nat /\ j.n >= 1
  BY DEF JobsInv, Sound, Fits, Job
<1>2. j.n \in DOMAIN Targets(j.req) /\ 1..(j.n - 1) \subseteq DOMAIN Targets(j.req)
  BY <1>1, TargetsTyped DEF Done
<1>3. T(j).to \in Customers
  BY <1>1, <1>2, TargetsTyped DEF Skipped, Target, T
<1>4. ASSUME ~ Inward(j), NEW k \in 1..(j.n - 1) PROVE Targets(j.req)[k] # T(j)
  <2>1. CASE OneSession(j.req.op)
    BY <2>1, <1>4 DEF Skipped, Repeats, Op, Target, T
  <2>2. CASE j.req.op \in OrderKinds
    BY <1>1, <1>2, <1>4, <2>2, TargetsTyped DEF T
  <2>3. j.req.op \in Ops
    BY <1>1, RequestsAreRequests DEF Request
  <2> QED BY <1>4, <2>1, <2>2, <2>3 DEF Inward, OneSession, Ops
<1> QED BY <1>2, <1>3, <1>4

\* What is sent is a text.
LEMMA TargetIsText ==
  ASSUME JobsInv, NEW h \in Handlers, job[h].at \in Working
  PROVE  LET j == job[h] IN
         /\ j.req \in Requests /\ j.n \in DOMAIN Targets(j.req) /\ T(j).to \in Customers
         /\ ~ Inward(j) => T(j) \in Text
         /\ (T(j).kind \in AlertKinds) <=> j.req.op \in OrderKinds
         /\ j.req.op = "broadcast" => T(j).kind = "broadcast"
<1>1. job[h].req \in Requests /\ job[h].n \in DOMAIN Targets(job[h].req) /\ T(job[h]).to \in Customers
  BY DEF JobsInv, Sound, Fits, Job
<1> QED BY <1>1, TargetsTyped DEF T, Inward

\* After the text was sent, or blocked, and before it is.
LEMMA AfterSendSound ==
  ASSUME JobsInv, NEW h \in Handlers, job[h].at = "send"
  PROVE  Sound(AfterSend(h), known, optedOut, log, delivered)
<1> DEFINE j == job[h]
<1>1. Sound(j, known, optedOut, log, delivered) /\ j \in Job
  BY DEF JobsInv, Sound, Fits
<1>2. CASE Op(h) = "broadcast"
  BY <1>1, <1>2, OnwardSound, WrittenBefore DEF AfterSend
<1>3. CASE Op(h) # "broadcast"
  <2>1. j.created \in SUBSET Customers /\ j.refuses \in BOOLEAN
    BY <1>1 DEF Job
  <2>2. /\ j.n \in DOMAIN Targets(j.req) /\ T(j).to \in Customers /\ ~ Inward(j)
        /\ \A k \in 1..(j.n - 1) : Targets(j.req)[k] # T(j)
    BY <1>1 DEF Sound, Fits, Working
  <2>3. Sound([j EXCEPT !.at = "commit", !.created = j.created, !.refuses = j.refuses],
              known, optedOut, log, delivered)
    BY <1>1, <1>3, <2>1, <2>2, GoesSound DEF Working, Op
  <2>4. [j EXCEPT !.at = "commit", !.created = j.created, !.refuses = j.refuses]
          = [j EXCEPT !.at = "commit"]
    BY <1>1 DEF Job
  <2> QED BY <1>3, <2>3, <2>4 DEF AfterSend
<1> QED BY <1>2, <1>3

LEMMA DeliverSound ==
  ASSUME OutboundInv, NEW h \in Handlers, Deliver(h)
  PROVE  \E t : Become(h, t) /\ Sound(t, known, optedOut, log, delivered')
<1> DEFINE j == job[h]
           o == [AfterSend(h) EXCEPT !.logged = @ \cup {T(j)}, !.said = Append(@, T(j)),
                                     !.reached = @ \cup {T(j)}]
           D == delivered \cup {T(j)}
<1>0. JobsInv
  BY DEF OutboundInv
<1>1. /\ j.at = "send" /\ ~ j.refuses /\ delivered' = D /\ Become(h, o)
  BY DEF Deliver, Blocked, Target, T
<1>2. Sound(j, known, optedOut, log, delivered) /\ j \in Job
      /\ Sound(AfterSend(h), known, optedOut, log, delivered) /\ AfterSend(h) \in Job
  BY <1>0, <1>1, AfterSendSound DEF JobsInv, Sound, Fits
<1>3. T(j) \in Text /\ ~ Inward(j) /\ (j.req.op = "broadcast" => T(j).kind = "broadcast")
      /\ j.n \in Nat /\ j.n >= 1
      /\ \A k \in 1..(j.n - 1) : Targets(j.req)[k] # T(j)
  BY <1>0, <1>1, <1>2, TargetIsText DEF Sound, Fits, Working, Job
<1>4. /\ AfterSend(h).req = j.req /\ AfterSend(h).silent = j.silent
      /\ AfterSend(h).reached = j.reached /\ AfterSend(h).past = j.past
      /\ AfterSend(h).logged = j.logged /\ AfterSend(h).said = j.said
      /\ \/ /\ j.req.op = "broadcast"
            /\ AfterSend(h).at = "next" /\ AfterSend(h).n = j.n + 1
         \/ AfterSend(h).at = "commit" /\ AfterSend(h).n = j.n
      /\ AfterSend(h).at = "commit" => j.req.op # "broadcast"
  BY <1>2 DEF AfterSend, Onward, Op, Job
<1>5. /\ o \in Job /\ o.n = AfterSend(h).n /\ o.at = AfterSend(h).at /\ o.req = j.req
      /\ o.silent = j.silent /\ o.reached = j.reached \cup {T(j)} /\ o.past = j.past
      /\ o.logged = j.logged \cup {T(j)} /\ o.said = Append(j.said, T(j))
      /\ o.created = AfterSend(h).created
  BY <1>2, <1>3, <1>4, AppendProperties DEF Job
<1> HIDE DEF o, D
<1>6. Fits(o, known)
  BY <1>2, <1>4, <1>5 DEF Sound, Fits, Working, Inward, T
<1>7. Silent(o, optedOut) /\ Fresh(o, log)
  <2>1. T(j).to \notin j.silent /\ New(j, T(j))
    BY <1>1, <1>2 DEF Sound, Silent, Fresh
  <2>2. \A k : New(o, k) = New(j, k)
    BY <1>5 DEF New
  <2> QED BY <1>2, <1>4, <1>5, <2>1, <2>2 DEF Sound, Silent, Fresh
<1>8. Honest(o, log, D)
  <2>1. Dealt(o) = j.n /\ Dealt(j) = j.n - 1
    BY <1>1, <1>3, <1>4, <1>5 DEF Dealt
  <2>2. /\ j.said \in Seq(Text) /\ Len(j.said) \in Nat /\ DOMAIN j.said = 1..Len(j.said)
        /\ DOMAIN o.said = 1..(Len(j.said) + 1)
        /\ \A i \in DOMAIN j.said : o.said[i] = j.said[i]
        /\ o.said[Len(j.said) + 1] = T(j)
    BY <1>2, <1>3, <1>5, AppendProperties, LenProperties DEF Job
  <2>3. \A i \in DOMAIN o.said : i \in DOMAIN j.said \/ (o.said[i] = T(j) /\ i = Len(j.said) + 1)
    BY <2>2
  <2>4. \A i \in DOMAIN j.said :
          /\ j.said[i] \in delivered /\ (j.said[i].kind = "broadcast" \/ j.said[i] \in log)
          /\ \E k \in 1..(j.n - 1) : j.said[i] = Targets(j.req)[k]
    BY <1>1, <1>2, <2>1 DEF Sound, Honest
  <2>5. \A i \in DOMAIN j.said : j.said[i] # T(j)
    BY <1>3, <2>4
  <2>6. j.n \in 1..j.n /\ 1..(j.n - 1) \subseteq 1..j.n /\ Targets(j.req)[j.n] = T(j)
    BY <1>3 DEF T
  <2>7. T(j).kind = "broadcast" \/ (o.at = "commit" /\ T(j) \in o.logged)
    BY <1>3, <1>4, <1>5
  <2>8. o.logged \subseteq D
    BY <1>2, <1>5 DEF Sound, Honest, D
  <2>9. \A i \in DOMAIN o.said :
       /\ o.said[i] \in D
       /\ \/ o.said[i].kind = "broadcast" \/ o.said[i] \in log
          \/ o.at = "commit" /\ o.said[i] \in o.logged
       /\ \E k \in 1..Dealt(o) : o.said[i] = Targets(o.req)[k]
    BY <1>5, <2>1, <2>2, <2>3, <2>4, <2>6, <2>7 DEF D
  <2>10. \A i, k \in DOMAIN o.said : o.said[i] = o.said[k] => i = k
    BY <1>2, <2>2, <2>3, <2>5 DEF Sound, Honest
  <2> QED BY <2>8, <2>9, <2>10 DEF Honest
<1> QED BY <1>1, <1>6, <1>7, <1>8 DEF Sound

-----------------------------------------------------------------------------
(* A step of one job. *)

\* No row changes.
LEMMA QuietStep ==
  ASSUME OutboundInv, NEW h \in Handlers, NEW t, Become(h, t),
         Sound(t, known, optedOut, log, delivered),
         UNCHANGED <<known, optedOut, log, delivered, cache, told>>,
         served' \in Nat, faults' \in Nat, restarts' \in Nat
  PROVE  OutboundInv'
<1>1. RowsInv'
  BY DEF OutboundInv, RowsInv
<1>2. t \in Job
  BY DEF Sound, Fits
<1>3. /\ job' \in [Handlers -> Job] /\ job'[h] = t
      /\ \A g \in Handlers \ {h} : job'[g] = job[g]
  BY <1>2 DEF OutboundInv, JobsInv, Become
<1>4. \A g \in Handlers : Sound(job'[g], known, optedOut, log, delivered)
  BY <1>3 DEF OutboundInv, JobsInv
<1>5. JobsInv'
  BY <1>3, <1>4 DEF JobsInv
<1> QED BY <1>1, <1>5 DEF OutboundInv

\* Some rows are added.
LEMMA JobStep ==
  ASSUME JobsInv, NEW h \in Handlers, NEW t, Become(h, t),
         Sound(t, known', optedOut', log', delivered'),
         known \subseteq known', optedOut \subseteq optedOut',
         log \subseteq log', delivered \subseteq delivered'
  PROVE  JobsInv'
<1>2. t \in Job
  BY DEF Sound, Fits
<1>3. /\ job' \in [Handlers -> Job] /\ job'[h] = t
      /\ \A g \in Handlers \ {h} : job'[g] = job[g]
  BY <1>2 DEF JobsInv, Become
<1>4. \A g \in Handlers : Sound(job[g], known', optedOut', log', delivered')
  BY SoundStays DEF JobsInv
<1> QED BY <1>3, <1>4 DEF JobsInv

LEMMA ArriveStep ==
  ASSUME OutboundInv, NEW h \in Handlers, Arrive(h)
  PROVE  OutboundInv'
<1>1. PICK r \in Requests :
        Become(h, [Idle EXCEPT !.req = r, !.at = "next",
                               !.silent = optedOut, !.past = {k \in log : k.ref = r.ref}])
  BY DEF Arrive
<1>2. optedOut \subseteq Customers /\ {k \in log : k.ref = r.ref} \in SUBSET Text
      /\ {k \in log : k.ref = r.ref} \subseteq log /\ served' \in Nat
  BY DEF OutboundInv, RowsInv, Arrive
<1>3. Sound([Idle EXCEPT !.req = r, !.at = "next",
                         !.silent = optedOut, !.past = {k \in log : k.ref = r.ref}],
            known, optedOut, log, delivered)
  BY <1>2, IdleSound
<1>4. /\ UNCHANGED <<known, optedOut, log, delivered, cache, told>>
      /\ faults' \in Nat /\ restarts' \in Nat
  BY DEF Arrive, OutboundInv, RowsInv
<1> QED BY <1>1, <1>2, <1>3, <1>4, QuietStep

LEMMA SkipTargetStep ==
  ASSUME OutboundInv, NEW h \in Handlers, SkipTarget(h)
  PROVE  OutboundInv'
<1>1. Sound(job[h], known, optedOut, log, delivered) /\ job[h].at = "next"
  BY DEF OutboundInv, JobsInv, SkipTarget
<1>2. Sound(Onward(job[h]), known, optedOut, log, delivered)
  BY <1>1, OnwardSound, WrittenBefore
<1>3. /\ Become(h, Onward(job[h]))
      /\ UNCHANGED <<known, optedOut, log, delivered, cache, told>>
      /\ served' \in Nat /\ faults' \in Nat /\ restarts' \in Nat
  BY DEF SkipTarget, OutboundInv, RowsInv
<1> QED BY <1>2, <1>3, QuietStep

\* An alert that counts as sent may be reported.
LEMMA AlreadySentReported ==
  ASSUME RowsInv, NEW t, t.kind \in AlertKinds, AlreadySent(t)
  PROVE  Reported(t, log, delivered)
<1>1. CASE AlreadyCached(t)
  <2>1. PICK k \in cache : k.ref = t.ref /\ k.kind = t.kind
    BY <1>1 DEF AlreadyCached
  <2>2. Reported(k, log, delivered)
    BY DEF RowsInv
  <2> QED BY <2>1, <2>2 DEF Reported, Same
<1>2. CASE LoggedAs(t)
  <2>1. PICK row \in log : row.ref = t.ref /\ row.kind \in Phrase(t.kind)
    BY <1>2 DEF LoggedAs
  <2>2. row \in delivered
    BY DEF RowsInv
  <2>3. t.kind # "admin_alert" => row.kind = t.kind
    BY <2>1 DEF Phrase, AlertKinds, OrderKinds
  <2>4. t.kind = "admin_alert" => row.kind = "cancelled"
    BY <2>1 DEF Phrase
  <2> QED BY <2>1, <2>2, <2>3, <2>4 DEF Reported, Same
<1> QED BY <1>1, <1>2 DEF AlreadySent

LEMMA DedupeStep ==
  ASSUME OutboundInv, NEW h \in Handlers, Dedupe(h)
  PROVE  OutboundInv'
<1> DEFINE j == job[h]
<1>1. /\ Sound(j, known, optedOut, log, delivered) /\ j.at = "next" /\ JobsInv /\ RowsInv
      /\ ~ Done(h) /\ ~ Skipped(h) /\ Target(h) = T(j)
      /\ T(j).kind \in AlertKinds /\ AlreadySent(T(j))
  BY DEF OutboundInv, JobsInv, Dedupe, Target, T
<1>2. Reported(T(j), log, delivered)
  BY <1>1, AlreadySentReported
<1>3. j.n \in DOMAIN Targets(j.req) /\ T(j).to \in Customers /\ j.req \in Requests
  BY <1>1, AtTarget DEF JobsInv, Sound, Fits, Job
<1>4. T(j) \in Text
  <2>1. j.req.op \in OrderKinds
    BY <1>1, <1>3, TargetsTyped DEF T
  <2> QED BY <1>3, <2>1, TargetsTyped DEF T, OrderKinds
<1>5. RowsInv'
  BY <1>1, <1>2, <1>4 DEF RowsInv, Dedupe
<1>6. Sound(Onward(j), known, optedOut, log, delivered)
  BY <1>1, OnwardSound, WrittenBefore
<1>7. /\ Become(h, Onward(j)) /\ UNCHANGED <<known, optedOut, log, delivered>>
  BY DEF Dedupe
<1>8. JobsInv'
  BY <1>1, <1>6, <1>7, JobStep
<1> QED BY <1>5, <1>8 DEF OutboundInv

\* A field that is set to what it is.
LEMMA SameJob ==
  ASSUME NEW j \in Job, NEW at, NEW C, NEW b
  PROVE  /\ [j EXCEPT !.at = at, !.created = j.created, !.refuses = j.refuses] = [j EXCEPT !.at = at]
         /\ [j EXCEPT !.at = at, !.created = j.created, !.refuses = b]
              = [j EXCEPT !.refuses = b, !.at = at]
         /\ [j EXCEPT !.at = at, !.created = j.created \cup C, !.refuses = j.refuses]
              = [j EXCEPT !.created = @ \cup C, !.at = at]
         /\ j.created \in SUBSET Customers /\ j.refuses \in BOOLEAN
  BY DEF Job

LEMMA UndeliveredStep ==
  ASSUME OutboundInv, NEW h \in Handlers, Undelivered(h)
  PROVE  OutboundInv'
<1> DEFINE j == job[h]
<1>1. /\ Sound(j, known, optedOut, log, delivered) /\ j.at = "next" /\ JobsInv /\ j \in Job
      /\ ~ Done(h) /\ ~ Skipped(h) /\ T(j).kind \in AlertKinds /\ ~ AlreadySent(T(j))
      /\ Become(h, [j EXCEPT !.at = "lookup"])
  BY DEF OutboundInv, JobsInv, Undelivered, Sound, Fits, Target, T
<1>2. New(j, T(j))
  <2>1. j.past \subseteq log
    BY <1>1 DEF Sound, Fresh
  <2>2. T(j).kind \in OrderKinds => T(j).kind \in Phrase(T(j).kind)
    BY DEF OrderKinds, Phrase
  <2> QED BY <1>1, <2>1, <2>2 DEF New, AlreadySent, LoggedAs, Same
<1>3. /\ j.n \in DOMAIN Targets(j.req) /\ T(j).to \in Customers
      /\ ~ Inward(j) => \A k \in 1..(j.n - 1) : Targets(j.req)[k] # T(j)
  BY <1>1, AtTarget
<1>4. Sound([j EXCEPT !.at = "lookup", !.created = j.created, !.refuses = j.refuses],
            known, optedOut, log, delivered)
  BY <1>1, <1>2, <1>3, SameJob, GoesSound DEF Working
<1>5. Sound([j EXCEPT !.at = "lookup"], known, optedOut, log, delivered)
  BY <1>1, <1>4, SameJob
<1>6. /\ UNCHANGED <<known, optedOut, log, delivered, cache, told>>
      /\ served' \in Nat /\ faults' \in Nat /\ restarts' \in Nat
  BY DEF Undelivered, OutboundInv, RowsInv
<1> QED BY <1>1, <1>5, <1>6, QuietStep

\* Whom get_or_create_customer looks up.
LEMMA LooksUpTarget ==
  ASSUME JobsInv, NEW h \in Handlers, LooksUp(h)
  PROVE  LET j == job[h] IN
         /\ j \in Job /\ j.at # "commit"
         /\ j.n \in DOMAIN Targets(j.req) /\ T(j).to \in Customers
         /\ ~ Inward(j) => \A k \in 1..(j.n - 1) : Targets(j.req)[k] # T(j)
         /\ New(j, T(j))
<1> DEFINE j == job[h]
<1>1. Sound(j, known, optedOut, log, delivered) /\ j \in Job
  BY DEF JobsInv, Sound, Fits
<1>2. CASE j.at = "lookup"
  BY <1>1, <1>2 DEF Sound, Fits, Fresh, Working
<1>3. CASE j.at = "next" /\ ~ Done(h) /\ ~ Skipped(h) /\ Target(h).kind \notin AlertKinds
  <2>1. New(j, T(j))
    BY <1>3 DEF New, AlertKinds, Target, T
  <2> QED BY <1>1, <1>3, <2>1, AtTarget
<1> QED BY <1>2, <1>3 DEF LooksUp

LEMMA FirstStopFits ==
  ASSUME NEW h
  PROVE  /\ FirstStop(h) \in {"compose", "send", "commit"}
         /\ FirstStop(h) \in {"compose", "send"} => ~ Inward(job[h])
         /\ FirstStop(h) = "commit" => Inward(job[h]) /\ job[h].req.op # "broadcast"
  BY DEF FirstStop, Inward, Op

LEMMA FindStep ==
  ASSUME OutboundInv, NEW h \in Handlers, Find(h)
  PROVE  OutboundInv'
<1> DEFINE j == job[h]
           c == T(j).to
<1>1. /\ Sound(j, known, optedOut, log, delivered) /\ JobsInv /\ LooksUp(h) /\ Target(h).to = c
  BY DEF OutboundInv, JobsInv, Find, Target, T
<1>2. /\ j \in Job /\ j.at # "commit" /\ j.n \in DOMAIN Targets(j.req) /\ c \in Customers
      /\ ~ Inward(j) => \A k \in 1..(j.n - 1) : Targets(j.req)[k] # T(j)
      /\ New(j, T(j))
  BY <1>1, LooksUpTarget
<1>3. j.silent \subseteq optedOut
  BY <1>1 DEF Sound, Silent
<1>4. /\ UNCHANGED <<known, optedOut, log, delivered, cache, told>>
      /\ served' \in Nat /\ faults' \in Nat /\ restarts' \in Nat
  BY DEF Find, OutboundInv, RowsInv
<1>5. CASE c \in known \cup j.created
  <2>1. Become(h, [j EXCEPT !.refuses = c \in optedOut, !.at = FirstStop(h)])
    BY <1>1, <1>5 DEF Find
  <2>2. Sound([j EXCEPT !.at = FirstStop(h), !.created = j.created, !.refuses = c \in optedOut],
              known, optedOut, log, delivered)
    <3> DEFINE at == FirstStop(h)
               refuses == c \in optedOut
    <3>1. at \in {"compose", "send", "commit"} /\ refuses \in BOOLEAN /\ at \in Working
      BY FirstStopFits DEF Working
    <3>2. /\ at \in {"compose", "send"} => ~ Inward(j)
          /\ at = "commit" => j.req.op # "broadcast"
      BY FirstStopFits
    <3>3. T(j).to \in j.silent => refuses
      BY <1>3
    <3>4. j.created \in SUBSET Customers
      BY <1>2 DEF Job
    <3>5. at # "lookup" /\ at # "insert"
      BY <3>1
    <3> HIDE DEF at, refuses
    <3>6. Sound([j EXCEPT !.at = at, !.created = j.created, !.refuses = refuses],
                known, optedOut, log, delivered)
      BY <1>1, <1>2, <1>5, <3>1, <3>2, <3>3, <3>4, <3>5, GoesSound
    <3> QED BY <3>6 DEF at, refuses
  <2>3. Sound([j EXCEPT !.refuses = c \in optedOut, !.at = FirstStop(h)],
              known, optedOut, log, delivered)
    BY <1>2, <2>2, SameJob
  <2> QED BY <1>4, <2>1, <2>3, QuietStep
<1>6. CASE c \notin known \cup j.created
  <2>1. Become(h, [j EXCEPT !.at = "insert"])
    BY <1>1, <1>6 DEF Find
  <2>2. Sound([j EXCEPT !.at = "insert", !.created = j.created, !.refuses = j.refuses],
              known, optedOut, log, delivered)
    BY <1>1, <1>2, SameJob, GoesSound DEF Working
  <2>3. Sound([j EXCEPT !.at = "insert"], known, optedOut, log, delivered)
    BY <1>2, <2>2, SameJob
  <2> QED BY <1>4, <2>1, <2>3, QuietStep
<1> QED BY <1>5, <1>6

LEMMA CreateStep ==
  ASSUME OutboundInv, NEW h \in Handlers, Create(h)
  PROVE  OutboundInv'
<1> DEFINE j == job[h]
           c == T(j).to
<1>1. /\ Sound(j, known, optedOut, log, delivered) /\ j \in Job /\ j.at = "insert"
      /\ c \notin known
      /\ Become(h, [j EXCEPT !.created = @ \cup {c}, !.at = FirstStop(h)])
  BY DEF OutboundInv, JobsInv, Create, Target, T, Sound, Fits
<1>2. /\ j.n \in DOMAIN Targets(j.req) /\ c \in Customers
      /\ ~ Inward(j) => \A k \in 1..(j.n - 1) : Targets(j.req)[k] # T(j)
      /\ New(j, T(j))
  BY <1>1 DEF Sound, Fits, Fresh, Working
<1>3. c \notin j.silent
  BY <1>1 DEF Sound, Silent, OutboundInv, RowsInv
<1>4. j.created \cup {c} \in SUBSET Customers
  BY <1>1, <1>2, SameJob
<1>5. Sound([j EXCEPT !.at = FirstStop(h), !.created = j.created \cup {c}, !.refuses = j.refuses],
            known, optedOut, log, delivered)
  <2> DEFINE at == FirstStop(h)
             C == j.created \cup {c}
  <2>1. at \in {"compose", "send", "commit"} /\ at \in Working
    BY FirstStopFits DEF Working
  <2>2. /\ at \in {"compose", "send"} => ~ Inward(j)
        /\ at = "commit" => j.req.op # "broadcast"
    BY FirstStopFits
  <2>3. j.refuses \in BOOLEAN /\ j.at # "commit"
    BY <1>1 DEF Job
  <2>4. at # "lookup" /\ at # "insert"
    BY <2>1
  <2>5. C \in SUBSET Customers /\ T(j).to \in known \cup C
    BY <1>4
  <2> HIDE DEF at, C
  <2>6. Sound([j EXCEPT !.at = at, !.created = C, !.refuses = j.refuses],
              known, optedOut, log, delivered)
    BY <1>1, <1>2, <1>3, <2>1, <2>2, <2>3, <2>4, <2>5, GoesSound
  <2> QED BY <2>6 DEF at, C
<1>6. Sound([j EXCEPT !.created = @ \cup {c}, !.at = FirstStop(h)],
            known, optedOut, log, delivered)
  BY <1>1, <1>5, SameJob
<1>7. /\ UNCHANGED <<known, optedOut, log, delivered, cache, told>>
      /\ served' \in Nat /\ faults' \in Nat /\ restarts' \in Nat
  BY DEF Create, OutboundInv, RowsInv
<1> QED BY <1>1, <1>6, <1>7, QuietStep

\* A target that ends with an error, before it was sent.
LEMMA FailsStep ==
  ASSUME OutboundInv, NEW h \in Handlers, NEW f \in BOOLEAN, job[h].at # "commit",
         Become(h, Failed(h, f)),
         UNCHANGED <<known, optedOut, log, delivered, cache, told>>,
         served' \in Nat, faults' \in Nat, restarts' \in Nat
  PROVE  OutboundInv'
<1>1. Sound(Failed(h, f), known, optedOut, log, delivered)
  BY FailedSound DEF OutboundInv, JobsInv
<1> QED BY <1>1, QuietStep

LEMMA ComposeStep ==
  ASSUME OutboundInv, NEW h \in Handlers, Compose(h)
  PROVE  OutboundInv'
<1> DEFINE j == job[h]
<1>1. /\ Sound(j, known, optedOut, log, delivered) /\ j \in Job /\ j.at = "compose"
      /\ UNCHANGED <<known, optedOut, log, delivered, cache, told>>
      /\ served' \in Nat /\ faults' \in Nat /\ restarts' \in Nat
  <2>1. Sound(j, known, optedOut, log, delivered) /\ j \in Job
    BY DEF OutboundInv, JobsInv, Sound, Fits
  <2>2. served \in Nat /\ faults \in Nat /\ restarts \in Nat
    BY DEF OutboundInv, RowsInv
  <2>3. /\ j.at = "compose"
        /\ UNCHANGED <<known, optedOut, log, delivered, cache, told, served, restarts>>
    BY DEF Compose
  <2>4. faults' = faults \/ faults' = faults + 1
    BY DEF Compose
  <2> QED BY <2>1, <2>2, <2>3, <2>4
<1>2. CASE Become(h, Failed(h, FALSE))
  BY <1>1, <1>2, FailsStep
<1>3. CASE Become(h, [j EXCEPT !.at = "send"])
  <2>1. /\ j.n \in DOMAIN Targets(j.req) /\ T(j).to \in Customers
        /\ ~ Inward(j) => \A k \in 1..(j.n - 1) : Targets(j.req)[k] # T(j)
        /\ New(j, T(j)) /\ ~ Inward(j) /\ (T(j).to \in j.silent => j.refuses)
    BY <1>1 DEF Sound, Fits, Fresh, Silent, Working
  <2>2. Sound([j EXCEPT !.at = "send", !.created = j.created, !.refuses = j.refuses],
              known, optedOut, log, delivered)
    BY <1>1, <2>1, SameJob, GoesSound DEF Working
  <2>3. Sound([j EXCEPT !.at = "send"], known, optedOut, log, delivered)
    BY <1>1, <2>2, SameJob
  <2> QED BY <1>1, <1>3, <2>3, QuietStep
<1> QED BY <1>2, <1>3 DEF Compose

LEMMA BlockStep ==
  ASSUME OutboundInv, NEW h \in Handlers, Block(h)
  PROVE  OutboundInv'
<1>1. Sound(AfterSend(h), known, optedOut, log, delivered)
  BY AfterSendSound DEF OutboundInv, Block
<1>2. /\ Become(h, AfterSend(h))
      /\ UNCHANGED <<known, optedOut, log, delivered, cache, told>>
      /\ served' \in Nat /\ faults' \in Nat /\ restarts' \in Nat
  BY DEF Block, OutboundInv, RowsInv
<1> QED BY <1>1, <1>2, QuietStep

\* What was delivered only adds to what may be reported.
LEMMA DeliveredMore ==
  ASSUME RowsInv, NEW h \in Handlers, NEW got \in SUBSET Text, delivered' = delivered \cup got,
         UNCHANGED <<known, optedOut, log, cache, told>>,
         served' \in Nat, faults' \in Nat, restarts' \in Nat
  PROVE  RowsInv'
<1>1. \A k \in cache \cup told : Reported(k, log, delivered')
  BY ReportedStays DEF RowsInv
<1> QED BY <1>1 DEF RowsInv

LEMMA DeliverStep ==
  ASSUME OutboundInv, NEW h \in Handlers, Deliver(h)
  PROVE  OutboundInv'
<1>1. PICK t : Become(h, t) /\ Sound(t, known, optedOut, log, delivered')
  BY DeliverSound
<1>2. /\ delivered' = delivered \cup {T(job[h])} /\ job[h].at = "send"
      /\ UNCHANGED <<known, optedOut, log, cache, told>>
      /\ served' \in Nat /\ faults' \in Nat /\ restarts' \in Nat
  BY DEF Deliver, Target, T, OutboundInv, RowsInv
<1>3. T(job[h]) \in Text
  <2>1. ~ Inward(job[h])
    BY <1>2 DEF OutboundInv, JobsInv, Sound, Fits
  <2> QED BY <1>2, <2>1, TargetIsText DEF OutboundInv, Working
<1>4. RowsInv'
  BY <1>2, <1>3, DeliveredMore DEF OutboundInv
<1>5. JobsInv'
  BY <1>1, <1>2, JobStep DEF OutboundInv
<1> QED BY <1>4, <1>5 DEF OutboundInv

LEMMA FailedKeeps ==
  ASSUME NEW h, job[h] \in Job, NEW f \in BOOLEAN
  PROVE  Failed(h, f).silent = job[h].silent /\ Failed(h, f).past = job[h].past
  BY DEF Failed, KeepsSession, NewSession, Onward, Job

LEMMA SendFailsStep ==
  ASSUME OutboundInv, NEW h \in Handlers, SendFails(h)
  PROVE  OutboundInv'
<1> DEFINE j == job[h]
           i == IF GivesUp(j.tries) THEN Failed(h, FALSE) ELSE [j EXCEPT !.tries = @ + 1]
<1>1. PICK got \in SUBSET {T(j)} :
        delivered' = delivered \cup got /\ Become(h, [i EXCEPT !.reached = @ \cup got])
  BY DEF SendFails, Target, T
<1>2. /\ Sound(j, known, optedOut, log, delivered) /\ j \in Job /\ j.at = "send" /\ ~ j.refuses
      /\ UNCHANGED <<known, optedOut, log, cache, told>>
      /\ served' \in Nat /\ faults' \in Nat /\ restarts' \in Nat
  BY DEF SendFails, Blocked, OutboundInv, JobsInv, RowsInv, Sound, Fits
<1>3. T(j) \in Text /\ T(j).to \notin j.silent /\ New(j, T(j))
  <2>1. ~ Inward(j)
    BY <1>2 DEF Sound, Fits
  <2>2. T(j) \in Text
    BY <1>2, <2>1, TargetIsText DEF OutboundInv, Working
  <2> QED BY <1>2, <2>2 DEF Sound, Silent, Fresh
<1>4. RowsInv'
  BY <1>1, <1>2, <1>3, DeliveredMore DEF OutboundInv
<1>5. Sound(i, known, optedOut, log, delivered) /\ i.silent = j.silent /\ i.past = j.past
  <2>1. CASE GivesUp(j.tries)
    BY <1>2, <2>1, FailedSound, FailedKeeps
  <2>2. CASE ~ GivesUp(j.tries)
    <3> DEFINE o == [j EXCEPT !.tries = j.tries + 1]
    <3>1. j.tries + 1 \in 0..(Attempts - 1)
      BY <1>2, <2>2, SomeAttempt DEF Job, GivesUp
    <3>2. /\ o \in Job /\ o.n = j.n /\ o.at = j.at /\ o.req = j.req /\ o.refuses = j.refuses
          /\ o.silent = j.silent /\ o.reached = j.reached /\ o.past = j.past
          /\ o.logged = j.logged /\ o.said = j.said /\ o.created = j.created
      BY <1>2, <3>1 DEF Job
    <3>3. i = o
      BY <2>2
    <3> HIDE DEF o, i
    <3>4. Fits(o, known) /\ Silent(o, optedOut) /\ Fresh(o, log) /\ Honest(o, log, delivered)
      BY <1>2, <3>2 DEF Sound, Fits, Inward, T, Silent, Fresh, New, Honest, Dealt
    <3> QED BY <3>2, <3>3, <3>4 DEF Sound
  <2> QED BY <2>1, <2>2
<1>6. New(i, T(j))
  BY <1>3, <1>5 DEF New
<1>7. Sound([i EXCEPT !.reached = @ \cup got], known, optedOut, log, delivered)
  <2> HIDE DEF i
  <2> QED BY <1>1, <1>3, <1>5, <1>6, ReachedSound
<1>8. Sound([i EXCEPT !.reached = @ \cup got], known, optedOut, log, delivered')
  <2> HIDE DEF i
  <2> QED BY <1>1, <1>7, SoundStays
<1>9. JobsInv'
  <2> HIDE DEF i
  <2> QED BY <1>1, <1>2, <1>8, JobStep DEF OutboundInv
<1> QED BY <1>4, <1>9 DEF OutboundInv

LEMMA CommitStep ==
  ASSUME OutboundInv, NEW h \in Handlers, Commit(h)
  PROVE  OutboundInv'
<1> DEFINE j == job[h]
           o == [j EXCEPT !.created = {}, !.logged = {}]
<1>1. /\ Sound(j, known, optedOut, log, delivered) /\ j \in Job /\ j.at = "commit"
      /\ known' = known \cup j.created /\ log' = log \cup j.logged
      /\ Become(h, Onward(o)) /\ delivered' = delivered
      /\ optedOut \subseteq optedOut'
  BY DEF Commit, OutboundInv, JobsInv, Sound, Fits
<1>2. /\ j.created \subseteq Customers /\ j.logged \subseteq Text /\ j.logged \subseteq delivered
  BY <1>1 DEF Job, Sound, Honest
<1>3. \A k \in log' : Reported(k, log', delivered')
  BY <1>1, <1>2 DEF Reported, Same, OutboundInv, RowsInv
<1>4. RowsInv'
  <2>1. cache' \subseteq cache \cup j.logged /\ told' \subseteq told \cup j.logged
    BY DEF Commit, Cached
  <2>2. \A k \in cache \cup told : Reported(k, log', delivered')
    BY <1>1, ReportedStays DEF OutboundInv, RowsInv
  <2>3. \A k \in cache' \cup told' : Reported(k, log', delivered')
    BY <1>1, <1>3, <2>1, <2>2
  <2>4. optedOut' \subseteq known'
    <3>1. CASE Op(h) = "stop"
      <4>1. T(j).to \in known \cup j.created
        BY <1>1, <3>1 DEF Sound, Fits, Inward, Op
      <4> QED BY <1>1, <3>1, <4>1 DEF Commit, Target, T, OutboundInv, RowsInv
    <3>2. CASE Op(h) # "stop"
      BY <1>1, <3>2 DEF Commit, OutboundInv, RowsInv
    <3> QED BY <3>1, <3>2
  <2>5. UNCHANGED <<served, faults, restarts>>
    BY DEF Commit
  <2>6. RowsInv
    BY DEF OutboundInv
  <2> HIDE DEF j, o
  <2> QED BY <1>1, <1>2, <2>1, <2>3, <2>4, <2>5, <2>6 DEF RowsInv
<1>5. Sound(j, known', optedOut', log', delivered')
  BY <1>1, SoundStays
<1>6. /\ o \in Job /\ o.n = j.n /\ o.at = j.at /\ o.req = j.req /\ o.refuses = j.refuses
      /\ o.silent = j.silent /\ o.reached = j.reached /\ o.past = j.past
      /\ o.logged = {} /\ o.said = j.said /\ o.created = {}
  BY <1>1 DEF Job
<1> HIDE DEF o
<1>7. \A i \in DOMAIN o.said : o.said[i].kind = "broadcast" \/ o.said[i] \in log'
  BY <1>1, <1>6 DEF Sound, Honest
<1>8. Sound(o, known', optedOut', log', delivered')
  <2>1. T(o) = T(j) /\ Inward(o) = Inward(j) /\ Dealt(o) = Dealt(j) /\ \A k : New(o, k) = New(j, k)
    BY <1>6 DEF T, Inward, Dealt, New
  <2>2. Fits(o, known')
    <3>1. j.at = "commit" /\ Inward(j) => T(j).to \in known'
      BY <1>1 DEF Sound, Fits
    <3> QED BY <1>5, <1>6, <2>1, <3>1 DEF Sound, Fits
  <2>3. Silent(o, optedOut') /\ Fresh(o, log')
    BY <1>5, <1>6, <2>1 DEF Sound, Silent, Fresh
  <2>4. Honest(o, log', delivered')
    BY <1>5, <1>6, <1>7, <2>1 DEF Sound, Honest
  <2> QED BY <2>2, <2>3, <2>4 DEF Sound
<1>9. Sound(Onward(o), known', optedOut', log', delivered')
  BY <1>7, <1>8, OnwardSound
<1>10. JobsInv'
  BY <1>1, <1>9, JobStep DEF OutboundInv
<1> QED BY <1>4, <1>10 DEF OutboundInv

\* A job that is done starts from nothing.
LEMMA IdleIsSound ==
  ASSUME NEW K, NEW O, NEW L, NEW D
  PROVE  Idle \in Job /\ Sound(Idle, K, O, L, D)
<1>1. Idle.req \in Requests /\ Idle.at = "idle" /\ Idle.silent = {} /\ Idle.past = {}
  BY SomeRequest DEF Idle
<1>2. ASSUME NEW S, S = {}, NEW at, at = "idle"
      PROVE  /\ Idle \in Job
             /\ Sound([Idle EXCEPT !.req = Idle.req, !.at = at, !.silent = S, !.past = S], K, O, L, D)
  <2>1. S \in SUBSET Customers /\ S \in SUBSET Text /\ S \subseteq O /\ S \subseteq L
        /\ at \in {"idle", "next"}
    BY <1>2
  <2> QED BY ONLY <1>1, <2>1, IdleSound
<1>3. Idle \in Job
  BY <1>2
<1>4. ASSUME NEW j \in Job
      PROVE  [j EXCEPT !.req = j.req, !.at = j.at, !.silent = j.silent, !.past = j.past] = j
  BY DEF Job
<1>5. [Idle EXCEPT !.req = Idle.req, !.at = "idle", !.silent = {}, !.past = {}] = Idle
  BY <1>1, <1>3, <1>4
<1> QED BY <1>2, <1>3, <1>5

LEMMA RespondStep ==
  ASSUME OutboundInv, NEW h \in Handlers, Respond(h)
  PROVE  OutboundInv'
<1> DEFINE j == job[h]
<1>1. /\ Sound(j, known, optedOut, log, delivered) /\ j \in Job /\ j.at = "next"
      /\ Become(h, Idle) /\ told' \subseteq told \cup Range(j.said)
      /\ UNCHANGED <<known, optedOut, log, delivered, cache, served, faults, restarts>>
  BY DEF Respond, OutboundInv, JobsInv, Sound, Fits
<1>2. \A k \in Range(j.said) : k \in Text /\ Reported(k, log, delivered)
  <2>1. \A k \in Range(j.said) : \E i \in DOMAIN j.said : k = j.said[i]
    BY DEF Range
  <2>2. \A i \in DOMAIN j.said : j.said[i] \in Text
    BY <1>1, ElementOfSeq, LenProperties DEF Job
  <2>3. \A i \in DOMAIN j.said :
          j.said[i] \in delivered /\ (j.said[i].kind = "broadcast" \/ j.said[i] \in log)
    BY <1>1 DEF Sound, Honest
  <2> QED BY <2>1, <2>2, <2>3 DEF Reported, Same
<1>3. RowsInv'
  <2> RowsInv
    BY DEF OutboundInv
  <2> HIDE DEF j
  <2> QED BY <1>1, <1>2 DEF RowsInv
<1>4. JobsInv'
  BY <1>1, IdleIsSound, JobStep DEF OutboundInv
<1> QED BY <1>3, <1>4 DEF OutboundInv

LEMMA RestartStep ==
  ASSUME OutboundInv, Restart
  PROVE  OutboundInv'
<1>1. RowsInv'
  BY DEF OutboundInv, RowsInv, Restart
<1>2. JobsInv'
  BY IdleIsSound DEF JobsInv, Restart
<1> QED BY <1>1, <1>2 DEF OutboundInv

-----------------------------------------------------------------------------
(* The invariant. *)

LEMMA OutboundInit == Init => OutboundInv
<1> SUFFICES ASSUME Init PROVE OutboundInv
  OBVIOUS
<1>1. RowsInv
  BY DEF Init, RowsInv
<1>2. JobsInv
  BY IdleIsSound DEF Init, JobsInv
<1> QED BY <1>1, <1>2 DEF OutboundInv

LEMMA OutboundStep == OutboundInv /\ [Next]_vars => OutboundInv'
<1> SUFFICES ASSUME OutboundInv, [Next]_vars PROVE OutboundInv'
  OBVIOUS
<1>1. CASE UNCHANGED vars
  BY <1>1 DEF vars, OutboundInv, RowsInv, JobsInv
<1>2. CASE Restart
  BY <1>2, RestartStep
<1>3. ASSUME NEW h \in Handlers, Arrive(h) PROVE OutboundInv'
  BY <1>3, ArriveStep
<1>4. ASSUME NEW h \in Handlers, Proceed(h) PROVE OutboundInv'
  <2>1. CASE SkipTarget(h) \/ Dedupe(h) \/ Undelivered(h)
    BY <2>1, SkipTargetStep, DedupeStep, UndeliveredStep
  <2>2. CASE Find(h) \/ Create(h)
    BY <2>2, FindStep, CreateStep
  <2>3. CASE FindFails(h)
    <3>1. /\ job[h].at # "commit" /\ Become(h, Failed(h, FALSE))
          /\ UNCHANGED <<known, optedOut, log, delivered, cache, told>>
          /\ served' \in Nat /\ faults' \in Nat /\ restarts' \in Nat
      BY <2>3 DEF FindFails, LooksUp, OutboundInv, RowsInv
    <3> QED BY <3>1, FailsStep
  <2>4. CASE CreateCollides(h) \/ DeadlockVictim(h)
    <3>1. job[h].at = "insert" /\ Become(h, Failed(h, TRUE))
      BY <2>4 DEF CreateCollides, DeadlockVictim, InCycle, Waits
    <3>2. /\ UNCHANGED <<known, optedOut, log, delivered, cache, told>>
          /\ served' \in Nat /\ faults' \in Nat /\ restarts' \in Nat
      BY <2>4 DEF CreateCollides, DeadlockVictim, OutboundInv, RowsInv
    <3> QED BY <3>1, <3>2, FailsStep
  <2>5. CASE Compose(h) \/ Block(h)
    BY <2>5, ComposeStep, BlockStep
  <2>6. CASE Deliver(h) \/ SendFails(h)
    BY <2>6, DeliverStep, SendFailsStep
  <2>7. CASE Commit(h) \/ Respond(h)
    BY <2>7, CommitStep, RespondStep
  <2> QED BY <1>4, <2>1, <2>2, <2>3, <2>4, <2>5, <2>6, <2>7 DEF Proceed
<1> QED BY <1>1, <1>2, <1>3, <1>4 DEF Next

LEMMA OutboundInvariant == Spec => []OutboundInv
BY OutboundInit, OutboundStep, PTL DEF Spec

-----------------------------------------------------------------------------
(* Nobody waits for ever.  Where every handler at work waited for another,    *)
(* some of them would wait in a circle, which the database breaks.            *)

\* In a finite set whose members each wait for another one there is a part in
\* which each waits and is waited for: a smallest part that is left by nobody.
LEMMA SomeWaitInCircle ==
  ASSUME NEW B, IsFiniteSet(B), B # {}, NEW W,
         \A g \in B : \E f \in B : <<g, f>> \in W,
         \A g \in B : <<g, g>> \notin W
  PROVE  \E C \in SUBSET B :
           /\ C # {}
           /\ \A g \in C : (\E f \in C : <<g, f>> \in W) /\ (\E f \in C : <<f, g>> \in W)
<1> DEFINE Shut(C) == \A g \in C : \E f \in C : <<g, f>> \in W
           R == StrictSubsetOrdering(B)
           shut == {C \in SUBSET B : C # {} /\ Shut(C)}
<1>1. IsWellFoundedOn(R, SUBSET B)
  BY FS_StrictSubsetOrderingWellFounded, FS_FiniteSubsetsOfFinite
<1>2. B \in shut
  OBVIOUS
<1>3. \A C, D \in SUBSET B : C \subseteq D /\ C # D => <<C, D>> \in R
  BY DEF StrictSubsetOrdering
<1>4. PICK C \in shut : \A D \in shut : ~ (<<D, C>> \in R)
  <2> HIDE DEF R
  <2> QED BY <1>1, <1>2, WFMin
<1>5. \A D \in shut : D \subseteq C => D = C
  <2> HIDE DEF R
  <2> QED BY <1>3, <1>4
<1> HIDE DEF R
<1>6. ASSUME NEW f \in C, \A g \in C : <<g, f>> \notin W
      PROVE  FALSE
  <2> DEFINE D == C \ {f}
  <2>1. PICK g \in C : <<f, g>> \in W
    BY <1>4
  <2>2. g \in D
    BY <1>4, <2>1
  <2>3. Shut(D)
    BY <1>4, <1>6
  <2>4. D \in shut
    BY <1>4, <2>2, <2>3
  <2> QED BY <1>5, <2>4
<1> QED BY <1>4, <1>6

\* A handler that is not at work is as it was at first.
Rests == \A h \in Handlers : job[h].at = "idle" => job[h] = Idle

\* Whatever a handler does, it ends up at work or as it was at first.
Proceeds(j) == j = Idle \/ j.at # "idle"

LEMMA OnwardProceeds ==
  ASSUME NEW j \in Job, NEW b \in BOOLEAN
  PROVE  /\ Onward(j).at = "next" /\ KeepsSession(j, b).at = "next" /\ NewSession(j).at = "next"
         /\ Onward([j EXCEPT !.created = {}, !.logged = {}]).at = "next"
  BY DEF Job, Onward, KeepsSession, NewSession

LEMMA ProceedsStep ==
  ASSUME OutboundInv, NEW h \in Handlers, Arrive(h) \/ Proceed(h)
  PROVE  \E j : Become(h, j) /\ Proceeds(j)
<1> DEFINE j == job[h]
<1>1. j \in Job
  BY DEF OutboundInv, JobsInv
<1>2. \A b \in BOOLEAN : Failed(h, b).at = "next"
  BY <1>1, OnwardProceeds DEF Failed
<1>3. FirstStop(h) # "idle" /\ AfterSend(h).at # "idle"
  BY <1>1, OnwardProceeds DEF FirstStop, AfterSend, Job
<1>4. CASE Arrive(h)
  <2> DEFINE new(r) == [Idle EXCEPT !.req = r, !.at = "next",
                       !.silent = optedOut, !.past = {k \in log : k.ref = r.ref}]
  <2>1. PICK r \in Requests : Become(h, new(r))
    BY <1>4 DEF Arrive
  <2>2. new(r).at = "next"
    BY DEF Idle
  <2> HIDE DEF new
  <2> QED BY <2>1, <2>2 DEF Proceeds
<1>5. CASE SkipTarget(h) \/ Dedupe(h) \/ Undelivered(h)
  <2>1. [j EXCEPT !.at = "lookup"].at = "lookup" /\ Onward(j).at = "next"
    BY <1>1, OnwardProceeds DEF Job
  <2>2. Become(h, Onward(j)) \/ Become(h, [j EXCEPT !.at = "lookup"])
    BY <1>5 DEF SkipTarget, Dedupe, Undelivered
  <2> QED BY <2>1, <2>2 DEF Proceeds
<1>6. CASE Find(h)
  <2> DEFINE found == [j EXCEPT !.refuses = Target(h).to \in optedOut, !.at = FirstStop(h)]
             unknown == [j EXCEPT !.at = "insert"]
  <2>1. found.at # "idle" /\ unknown.at # "idle"
    BY <1>1, <1>3 DEF Job
  <2>2. Become(h, found) \/ Become(h, unknown)
    BY <1>6 DEF Find
  <2> HIDE DEF found, unknown
  <2> QED BY <2>1, <2>2 DEF Proceeds
<1>7. CASE Create(h)
  <2> DEFINE inserted == [j EXCEPT !.created = @ \cup {Target(h).to}, !.at = FirstStop(h)]
  <2>1. inserted.at # "idle"
    BY <1>1, <1>3 DEF Job
  <2>2. Become(h, inserted)
    BY <1>7 DEF Create
  <2> HIDE DEF inserted
  <2> QED BY <2>1, <2>2 DEF Proceeds
<1>8. CASE FindFails(h) \/ CreateCollides(h) \/ DeadlockVictim(h)
  BY <1>2, <1>8 DEF FindFails, CreateCollides, DeadlockVictim, Proceeds
<1>9. CASE Compose(h)
  <2>1. [j EXCEPT !.at = "send"].at # "idle"
    BY <1>1 DEF Job
  <2>2. Become(h, [j EXCEPT !.at = "send"]) \/ Become(h, Failed(h, FALSE))
    BY <1>9 DEF Compose
  <2> QED BY <1>2, <2>1, <2>2 DEF Proceeds
<1>10. CASE Block(h)
  BY <1>3, <1>10 DEF Block, Proceeds
<1>11. CASE Deliver(h)
  <2>1. PICK k : k = AfterSend(h)
    OBVIOUS
  <2>2. [k EXCEPT !.logged = @ \cup {Target(h)}, !.said = Append(@, Target(h)),
                  !.reached = @ \cup {Target(h)}].at # "idle"
    BY <1>1, <1>3, <2>1 DEF AfterSend, Onward, Job
  <2> QED BY <1>11, <2>1, <2>2 DEF Deliver, Proceeds
<1>12. CASE SendFails(h)
  <2>1. PICK k, got : Become(h, [k EXCEPT !.reached = @ \cup got])
                      /\ (k = Failed(h, FALSE) \/ k = [j EXCEPT !.tries = @ + 1])
    BY <1>12 DEF SendFails
  <2>2. [k EXCEPT !.reached = @ \cup got].at # "idle"
    BY <1>1, <1>2, <1>12, <2>1 DEF Failed, KeepsSession, NewSession, Onward, Job, SendFails
  <2> QED BY <2>1, <2>2 DEF Proceeds
<1>13. CASE Commit(h)
  BY <1>1, <1>13, OnwardProceeds DEF Commit, Proceeds
<1>14. CASE Respond(h)
  BY <1>14 DEF Respond, Proceeds
<1> QED BY <1>4, <1>5, <1>6, <1>7, <1>8, <1>9, <1>10, <1>11, <1>12, <1>13, <1>14 DEF Proceed

LEMMA RestsStep == OutboundInv /\ Rests /\ [Next]_vars => Rests'
<1> SUFFICES ASSUME OutboundInv, Rests, [Next]_vars PROVE Rests'
  OBVIOUS
<1>1. CASE UNCHANGED vars
  BY <1>1 DEF vars, Rests
<1>2. CASE Restart
  BY <1>2 DEF Restart, Rests
<1>3. ASSUME NEW h \in Handlers, Arrive(h) \/ Proceed(h) PROVE Rests'
  <2>1. PICK j : Become(h, j) /\ Proceeds(j)
    BY <1>3, ProceedsStep
  <2> QED BY <2>1 DEF Rests, Become, Proceeds, OutboundInv, JobsInv
<1> QED BY <1>1, <1>2, <1>3 DEF Next

LEMMA RestsInvariant == Spec => [](OutboundInv /\ Rests)
<1>1. Init => Rests
  BY DEF Init, Rests
<1> QED BY <1>1, RestsStep, OutboundInvariant, PTL DEF Spec

LEMMA SomebodyReady == JobsInv => SomethingGoesOn
<1> SUFFICES ASSUME JobsInv, \E h \in Handlers : job[h] # Idle, \A h \in Handlers : ~ Ready(h)
             PROVE  FALSE
  BY DEF SomethingGoesOn
<1> DEFINE B == {h \in Handlers : job[h] # Idle}
           W == {p \in Handlers \X Handlers : Waits(p[1], p[2])}
<1>1. IsFiniteSet(B) /\ B # {}
  BY HandlersAreFinite, FS_Subset
<1>2. \A g, f \in Handlers : <<g, f>> \in W <=> Waits(g, f)
  OBVIOUS
<1>3. ASSUME NEW h \in B
      PROVE  /\ job[h].at = "insert" /\ ~ InCycle(h)
             /\ \E g \in B : Waits(h, g)
  <2>1. job[h].at = "insert" /\ OtherHolds(h, Target(h).to) /\ ~ InCycle(h)
    BY DEF Ready
  <2>2. PICK g \in Handlers \ {h} : Target(h).to \in job[g].created
    BY <2>1 DEF OtherHolds
  <2>3. g \in B
    BY <2>2 DEF Idle
  <2> QED BY <2>1, <2>2, <2>3 DEF Waits
<1>4. \A g \in B : \E f \in B : <<g, f>> \in W
  BY <1>2, <1>3
<1>5. \A g \in B : <<g, g>> \notin W
  BY <1>2 DEF Waits
<1>6. PICK C \in SUBSET B :
        /\ C # {}
        /\ \A g \in C : (\E f \in C : <<g, f>> \in W) /\ (\E f \in C : <<f, g>> \in W)
  <2> HIDE DEF B, W
  <2> QED BY <1>1, <1>4, <1>5, SomeWaitInCircle
<1>7. PICK h \in C : TRUE
  BY <1>6
<1>8. \A g \in C : (\E f \in C : Waits(g, f)) /\ (\E f \in C : Waits(f, g))
  BY <1>2, <1>6
<1>9. InCycle(h)
  BY <1>7, <1>8 DEF InCycle
<1> QED BY <1>3, <1>7, <1>9

\* What a handler that is ready may do next: with it Ready says as much as
\* ENABLED Proceed, which the provers cannot reason about.
Successor(h) ==
  LET j == job[h]
      Into(k) == [job EXCEPT ![h] = k]
      Only(k) == <<known, optedOut, log, delivered, cache, told, Into(k), served, faults, restarts>>
  IN CASE j.at = "next" /\ Done(h) ->
            <<known, optedOut, log, delivered, cache,
              IF Op(h) = "broadcast" /\ j.broken THEN told ELSE told \cup Range(j.said),
              Into(Idle), served, faults, restarts>>
       [] j.at = "next" /\ ~ Done(h) /\ Skipped(h) -> Only(Onward(j))
       [] j.at = "next" /\ ~ Done(h) /\ ~ Skipped(h) /\ Target(h).kind \in AlertKinds ->
            IF AlreadySent(Target(h))
            THEN <<known, optedOut, log, delivered, cache \cup {Target(h)}, told \cup {Target(h)},
                   Into(Onward(j)), served, faults, restarts>>
            ELSE Only([j EXCEPT !.at = "lookup"])
       [] LooksUp(h) ->
            Only(IF j.broken THEN Failed(h, FALSE)
                 ELSE IF Target(h).to \in known \cup j.created
                 THEN [j EXCEPT !.refuses = Target(h).to \in optedOut, !.at = FirstStop(h)]
                 ELSE [j EXCEPT !.at = "insert"])
       [] j.at = "insert" ->
            Only(IF Target(h).to \in known \/ OtherHolds(h, Target(h).to) THEN Failed(h, TRUE)
                 ELSE [j EXCEPT !.created = @ \cup {Target(h).to}, !.at = FirstStop(h)])
       [] j.at = "compose" -> Only([j EXCEPT !.at = "send"])
       [] j.at = "send" ->
            IF Blocked(h) THEN Only(AfterSend(h))
            ELSE <<known, optedOut, log, delivered \cup {Target(h)}, cache, told,
                   Into([AfterSend(h) EXCEPT !.logged = @ \cup {Target(h)},
                           !.said = Append(@, Target(h)), !.reached = @ \cup {Target(h)}]),
                   served, faults, restarts>>
       [] j.at = "commit" ->
            <<known \cup j.created,
              IF Op(h) = "stop" THEN optedOut \cup {Target(h).to} ELSE optedOut,
              log \cup j.logged, delivered, cache \cup Cached(h),
              IF OneSession(Op(h)) THEN told ELSE told \cup j.logged,
              Into(Onward([j EXCEPT !.created = {}, !.logged = {}])), served, faults, restarts>>

\* A handler that is ready has a step to take.
THEOREM ReadyHasStep ==
  ASSUME JobsInv, Rests, NEW h \in Handlers, Ready(h), vars' = Successor(h)
  PROVE  Proceed(h)
<1> DEFINE j == job[h]
<1>1. j.at \in {"next", "lookup", "insert", "compose", "send", "commit"}
  BY DEF JobsInv, Rests, Ready, Job
<1>2. CASE j.at = "next" /\ Done(h)
  <2>1. Successor(h) =
          <<known, optedOut, log, delivered, cache,
            IF Op(h) = "broadcast" /\ j.broken THEN told ELSE told \cup Range(j.said),
            [job EXCEPT ![h] = Idle], served, faults, restarts>>
    BY <1>2 DEF Successor, LooksUp
  <2>2. Respond(h)
    BY <1>2, <2>1 DEF Respond, Become, vars
  <2> QED BY <2>2 DEF Proceed
<1>3. CASE j.at = "next" /\ ~ Done(h) /\ Skipped(h)
  <2>1. Successor(h) =
          <<known, optedOut, log, delivered, cache, told, [job EXCEPT ![h] = Onward(j)],
            served, faults, restarts>>
    BY <1>3 DEF Successor, LooksUp
  <2>2. SkipTarget(h)
    BY <1>3, <2>1 DEF SkipTarget, Become, vars
  <2> QED BY <2>2 DEF Proceed
<1>4. CASE j.at = "next" /\ ~ Done(h) /\ ~ Skipped(h) /\ Target(h).kind \in AlertKinds
  <2>1. CASE AlreadySent(Target(h))
    <3>1. Successor(h) =
            <<known, optedOut, log, delivered, cache \cup {Target(h)}, told \cup {Target(h)},
              [job EXCEPT ![h] = Onward(j)], served, faults, restarts>>
      BY <1>4, <2>1 DEF Successor, LooksUp
    <3>2. Dedupe(h)
      BY <1>4, <2>1, <3>1 DEF Dedupe, Become, vars
    <3> QED BY <3>2 DEF Proceed
  <2>2. CASE ~ AlreadySent(Target(h))
    <3>1. Successor(h) =
            <<known, optedOut, log, delivered, cache, told,
              [job EXCEPT ![h] = [j EXCEPT !.at = "lookup"]], served, faults, restarts>>
      BY <1>4, <2>2 DEF Successor, LooksUp
    <3>2. Undelivered(h)
      BY <1>4, <2>2, <3>1 DEF Undelivered, Become, vars
    <3> QED BY <3>2 DEF Proceed
  <2> QED BY <2>1, <2>2
<1>5. CASE LooksUp(h)
  BY <1>5 DEF Successor, LooksUp, Find, FindFails, Become, vars, Proceed
<1>6. CASE j.at = "insert"
  BY <1>6 DEF Successor, LooksUp, Create, CreateCollides, DeadlockVictim, Ready, Become, vars, Proceed
<1>7. CASE j.at = "compose"
  BY <1>7 DEF Successor, LooksUp, Compose, Become, vars, Proceed
<1>8. CASE j.at = "send"
  BY <1>8 DEF Successor, LooksUp, Block, Deliver, Become, vars, Proceed
<1>9. CASE j.at = "commit"
  BY <1>9 DEF Successor, LooksUp, Commit, Become, vars, Proceed
<1> QED BY <1>1, <1>2, <1>3, <1>4, <1>5, <1>6, <1>7, <1>8, <1>9 DEF LooksUp

-----------------------------------------------------------------------------
(* Theorems. *)

\* Rows, jobs and counters have their types: a customer who is opted out has a
\* row, and a job's retries stay below the attempts of send_text.
THEOREM TypesHold == Spec => []TypeOK
<1>1. OutboundInv => TypeOK
  BY DEF OutboundInv, RowsInv, JobsInv, TypeOK
<1> QED BY <1>1, OutboundInvariant, PTL

\* A customer who had opted out when a request arrived gets nothing from it: the
\* hard block of send_text_message reads an object that was loaded since.
THEOREM OptOutsAreRespected == Spec => []OptOutIsRespected
<1>1. OutboundInv => OptOutIsRespected
  BY DEF OutboundInv, JobsInv, Sound, Silent, OptOutIsRespected
<1> QED BY <1>1, OutboundInvariant, PTL

\* An order's alert that was logged when an event arrived is not sent for that
\* event again, whether or not _sent_order_alerts survived.
THEOREM AlertsAreSingle == Spec => []AlertedOnce
<1>1. OutboundInv => AlertedOnce
  BY DEF OutboundInv, JobsInv, Sound, Fresh, New, AlertedOnce
<1> QED BY <1>1, OutboundInvariant, PTL

\* A request reports each text at most once, however its numbers are written.
THEOREM RequestsReportOnce == Spec => []OncePerRequest
<1>1. OutboundInv => OncePerRequest
  BY DEF OutboundInv, JobsInv, Sound, Honest, OncePerRequest
<1> QED BY <1>1, OutboundInvariant, PTL

\* What notify, a broadcast or an order alert reports as sent was delivered and,
\* but for a broadcast, is logged; a cancelled order's shop alert is taken for sent.
THEOREM ReportsHold == Spec => []ReportsAreTrue
<1>1. OutboundInv => ReportsAreTrue
  BY DEF OutboundInv, RowsInv, Reported, ReportsAreTrue
<1> QED BY <1>1, OutboundInvariant, PTL

\* While anything is in progress something can go on: handlers that keep their new
\* customers uncommitted and all wait for each other's wait in a circle, somewhere.
THEOREM SomebodyGoesOn == Spec => []SomethingGoesOn
<1>1. OutboundInv => SomethingGoesOn
  BY SomebodyReady DEF OutboundInv
<1> QED BY <1>1, OutboundInvariant, PTL
=============================================================================

------------------------- MODULE Conversation_proofs -------------------------
(***************************************************************************)
(* Proofs about inbound messages and turns, for every set of runners,      *)
(* messages, customers and faults, and every bound.                        *)
(***************************************************************************)
EXTENDS Conversation, SequenceTheorems, FiniteSetTheorems, WellFoundedInduction, TLAPS

-----------------------------------------------------------------------------
(* Types.  A runner at work has a message: what follows from Msg and Cust    *)
(* depends on it.                                                            *)

TypeInv == TypeOK /\ \A r \in Runners : run[r].at # "idle" => run[r].queue # <<>>

Working == {"think", "respond", "send", "log"}
Queued == {"turn"} \cup Working
After == {"enter"} \cup Queued

\* What a step of runner r may make of it: t is its next value.
Turns(r, t) ==
  /\ Become(r, t) /\ t \in Run
  /\ t.at # "idle" => t.queue # <<>>
  /\ t.at \in InIngest \cup After => t.queue = run[r].queue /\ run[r].at # "idle"
  /\ t.at \in InIngest => run[r].at \in InIngest \/ ClaimMessage(r)
  /\ t.at \in After => run[r].at \in After \/ CommitIngest(r)
  /\ t.at = "enter" => CommitIngest(r)
  /\ t.at = "turn" => Enter(r)
  /\ t.at \in Working => \/ run[r].at \in Working /\ t.history = run[r].history
                         \/ StartTurn(r) /\ t.at = "think" /\ t.history = Newest(Rows(Cust(r)))

LEMMA RunsAreRecords ==
  ASSUME TypeInv, NEW r \in Runners
  PROVE  /\ run[r] \in Run
         /\ run[r].at # "idle" => Msg(r) \in Messages /\ Cust(r) \in Customers
<1>1. run[r] \in Run
  BY DEF TypeInv, TypeOK
<1>2. ASSUME run[r].at # "idle" PROVE Msg(r) \in Messages /\ Cust(r) \in Customers
  <2>1. run[r].queue \in Seq(Messages) /\ run[r].queue # <<>>
    BY <1>1, <1>2 DEF TypeInv, Run
  <2>2. Msg(r) \in Messages
    BY <2>1, HeadTailProperties DEF Msg
  <2> QED BY <2>2, SendersAreCustomers DEF Cust
<1> QED BY <1>1, <1>2

LEMMA FreshRuns ==
  /\ Idle \in Run /\ Idle.at = "idle"
  /\ \A queue \in Seq(Messages) : /\ Fresh("resolve", queue) \in Run
                                  /\ Fresh("resolve", queue).at = "resolve"
                                  /\ Fresh("resolve", queue).queue = queue
  BY DEF Idle, Fresh, Run

LEMMA EndTurns ==
  ASSUME TypeInv, NEW r \in Runners, Become(r, Idle)
  PROVE  \E t : Turns(r, t)
<1>1. Turns(r, Idle)
  BY FreshRuns DEF Turns, InIngest, After, Queued, Working
<1> QED BY <1>1

LEMMA NextTurns ==
  ASSUME TypeInv, NEW r \in Runners, run[r].at # "idle", NextMessage(r)
  PROVE  \E t : Turns(r, t)
<1> DEFINE rest == Tail(run[r].queue)
<1>1. rest \in Seq(Messages)
  BY RunsAreRecords, HeadTailProperties DEF TypeInv, Run
<1>2. CASE rest = <<>>
  BY <1>2, EndTurns DEF NextMessage
<1>3. CASE rest # <<>>
  <2>1. Turns(r, Fresh("resolve", rest))
    BY <1>1, <1>3, FreshRuns DEF NextMessage, Turns, InIngest, After, Queued, Working
  <2> QED BY <2>1
<1> QED BY <1>2, <1>3

\* What a step makes of a runner's record is a runner's record.
LEMMA RunStarts ==
  ASSUME NEW t \in Run, NEW n \in Nat, NEW at \in {"claim", "send"}
  PROVE  /\ [t EXCEPT !.at = at, !.started = n] \in Run
         /\ [t EXCEPT !.at = at, !.started = n].at = at
         /\ [t EXCEPT !.at = at, !.started = n].queue = t.queue
         /\ [t EXCEPT !.at = at, !.started = n].history = t.history
  BY DEF Run

LEMMA RunFinds ==
  ASSUME NEW t \in Run, NEW found \in BOOLEAN
  PROVE  /\ [t EXCEPT !.at = "upsert", !.found = found] \in Run
         /\ [t EXCEPT !.at = "upsert", !.found = found].at = "upsert"
         /\ [t EXCEPT !.at = "upsert", !.found = found].queue = t.queue
  BY DEF Run

\* Every step of a runner is one of these.
LEMMA StepTurns ==
  ASSUME TypeInv, NEW r \in Runners, Receive(r) \/ Step(r)
  PROVE  \E t : Turns(r, t)
<1>R. /\ run[r] \in Run
      /\ run[r].at # "idle" => run[r].queue # <<>>
  BY RunsAreRecords DEF TypeInv
<1>C. clock + 1 \in Nat
  BY DEF TypeInv, TypeOK
<1> DEFINE Moved(at) == [run[r] EXCEPT !.at = at]
<1>M. ASSUME NEW at \in {"check", "lookup", "upsert", "commit", "enter", "turn", "respond", "log"}
      PROVE  /\ Moved(at) \in Run /\ Moved(at).at = at
             /\ Moved(at).queue = run[r].queue /\ Moved(at).history = run[r].history
  BY <1>R DEF Run
<1> USE DEF InIngest, After, Queued, Working
<1>1. CASE Receive(r)
  <2>1. PICK p \in Payloads : Become(r, Fresh("resolve", p))
    BY <1>1 DEF Receive
  <2>2. p \in Seq(Messages) /\ p # <<>>
    BY PayloadsAreMessages
  <2>3. Turns(r, Fresh("resolve", p))
    BY <2>1, <2>2, FreshRuns DEF Turns
  <2> QED BY <2>3
<1>2. CASE Resolve(r)
  <2>1. Goto(r, "check") => Turns(r, Moved("check"))
    BY <1>R, <1>M, <1>2 DEF Turns, Goto, Resolve
  <2> QED BY <1>2, <2>1, EndTurns DEF Resolve
<1>3. CASE CheckMessage(r)
  <2> DEFINE t == [run[r] EXCEPT !.at = "claim", !.started = clock + 1]
  <2>1. t \in Run /\ t.at = "claim" /\ t.queue = run[r].queue
    BY <1>R, <1>C, RunStarts
  <2>2. Become(r, t) => Turns(r, t)
    BY <1>R, <1>3, <2>1 DEF Turns, CheckMessage
  <2> QED BY <1>3, <2>2, NextTurns DEF CheckMessage
<1>4. CASE ClaimMessage(r)
  <2>1. Turns(r, Moved("lookup"))
    BY <1>R, <1>M, <1>4 DEF Turns, Goto, ClaimMessage
  <2> QED BY <2>1
<1>5. CASE ClaimCollides(r)
  BY <1>5, NextTurns DEF ClaimCollides
<1>6. CASE LookUpCustomer(r)
  <2> DEFINE t == [run[r] EXCEPT !.at = "upsert", !.found = Cust(r) \in known]
  <2>1. t \in Run /\ t.at = "upsert" /\ t.queue = run[r].queue
    <3>1. (Cust(r) \in known) \in BOOLEAN
      OBVIOUS
    <3> QED BY <1>R, <3>1, RunFinds
  <2>2. Turns(r, t)
    BY <1>R, <1>6, <2>1 DEF Turns, LookUpCustomer
  <2> QED BY <2>2
<1>7. CASE UpsertCustomer(r)
  <2>1. Turns(r, Moved("commit"))
    BY <1>R, <1>M, <1>7 DEF Turns, Goto, UpsertCustomer
  <2> QED BY <2>1
<1>8. CASE CustomerCollides(r)
  BY <1>8, NextTurns DEF CustomerCollides
<1>9. CASE CommitIngest(r)
  <2>1. Turns(r, Moved("enter"))
    BY <1>R, <1>M, <1>9 DEF Turns, Goto, CommitIngest
  <2> QED BY <2>1
<1>10. CASE IngestFails(r)
  BY <1>10, NextTurns DEF IngestFails
<1>11. CASE Enter(r)
  <2>1. Turns(r, Moved("turn"))
    BY <1>R, <1>M, <1>11 DEF Turns, Goto, Enter
  <2> QED BY <2>1
<1>12. CASE StartTurn(r)
  <2> DEFINE t == [run[r] EXCEPT !.at = "think", !.history = Newest(Rows(Cust(r)))]
  <2>1. Newest(Rows(Cust(r))) \subseteq Entry
    BY LenProperties DEF Newest, Rows, TypeInv, TypeOK
  <2>2. t \in Run /\ t.at = "think" /\ t.queue = run[r].queue /\ t.history = Newest(Rows(Cust(r)))
    BY <1>R, <2>1 DEF Run
  <2>3. Become(r, t) => Turns(r, t)
    BY <1>R, <1>12, <2>2 DEF Turns, StartTurn
  <2> QED BY <1>12, <2>3, NextTurns DEF StartTurn, Leave
<1>13. CASE Think(r)
  <2>1. Turns(r, Moved("respond"))
    BY <1>R, <1>M, <1>13 DEF Turns, Goto, Think
  <2> QED BY <2>1
<1>14. CASE TurnFails(r)
  BY <1>14, NextTurns DEF TurnFails, Leave
<1>15. CASE Respond(r)
  <2> DEFINE t == [run[r] EXCEPT !.at = "send", !.started = clock + 1]
  <2>1. t \in Run /\ t.at = "send" /\ t.queue = run[r].queue /\ t.history = run[r].history
    BY <1>R, <1>C, RunStarts
  <2>2. Become(r, t) => Turns(r, t)
    BY <1>R, <1>15, <2>1 DEF Turns, Respond
  <2> QED BY <1>15, <2>2, NextTurns DEF Respond, Leave
<1>16. CASE Send(r)
  <2>1. Goto(r, "log") => Turns(r, Moved("log"))
    BY <1>R, <1>M, <1>16 DEF Turns, Goto, Send
  <2> QED BY <1>16, <2>1, NextTurns DEF Send, Leave
<1>17. CASE LogReply(r)
  BY <1>17, NextTurns DEF LogReply, Leave
<1> QED
  BY <1>1, <1>2, <1>3, <1>4, <1>5, <1>6, <1>7, <1>8, <1>9, <1>10, <1>11, <1>12, <1>13, <1>14,
     <1>15, <1>16, <1>17 DEF Step
-----------------------------------------------------------------------------
(* The lock: whoever is queued for a customer is in the queue, and whoever   *)
(* works on a turn is its head.  Types need it: only a queue that is not     *)
(* empty has a tail.                                                         *)

LockInv ==
  \A r \in Runners :
    /\ run[r].at \in Queued => \E i \in DOMAIN lock[Cust(r)] : lock[Cust(r)][i] = r
    /\ run[r].at \in Working => HoldsLock(r)

\* What a step of runner r may do to the lock.
LockKept(r) == lock' = lock /\ ~ Enter(r)
LockLeft(r) == Leave(r) /\ run[r].at \in Queued /\ HoldsLock(r)

LEMMA LockMoves ==
  ASSUME TypeInv, LockInv, NEW r \in Runners, Receive(r) \/ Step(r)
  PROVE  LockKept(r) \/ Enter(r) \/ LockLeft(r)
<1>1. run[r].at \in Working => HoldsLock(r)
  BY DEF LockInv
<1>2. CASE StartTurn(r) \/ TurnFails(r) \/ Respond(r) \/ Send(r) \/ LogReply(r)
  BY <1>1, <1>2 DEF LockKept, LockLeft, Queued, Working, StartTurn, TurnFails, Respond, Send,
     LogReply, Enter
<1>3. CASE ~ (StartTurn(r) \/ TurnFails(r) \/ Respond(r) \/ Send(r) \/ LogReply(r))
  BY <1>3 DEF Step, LockKept, Receive, Resolve, CheckMessage, ClaimMessage, ClaimCollides,
     LookUpCustomer, UpsertCustomer, CustomerCollides, CommitIngest, IngestFails, Think
<1> QED BY <1>2, <1>3

\* Other runners are where they were.
LEMMA OthersStay ==
  ASSUME TypeInv, NEW r \in Runners, NEW t, Turns(r, t)
  PROVE  /\ run'[r] = t
         /\ \A q \in Runners \ {r} : run'[q] = run[q] /\ Cust(q)' = Cust(q) /\ Msg(q)' = Msg(q)
         /\ t.queue = run[r].queue => Cust(r)' = Cust(r) /\ Msg(r)' = Msg(r)
  BY DEF Turns, Become, TypeInv, TypeOK, Cust, Msg

\* The queue of a runner that leaves has a tail, which holds all others.
LEMMA LeavingQueue ==
  ASSUME TypeInv, LockInv, NEW r \in Runners, LockLeft(r)
  PROVE  /\ lock' = [lock EXCEPT ![Cust(r)] = Tail(lock[Cust(r)])]
         /\ Cust(r) \in Customers /\ Tail(lock[Cust(r)]) \in Seq(Runners)
         /\ \A q \in Runners \ {r} :
              (\E i \in DOMAIN lock[Cust(r)] : lock[Cust(r)][i] = q)
                => \E i \in DOMAIN Tail(lock[Cust(r)]) : Tail(lock[Cust(r)])[i] = q
<1>1. Cust(r) \in Customers
  BY RunsAreRecords DEF LockLeft, Queued, Working
<1> DEFINE line == lock[Cust(r)]
<1>2. line \in Seq(Runners) /\ line # <<>>
  BY <1>1 DEF LockInv, LockLeft, TypeInv, TypeOK
<1>3. /\ Tail(line) \in Seq(Runners) /\ Len(Tail(line)) = Len(line) - 1
      /\ \A i \in 1 .. Len(Tail(line)) : Tail(line)[i] = line[i + 1]
      /\ DOMAIN line = 1 .. Len(line) /\ DOMAIN Tail(line) = 1 .. Len(Tail(line))
      /\ Len(line) \in Nat
  BY <1>2, HeadTailProperties, LenProperties
<1>4. line[1] = r
  BY <1>2 DEF LockLeft, HoldsLock
<1>5. ASSUME NEW q \in Runners \ {r}, NEW i \in DOMAIN line, line[i] = q
      PROVE  \E j \in DOMAIN Tail(line) : Tail(line)[j] = q
  <2>1. i - 1 \in DOMAIN Tail(line) /\ Tail(line)[i - 1] = line[i]
    BY <1>3, <1>4, <1>5
  <2> QED BY <1>5, <2>1
<1> QED BY <1>1, <1>3, <1>5 DEF LockLeft, Leave, Released

\* The queue of a runner that enters.
LEMMA EnteringQueue ==
  ASSUME TypeInv, NEW r \in Runners, Enter(r)
  PROVE  /\ lock' = [lock EXCEPT ![Cust(r)] = Append(lock[Cust(r)], r)]
         /\ Cust(r) \in Customers /\ Append(lock[Cust(r)], r) \in Seq(Runners)
         /\ \A q \in Runners :
              q = r \/ (\E i \in DOMAIN lock[Cust(r)] : lock[Cust(r)][i] = q)
                => \E i \in DOMAIN Append(lock[Cust(r)], r) : Append(lock[Cust(r)], r)[i] = q
         /\ (\E i \in DOMAIN lock[Cust(r)] : TRUE)
              => Head(Append(lock[Cust(r)], r)) = Head(lock[Cust(r)])
<1>1. Cust(r) \in Customers
  BY RunsAreRecords DEF Enter
<1> DEFINE line == lock[Cust(r)]
<1>2. line \in Seq(Runners)
  BY <1>1 DEF TypeInv, TypeOK
<1>3. /\ Append(line, r) \in Seq(Runners) /\ Len(Append(line, r)) = Len(line) + 1
      /\ \A i \in 1 .. Len(line) : Append(line, r)[i] = line[i]
      /\ Append(line, r)[Len(line) + 1] = r
      /\ DOMAIN line = 1 .. Len(line) /\ DOMAIN Append(line, r) = 1 .. Len(line) + 1
      /\ Len(line) \in Nat
  BY <1>2, AppendProperties, LenProperties
<1>4. (\E i \in DOMAIN line : TRUE) => Head(Append(line, r)) = Head(line)
  BY <1>2, <1>3, HeadTailAppend
<1> QED BY <1>1, <1>3, <1>4 DEF Enter

\* A runner that is done with a message holds nothing of it.
LEMMA NextIsFresh ==
  ASSUME TypeInv, NEW r \in Runners, NextMessage(r)
  PROVE  run'[r].at \in {"idle", "resolve"}
  BY DEF NextMessage, Become, Idle, Fresh, TypeInv, TypeOK

LEMMA LockStep ==
  ASSUME TypeInv, LockInv, NEW r \in Runners, Receive(r) \/ Step(r)
  PROVE  LockInv'
<1>1. PICK t : Turns(r, t)
  BY StepTurns
<1>2. /\ run'[r] = t
      /\ \A q \in Runners \ {r} : run'[q] = run[q] /\ Cust(q)' = Cust(q)
      /\ t.at \in Queued => Cust(r)' = Cust(r) /\ Cust(r) \in Customers
  BY <1>1, OthersStay, RunsAreRecords DEF Turns, After
<1>L. lock \in [Customers -> Seq(Runners)]
  BY DEF TypeInv, TypeOK
<1>C. \A q \in Runners : run[q].at \in Queued => Cust(q) \in Customers
  BY RunsAreRecords DEF Queued, Working
<1>3. CASE LockKept(r)
  <2>1. t.at \in Queued => run[r].at \in Queued /\ (t.at \in Working => HoldsLock(r))
    BY <1>1, <1>3 DEF Turns, LockKept, LockInv, Queued, Working, StartTurn
  <2>2. lock' = lock
    BY <1>3 DEF LockKept
  <2>3. ASSUME NEW q \in Runners, run'[q].at \in Queued
        PROVE  /\ Cust(q)' = Cust(q) /\ run[q].at \in Queued
               /\ run'[q].at \in Working => HoldsLock(q)
    BY <1>2, <2>1, <2>3 DEF LockInv, Queued
  <2> QED BY <2>2, <2>3 DEF LockInv, HoldsLock, Queued
<1>4. CASE Enter(r)
  <2>1. t.at = "turn"
    BY <1>1, <1>4, <1>2 DEF Enter, Goto, Become, Turns, TypeInv, TypeOK, Run
  <2> DEFINE line == Append(lock[Cust(r)], r)
  <2>a. lock' = [lock EXCEPT ![Cust(r)] = line] /\ Cust(r) \in Customers
    BY <1>4, EnteringQueue
  <2>b. \A q \in Runners : q = r \/ (\E i \in DOMAIN lock[Cust(r)] : lock[Cust(r)][i] = q)
                           => \E i \in DOMAIN line : line[i] = q
    BY <1>4, EnteringQueue
  <2>c. (\E i \in DOMAIN lock[Cust(r)] : TRUE) => Head(line) = Head(lock[Cust(r)])
    BY <1>4, EnteringQueue
  <2> HIDE DEF line
  <2>2. \A c \in Customers : lock'[c] = IF c = Cust(r) THEN line ELSE lock[c]
    BY <1>L, <2>a
  <2>3. ASSUME NEW q \in Runners, run'[q].at \in Queued
        PROVE  \E i \in DOMAIN lock'[Cust(q)'] : lock'[Cust(q)'][i] = q
    <3>1. CASE q = r
      <4>1. Cust(q)' = Cust(r)
        BY <1>2, <2>1, <3>1 DEF Queued
      <4> QED BY <2>2, <2>a, <2>b, <3>1, <4>1
    <3>2. CASE q # r
      <4>1. Cust(q)' = Cust(q) /\ run[q].at \in Queued /\ Cust(q) \in Customers
        BY <1>2, <1>C, <2>3, <3>2
      <4>2. \E i \in DOMAIN lock[Cust(q)] : lock[Cust(q)][i] = q
        BY <4>1 DEF LockInv
      <4>3. CASE Cust(q) = Cust(r)
        BY <2>2, <2>b, <4>1, <4>2, <4>3
      <4>4. CASE Cust(q) # Cust(r)
        BY <2>2, <4>1, <4>2, <4>4
      <4> QED BY <4>3, <4>4
    <3> QED BY <3>1, <3>2
  <2>4. ASSUME NEW q \in Runners, run'[q].at \in Working PROVE Head(lock'[Cust(q)']) = q
    <3>1. q # r
      BY <1>2, <2>1, <2>4 DEF Working
    <3>2. Cust(q)' = Cust(q) /\ run[q].at \in Working /\ Cust(q) \in Customers
      BY <1>2, <1>C, <2>4, <3>1 DEF Queued
    <3>3. Head(lock[Cust(q)]) = q /\ \E i \in DOMAIN lock[Cust(q)] : TRUE
      BY <3>2 DEF LockInv, HoldsLock, Queued
    <3>4. CASE Cust(q) = Cust(r)
      BY <2>2, <2>c, <3>2, <3>3, <3>4
    <3>5. CASE Cust(q) # Cust(r)
      BY <2>2, <3>2, <3>3, <3>5
    <3> QED BY <3>4, <3>5
  <2> QED BY <2>3, <2>4 DEF LockInv, HoldsLock
<1>5. CASE LockLeft(r)
  <2>1. t.at \notin Queued
    BY <1>2, <1>5, NextIsFresh DEF LockLeft, Leave, Queued, Working
  <2>2. \A c \in Customers : lock'[c] = IF c = Cust(r) THEN Tail(lock[c]) ELSE lock[c]
    BY <1>5, <1>L, LeavingQueue
  <2>3. ASSUME NEW q \in Runners, run'[q].at \in Queued
        PROVE  /\ q # r /\ Cust(q)' = Cust(q) /\ run[q].at = run'[q].at /\ Cust(q) \in Customers
               /\ \E i \in DOMAIN lock[Cust(q)] : lock[Cust(q)][i] = q
    BY <1>2, <1>C, <2>1, <2>3 DEF LockInv
  <2>4. ASSUME NEW q \in Runners, run'[q].at \in Queued
        PROVE  \E i \in DOMAIN lock'[Cust(q)'] : lock'[Cust(q)'][i] = q
    <3>1. CASE Cust(q) = Cust(r)
      <4>1. \E i \in DOMAIN Tail(lock[Cust(r)]) : Tail(lock[Cust(r)])[i] = q
        BY <1>5, <2>3, <2>4, <3>1, LeavingQueue
      <4> QED BY <2>2, <2>3, <2>4, <3>1, <4>1
    <3>2. CASE Cust(q) # Cust(r)
      BY <2>2, <2>3, <2>4, <3>2
    <3> QED BY <3>1, <3>2
  <2>5. ASSUME NEW q \in Runners, run'[q].at \in Working PROVE Head(lock'[Cust(q)']) = q
    <3>1. q # r /\ Cust(q)' = Cust(q) /\ Cust(q) \in Customers /\ run[q].at \in Working
      BY <2>3, <2>5 DEF Queued
    <3>2. Head(lock[Cust(q)]) = q /\ Head(lock[Cust(r)]) = r
      BY <1>5, <3>1 DEF LockInv, LockLeft, HoldsLock
    <3>3. Cust(q) # Cust(r)
      BY <3>1, <3>2
    <3> QED BY <2>2, <3>1, <3>2, <3>3
  <2> QED BY <2>4, <2>5 DEF LockInv, HoldsLock
<1> QED BY <1>3, <1>4, <1>5, LockMoves
LEMMA LoggedTyped ==
  ASSUME TypeInv, NEW r \in Runners, run[r].at # "idle", NEW dir \in {"in", "out"}
  PROVE  /\ Logged(r, dir) \in Seq(Entry)
         /\ \E e \in Entry : /\ Logged(r, dir) = Append(log, e)
                             /\ e.dir = dir /\ e.msg = Msg(r) /\ e.cust = Cust(r)
<1> DEFINE e == [cust |-> Cust(r), dir |-> dir, msg |-> Msg(r), at |-> run[r].started]
<1>1. e \in Entry
  BY RunsAreRecords DEF Run, Entry
<1>2. log \in Seq(Entry)
  BY DEF TypeInv, TypeOK
<1> QED BY <1>1, <1>2, AppendProperties DEF Logged

LEMMA TypesTurn ==
  ASSUME TypeInv, LockInv, NEW r \in Runners, Receive(r) \/ Step(r)
  PROVE  TypeInv'
<1>1. PICK t : Turns(r, t)
  BY StepTurns
<1>2. /\ run' \in [Runners -> Run]
      /\ \A q \in Runners : run'[q].at # "idle" => run'[q].queue # <<>>
  BY <1>1 DEF Turns, Become, TypeInv, TypeOK
<1>3. lock' \in [Customers -> Seq(Runners)]
  <2>1. CASE LockKept(r)
    BY <2>1 DEF LockKept, TypeInv, TypeOK
  <2>2. CASE Enter(r)
    BY <2>2, EnteringQueue DEF TypeInv, TypeOK
  <2>3. CASE LockLeft(r)
    BY <2>3, LeavingQueue DEF TypeInv, TypeOK
  <2> QED BY <2>1, <2>2, <2>3, LockMoves
<1>4. CASE CommitIngest(r)
  <2>1. run[r].at # "idle"
    BY <1>4 DEF CommitIngest
  <2>2. log' \in Seq(Entry) /\ Msg(r) \in Messages /\ Cust(r) \in Customers
    BY <1>4, <2>1, LoggedTyped, RunsAreRecords DEF CommitIngest
  <2> QED BY <1>2, <1>3, <1>4, <2>2 DEF CommitIngest, TypeInv, TypeOK, bounds
<1>5. CASE LogReply(r)
  <2>1. log' \in Seq(Entry)
    BY <1>5, LoggedTyped DEF LogReply
  <2> QED BY <1>2, <1>3, <1>5, <2>1 DEF LogReply, TypeInv, TypeOK, bounds
<1>6. CASE Send(r)
  <2>1. sent' \subseteq Messages
    BY <1>6, RunsAreRecords DEF Send, TypeInv, TypeOK
  <2> QED BY <1>2, <1>3, <1>6, <2>1 DEF Send, TypeInv, TypeOK, bounds, store
<1>7. CASE ~ (CommitIngest(r) \/ LogReply(r) \/ Send(r))
  <2>1. /\ UNCHANGED <<store, active, sent, restarts>>
        /\ clock' \in {clock, clock + 1} /\ requests' \in {requests, requests + 1}
    BY <1>7 DEF Step, Receive, Resolve, CheckMessage, ClaimMessage, ClaimCollides,
       LookUpCustomer, UpsertCustomer, CustomerCollides, IngestFails, Enter, StartTurn, Think,
       TurnFails, Respond, bounds
  <2> QED BY <1>2, <1>3, <2>1 DEF TypeInv, TypeOK, store
<1> QED BY <1>4, <1>5, <1>6, <1>7

\* What happens without a runner's step.
LEMMA RestartTyped ==
  ASSUME TypeInv, Restart
  PROVE  TypeInv' /\ \A r \in Runners : run'[r].at = "idle"
<1>1. Idle \in Run /\ Idle.at = "idle"
  BY FreshRuns
<1>2. [c \in Customers |-> <<>>] \in [Customers -> Seq(Runners)]
  OBVIOUS
<1> QED BY <1>1, <1>2 DEF Restart, TypeInv, TypeOK, store

LEMMA SettingKeeps ==
  ASSUME TypeInv, SetActive \/ UNCHANGED vars
  PROVE  TypeInv' /\ UNCHANGED <<store, run, lock>>
  BY DEF SetActive, TypeInv, TypeOK, vars, store, bounds

BaseInv == TypeInv /\ LockInv

LEMMA BaseInit == Init => BaseInv
<1>1. Idle \in Run /\ Idle.at = "idle"
  BY FreshRuns
<1> QED BY <1>1 DEF Init, BaseInv, TypeInv, TypeOK, LockInv, Queued, Working

LEMMA BaseStep == BaseInv /\ [Next]_vars => BaseInv'
<1> SUFFICES ASSUME BaseInv, [Next]_vars PROVE BaseInv'
  OBVIOUS
<1>1. ASSUME NEW r \in Runners, Receive(r) \/ Step(r) PROVE BaseInv'
  BY <1>1, TypesTurn, LockStep DEF BaseInv
<1>2. CASE Restart
  BY <1>2, RestartTyped DEF BaseInv, LockInv, Queued, Working
<1>3. CASE SetActive \/ UNCHANGED vars
  BY <1>3, SettingKeeps DEF BaseInv, LockInv, HoldsLock, Cust, Msg
<1> QED BY <1>1, <1>2, <1>3 DEF Next

\* Rows, runners and locks keep their types, whatever is delivered and fails.
THEOREM TypesHold == Spec => []TypeOK
<1>1. BaseInv => TypeOK
  BY DEF BaseInv, TypeInv
<1> QED BY <1>1, BaseInit, BaseStep, PTL DEF Spec

-----------------------------------------------------------------------------
(* A turn sees the newest replies: the window it begins with is cut at its   *)
(* old end, and the only runner that can log a reply for a customer is the    *)
(* head of its queue, which is the turn itself.                               *)

Replies(c) == {e \in Rows(c) : e.dir = "out"}
SeenInv == BaseInv /\ TurnSeesNewestReplies

\* Of finitely many rows, one that is not among the newest has as many newer ones
\* among these as fit: those newer than the newest row that was left out.
LEMMA NewestAreNewer ==
  ASSUME NEW S, IsFiniteSet(S), \A e \in S : e.at \in Nat, NEW e \in S, e \notin Newest(S)
  PROVE  Cardinality(Newer(e, Newest(S))) >= HistoryLimit
<1> DEFINE R == StrictSubsetOrdering(S)
           X == {x \in S \ Newest(S) : x = e \/ x.at > e.at}
           T == {Newer(x, S) : x \in X}
<1>1. IsWellFoundedOn(R, SUBSET S)
  BY FS_StrictSubsetOrderingWellFounded, FS_FiniteSubsetsOfFinite
<1>2. \A C, D \in SUBSET S : C \subseteq D /\ C # D => <<C, D>> \in R
  BY DEF StrictSubsetOrdering
<1>3. T \subseteq SUBSET S /\ T # {}
  BY DEF Newer
<1>4. PICK C \in T : \A D \in T : ~ (<<D, C>> \in R)
  <2> HIDE DEF R, T
  <2> QED BY <1>1, <1>3, WFMin
<1>5. PICK x \in X : C = Newer(x, S)
  BY <1>4
<1>6. ASSUME NEW f \in Newer(x, S), f \notin Newest(S) PROVE FALSE
  <2>1. f \in S /\ f.at > x.at /\ f.at \in Nat /\ x.at \in Nat /\ e.at \in Nat
    BY <1>5, <1>6 DEF Newer
  <2>2. f \in X
    BY <1>5, <1>6, <2>1
  <2>3. Newer(f, S) \subseteq C /\ Newer(f, S) # C
    BY <1>5, <1>6, <2>1 DEF Newer
  <2>4. Newer(f, S) \in T /\ Newer(f, S) \in SUBSET S /\ C \in SUBSET S
    BY <1>3, <2>2
  <2> HIDE DEF R, T, X
  <2> QED BY <1>2, <1>4, <2>3, <2>4
<1>7. Newer(x, S) \subseteq Newer(e, Newest(S))
  <2>1. ASSUME NEW f \in Newer(x, S) PROVE f \in S /\ f.at > e.at
    BY <1>5 DEF Newer
  <2> QED BY <1>6, <2>1 DEF Newer
<1>8. IsFiniteSet(Newer(e, Newest(S))) /\ IsFiniteSet(Newer(x, S))
  BY FS_Subset DEF Newer, Newest
<1>9. Cardinality(Newer(x, S)) >= HistoryLimit
  <2>1. Cardinality(Newer(x, S)) \in Nat
    BY <1>8, FS_CardinalityType
  <2>2. ~ (Cardinality(Newer(x, S)) < HistoryLimit)
    BY <1>5 DEF Newest
  <2> QED BY <2>1, <2>2, HistoryIsBounded
<1>10. Cardinality(Newer(x, S)) <= Cardinality(Newer(e, Newest(S)))
  BY <1>7, <1>8, FS_Subset
<1>11. Cardinality(Newer(x, S)) \in Nat /\ Cardinality(Newer(e, Newest(S))) \in Nat
  BY <1>8, FS_CardinalityType
<1> QED BY <1>9, <1>10, <1>11, HistoryIsBounded

\* A customer's rows are finitely many, each with its time.
LEMMA RowsFinite ==
  ASSUME log \in Seq(Entry), NEW c
  PROVE  IsFiniteSet(Rows(c)) /\ \A e \in Rows(c) : e.at \in Nat
<1> DEFINE J == {j \in DOMAIN log : log[j].cust = c}
           f == [j \in J |-> log[j]]
<1>1. DOMAIN log = 1 .. Len(log) /\ Len(log) \in Int
  BY LenProperties
<1>2. IsFiniteSet(J)
  BY <1>1, FS_Interval, FS_Subset
<1>3. f \in Surjection(J, Rows(c))
  BY DEF Surjection, Rows
<1>4. IsFiniteSet(Rows(c))
  BY <1>2, <1>3, FS_Surjection
<1>5. \A j \in DOMAIN log : log[j] \in Entry
  BY <1>1
<1> QED BY <1>4, <1>5 DEF Rows, Entry

\* A row that a turn has seen, or that had no room in its history.
Known(e, history) == e \in history \/ Cardinality(Newer(e, history)) >= HistoryLimit

\* The history a turn begins with.
LEMMA WindowKnows ==
  ASSUME log \in Seq(Entry), NEW c, NEW e \in Rows(c)
  PROVE  Known(e, Newest(Rows(c)))
<1> DEFINE S == Rows(c)
<1>1. IsFiniteSet(S) /\ (\A f \in S : f.at \in Nat) /\ e \in S
  BY RowsFinite
<1> HIDE DEF S
<1>2. e \notin Newest(S) => Cardinality(Newer(e, Newest(S))) >= HistoryLimit
  BY <1>1, NewestAreNewer
<1> QED BY <1>2 DEF Known, S

\* A row more.
LEMMA RowsGrow ==
  ASSUME log \in Seq(Entry), NEW e \in Entry, log' = Append(log, e), NEW c
  PROVE  Rows(c)' = IF e.cust = c THEN Rows(c) \cup {e} ELSE Rows(c)
<1>1. /\ \A i \in 1 .. Len(log) : log'[i] = log[i]
      /\ log'[Len(log) + 1] = e
      /\ DOMAIN log = 1 .. Len(log) /\ DOMAIN log' = 1 .. Len(log) + 1
      /\ Len(log) \in Nat
  BY AppendProperties, LenProperties
<1>2. DOMAIN log' = DOMAIN log \cup {Len(log) + 1}
  BY <1>1
<1>3. \A i \in DOMAIN log : log'[i] = log[i]
  BY <1>1
<1> QED BY <1>1, <1>2, <1>3 DEF Rows

\* Two that work on turns of one customer are one.
LEMMA OneWorks ==
  ASSUME LockInv, NEW r \in Runners, NEW q \in Runners,
         run[r].at \in Working, run[q].at \in Working, Cust(r) = Cust(q)
  PROVE  r = q
  BY DEF LockInv, HoldsLock

LEMMA SeenStep == SeenInv /\ [Next]_vars => TurnSeesNewestReplies'
<1> SUFFICES ASSUME SeenInv, [Next]_vars PROVE TurnSeesNewestReplies'
  OBVIOUS
<1>B. TypeInv /\ LockInv
  BY DEF SeenInv, BaseInv
<1>S. ASSUME NEW r \in Runners, run[r].at \in Working
      PROVE  \A e \in Replies(Cust(r)) : Known(e, run[r].history)
  BY <1>S DEF SeenInv, TurnSeesNewestReplies, Working, Replies, Known
<1>G. SUFFICES ASSUME NEW q \in Runners, run'[q].at \in Working
               PROVE  \A e \in Replies(Cust(q))' : Known(e, run'[q].history)
  BY DEF TurnSeesNewestReplies, Working, Replies, Known, Newer
<1>1. ASSUME NEW r \in Runners, Receive(r) \/ Step(r)
      PROVE  \A e \in Replies(Cust(q))' : Known(e, run'[q].history)
  <2>1. PICK t : Turns(r, t)
    BY <1>1, <1>B, StepTurns
  <2>2. /\ run'[r] = t
        /\ \A p \in Runners \ {r} : run'[p] = run[p] /\ Cust(p)' = Cust(p)
        /\ t.at \in Working => Cust(r)' = Cust(r)
    BY <1>B, <2>1, OthersStay DEF Turns, After, Queued
  <2>3. Cust(q)' = Cust(q)
    BY <1>G, <2>2
  <2>4. \/ run[q].at \in Working /\ run'[q].history = run[q].history
        \/ StartTurn(q) /\ run'[q].history = Newest(Rows(Cust(q))) /\ q = r
    BY <1>G, <2>1, <2>2 DEF Turns
  <2>5. \A e \in Replies(Cust(q)) : Known(e, run'[q].history)
    BY <1>B, <1>S, <2>4, WindowKnows DEF Replies, TypeInv, TypeOK
  <2>6. Replies(Cust(q))' = Replies(Cust(q))
    <3>1. CASE log' = log
      BY <2>3, <3>1 DEF Replies, Rows
    <3>2. CASE CommitIngest(r)
      <4>1. PICK e \in Entry : log' = Append(log, e) /\ e.dir = "in"
        BY <1>B, <3>2, LoggedTyped DEF CommitIngest
      <4>2. Rows(Cust(q))' = Rows(Cust(q)) \/ Rows(Cust(q))' = Rows(Cust(q)) \cup {e}
        BY <1>B, <2>3, <4>1, RowsGrow DEF TypeInv, TypeOK
      <4> QED BY <4>1, <4>2 DEF Replies
    <3>3. CASE LogReply(r)
      <4>1. PICK e \in Entry : log' = Append(log, e) /\ e.cust = Cust(r)
        BY <1>B, <3>3, LoggedTyped DEF LogReply
      <4>2. t.at \notin Working
        BY <1>B, <2>2, <3>3, NextIsFresh DEF LogReply, Leave, Working
      <4>3. q # r /\ run[q].at \in Working
        BY <1>G, <2>2, <2>4, <4>2
      <4>4. Cust(q) # Cust(r)
        BY <1>B, <3>3, <4>3, OneWorks DEF LogReply, Working
      <4>5. Rows(Cust(q))' = Rows(Cust(q))
        BY <1>B, <2>3, <4>1, <4>4, RowsGrow DEF TypeInv, TypeOK
      <4> QED BY <4>5 DEF Replies
    <3>4. log' = log \/ CommitIngest(r) \/ LogReply(r)
      BY <1>1 DEF Step, Receive, Resolve, CheckMessage, ClaimMessage, ClaimCollides,
         LookUpCustomer, UpsertCustomer, CustomerCollides, IngestFails, Enter, StartTurn, Think,
         TurnFails, Respond, Send, store
    <3> QED BY <3>1, <3>2, <3>3, <3>4
  <2> QED BY <2>5, <2>6
<1>2. CASE Restart
  BY <1>2, <1>B, <1>G, RestartTyped DEF Working
<1>3. CASE SetActive \/ UNCHANGED vars
  <2>1. UNCHANGED <<store, run, lock>>
    BY <1>3, <1>B, SettingKeeps
  <2> QED BY <1>S, <1>G, <2>1 DEF store, Replies, Rows, Cust, Msg
<1> QED BY <1>1, <1>2, <1>3 DEF Next

\* While the agent works on a turn it has seen every reply its customer got, but
\* for those with HistoryLimit newer rows before it: for any limit and any number
\* of runners, although the lock and the log are separate.
THEOREM RepliesAreSeen == Spec => []TurnSeesNewestReplies
<1>1. Init => SeenInv
  BY BaseInit, FreshRuns DEF Init, SeenInv, TurnSeesNewestReplies
<1>2. SeenInv /\ [Next]_vars => SeenInv'
  BY BaseStep, SeenStep DEF SeenInv
<1>3. SeenInv => TurnSeesNewestReplies
  BY DEF SeenInv
<1> QED BY <1>1, <1>2, <1>3, PTL DEF Spec
-----------------------------------------------------------------------------
(* Claims.  A message has at most one runner from its claim to the end of    *)
(* its turn; before the commit it is not processed, after it is, and until   *)
(* the turn ends it has no reply.                                            *)

Holds(r) == run[r].at \in InIngest \cup After

ClaimInv ==
  /\ \A r \in Runners : run[r].at \in InIngest => Msg(r) \notin processed
  /\ \A r \in Runners : run[r].at \in After => Msg(r) \in processed /\ Times("out", Msg(r)) = 0
  /\ \A r, q \in Runners : Holds(r) /\ Holds(q) /\ Msg(r) = Msg(q) => r = q

WholeInv == BaseInv /\ ClaimInv /\ IngestIsWhole /\ AnsweredOnce

LEMMA RowsCounted ==
  ASSUME log \in Seq(Entry), NEW dir, NEW m
  PROVE  /\ IsFiniteSet({i \in DOMAIN log : log[i].dir = dir /\ log[i].msg = m})
         /\ Times(dir, m) \in Nat
<1>1. DOMAIN log = 1 .. Len(log) /\ Len(log) \in Int
  BY LenProperties
<1>2. IsFiniteSet(DOMAIN log)
  BY <1>1, FS_Interval
<1>3. IsFiniteSet({i \in DOMAIN log : log[i].dir = dir /\ log[i].msg = m})
  BY <1>2, FS_Subset
<1> QED BY <1>3, FS_CardinalityType DEF Times

\* A row more counts once for its direction and message.
LEMMA TimesGrow ==
  ASSUME log \in Seq(Entry), NEW e \in Entry, log' = Append(log, e), NEW dir, NEW m
  PROVE  Times(dir, m)' = IF e.dir = dir /\ e.msg = m THEN Times(dir, m) + 1 ELSE Times(dir, m)
<1>1. /\ \A i \in 1 .. Len(log) : log'[i] = log[i]
      /\ log'[Len(log) + 1] = e
      /\ DOMAIN log = 1 .. Len(log) /\ DOMAIN log' = 1 .. Len(log) + 1
      /\ Len(log) \in Nat
  BY AppendProperties, LenProperties
<1> DEFINE T == {i \in DOMAIN log : log[i].dir = dir /\ log[i].msg = m}
           U == {i \in DOMAIN log' : log'[i].dir = dir /\ log'[i].msg = m}
<1>2. IsFiniteSet(T) /\ Len(log) + 1 \notin T
  <2>1. IsFiniteSet(T)
    BY RowsCounted
  <2>2. Len(log) + 1 \notin T
    BY <1>1
  <2> QED BY <2>1, <2>2
<1>3. DOMAIN log' = DOMAIN log \cup {Len(log) + 1} /\ \A i \in DOMAIN log : log'[i] = log[i]
  BY <1>1
<1>4. CASE e.dir = dir /\ e.msg = m
  <2>1. U = T \cup {Len(log) + 1}
    BY <1>1, <1>3, <1>4
  <2>2. Cardinality(U) = Cardinality(T) + 1
    BY <1>2, <2>1, FS_AddElement
  <2> QED BY <1>4, <2>2 DEF Times
<1>5. CASE ~ (e.dir = dir /\ e.msg = m)
  <2>1. U = T
    BY <1>1, <1>3, <1>5
  <2> QED BY <1>5, <2>1 DEF Times
<1> QED BY <1>4, <1>5

\* What a runner's step makes of claims: most steps keep the store, and a runner
\* gets no message that it did not hold.
LEMMA ClaimsKept ==
  ASSUME WholeInv, NEW r \in Runners, Receive(r) \/ Step(r),
         ~ ClaimMessage(r), ~ CommitIngest(r), ~ LogReply(r)
  PROVE  WholeInv'
<1>B. BaseInv /\ BaseInv' /\ TypeInv
  BY BaseStep DEF WholeInv, BaseInv, Next
<1>1. PICK t : Turns(r, t)
  BY <1>B, StepTurns
<1>2. /\ run'[r] = t
      /\ \A p \in Runners \ {r} : run'[p] = run[p] /\ Msg(p)' = Msg(p)
      /\ t.at \in InIngest \cup After => Msg(r)' = Msg(r)
      /\ t.at \in InIngest => run[r].at \in InIngest
      /\ t.at \in After => run[r].at \in After
  BY <1>B, <1>1, OthersStay DEF Turns
<1>3. UNCHANGED store
  BY DEF Step, Receive, Resolve, CheckMessage, ClaimMessage, ClaimCollides, LookUpCustomer,
     UpsertCustomer, CustomerCollides, IngestFails, Enter, StartTurn, Think, TurnFails, Respond, Send
<1>4. \A dir, m : Times(dir, m)' = Times(dir, m)
  BY <1>3 DEF Times, store
<1>5. \A p \in Runners : /\ run'[p].at \in InIngest => run[p].at \in InIngest /\ Msg(p)' = Msg(p)
                         /\ run'[p].at \in After => run[p].at \in After /\ Msg(p)' = Msg(p)
  BY <1>2
<1>6. ClaimInv'
  BY <1>3, <1>4, <1>5 DEF WholeInv, ClaimInv, Holds, store
<1>7. IngestIsWhole' /\ AnsweredOnce'
  BY <1>3, <1>4 DEF WholeInv, IngestIsWhole, AnsweredOnce, store
<1> QED BY <1>B, <1>6, <1>7 DEF WholeInv
\* A claim goes through only if no other runner holds the message.
LEMMA ClaimMade ==
  ASSUME WholeInv, NEW r \in Runners, ClaimMessage(r)
  PROVE  WholeInv'
<1>B. BaseInv /\ BaseInv' /\ TypeInv
  BY BaseStep DEF WholeInv, BaseInv, Next, Step
<1>1. /\ \A p \in Runners \ {r} : run'[p] = run[p] /\ Msg(p)' = Msg(p)
      /\ run'[r].at = "lookup" /\ Msg(r)' = Msg(r)
  BY <1>B, RunsAreRecords DEF ClaimMessage, Goto, Become, TypeInv, TypeOK, Run, Msg
<1>2. UNCHANGED store /\ Msg(r) \notin processed
  BY DEF ClaimMessage, ClaimTaken
<1>3. \A dir, m : Times(dir, m)' = Times(dir, m)
  BY <1>2 DEF Times, store
<1>4. ASSUME NEW p \in Runners \ {r}, Holds(p) PROVE Msg(p) # Msg(r)
  <2>1. CASE run[p].at \in InIngest
    BY <2>1 DEF ClaimMessage, ClaimPending, HoldsClaim
  <2>2. CASE run[p].at \in After
    BY <1>2, <2>2 DEF WholeInv, ClaimInv
  <2> QED BY <1>4, <2>1, <2>2 DEF Holds
<1>5. \A p \in Runners : run'[p].at \in InIngest => Msg(p)' \notin processed'
  BY <1>1, <1>2 DEF WholeInv, ClaimInv, store
<1>6. \A p \in Runners : run'[p].at \in After => Msg(p)' \in processed' /\ Times("out", Msg(p))' = 0
  BY <1>1, <1>2, <1>3 DEF WholeInv, ClaimInv, store, After, Queued, Working
<1>7. \A p, q \in Runners : Holds(p)' /\ Holds(q)' /\ Msg(p)' = Msg(q)' => p = q
  BY <1>1, <1>4 DEF WholeInv, ClaimInv, Holds
<1>8. IngestIsWhole' /\ AnsweredOnce'
  BY <1>2, <1>3 DEF WholeInv, IngestIsWhole, AnsweredOnce, store
<1> QED BY <1>B, <1>5, <1>6, <1>7, <1>8 DEF WholeInv, ClaimInv

\* The commit of an ingest adds the claim, the row and the customer at once.
LEMMA ClaimCommitted ==
  ASSUME WholeInv, NEW r \in Runners, CommitIngest(r)
  PROVE  WholeInv'
<1>B. BaseInv /\ BaseInv' /\ TypeInv
  BY BaseStep DEF WholeInv, BaseInv, Next, Step
<1>1. /\ \A p \in Runners \ {r} : run'[p] = run[p] /\ Msg(p)' = Msg(p)
      /\ run'[r].at = "enter" /\ Msg(r)' = Msg(r)
      /\ run[r].at = "commit"
  BY <1>B, RunsAreRecords DEF CommitIngest, Goto, Become, TypeInv, TypeOK, Run, Msg
<1>2. Msg(r) \in Messages /\ Msg(r) \notin processed /\ Holds(r)
  BY <1>B, <1>1, RunsAreRecords DEF WholeInv, ClaimInv, InIngest, Holds
<1>3. processed' = processed \cup {Msg(r)} /\ known' = known \cup {From[Msg(r)]}
  BY DEF CommitIngest, Cust
<1>4. PICK e \in Entry : log' = Append(log, e) /\ e.dir = "in" /\ e.msg = Msg(r)
  BY <1>B, <1>1, LoggedTyped DEF CommitIngest
<1>5. \A dir, m : Times(dir, m)' = IF dir = "in" /\ m = Msg(r) THEN Times(dir, m) + 1 ELSE Times(dir, m)
  BY <1>B, <1>4, TimesGrow DEF TypeInv, TypeOK
<1>6. ASSUME NEW p \in Runners \ {r}, Holds(p) PROVE Msg(p) # Msg(r)
  BY <1>2, <1>6 DEF WholeInv, ClaimInv
<1>7. \A p \in Runners : run'[p].at \in InIngest => Msg(p)' \notin processed'
  BY <1>1, <1>3, <1>6 DEF WholeInv, ClaimInv, Holds, InIngest
<1>8. \A m \in Messages : Times("out", m)' = Times("out", m)
  BY <1>5
<1>9. Times("out", Msg(r)) = 0
  <2>1. Times("out", Msg(r)) \in Nat
    BY <1>B, RowsCounted DEF TypeInv, TypeOK
  <2>2. Times("out", Msg(r)) <= 1 /\ Times("out", Msg(r)) # 1
    BY <1>2 DEF WholeInv, AnsweredOnce
  <2> QED BY <2>1, <2>2
<1>10. \A p \in Runners : run'[p].at \in After => Msg(p)' \in processed' /\ Times("out", Msg(p))' = 0
  <2>1. \A p \in Runners : run'[p].at \in After => Msg(p)' \in processed' /\ Times("out", Msg(p)) = 0
    BY <1>1, <1>3, <1>9 DEF WholeInv, ClaimInv
  <2>2. \A p \in Runners : Times("out", Msg(p))' = Times("out", Msg(p)')
    BY <1>1, <1>5
  <2> QED BY <1>1, <2>1, <2>2
<1>11. \A p, q \in Runners : Holds(p)' /\ Holds(q)' /\ Msg(p)' = Msg(q)' => p = q
  BY <1>1, <1>2, <1>6 DEF WholeInv, ClaimInv, Holds
<1>12. IngestIsWhole'
  BY <1>2, <1>3, <1>5 DEF WholeInv, IngestIsWhole
<1>13. AnsweredOnce'
  BY <1>3, <1>8 DEF WholeInv, AnsweredOnce
<1> QED BY <1>B, <1>7, <1>10, <1>11, <1>12, <1>13 DEF WholeInv, ClaimInv

\* The one runner that holds a message logs its one reply.
LEMMA ReplyLogged ==
  ASSUME WholeInv, NEW r \in Runners, LogReply(r)
  PROVE  WholeInv'
<1>B. BaseInv /\ BaseInv' /\ TypeInv
  BY BaseStep DEF WholeInv, BaseInv, Next, Step
<1>1. /\ \A p \in Runners \ {r} : run'[p] = run[p] /\ Msg(p)' = Msg(p)
      /\ run'[r].at \notin InIngest \cup After
      /\ run[r].at = "log" /\ Holds(r)
  <2>1. run'[r].at \in {"idle", "resolve"}
    BY <1>B, NextIsFresh DEF LogReply, Leave
  <2>2. \A p \in Runners \ {r} : run'[p] = run[p] /\ Msg(p)' = Msg(p)
    BY <1>B DEF LogReply, Leave, NextMessage, Become, TypeInv, TypeOK, Msg
  <2> QED BY <2>1, <2>2 DEF LogReply, InIngest, After, Queued, Working, Holds
<1>2. Msg(r) \in Messages /\ Msg(r) \in processed /\ Times("out", Msg(r)) = 0
  BY <1>B, <1>1, RunsAreRecords DEF WholeInv, ClaimInv, After, Queued, Working
<1>3. processed' = processed /\ known' = known
  BY DEF LogReply
<1>4. PICK e \in Entry : log' = Append(log, e) /\ e.dir = "out" /\ e.msg = Msg(r)
  BY <1>B, <1>1, LoggedTyped DEF LogReply
<1>5. \A dir, m : Times(dir, m)' = IF dir = "out" /\ m = Msg(r) THEN Times(dir, m) + 1 ELSE Times(dir, m)
  BY <1>B, <1>4, TimesGrow DEF TypeInv, TypeOK
<1>6. ASSUME NEW p \in Runners, run'[p].at \in InIngest \cup After
      PROVE  p # r /\ Msg(p)' = Msg(p) /\ run'[p] = run[p] /\ Msg(p) # Msg(r)
  BY <1>1, <1>6 DEF WholeInv, ClaimInv, Holds
<1>7. \A p \in Runners : run'[p].at \in InIngest => Msg(p)' \notin processed'
  BY <1>3, <1>6 DEF WholeInv, ClaimInv
<1>8. ASSUME NEW p \in Runners, run'[p].at \in After
      PROVE  Msg(p)' \in processed' /\ Times("out", Msg(p))' = 0
  <2>1. Msg(p)' = Msg(p) /\ Msg(p) # Msg(r) /\ Msg(p) \in processed /\ Times("out", Msg(p)) = 0
    BY <1>6, <1>8 DEF WholeInv, ClaimInv
  <2> QED BY <1>3, <1>5, <2>1
<1>9. \A p, q \in Runners : Holds(p)' /\ Holds(q)' /\ Msg(p)' = Msg(q)' => p = q
  BY <1>6 DEF WholeInv, ClaimInv, Holds
<1>10. IngestIsWhole'
  BY <1>3, <1>5 DEF WholeInv, IngestIsWhole
<1>11. AnsweredOnce'
  BY <1>2, <1>3, <1>5 DEF WholeInv, AnsweredOnce
<1> QED BY <1>B, <1>7, <1>8, <1>9, <1>10, <1>11 DEF WholeInv, ClaimInv

LEMMA WholeInit == Init => WholeInv
<1> SUFFICES ASSUME Init PROVE WholeInv
  OBVIOUS
<1>1. \A r \in Runners : run[r].at = "idle"
  BY FreshRuns DEF Init
<1>2. \A dir, m : Times(dir, m) = 0
  <2>1. \A dir, m : {i \in DOMAIN log : log[i].dir = dir /\ log[i].msg = m} = {}
    BY DEF Init
  <2> QED BY <2>1, FS_EmptySet DEF Times
<1> QED BY <1>1, <1>2, BaseInit
    DEF Init, WholeInv, ClaimInv, IngestIsWhole, AnsweredOnce, Holds, InIngest, After, Queued, Working

LEMMA WholeStep == WholeInv /\ [Next]_vars => WholeInv'
<1> SUFFICES ASSUME WholeInv, [Next]_vars PROVE WholeInv'
  OBVIOUS
<1>B. BaseInv' /\ TypeInv
  BY BaseStep DEF WholeInv, BaseInv
<1>1. ASSUME NEW r \in Runners, Receive(r) \/ Step(r) PROVE WholeInv'
  BY <1>1, ClaimsKept, ClaimMade, ClaimCommitted, ReplyLogged
<1>2. ASSUME UNCHANGED store PROVE IngestIsWhole' /\ AnsweredOnce'
  BY <1>2 DEF WholeInv, IngestIsWhole, AnsweredOnce, Times, store
<1>3. CASE Restart
  <2>1. \A r \in Runners : run'[r].at = "idle"
    BY <1>3, <1>B, RestartTyped
  <2>2. ClaimInv'
    BY <2>1 DEF ClaimInv, Holds, InIngest, After, Queued, Working
  <2> QED BY <1>3, <1>B, <1>2, <2>2 DEF WholeInv, Restart
<1>4. CASE SetActive \/ UNCHANGED vars
  <2>1. UNCHANGED <<store, run, lock>>
    BY <1>4, <1>B, SettingKeeps
  <2>2. ClaimInv'
    BY <2>1 DEF WholeInv, ClaimInv, Holds, Msg, Times, store
  <2> QED BY <1>B, <1>2, <2>1, <2>2 DEF WholeInv
<1> QED BY <1>1, <1>3, <1>4 DEF Next

\* A message is claimed exactly when it is logged, once, for a known customer:
\* for any number of runners, however ingests collide, fail and restart.
THEOREM IngestsAreWhole == Spec => []IngestIsWhole
<1>1. WholeInv => IngestIsWhole
  BY DEF WholeInv
<1> QED BY <1>1, WholeInit, WholeStep, PTL DEF Spec

\* A message is answered at most once, and only if it was ingested, however often
\* it is delivered and by however many runners it is processed.
THEOREM AnswersAreSingle == Spec => []AnsweredOnce
<1>1. WholeInv => AnsweredOnce
  BY DEF WholeInv
<1> QED BY <1>1, WholeInit, WholeStep, PTL DEF Spec
-----------------------------------------------------------------------------
(* The promise.  Each step of a runner is a step of Inbox or none at all; the *)
(* log is the thread, the runners say which turns are to come or going on.    *)

\* A row is of the sender of its message.
RowsAreTheirs == \A i \in DOMAIN log : log[i].cust = From[log[i].msg]

PromiseInv == WholeInv /\ TurnSeesNewestReplies /\ RowsAreTheirs

\* What is due and in progress but for what runner r has.
DueBut(r) == {Msg(q) : q \in {p \in Runners \ {r} : Pending(p)}}
ProgressBut(r) == {Turn(q) : q \in {p \in Runners \ {r} : Serving(p)}}

LEMMA PartsOf ==
  ASSUME NEW r \in Runners
  PROVE  /\ Due = DueBut(r) \cup (IF Pending(r) THEN {Msg(r)} ELSE {})
         /\ InProgress = ProgressBut(r) \cup (IF Serving(r) THEN {Turn(r)} ELSE {})
         /\ Due' = DueBut(r)' \cup (IF Pending(r)' THEN {Msg(r)'} ELSE {})
         /\ InProgress' = ProgressBut(r)' \cup (IF Serving(r)' THEN {Turn(r)'} ELSE {})
<1>1. Due = DueBut(r) \cup (IF Pending(r) THEN {Msg(r)} ELSE {})
  BY DEF Due, DueBut
<1>2. InProgress = ProgressBut(r) \cup (IF Serving(r) THEN {Turn(r)} ELSE {})
  BY DEF InProgress, ProgressBut
<1>3. Due' = DueBut(r)' \cup (IF Pending(r)' THEN {Msg(r)'} ELSE {})
  BY DEF Due, DueBut
<1>4. InProgress' = ProgressBut(r)' \cup (IF Serving(r)' THEN {Turn(r)'} ELSE {})
  BY DEF InProgress, ProgressBut
<1> QED BY <1>1, <1>2, <1>3, <1>4

\* A step of r leaves what the others have.
LEMMA PartsStay ==
  ASSUME TypeInv, NEW r \in Runners, NEW t, Turns(r, t)
  PROVE  DueBut(r)' = DueBut(r) /\ ProgressBut(r)' = ProgressBut(r)
<1>1. \A q \in Runners \ {r} : run'[q] = run[q] /\ Msg(q)' = Msg(q)
  BY OthersStay
<1>2. \A q \in Runners \ {r} : /\ Pending(q)' <=> Pending(q)
                               /\ Serving(q)' <=> Serving(q)
                               /\ Turn(q)' = Turn(q)
  BY <1>1 DEF Pending, Serving, Turn
<1>3. DueBut(r)' = DueBut(r)
  BY <1>1, <1>2 DEF DueBut
<1>4. ProgressBut(r)' = ProgressBut(r)
  BY <1>2 DEF ProgressBut
<1> QED BY <1>3, <1>4

\* What r has no other runner has.
LEMMA PartsApart ==
  ASSUME ClaimInv, NEW r \in Runners
  PROVE  /\ Pending(r) => Msg(r) \notin DueBut(r)
         /\ Serving(r) => Turn(r) \notin ProgressBut(r)
<1>1. \A q \in Runners : Pending(q) \/ Serving(q) => Holds(q)
  BY DEF Pending, Serving, Holds, After, Queued, Working
<1>2. ASSUME Pending(r) PROVE Msg(r) \notin DueBut(r)
  BY <1>1, <1>2 DEF ClaimInv, DueBut
<1>3. ASSUME Serving(r) PROVE Turn(r) \notin ProgressBut(r)
  BY <1>1, <1>3 DEF ClaimInv, ProgressBut, Turn
<1> QED BY <1>2, <1>3

\* Inbox counts as the code does.
LEMMA SameCounts ==
  ASSUME NEW S
  PROVE  Promise!Cardinality(S) = Cardinality(S)
  BY DEF Promise!Cardinality, Cardinality

\* The thread: a row counted is there, and a customer's are its rows of the log.
LEMMA ThreadRows ==
  ASSUME log \in Seq(Entry), RowsAreTheirs, NEW m
  PROVE  /\ \A dir : Times(dir, m) = 0 => ~ Promise!Has(m, dir)
         /\ Promise!Of(m) = Rows(From[m])
<1>1. ASSUME NEW dir, Times(dir, m) = 0 PROVE ~ Promise!Has(m, dir)
  <2> DEFINE S == {i \in DOMAIN log : log[i].dir = dir /\ log[i].msg = m}
  <2>1. IsFiniteSet(S) /\ Cardinality(S) = 0
    BY <1>1, RowsCounted DEF Times
  <2>2. S = {}
    BY <2>1, FS_EmptySet
  <2> QED BY <2>2 DEF Promise!Has, Thread
<1>2. Promise!Of(m) = Rows(From[m])
  BY DEF Promise!Of, Thread, Rows, RowsAreTheirs
<1> QED BY <1>1, <1>2

LEMMA ThreadGrows ==
  ASSUME log \in Seq(Entry), NEW e \in Entry, log' = Append(log, e)
  PROVE  Thread' = Thread \cup {e} /\ Promise!Adds(e.msg, e.dir)
<1>1. /\ \A i \in 1 .. Len(log) : log'[i] = log[i]
      /\ log'[Len(log) + 1] = e
      /\ DOMAIN log = 1 .. Len(log) /\ DOMAIN log' = 1 .. Len(log) + 1
      /\ Len(log) \in Nat
  BY AppendProperties, LenProperties
<1>2. DOMAIN log' = DOMAIN log \cup {Len(log) + 1}
  BY <1>1
<1>3. \A i \in DOMAIN log : log'[i] = log[i]
  BY <1>1
<1>4. Thread' = Thread \cup {e}
  BY <1>1, <1>2, <1>3 DEF Thread
<1> QED BY <1>4 DEF Promise!Adds

LEMMA TheirsGrow ==
  ASSUME log \in Seq(Entry), RowsAreTheirs, NEW e \in Entry, e.cust = From[e.msg],
         log' = Append(log, e)
  PROVE  RowsAreTheirs'
<1>1. /\ \A i \in 1 .. Len(log) : log'[i] = log[i]
      /\ log'[Len(log) + 1] = e
      /\ DOMAIN log = 1 .. Len(log) /\ DOMAIN log' = 1 .. Len(log) + 1
      /\ Len(log) \in Nat
  BY AppendProperties, LenProperties
<1>2. \A i \in DOMAIN log' : i \in DOMAIN log \/ i = Len(log) + 1
  BY <1>1
<1> QED BY <1>1, <1>2 DEF RowsAreTheirs

\* A runner whose turn is over or not yet due: what it had is gone.
LEMMA LeavesParts ==
  ASSUME TypeInv, ClaimInv, NEW r \in Runners, Receive(r) \/ Step(r),
         run'[r].at \notin {"enter", "turn", "think", "respond", "send", "log"}
  PROVE  /\ Pending(r) => Due' = Due \ {Msg(r)} /\ Msg(r) \in Due /\ InProgress' = InProgress
         /\ Serving(r) => InProgress' = InProgress \ {Turn(r)} /\ Turn(r) \in InProgress /\ Due' = Due
         /\ ~ Pending(r) /\ ~ Serving(r) => Due' = Due /\ InProgress' = InProgress
<1>1. PICK t : Turns(r, t)
  BY StepTurns
<1>2. ~ Pending(r)' /\ ~ Serving(r)' /\ ~ (Pending(r) /\ Serving(r))
  BY DEF Pending, Serving
<1>3. Due' = DueBut(r) /\ InProgress' = ProgressBut(r)
  BY <1>1, <1>2, PartsOf, PartsStay
<1> QED BY <1>2, <1>3, PartsOf, PartsApart

\* A runner that goes on with its message.
LEMMA KeepsParts ==
  ASSUME TypeInv, NEW r \in Runners, Receive(r) \/ Step(r),
         Pending(r)' <=> Pending(r), Pending(r) => Msg(r)' = Msg(r),
         Serving(r)' <=> Serving(r), Serving(r) => Turn(r)' = Turn(r)
  PROVE  Due' = Due /\ InProgress' = InProgress
<1>1. PICK t : Turns(r, t)
  BY StepTurns
<1> QED BY <1>1, PartsOf, PartsStay

LEMMA RecordsOne ==
  ASSUME PromiseInv, NEW r \in Runners, CommitIngest(r)
  PROVE  Promise!Record(Msg(r)) /\ Msg(r) \in Messages /\ RowsAreTheirs'
<1>B. TypeInv /\ ClaimInv /\ RowsAreTheirs /\ log \in Seq(Entry)
  BY DEF PromiseInv, WholeInv, BaseInv, TypeInv, TypeOK
<1>1. PICK t : Turns(r, t)
  BY <1>B, StepTurns DEF Step
<1>2. Msg(r) \in Messages /\ ~ Promise!Has(Msg(r), "in")
  <2>1. Msg(r) \in Messages /\ Msg(r) \notin processed
    BY <1>B, RunsAreRecords DEF CommitIngest, ClaimInv, InIngest
  <2>2. Times("in", Msg(r)) = 0
    BY <2>1 DEF PromiseInv, WholeInv, IngestIsWhole
  <2> QED BY <1>B, <2>1, <2>2, ThreadRows
<1>3. run'[r].at = "enter" /\ Msg(r)' = Msg(r)
  BY <1>B, RunsAreRecords DEF CommitIngest, Goto, Become, TypeInv, TypeOK, Run, Msg
<1>4. ~ Pending(r) /\ ~ Serving(r) /\ Pending(r)' /\ ~ Serving(r)'
  BY <1>3 DEF CommitIngest, Pending, Serving
<1>5. Due' = Due \cup {Msg(r)} /\ InProgress' = InProgress
  BY <1>B, <1>1, <1>3, <1>4, PartsOf, PartsStay
<1>6. PICK e \in Entry : log' = Append(log, e) /\ e.dir = "in" /\ e.msg = Msg(r) /\ e.cust = Cust(r)
  BY <1>B, LoggedTyped DEF CommitIngest
<1>7. Promise!Adds(Msg(r), "in") /\ RowsAreTheirs'
  BY <1>B, <1>6, ThreadGrows, TheirsGrow DEF Cust
<1> QED BY <1>2, <1>5, <1>7 DEF Promise!Record

LEMMA RepliesOnce ==
  ASSUME PromiseInv, NEW r \in Runners, LogReply(r)
  PROVE  Promise!Reply(Turn(r)) /\ Turn(r) \in InProgress /\ RowsAreTheirs'
<1>B. TypeInv /\ ClaimInv /\ RowsAreTheirs /\ log \in Seq(Entry) /\ TurnSeesNewestReplies
  BY DEF PromiseInv, WholeInv, BaseInv, TypeInv, TypeOK
<1>1. run'[r].at \in {"idle", "resolve"}
  BY <1>B, NextIsFresh DEF LogReply, Leave
<1>2. Serving(r) /\ run[r].at \in After /\ run[r].at # "idle"
  BY DEF LogReply, Serving, After, Queued, Working
<1>3. Due' = Due /\ InProgress' = InProgress \ {Turn(r)} /\ Turn(r) \in InProgress
  BY <1>B, <1>1, <1>2, LeavesParts DEF Step
<1>4. ~ Promise!Has(Msg(r), "out")
  BY <1>B, <1>2, ThreadRows DEF ClaimInv
<1>5. Promise!Informed(Turn(r))
  <2>1. \A e \in Rows(Cust(r)) : e.dir = "out" => Known(e, run[r].history)
    BY <1>B, <1>2 DEF TurnSeesNewestReplies, Serving, Known
  <2>2. Promise!Of(Turn(r).msg) = Rows(Cust(r))
    BY <1>B, ThreadRows DEF Cust, Turn
  <2>3. \A e : Promise!Newer(e, Turn(r).seen) = Newer(e, run[r].history)
    BY DEF Promise!Newer, Newer, Turn
  <2> QED BY <2>1, <2>2, <2>3, SameCounts DEF Promise!Informed, Known, Turn
<1>6. PICK e \in Entry : log' = Append(log, e) /\ e.dir = "out" /\ e.msg = Msg(r) /\ e.cust = Cust(r)
  BY <1>B, <1>2, LoggedTyped DEF LogReply
<1>7. Promise!Adds(Msg(r), "out") /\ RowsAreTheirs'
  BY <1>B, <1>6, ThreadGrows, TheirsGrow DEF Cust
<1> QED BY <1>3, <1>4, <1>5, <1>7 DEF Promise!Reply, Turn

\* The turn that begins is the customer's only one, and has its newest rows.
LEMMA BeginsAlone ==
  ASSUME PromiseInv, NEW r \in Runners, StartTurn(r), active
  PROVE  Promise!Begin(Msg(r))
<1>B. TypeInv /\ LockInv /\ ClaimInv /\ RowsAreTheirs /\ log \in Seq(Entry)
  BY DEF PromiseInv, WholeInv, BaseInv, TypeInv, TypeOK
<1>1. PICK t : Turns(r, t)
  BY <1>B, StepTurns DEF Step
<1>2. run'[r].at = "think" /\ Msg(r)' = Msg(r) /\ run'[r].history = Newest(Rows(Cust(r)))
  <2> DEFINE u == [run[r] EXCEPT !.at = "think", !.history = Newest(Rows(Cust(r)))]
  <2>1. run' = [run EXCEPT ![r] = u] /\ run \in [Runners -> Run] /\ run[r] \in Run
    BY <1>B, RunsAreRecords DEF StartTurn, Become, TypeInv, TypeOK
  <2>2. u.at = "think" /\ u.queue = run[r].queue /\ u.history = Newest(Rows(Cust(r)))
    BY <2>1 DEF Run
  <2> HIDE DEF u
  <2> QED BY <2>1, <2>2 DEF Msg
<1>3. Pending(r) /\ ~ Serving(r) /\ ~ Pending(r)' /\ Serving(r)'
  BY <1>2 DEF StartTurn, Pending, Serving
<1>4. Due' = Due \ {Msg(r)} /\ Msg(r) \in Due /\ InProgress' = InProgress \cup {Turn(r)'}
  BY <1>B, <1>1, <1>3, PartsOf, PartsStay, PartsApart
<1>5. Turn(r)' = [msg |-> Msg(r), seen |-> Promise!Newest(Promise!Of(Msg(r)))]
  <2>1. Promise!Of(Msg(r)) = Rows(Cust(r))
    BY <1>B, ThreadRows DEF Cust
  <2>2. Promise!Newest(Rows(Cust(r))) = Newest(Rows(Cust(r)))
    <3>1. \A e, S : Promise!Newer(e, S) = Newer(e, S)
      BY DEF Promise!Newer, Newer
    <3> QED BY <3>1, SameCounts DEF Promise!Newest, Newest
  <2> QED BY <1>2, <2>1, <2>2 DEF Turn
<1>6. ASSUME NEW q \in Runners, Serving(q), From[Turn(q).msg] = From[Msg(r)] PROVE FALSE
  <2>1. HoldsLock(q) /\ HoldsLock(r) /\ Cust(q) = Cust(r)
    BY <1>B, <1>6 DEF LockInv, Serving, Working, StartTurn, Turn, Cust
  <2> QED BY <1>3, <1>6, <2>1 DEF HoldsLock
<1>7. Promise!NobodyServes(Msg(r))
  BY <1>6 DEF Promise!NobodyServes, InProgress
<1>8. Thread' = Thread
  BY DEF StartTurn, store, Thread
<1> QED BY <1>4, <1>5, <1>7, <1>8 DEF Promise!Begin

\* Every step of a runner is a step of Inbox, or none.
LEMMA PromiseTurn ==
  ASSUME PromiseInv, NEW r \in Runners, Receive(r) \/ Step(r)
  PROVE  Promise!InboxNext \/ UNCHANGED Promise!ivars
<1>B. TypeInv /\ LockInv /\ ClaimInv
  BY DEF PromiseInv, WholeInv, BaseInv
<1>M. run[r].at # "idle" => Msg(r) \in Messages
  BY <1>B, RunsAreRecords
<1>1. CASE CommitIngest(r)
  BY <1>1, RecordsOne DEF Promise!InboxNext
<1>2. CASE LogReply(r)
  BY <1>2, RepliesOnce DEF Promise!InboxNext
<1>3. CASE StartTurn(r) /\ active
  BY <1>3, <1>M, BeginsAlone DEF Promise!InboxNext, StartTurn
<1> DEFINE Quiet == Step(r) /\ ~ CommitIngest(r) /\ ~ LogReply(r) /\ ~ (StartTurn(r) /\ active)
<1>4. ASSUME Receive(r) \/ Quiet PROVE Thread' = Thread
  BY <1>4 DEF Step, Receive, Resolve, CheckMessage, ClaimMessage, ClaimCollides, LookUpCustomer,
     UpsertCustomer, CustomerCollides, IngestFails, Enter, StartTurn, Think, TurnFails, Respond, Send,
     store, Thread
<1>5. CASE (Receive(r) \/ Quiet) /\ run'[r].at \notin {"enter", "turn", "think", "respond", "send", "log"}
  <2>1. CASE Pending(r)
    <3>1. Due' = Due \ {Msg(r)} /\ Msg(r) \in Due /\ InProgress' = InProgress
      BY <1>B, <1>5, <2>1, LeavesParts
    <3>2. Promise!Drop(Msg(r)) /\ Msg(r) \in Messages
      BY <1>M, <1>4, <1>5, <2>1, <3>1 DEF Promise!Drop, Pending
    <3> QED BY <3>2 DEF Promise!InboxNext
  <2>2. CASE Serving(r)
    <3>1. InProgress' = InProgress \ {Turn(r)} /\ Turn(r) \in InProgress /\ Due' = Due
      BY <1>B, <1>5, <2>2, LeavesParts
    <3>2. Promise!GiveUp(Turn(r))
      BY <1>4, <1>5, <3>1 DEF Promise!GiveUp
    <3> QED BY <3>1, <3>2 DEF Promise!InboxNext
  <2>3. CASE ~ Pending(r) /\ ~ Serving(r)
    <3>1. Due' = Due /\ InProgress' = InProgress
      BY <1>B, <1>5, <2>3, LeavesParts
    <3> QED BY <1>4, <1>5, <3>1 DEF Promise!ivars
  <2> QED BY <2>1, <2>2, <2>3
<1>6. CASE (Receive(r) \/ Quiet) /\ run'[r].at \in {"enter", "turn", "think", "respond", "send", "log"}
  <2>1. PICK t : Turns(r, t) /\ run'[r] = t
    BY <1>B, StepTurns, OthersStay
  <2>2. CASE Enter(r)
    <3>1. run[r].at = "enter" /\ run'[r].at = "turn" /\ Msg(r)' = Msg(r)
      BY <1>B, <2>2, RunsAreRecords DEF Enter, Goto, Become, TypeInv, TypeOK, Run, Msg
    <3>2. Due' = Due /\ InProgress' = InProgress
      BY <1>B, <2>2, <3>1, KeepsParts DEF Pending, Serving, Step
    <3> QED BY <1>4, <1>6, <3>2 DEF Promise!ivars
  <2>3. CASE ~ Enter(r)
    <3>1. /\ t.at \in Working /\ run[r].at \in Working /\ t.history = run[r].history
          /\ t.queue = run[r].queue
      <4>1. ~ CommitIngest(r)
        BY <1>6, FreshRuns DEF Receive, CommitIngest
      <4>2. ~ StartTurn(r)
        <5>1. ASSUME StartTurn(r), ~ active PROVE FALSE
          BY <1>B, <1>6, <5>1, NextIsFresh DEF StartTurn, Leave
        <5> QED BY <1>6, <5>1, FreshRuns DEF Receive, StartTurn
      <4> QED BY <1>6, <2>1, <2>3, <4>1, <4>2 DEF Turns, After, Queued, Working
    <3>2. Msg(r)' = Msg(r) /\ Turn(r)' = Turn(r)
      BY <2>1, <3>1 DEF Msg, Turn
    <3>3. Due' = Due /\ InProgress' = InProgress
      BY <1>B, <2>1, <3>1, <3>2, KeepsParts DEF Pending, Serving, Working
    <3> QED BY <1>4, <1>6, <3>3 DEF Promise!ivars
  <2> QED BY <2>2, <2>3
<1> QED BY <1>1, <1>2, <1>3, <1>5, <1>6

LEMMA PromiseStep ==
  PromiseInv /\ [Next]_vars => PromiseInv' /\ (Promise!InboxNext \/ UNCHANGED Promise!ivars)
<1> SUFFICES ASSUME PromiseInv, [Next]_vars
             PROVE  PromiseInv' /\ (Promise!InboxNext \/ UNCHANGED Promise!ivars)
  OBVIOUS
<1>1. WholeInv' /\ TurnSeesNewestReplies'
  BY WholeStep, SeenStep DEF PromiseInv, WholeInv, SeenInv
<1>2. ASSUME UNCHANGED log PROVE RowsAreTheirs' /\ Thread' = Thread
  BY <1>2 DEF PromiseInv, RowsAreTheirs, Thread
<1>3. ASSUME NEW r \in Runners, Receive(r) \/ Step(r) PROVE RowsAreTheirs'
  <2>1. CASE CommitIngest(r) \/ LogReply(r)
    BY <2>1, RecordsOne, RepliesOnce
  <2>2. CASE ~ (CommitIngest(r) \/ LogReply(r))
    <3>1. UNCHANGED log
      BY <1>3, <2>2 DEF Step, Receive, Resolve, CheckMessage, ClaimMessage, ClaimCollides, LookUpCustomer,
         UpsertCustomer, CustomerCollides, IngestFails, Enter, StartTurn, Think, TurnFails, Respond, Send,
         store
    <3> QED BY <1>2, <3>1
  <2> QED BY <2>1, <2>2
<1>4. ASSUME NEW r \in Runners, Receive(r) \/ Step(r)
      PROVE  Promise!InboxNext \/ UNCHANGED Promise!ivars
  BY <1>4, PromiseTurn
<1>5. CASE Restart
  <2>1. \A r \in Runners : run'[r].at = "idle"
    BY <1>5, RestartTyped DEF PromiseInv, WholeInv, BaseInv
  <2>2. Due' = {} /\ InProgress' = {}
    BY <2>1 DEF Due, InProgress, Pending, Serving
  <2>3. RowsAreTheirs' /\ Thread' = Thread
    BY <1>2, <1>5 DEF Restart, store
  <2>4. Promise!Forget
    BY <2>2, <2>3 DEF Promise!Forget
  <2> QED BY <1>1, <2>3, <2>4 DEF PromiseInv, Promise!InboxNext
<1>6. CASE SetActive \/ UNCHANGED vars
  <2>1. UNCHANGED <<store, run>>
    BY <1>6, SettingKeeps DEF PromiseInv, WholeInv, BaseInv
  <2>2. Due' = Due /\ InProgress' = InProgress
    BY <2>1 DEF Due, InProgress, Pending, Serving, Turn, Msg
  <2>3. RowsAreTheirs' /\ Thread' = Thread
    BY <1>2, <2>1 DEF store
  <2> QED BY <1>1, <2>2, <2>3 DEF PromiseInv, Promise!ivars
<1> QED BY <1>1, <1>3, <1>4, <1>5, <1>6 DEF Next, PromiseInv

\* The conversation keeps its promise, for any number of runners, messages and
\* customers: a recorded message gets one turn at most, and a customer's turns
\* follow one another, each begun with the newest rows and with every reply there
\* is room for among them.
THEOREM KeepsPromise == Spec => RefinesInbox
<1>1. Init => PromiseInv /\ Promise!InboxInit
  <2> SUFFICES ASSUME Init PROVE PromiseInv /\ Promise!InboxInit
    OBVIOUS
  <2>1. \A r \in Runners : run[r].at = "idle"
    BY FreshRuns DEF Init
  <2>2. WholeInv /\ TurnSeesNewestReplies /\ RowsAreTheirs
    BY <2>1, WholeInit DEF Init, TurnSeesNewestReplies, RowsAreTheirs
  <2>3. Due = {} /\ InProgress = {} /\ Thread = {}
    BY <2>1 DEF Init, Due, InProgress, Thread, Pending, Serving
  <2> QED BY <2>2, <2>3 DEF PromiseInv, Promise!InboxInit
<1>2. PromiseInv /\ [Next]_vars => PromiseInv' /\ [Promise!InboxNext]_(Promise!ivars)
  BY PromiseStep
<1> QED BY <1>1, <1>2, PTL DEF Spec, RefinesInbox, Promise!InboxSpec
-----------------------------------------------------------------------------
(* Nobody waits for ever.  A claim waits for an ingest that waits at most for *)
(* a commit, and a turn for the head of its customer's queue, who is alive:   *)
(* nobody leaves a turn and stays in the queue, or is in it twice.            *)

QueueInv ==
  \A c \in Customers :
    /\ \A i \in DOMAIN lock[c] : run[lock[c][i]].at \in Queued /\ Cust(lock[c][i]) = c
    /\ \A i, j \in DOMAIN lock[c] : lock[c][i] = lock[c][j] => i = j

\* Who is in the queue leaves it, or stays in it.
LEMMA QueuedStay ==
  ASSUME TypeInv, NEW r \in Runners, Receive(r) \/ Step(r), run[r].at \in Queued
  PROVE  run'[r].at \in Queued \/ Leave(r)
<1>R. run \in [Runners -> Run] /\ run[r] \in Run /\ run[r].at # "idle"
  BY DEF TypeInv, TypeOK, Queued, Working
<1>1. ASSUME NEW at \in Queued, Goto(r, at) PROVE run'[r].at \in Queued
  BY <1>R, <1>1 DEF Goto, Become, Run
<1>2. CASE StartTurn(r)
  <2> DEFINE t == [run[r] EXCEPT !.at = "think", !.history = Newest(Rows(Cust(r)))]
  <2>1. t.at = "think"
    BY <1>R DEF Run
  <2>2. run'[r] = t \/ Leave(r)
    BY <1>R, <1>2 DEF StartTurn, Become
  <2> HIDE DEF t
  <2> QED BY <2>1, <2>2 DEF Queued, Working
<1>3. CASE Respond(r)
  <2> DEFINE t == [run[r] EXCEPT !.at = "send", !.started = clock + 1]
  <2>1. t.at = "send"
    BY <1>R DEF Run
  <2>2. run'[r] = t \/ Leave(r)
    BY <1>R, <1>3 DEF Respond, Become
  <2> HIDE DEF t
  <2> QED BY <2>1, <2>2 DEF Queued, Working
<1>4. CASE Think(r) \/ Send(r)
  BY <1>1, <1>4 DEF Think, Send, Queued, Working
<1>5. CASE TurnFails(r) \/ LogReply(r)
  BY <1>5 DEF TurnFails, LogReply
<1>6. Think(r) \/ Send(r) \/ TurnFails(r) \/ LogReply(r) \/ StartTurn(r) \/ Respond(r)
  BY <1>R DEF Receive, Step, Resolve, CheckMessage, ClaimMessage, ClaimCollides, LookUpCustomer,
     UpsertCustomer, CustomerCollides, CommitIngest, IngestFails, Enter, Queued, Working, InIngest, Idle, Fresh
<1> QED BY <1>2, <1>3, <1>4, <1>5, <1>6

\* Whom a runner serves after the step.
CustNext(r) == From[Head(run'[r].queue)]

LEMMA QueueStep ==
  ASSUME TypeInv, LockInv, QueueInv, NEW r \in Runners, Receive(r) \/ Step(r)
  PROVE  QueueInv'
<1>1. PICK t : Turns(r, t)
  BY StepTurns
<1>2. /\ run'[r] = t
      /\ \A q \in Runners \ {r} : run'[q] = run[q] /\ CustNext(q) = Cust(q)
      /\ t.at \in Queued => CustNext(r) = Cust(r) /\ Cust(r) \in Customers
  BY <1>1, OthersStay, RunsAreRecords DEF Turns, After, CustNext, Cust, Msg
<1>L. lock \in [Customers -> Seq(Runners)]
  BY DEF TypeInv, TypeOK
<1>M. \A c \in Customers : \A i \in DOMAIN lock[c] : lock[c][i] \in Runners
  BY <1>L
<1> DEFINE Right(c, line) ==
             /\ \A i \in DOMAIN line : /\ line[i] \in Runners /\ run'[line[i]].at \in Queued
                                       /\ CustNext(line[i]) = c
             /\ \A i, j \in DOMAIN line : line[i] = line[j] => i = j
<1>3. SUFFICES ASSUME NEW c \in Customers PROVE Right(c, lock'[c])
  BY DEF QueueInv, CustNext, Cust, Msg
\* Those in the queue but r stay in it as they are.
<1>4. ASSUME NEW i \in DOMAIN lock[c], lock[c][i] # r
      PROVE  run'[lock[c][i]].at \in Queued /\ CustNext(lock[c][i]) = c
  <2> DEFINE q == lock[c][i]
  <2>1. q \in Runners \ {r} /\ run[q].at \in Queued /\ Cust(q) = c
    BY <1>M, <1>4 DEF QueueInv
  <2> HIDE DEF q
  <2>2. run'[q].at \in Queued /\ CustNext(q) = c
    BY <1>2, <2>1
  <2> QED BY <2>2 DEF q
<1>5. CASE LockKept(r)
  <2>1. ASSUME NEW i \in DOMAIN lock[c], lock[c][i] = r
        PROVE  run'[r].at \in Queued /\ CustNext(r) = c
    <3>1. run[r].at \in Queued /\ Cust(r) = c
      BY <2>1 DEF QueueInv
    <3>2. ~ Leave(r)
      <4> SUFFICES ASSUME Leave(r) PROVE FALSE
        OBVIOUS
      <4>1. lock'[c] = Tail(lock[c]) /\ lock'[c] = lock[c]
        BY <1>5, <1>L, <3>1 DEF Leave, Released, LockKept
      <4>2. lock[c] \in Seq(Runners) /\ lock[c] # <<>>
        BY <1>L, <2>1
      <4> DEFINE line == lock[c]
                 less == Tail(line)
      <4>3. Len(less) = Len(line) - 1 /\ Len(line) \in Nat
        BY <4>2, HeadTailProperties, LenProperties
      <4>4. less = line
        BY <4>1
      <4> HIDE DEF line, less
      <4> QED BY <4>3, <4>4
    <3>3. run'[r].at \in Queued
      BY <3>1, <3>2, QueuedStay
    <3> QED BY <1>2, <3>1, <3>3
  <2>2. \A i \in DOMAIN lock[c] : run'[lock[c][i]].at \in Queued /\ CustNext(lock[c][i]) = c
    BY <1>4, <2>1
  <2>3. lock'[c] = lock[c]
    BY <1>5 DEF LockKept
  <2> QED BY <1>M, <2>2, <2>3 DEF QueueInv
<1>6. CASE Enter(r)
  <2>1. t.at = "turn" /\ run[r].at = "enter"
    BY <1>1, <1>6, <1>2 DEF Enter, Goto, Become, Turns, TypeInv, TypeOK, Run
  <2>2. \A i \in DOMAIN lock[c] : lock[c][i] # r
    BY <2>1 DEF QueueInv, Queued, Working
  <2>3. \A i \in DOMAIN lock[c] : run'[lock[c][i]].at \in Queued /\ CustNext(lock[c][i]) = c
    BY <1>4, <2>2
  <2>4. CASE c # Cust(r)
    <3>1. lock'[c] = lock[c]
      BY <1>6, <1>L, <2>4, EnteringQueue
    <3> QED BY <1>M, <2>3, <3>1 DEF QueueInv
  <2>5. CASE c = Cust(r)
    <3> DEFINE line == lock[c]
               more == Append(line, r)
    <3>1. lock'[c] = more
      BY <1>6, <1>L, <2>5, EnteringQueue
    <3>2. line \in Seq(Runners)
      BY <1>L
    <3>3. /\ \A i \in DOMAIN line : more[i] = line[i]
          /\ more[Len(line) + 1] = r
          /\ DOMAIN more = DOMAIN line \cup {Len(line) + 1}
          /\ Len(line) + 1 \notin DOMAIN line
      BY <3>2, AppendProperties, LenProperties
    <3>4. run'[r].at \in Queued /\ CustNext(r) = c
      BY <1>2, <2>1, <2>5 DEF Queued
    <3>5. /\ \A i \in DOMAIN line : line[i] \in Runners /\ line[i] # r
                                    /\ run'[line[i]].at \in Queued /\ CustNext(line[i]) = c
          /\ \A i, j \in DOMAIN line : line[i] = line[j] => i = j
      BY <1>M, <2>2, <2>3 DEF QueueInv
    <3> HIDE DEF line, more
    <3>6. Right(c, more)
      BY <3>3, <3>4, <3>5
    <3> QED BY <3>1, <3>6
  <2> QED BY <2>4, <2>5
<1>7. CASE LockLeft(r)
  <2>1. lock' = [lock EXCEPT ![Cust(r)] = Tail(lock[Cust(r)])] /\ Cust(r) \in Customers
    BY <1>7, LeavingQueue
  <2>2. CASE c # Cust(r)
    <3>1. lock'[c] = lock[c]
      BY <1>L, <2>1, <2>2
    <3>2. \A i \in DOMAIN lock[c] : lock[c][i] # r
      BY <2>2 DEF QueueInv
    <3> QED BY <1>4, <1>M, <3>1, <3>2 DEF QueueInv
  <2>3. CASE c = Cust(r)
    <3> DEFINE line == lock[c]
               less == Tail(line)
    <3>1. lock'[c] = less
      BY <1>L, <2>1, <2>3
    <3>2. line \in Seq(Runners) /\ line # <<>>
      BY <1>7, <1>L, <2>3 DEF LockLeft, LockInv
    <3>3. line[1] = r
      BY <1>7, <2>3, <3>2 DEF LockLeft, HoldsLock
    <3>4. /\ \A i \in DOMAIN less : i + 1 \in DOMAIN line /\ less[i] = line[i + 1] /\ i + 1 # 1 /\ i \in Nat
          /\ 1 \in DOMAIN line
      BY <3>2, HeadTailProperties, LenProperties
    <3>5. \A i, j \in DOMAIN line : line[i] = line[j] => i = j
      BY DEF QueueInv
    <3>6. \A i \in DOMAIN less : line[i + 1] # r
      BY <3>3, <3>4, <3>5
    <3>7. \A i \in DOMAIN line : line[i] \in Runners
                               /\ (line[i] # r => run'[line[i]].at \in Queued /\ CustNext(line[i]) = c)
      BY <1>4, <1>M
    <3> HIDE DEF line, less
    <3>8. \A i \in DOMAIN less : /\ less[i] \in Runners /\ run'[less[i]].at \in Queued
                                 /\ CustNext(less[i]) = c
      BY <3>4, <3>6, <3>7
    <3>9. \A i, j \in DOMAIN less : less[i] = less[j] => i = j
      BY <3>4, <3>5
    <3> QED BY <3>1, <3>8, <3>9
  <2> QED BY <2>2, <2>3
<1> QED BY <1>5, <1>6, <1>7, LockMoves

LEMMA QueueInvariant == Spec => [](BaseInv /\ QueueInv)
<1>1. Init => QueueInv
  BY DEF Init, QueueInv
<1>2. BaseInv /\ QueueInv /\ [Next]_vars => QueueInv'
  <2> SUFFICES ASSUME BaseInv, QueueInv, [Next]_vars PROVE QueueInv'
    OBVIOUS
  <2>1. ASSUME NEW r \in Runners, Receive(r) \/ Step(r) PROVE QueueInv'
    BY <2>1, QueueStep DEF BaseInv
  <2>2. CASE Restart
    <3>1. lock' = [c \in Customers |-> <<>>]
      BY <2>2 DEF Restart
    <3> QED BY <3>1 DEF QueueInv
  <2>3. CASE SetActive \/ UNCHANGED vars
    BY <2>3, SettingKeeps DEF BaseInv, QueueInv, Cust, Msg
  <2> QED BY <2>1, <2>2, <2>3 DEF Next
<1> QED BY <1>1, <1>2, BaseInit, BaseStep, PTL DEF Spec

\* A runner at work is ready unless it waits: for another's claim of its message,
\* for a row of its customer, or for its customer's turn.
Ready(r) ==
  /\ run[r].at # "idle"
  /\ run[r].at = "claim" => ~ ClaimPending(r)
  /\ run[r].at = "upsert" => ~ CustomerPending(r)
  /\ run[r].at = "turn" => HoldsLock(r)

SomebodyGoesOn == (\E r \in Runners : run[r].at # "idle") => \E r \in Runners : Ready(r)

LEMMA SomebodyReady ==
  ASSUME BaseInv, QueueInv
  PROVE  SomebodyGoesOn
<1> SUFFICES ASSUME NEW r \in Runners, run[r].at # "idle" PROVE \E q \in Runners : Ready(q)
  BY DEF SomebodyGoesOn
<1>1. CASE \E q \in Runners : run[q].at \in {"lookup", "commit"}
  BY <1>1 DEF Ready
<1>2. CASE /\ \A q \in Runners : run[q].at \notin {"lookup", "commit"}
           /\ \E q \in Runners : run[q].at = "upsert"
  BY <1>2 DEF Ready, CustomerPending, HoldsCustomer
<1>3. CASE \A q \in Runners : run[q].at \notin InIngest
  <2>1. \A q \in Runners : ~ ClaimPending(q)
    BY <1>3 DEF ClaimPending, HoldsClaim
  <2>2. CASE run[r].at # "turn"
    BY <1>3, <2>1, <2>2 DEF Ready, InIngest
  <2>3. CASE run[r].at = "turn"
    <3> DEFINE line == lock[Cust(r)]
    <3>1. Cust(r) \in Customers
      BY <2>3, RunsAreRecords DEF BaseInv
    <3>2. line \in Seq(Runners) /\ line # <<>>
      BY <2>3, <3>1 DEF BaseInv, TypeInv, TypeOK, LockInv, Queued
    <3>3. 1 \in DOMAIN line /\ Head(line) = line[1] /\ line[1] \in Runners
      BY <3>2, HeadTailProperties, LenProperties
    <3>4. PICK q \in Runners : q = line[1]
      BY <3>3
    <3>5. run[q].at \in Queued /\ Cust(q) = Cust(r)
      BY <3>1, <3>3, <3>4 DEF QueueInv
    <3>6. HoldsLock(q)
      BY <3>3, <3>4, <3>5 DEF HoldsLock
    <3>7. Ready(q)
      BY <3>5, <3>6 DEF Ready, Queued, Working
    <3> QED BY <3>7
  <2> QED BY <2>2, <2>3
<1> QED BY <1>1, <1>2, <1>3 DEF InIngest

\* While any message is being processed one of the runners can go on: claims and
\* customers' rows are never waited for in a circle, and the head of a customer's
\* queue is a turn that is alive, whatever failed or was restarted before.
THEOREM SomeoneIsServed == Spec => []SomebodyGoesOn
<1>1. BaseInv /\ QueueInv => SomebodyGoesOn
  BY SomebodyReady
<1> QED BY <1>1, QueueInvariant, PTL

\* The step of a runner that is ready, where nothing fails.
Successor(r) ==
  LET t == run[r]
      Into(k) == [run EXCEPT ![r] = k]
      Moved(at) == [t EXCEPT !.at = at]
      rest == Tail(t.queue)
      done == IF rest = <<>> THEN Idle ELSE Fresh("resolve", rest)
      Only(k) == <<store, clock, Into(k), lock, active, sent, bounds>>
      Left == <<store, clock, Into(done), Released(r), active, sent, bounds>>
  IN CASE t.at = "resolve" -> Only(Moved("check"))
       [] t.at = "check" ->
            IF Msg(r) \in processed THEN Only(done)
            ELSE <<store, clock + 1, Into([t EXCEPT !.at = "claim", !.started = clock + 1]),
                   lock, active, sent, bounds>>
       [] t.at = "claim" -> Only(IF ClaimTaken(r) THEN done ELSE Moved("lookup"))
       [] t.at = "lookup" -> Only([t EXCEPT !.at = "upsert", !.found = Cust(r) \in known])
       [] t.at = "upsert" -> Only(IF t.found \/ Cust(r) \notin known THEN Moved("commit") ELSE done)
       [] t.at = "commit" ->
            << <<processed \cup {Msg(r)}, known \cup {Cust(r)},
                 IF Msg(r) \in Stops THEN optedOut \cup {Cust(r)} ELSE optedOut, Logged(r, "in")>>,
               clock, Into(Moved("enter")), lock, active, sent, bounds>>
       [] t.at = "enter" ->
            <<store, clock, Into(Moved("turn")), [lock EXCEPT ![Cust(r)] = Append(@, r)], active,
              sent, bounds>>
       [] t.at = "turn" ->
            IF active THEN Only([t EXCEPT !.at = "think", !.history = Newest(Rows(Cust(r)))])
            ELSE Left
       [] t.at = "think" -> Only(Moved("respond"))
       [] t.at = "respond" ->
            IF Cust(r) \in optedOut
            THEN <<store, clock + 1, Into(done), Released(r), active, sent, bounds>>
            ELSE <<store, clock + 1, Into([t EXCEPT !.at = "send", !.started = clock + 1]), lock,
                   active, sent, bounds>>
       [] t.at = "send" ->
            <<store, clock, Into(Moved("log")), lock, active, sent \cup {Msg(r)}, bounds>>
       [] t.at = "log" ->
            << <<processed, known, optedOut, Logged(r, "out")>>, clock, Into(done), Released(r),
               active, sent, bounds>>

\* A runner that is ready has a step to take.
THEOREM ReadyHasStep ==
  ASSUME TypeInv, NEW r \in Runners, Ready(r), vars' = Successor(r)
  PROVE  Step(r)
<1> DEFINE t == run[r]
<1>T. /\ t.at \in {"resolve", "check", "claim", "lookup", "upsert", "commit", "enter", "turn",
                 "think", "respond", "send", "log"}
      /\ t.found \in BOOLEAN /\ active \in BOOLEAN
  BY DEF Ready, TypeInv, TypeOK, Run
<1> USE DEF vars, store, bounds, Become, Goto, NextMessage, Leave, Successor
<1>1. CASE t.at = "resolve"
  BY <1>1 DEF Resolve, Step
<1>2. CASE t.at = "check"
  BY <1>2 DEF CheckMessage, Step
<1>3. CASE t.at = "claim"
  BY <1>3 DEF Ready, ClaimMessage, ClaimCollides, Step
<1>4. CASE t.at = "lookup"
  BY <1>4 DEF LookUpCustomer, Step
<1>5. CASE t.at = "upsert"
  BY <1>5, <1>T DEF Ready, UpsertCustomer, CustomerCollides, Step
<1>6. CASE t.at = "commit"
  <2>1. CommitIngest(r)
    BY <1>6 DEF CommitIngest
  <2> QED BY <2>1 DEF Step
<1>7. CASE t.at = "enter"
  BY <1>7 DEF Enter, Step
<1>8. CASE t.at = "turn"
  BY <1>8, <1>T DEF Ready, StartTurn, Step
<1>9. CASE t.at = "think"
  BY <1>9 DEF Think, Step
<1>10. CASE t.at = "respond"
  BY <1>10 DEF Respond, Step
<1>11. CASE t.at = "send"
  BY <1>11 DEF Send, Step
<1>12. CASE t.at = "log"
  <2>1. LogReply(r)
    BY <1>12 DEF LogReply
  <2> QED BY <2>1 DEF Step
<1> QED
  BY <1>T, <1>1, <1>2, <1>3, <1>4, <1>5, <1>6, <1>7, <1>8, <1>9, <1>10, <1>11, <1>12
=============================================================================

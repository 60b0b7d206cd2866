------------------------- MODULE BridgeSession_proofs -------------------------
(***************************************************************************)
(* Proofs about one tenant's session in the bridge, for any number of      *)
(* sockets, overlapping dashboard requests, faults and restarts.           *)
(***************************************************************************)
EXTENDS BridgeSession, FiniteSetTheorems, WellFoundedInduction, TLAPS

USE DEF boot

-----------------------------------------------------------------------------
(* The invariant.                                                          *)

\* A socket that was made has credentials.
Fits == \A k \in Sockets : sock[k].life \in {"read", "made", "open"} => sock[k].creds # 0

\* While no pairing was given up: sv are the credentials being saved, st those
\* stored, L those of a linked device.  A socket that resumes waits for a write
\* it queues behind, or will read, or has read, credentials of a linked device.
Resumes(r, sv, st, L) ==
  /\ r.life # "clearing"
  /\ r.life = "open" => r.creds \in L
  /\ r.resumes /\ r.life = "starting" => r.behind \subseteq sv /\ (r.behind = {} => st \in L)
  /\ r.resumes /\ r.life \in {"read", "made", "open"} => r.creds \in L

Paired ==
  /\ \A c \in Sockets : device[c] # "revoked"
  /\ \A h \in Dashboards : ask[h].at \notin {"logout", "clear"}
  /\ saving \subseteq Linked
  /\ Linked # {} => saving # {} \/ store \in Linked
  /\ \A k \in Sockets : Resumes(sock[k], saving, store, Linked)

PairInv == ~ unpaired => Paired

BridgeInv == TypeOK /\ Fits /\ PairInv /\ NeverAbandoned

-----------------------------------------------------------------------------
(* The next call of createSession. *)

LEMMA LeastNatural ==
  ASSUME NEW S \in SUBSET Nat, S # {}
  PROVE  \E m \in S : \A k \in S : m <= k
<1> DEFINE R == OpToRel(<, Nat)
<1>1. IsWellFoundedOn(R, Nat)
  BY NatLessThanWellFounded
<1>2. \A x, y \in Nat : y < x => <<y, x>> \in R
  BY DEF OpToRel
<1> HIDE DEF R
<1>3. PICK m \in S : \A k \in S : ~ (<<k, m>> \in R)
  BY <1>1, WFMin
<1>4. ASSUME NEW k \in S PROVE m <= k
  <2>1. m \in Nat /\ k \in Nat /\ ~ (k < m)
    BY <1>2, <1>3
  <2> QED BY <2>1
<1> QED BY <1>4

Free(S) == {k \in Sockets : S[k].life = "none"}

LEMMA SocketsFinite ==
  ASSUME NEW S
  PROVE  IsFiniteSet(Free(S)) /\ Free(S) \subseteq Nat
<1>1. IsFiniteSet(Sockets) /\ Sockets \subseteq Nat
  BY SomeSocket, FS_Interval DEF Sockets
<1> QED BY <1>1, FS_Subset DEF Free

LEMMA NextIsFree ==
  ASSUME NEW S, Free(S) # {}
  PROVE  NextIn(S) \in Sockets /\ S[NextIn(S)].life = "none"
<1>1. PICK m \in Free(S) : \A k \in Free(S) : m <= k
  BY SocketsFinite, LeastNatural
<1>2. \A j \in Sockets : j < m => S[j].life # "none"
  <2>1. \A j \in Sockets : j \in Nat /\ m \in Nat
    BY SomeSocket, SocketsFinite DEF Sockets
  <2> QED BY <1>1, <2>1 DEF Free
<1>3. m \in Sockets /\ S[m].life = "none"
  BY <1>1 DEF Free
<1> QED BY <1>2, <1>3 DEF NextIn

LEMMA RoomIsFree ==
  /\ Room(1) \/ Room(2) => Free(sock) # {}
  /\ \A n \in Sockets : Room(2) => Free(sock) \ {n} # {}
<1>1. Free(sock) = {k \in Sockets : sock[k].life = "none"}
  BY DEF Free
<1>2. IsFiniteSet(Free(sock)) /\ Cardinality(Free(sock)) \in Nat
  BY SocketsFinite, FS_CardinalityType
<1>3. Free(sock) = {} => Cardinality(Free(sock)) = 0
  BY FS_EmptySet
<1>4. ASSUME NEW n \in Sockets, Free(sock) \ {n} = {} PROVE ~ Room(2)
  <2>1. CASE n \in Free(sock)
    <3>1. Cardinality(Free(sock) \ {n}) = Cardinality(Free(sock)) - 1
      BY <1>2, <2>1, FS_RemoveElement
    <3>2. Cardinality(Free(sock) \ {n}) = 0
      BY <1>4, FS_EmptySet
    <3> QED BY <1>1, <1>2, <3>1, <3>2 DEF Room
  <2>2. CASE n \notin Free(sock)
    BY <1>1, <1>3, <1>4, <2>2 DEF Room
  <2> QED BY <2>1, <2>2
<1>5. Room(1) \/ Room(2) => Free(sock) # {}
  BY <1>1, <1>3 DEF Room
<1> QED BY <1>4, <1>5

-----------------------------------------------------------------------------
(* What a close or a call of createSession leaves. *)

\* Each socket is as it was, gone, or new.
Renewed(S, stage) ==
  /\ S \in [Sockets -> Socket]
  /\ \A j \in Sockets : S[j] \in {sock[j], Gone, Created(stage)}

LEMMA CreatedTyped ==
  ASSUME TypeOK, NEW stage \in {"clearing", "starting"}
  PROVE  /\ Created(stage) \in Socket /\ Created(stage).life = stage
         /\ Created(stage).behind = saving /\ Created(stage).resumes = (Linked # {})
         /\ Gone \in Socket /\ Gone.life = "closed" /\ Gone.resumes = FALSE
<1>1. Unused \in Socket
  BY DEF Unused, Socket
<1>2. saving \subseteq Sockets /\ (Linked # {}) \in BOOLEAN
  BY DEF TypeOK
<1> QED BY <1>1, <1>2 DEF Created, Gone, Unused, Socket

LEMMA NewSocket ==
  ASSUME TypeOK, NEW stage \in {"clearing", "starting"}, NEW S, Renewed(S, stage), Free(S) # {}
  PROVE  /\ Renewed(WithNew(S, stage), stage)
         /\ \E n \in Free(S) : /\ WithNew(S, stage)[n] = Created(stage)
                               /\ \A j \in Sockets \ {n} : WithNew(S, stage)[j] = S[j]
<1>1. NextIn(S) \in Free(S) /\ NextIn(S) \in Sockets
  BY NextIsFree DEF Free
<1>2. Created(stage) \in Socket
  BY CreatedTyped
<1>3. /\ WithNew(S, stage) \in [Sockets -> Socket]
      /\ WithNew(S, stage)[NextIn(S)] = Created(stage)
      /\ \A j \in Sockets \ {NextIn(S)} : WithNew(S, stage)[j] = S[j]
  BY <1>1, <1>2 DEF WithNew, Renewed
<1> QED BY <1>1, <1>3 DEF Renewed

\* The close of a live socket.
LEMMA CloseRenews ==
  ASSUME TypeOK, NEW k \in Sockets, Live(k), NEW out \in BOOLEAN, NEW off \in BOOLEAN,
         off \/ Free(sock) # {}
  PROVE  LET S == SocketsAfterClose(k, out, off) IN
         /\ Renewed(S, Reopens(out))
         /\ ~ off => \E n \in Free(sock) :
              /\ S[n] = Created(Reopens(out))
              /\ Free(S) = Free(sock) \ {n}
<1>1. Reopens(out) \in {"clearing", "starting"}
  BY DEF Reopens
<1>2. /\ Without(k) \in [Sockets -> Socket] /\ Without(k)[k] = Gone
      /\ \A j \in Sockets \ {k} : Without(k)[j] = sock[j]
  BY CreatedTyped DEF Without, TypeOK
<1>3. Renewed(Without(k), Reopens(out))
  BY <1>2 DEF Renewed
<1>4. Free(Without(k)) = Free(sock)
  BY <1>2, CreatedTyped DEF Free, Live
<1>5. CASE off
  BY <1>3, <1>5 DEF SocketsAfterClose
<1>6. CASE ~ off
  <2> DEFINE S == WithNew(Without(k), Reopens(out))
  <2>1. PICK n \in Free(sock) : /\ Renewed(S, Reopens(out)) /\ S[n] = Created(Reopens(out))
                                /\ \A j \in Sockets \ {n} : S[j] = Without(k)[j]
    BY <1>1, <1>3, <1>4, <1>6, NewSocket
  <2>2. S = SocketsAfterClose(k, out, off)
    BY <1>6 DEF SocketsAfterClose
  <2> HIDE DEF S
  <2>3. Created(Reopens(out)).life # "none"
    BY <1>1, CreatedTyped
  <2>4. Free(S) = Free(sock) \ {n}
    <3>1. \A j \in Sockets \ {n} : j \in Free(S) <=> j \in Free(Without(k))
      BY <2>1 DEF Free
    <3>2. n \notin Free(S)
      BY <2>1, <2>3 DEF Free
    <3> QED BY <1>4, <3>1, <3>2 DEF Free
  <2> QED BY <2>1, <2>2, <2>4
<1> QED BY <1>5, <1>6

\* The ended socket of an overriding connect, and the new one after it.
LEMMA ConnectRenews ==
  ASSUME TypeOK, Room(2)
  PROVE  /\ Renewed(WithNew(Ended, "starting"), "starting")
         /\ NextIn(Ended) \in Sockets
         /\ \E n \in Sockets : WithNew(Ended, "starting")[n] = Created("starting")
<1>1. Renewed(Ended, "starting") /\ Free(Ended) # {}
  <2>1. CASE entry # NoEntry /\ Live(entry.sock)
    <3>1. entry.sock \in Sockets
      BY <2>1 DEF TypeOK, Entry
    <3>2. Reopens(FALSE) = "starting"
      BY DEF Reopens
    <3>3. PICK n \in Free(sock) : /\ Renewed(SocketsAfterClose(entry.sock, FALSE, FALSE), "starting")
                                  /\ Free(SocketsAfterClose(entry.sock, FALSE, FALSE)) = Free(sock) \ {n}
      BY <2>1, <3>1, <3>2, CloseRenews, RoomIsFree
    <3> QED BY <2>1, <3>3, RoomIsFree DEF Ended, Free
  <2>2. CASE ~ (entry # NoEntry /\ Live(entry.sock))
    <3>1. Ended = sock
      BY <2>2 DEF Ended
    <3>2. Renewed(sock, "starting")
      BY DEF Renewed, TypeOK
    <3> QED BY <3>1, <3>2, RoomIsFree
  <2> QED BY <2>1, <2>2
<1>2. NextIn(Ended) \in Sockets
  BY <1>1, NextIsFree
<1> QED BY <1>1, <1>2, NewSocket DEF Free

\* The close that an event brings, or a sign-off.
LEMMA ClosesRenews ==
  ASSUME TypeOK, NEW k \in Sockets, Live(k), NEW out \in BOOLEAN, disconnecting \/ Room(1)
  PROVE  LET S == SocketsAfterClose(k, out, disconnecting) IN
         /\ Renewed(S, Reopens(out))
         /\ ~ disconnecting => \E n \in Sockets : S[n] = Created(Reopens(out))
<1>1. disconnecting \in BOOLEAN
  BY DEF TypeOK
<1> QED BY <1>1, CloseRenews, RoomIsFree DEF Free

\* The flags and the counters, one by one.
LEMMA Scalars ==
  ASSUME TypeOK
  PROVE  /\ disconnecting \in BOOLEAN /\ inFlight \in BOOLEAN /\ booting \in BOOLEAN
         /\ started \in BOOLEAN /\ unpaired \in BOOLEAN
         /\ asked \in Nat /\ faults \in Nat /\ restarts \in Nat
  BY DEF TypeOK

\* A boot starts the tenant's session, or leaves everything as it was.
LEMMA BootRenews ==
  ASSUME TypeOK, Boot
  PROVE  /\ Renewed(sock', "starting")
         /\ \/ sock' = sock /\ started' = started
            \/ \E n \in Sockets : sock'[n] = Created("starting")
<1>1. Renewed(sock, "starting") /\ Free(sock) # {}
  BY RoomIsFree DEF Renewed, TypeOK, Boot
<1>2. PICK listed \in BOOLEAN : /\ started' = (started \/ listed)
                               /\ sock' = IF listed THEN WithNew(sock, "starting") ELSE sock
  BY DEF Boot
<1>3. CASE listed
  <2>1. sock' = WithNew(sock, "starting")
    BY <1>2, <1>3
  <2> QED BY <1>1, <2>1, NewSocket DEF Free
<1>4. CASE ~ listed
  BY <1>1, <1>2, <1>4, Scalars
<1> QED BY <1>3, <1>4

-----------------------------------------------------------------------------
(* Types. *)

LEMMA RenewedFits ==
  ASSUME TypeOK, Fits, NEW stage \in {"clearing", "starting"}, NEW S, Renewed(S, stage), sock' = S
  PROVE  Fits' /\ sock' \in [Sockets -> Socket]
<1>1. ASSUME NEW j \in Sockets, sock'[j].life \in {"read", "made", "open"}
      PROVE  sock'[j].creds # 0
  <2>1. sock'[j] = sock[j] \/ sock'[j] = Gone \/ sock'[j] = Created(stage)
    BY DEF Renewed
  <2> QED BY <1>1, <2>1, CreatedTyped DEF Fits
<1> QED BY <1>1 DEF Fits, Renewed

\* A close changes an entry's status at most.
LEMMA EntryTyped ==
  ASSUME TypeOK, NEW out \in BOOLEAN, NEW status \in {"qr_pending", "ready", "disconnected", "logged_out"}
  PROVE  /\ EntryAfterClose(out) \in Entry \cup {NoEntry}
         /\ entry # NoEntry => [entry EXCEPT !.status = status] \in Entry
  BY DEF EntryAfterClose, TypeOK, Entry, NoEntry

\* What happens to a socket from outside is a close.
LEMMA CloseEvents ==
  ASSUME NEW k \in Sockets, Drop(k) \/ LoggedOut(k)
  PROVE  /\ Live(k) /\ faults' \in {faults, faults + 1}
         /\ \E out \in BOOLEAN : Closes(k, out)
         /\ UNCHANGED <<disconnecting, inFlight, boot, tables, ask, inbox, unpaired, asked, restarts>>
<1>1. CASE Drop(k)
  <2>1. Closes(k, FALSE) /\ FALSE \in BOOLEAN
    BY <1>1 DEF Drop
  <2>2. \E out \in BOOLEAN : Closes(k, out)
    BY <2>1
  <2> QED BY <1>1, <2>2 DEF Drop
<1>2. CASE LoggedOut(k)
  <2>1. Closes(k, TRUE) /\ TRUE \in BOOLEAN
    BY <1>2 DEF LoggedOut
  <2>2. \E out \in BOOLEAN : Closes(k, out)
    BY <2>1
  <2> QED BY <1>2, <2>2 DEF LoggedOut, counts
<1> QED BY <1>1, <1>2

\* A socket that has read has the credentials it found, or its own.
LEMMA ReadEffect ==
  ASSUME TypeOK, NEW k \in Sockets, ReadCreds(k)
  PROVE  /\ \A j \in Sockets \ {k} : sock'[j] = sock[j]
         /\ sock'[k].life = "read" /\ sock'[k] \in Socket
         /\ \/ sock'[k].creds = (IF store = 0 THEN k ELSE store) /\ sock'[k].resumes = sock[k].resumes
            \/ sock'[k].creds = k /\ sock'[k].resumes = FALSE
<1>0. sock \in [Sockets -> Socket] /\ sock[k] \in Socket /\ store \in Sockets \cup {0}
  BY DEF TypeOK
<1>1. CASE sock' = [sock EXCEPT ![k].life = "read", ![k].creds = IF store = 0 THEN k ELSE store]
  <2> DEFINE c == IF store = 0 THEN k ELSE store
  <2>1. c \in Sockets \cup {0}
    BY <1>0
  <2> HIDE DEF c
  <2>2. sock' = [sock EXCEPT ![k].life = "read", ![k].creds = c]
    BY <1>1 DEF c
  <2>3. /\ \A j \in Sockets \ {k} : sock'[j] = sock[j]
        /\ sock'[k] = [sock[k] EXCEPT !.life = "read", !.creds = c]
    BY <1>0, <2>2
  <2>4. sock'[k].life = "read" /\ sock'[k] \in Socket /\ sock'[k].creds = c /\ sock'[k].resumes = sock[k].resumes
    BY <1>0, <2>1, <2>3 DEF Socket
  <2> QED BY <2>3, <2>4 DEF c
<1>2. CASE sock' = [sock EXCEPT ![k].life = "read", ![k].creds = k, ![k].resumes = FALSE]
  <2>1. /\ \A j \in Sockets \ {k} : sock'[j] = sock[j]
        /\ sock'[k] = [sock[k] EXCEPT !.life = "read", !.creds = k, !.resumes = FALSE]
    BY <1>0, <1>2
  <2>2. sock'[k].life = "read" /\ sock'[k] \in Socket /\ sock'[k].creds = k /\ sock'[k].resumes = FALSE
    BY <1>0, <2>1 DEF Socket
  <2> QED BY <2>1, <2>2
<1> QED BY <1>1, <1>2 DEF ReadCreds

LEMMA TypeStep ==
  ASSUME TypeOK, Fits, Next
  PROVE  TypeOK' /\ Fits'
<1>1. CASE Boot
  <2>1. Renewed(sock', "starting")
    BY <1>1, BootRenews
  <2>2. sock' \in [Sockets -> Socket] /\ Fits'
    BY <2>1, RenewedFits
  <2>3. {disconnecting', inFlight', booting', started', unpaired'} \subseteq BOOLEAN
    BY <1>1, Scalars DEF Boot
  <2>4. {asked', faults', restarts'} \subseteq Nat
    BY <1>1, Scalars DEF Boot
  <2> QED BY <1>1, <2>2, <2>3, <2>4 DEF Boot, TypeOK, tables
<1>2. CASE Restart
  <2>1. sock' \in [Sockets -> Socket] /\ Fits'
    BY <1>2, CreatedTyped DEF Restart, TypeOK, Fits
  <2>2. ask' \in [Dashboards -> Ask]
    BY <1>2 DEF Restart, Ask, Rested
  <2>3. {disconnecting', inFlight', booting', started', unpaired'} \subseteq BOOLEAN
    BY <1>2, Scalars DEF Restart
  <2>4. {asked', faults', restarts'} \subseteq Nat
    BY <1>2, Scalars DEF Restart
  <2> QED BY <1>2, <2>1, <2>2, <2>3, <2>4 DEF Restart, TypeOK
<1>3. ASSUME NEW k \in Sockets, Wiped(k) PROVE TypeOK' /\ Fits'
  <2>1. sock' \in [Sockets -> Socket]
    BY <1>3, CreatedTyped DEF Wiped, TypeOK
  <2>2. Fits'
    BY <1>3, CreatedTyped DEF Wiped, TypeOK, Fits
  <2>3. store' \in Sockets \cup {0} /\ faults' \in Nat
    BY <1>3, Scalars DEF Wiped, TypeOK
  <2> QED BY <1>3, <2>1, <2>2, <2>3 DEF Wiped, TypeOK
<1>4. ASSUME NEW k \in Sockets, ReadCreds(k) PROVE TypeOK' /\ Fits'
  <2>1. sock' \in [Sockets -> Socket]
    BY <1>4 DEF ReadCreds, TypeOK, Socket, tables
  <2>2. Fits'
    <3>1. k # 0
      BY SomeSocket DEF Sockets
    <3>2. /\ sock'[k].creds \in {k, store} /\ (store = 0 => sock'[k].creds = k)
          /\ \A j \in Sockets \ {k} : sock'[j] = sock[j]
      BY <1>4, ReadEffect
    <3> QED BY <3>1, <3>2 DEF Fits
  <2>3. faults' \in Nat
    BY <1>4 DEF ReadCreds, TypeOK
  <2> QED BY <1>4, <2>1, <2>2, <2>3 DEF ReadCreds, TypeOK, tables
<1>5. ASSUME NEW k \in Sockets, Make(k) PROVE TypeOK' /\ Fits'
  <2>1. entry' \in Entry
    BY <1>5 DEF Make, Entry
  <2>2. sock' \in [Sockets -> Socket] /\ Fits'
    BY <1>5 DEF Make, TypeOK, Fits, Socket
  <2> QED BY <1>5, <2>1, <2>2 DEF Make, TypeOK, tables, counts
<1>6. ASSUME NEW k \in Sockets, Qr(k) \/ Open(k) PROVE TypeOK' /\ Fits'
  <2>1. entry' \in Entry \cup {NoEntry}
    BY <1>6, EntryTyped DEF Qr, Open, SaysStatus, TypeOK
  <2>2. sock' \in [Sockets -> Socket] /\ Fits'
    BY <1>6 DEF Qr, Open, TypeOK, Fits, Socket
  <2> QED BY <1>6, <2>1, <2>2 DEF Qr, Open, TypeOK, tables, counts
<1>7. ASSUME NEW k \in Sockets, Scan(k) \/ Renew(k) PROVE TypeOK' /\ Fits'
  <2>1. sock[k].creds \in Sockets
    BY <1>7 DEF Scan, Renew, TypeOK, Fits, Socket
  <2> QED BY <1>7, <2>1 DEF Scan, Renew, TypeOK, Fits, tables, counts
<1>8. ASSUME NEW c \in Sockets, Save(c) PROVE TypeOK' /\ Fits'
  <2>1. sock' \in [Sockets -> Socket] /\ Fits'
    BY <1>8 DEF Save, Released, TypeOK, Fits, Socket
  <2> QED BY <1>8, <2>1 DEF Save, TypeOK, counts
<1>9. ASSUME NEW c \in Sockets, Unlink(c) PROVE TypeOK' /\ Fits'
  BY <1>9 DEF Unlink, TypeOK, Fits
<1>10. ASSUME NEW k \in Sockets, NEW out \in BOOLEAN, Live(k), Closes(k, out),
              faults' \in Nat,
              UNCHANGED <<disconnecting, inFlight, boot, tables, ask, inbox, unpaired, asked, restarts>>
       PROVE  TypeOK' /\ Fits'
  <2>1. Renewed(sock', Reopens(out)) /\ Reopens(out) \in {"clearing", "starting"}
    BY <1>10, ClosesRenews DEF Closes, Reopens
  <2>2. entry' \in Entry \cup {NoEntry}
    BY <1>10, EntryTyped DEF Closes
  <2> QED BY <1>10, <2>1, <2>2, RenewedFits DEF TypeOK, tables
<1>11. ASSUME NEW k \in Sockets, Drop(k) \/ LoggedOut(k) PROVE TypeOK' /\ Fits'
  <2>1. faults' \in Nat
    BY <1>11, CloseEvents, Scalars
  <2> QED BY <1>10, <1>11, <2>1, CloseEvents
<1>12. ASSUME NEW k \in Sockets, NEW c \in Contacts, Receive(k, c) PROVE TypeOK' /\ Fits'
  BY <1>12 DEF Receive, TypeOK, Fits, Entry, NoEntry, tables, counts
<1>13. ASSUME NEW c \in Contacts, Reply(c) PROVE TypeOK' /\ Fits'
  BY <1>13 DEF Reply, TypeOK, Fits, tables, counts
<1>14. ASSUME NEW h \in Dashboards, Connected(h) PROVE TypeOK' /\ Fits'
  BY <1>14 DEF Connected, TypeOK, Fits, Ask, Rested, tables, counts
<1>15. ASSUME NEW h \in Dashboards, SignOff(h) PROVE TypeOK' /\ Fits'
  <2> DEFINE k == ask[h].sock
  <2>1. sock' \in [Sockets -> Socket] /\ Fits' /\ device' \in [Sockets -> {"fresh", "linked", "revoked"}]
    <3>1. CASE k # 0 /\ Live(k)
      <4>1. k \in Sockets
        BY <3>1 DEF TypeOK, Ask
      <4>2. PICK ok \in BOOLEAN :
              /\ disconnecting \/ Room(1)
              /\ sock' = SocketsAfterClose(k, ok, disconnecting)
              /\ device' = IF ok /\ device[sock[k].creds] = "linked"
                           THEN [device EXCEPT ![sock[k].creds] = "revoked"] ELSE device
        BY <1>15, <3>1 DEF SignOff
      <4>3. Renewed(sock', Reopens(ok)) /\ Reopens(ok) \in {"clearing", "starting"}
        BY <3>1, <4>1, <4>2, ClosesRenews DEF Reopens
      <4>4. device' \in [Sockets -> {"fresh", "linked", "revoked"}]
        BY <4>2 DEF TypeOK
      <4> QED BY <4>3, <4>4, RenewedFits
    <3>2. CASE ~ (k # 0 /\ Live(k))
      BY <1>15, <3>2 DEF SignOff, TypeOK, Fits
    <3> QED BY <3>1, <3>2
  <2>2. ask' \in [Dashboards -> Ask]
    BY <1>15 DEF SignOff, TypeOK, Ask
  <2> QED BY <1>15, <2>1, <2>2 DEF SignOff, TypeOK, counts
<1>16. ASSUME NEW h \in Dashboards, Disconnected(h) PROVE TypeOK' /\ Fits'
  BY <1>16 DEF Disconnected, TypeOK, Fits, Ask, Rested
<1>17. ASSUME NEW h \in Dashboards, Disconnect(h) PROVE TypeOK' /\ Fits'
  <2>1. entry.sock \in Sockets \cup {0}
    BY DEF TypeOK, Entry, NoEntry
  <2> QED BY <1>17, <2>1 DEF Disconnect, Arrives, TypeOK, Fits, Ask, tables
<1>18. ASSUME NEW h \in Dashboards, NEW op \in Requests, ConnectReturns(h, op) PROVE TypeOK' /\ Fits'
  BY <1>18 DEF ConnectReturns, Arrives, TypeOK, Fits, tables
<1>19. ASSUME NEW h \in Dashboards, NEW op \in Requests, Connect(h, op) PROVE TypeOK' /\ Fits'
  <2>1. Renewed(sock', "starting") /\ NextIn(Ended) \in Sockets
    BY <1>19, ConnectRenews DEF Connect
  <2>2. ask' \in [Dashboards -> Ask]
    BY <1>19, <2>1 DEF Connect, TypeOK, Ask
  <2>3. sock' \in [Sockets -> Socket] /\ Fits'
    BY <2>1, RenewedFits
  <2>4. entry' = NoEntry /\ asked' \in Nat
    BY <1>19, Scalars DEF Connect, Arrives
  <2>5. UNCHANGED <<booting, store, saving, device, inbox, unpaired, faults, restarts>>
    BY <1>19 DEF Connect, tables
  <2>6. disconnecting' = FALSE /\ inFlight' = TRUE /\ started' = TRUE
    BY <1>19 DEF Connect
  <2> QED BY <2>2, <2>3, <2>4, <2>5, <2>6 DEF TypeOK
<1> QED BY <1>1, <1>2, <1>3, <1>4, <1>5, <1>6, <1>7, <1>8, <1>9, <1>11, <1>12, <1>13,
           <1>14, <1>15, <1>16, <1>17, <1>18, <1>19 DEF Next, Creating, Answering

-----------------------------------------------------------------------------
(* A tenant is in service, or will be. *)

Served == InService \/ \E k \in Sockets : Coming(k)

\* Some socket is live, or coming.
LEMMA ServedIsThere ==
  ASSUME TypeOK, Served
  PROVE  \E k \in Sockets : Live(k) \/ Coming(k)
  BY DEF Served, InService, TypeOK, Entry

LEMMA CreatedServes ==
  ASSUME TypeOK, NEW n \in Sockets, NEW stage \in {"clearing", "starting"}, sock'[n] = Created(stage)
  PROVE  Served'
  BY CreatedTyped DEF Served, Coming

\* The exceptions to service: a step that ends a boot starts the session, or the
\* query has failed.
LEMMA LeftOutStep ==
  ASSUME TypeOK, LeftOut => faults > 0, Next
  PROVE  LeftOut' => faults' > 0
<1> DEFINE Kept == /\ booting' = booting /\ started' = started
                   /\ faults' = faults \/ faults' = faults + 1
<1>0. ASSUME Kept PROVE LeftOut' => faults' > 0
  BY <1>0, Scalars DEF LeftOut
<1>1. CASE Boot
  BY <1>1, Scalars DEF Boot, LeftOut
<1>2. CASE Restart
  BY <1>2 DEF Restart, LeftOut
<1>3. ASSUME NEW k \in Sockets, Creating(k) PROVE Kept
  BY <1>3 DEF Creating, Wiped, ReadCreds, Make, counts
<1>4. ASSUME NEW k \in Sockets, Drop(k) \/ LoggedOut(k) PROVE Kept
  BY <1>4, CloseEvents
<1>5. ASSUME NEW k \in Sockets, Save(k) \/ Unlink(k) \/ Qr(k) \/ Scan(k) \/ Open(k) \/ Renew(k)
      PROVE  Kept
  BY <1>5 DEF Save, Unlink, Qr, Scan, Open, Renew, counts
<1>6. ASSUME NEW c \in Contacts, Reply(c) \/ \E k \in Sockets : Receive(k, c) PROVE Kept
  BY <1>6 DEF Reply, Receive, counts
<1>7. ASSUME NEW h \in Dashboards, Answering(h) \/ Disconnect(h) PROVE Kept
  BY <1>7 DEF Answering, Connected, SignOff, Disconnected, Disconnect, counts
<1>8. ASSUME NEW h \in Dashboards, NEW op \in Requests, ConnectReturns(h, op) PROVE Kept
  BY <1>8 DEF ConnectReturns
<1>9. ASSUME NEW h \in Dashboards, NEW op \in Requests, Connect(h, op) PROVE LeftOut' => faults' > 0
  BY <1>9 DEF Connect, LeftOut
<1> QED BY <1>0, <1>1, <1>2, <1>3, <1>4, <1>5, <1>6, <1>7, <1>8, <1>9 DEF Next

LEMMA ServiceStep ==
  ASSUME TypeOK, Fits, NeverAbandoned, Next
  PROVE  NeverAbandoned'
<1> SUFFICES ASSUME started', ~ disconnecting'
             PROVE  Served'
  BY LeftOutStep DEF NeverAbandoned, Served
<1>0. started /\ ~ disconnecting => Served
  BY DEF NeverAbandoned, Served
<1>2. CASE Restart
  <2>1. started' = FALSE
    BY <1>2 DEF Restart
  <2> QED BY <2>1
<1>3. ASSUME NEW k \in Sockets, Wiped(k) PROVE Served'
  BY <1>3, CreatedServes DEF Wiped, TypeOK
<1>4. ASSUME NEW k \in Sockets, ReadCreds(k) PROVE Served'
  <2>1. sock'[k].life = "read"
    BY <1>4, ReadEffect
  <2> QED BY <2>1 DEF Served, Coming
<1>5. ASSUME NEW k \in Sockets, Make(k) PROVE Served'
  <2>1. entry' # NoEntry /\ entry'.sock = k
    BY <1>5, SomeSocket DEF Make, NoEntry, Sockets
  <2>2. Live(k)'
    BY <1>5 DEF Make, Live, TypeOK
  <2> QED BY <2>1, <2>2 DEF Served, InService
\* Steps after which what was live is, and what was coming.
<1>6. ASSUME started' = started, disconnecting' = disconnecting,
             \A j \in Sockets : (Live(j) => Live(j)') /\ (Coming(j) => Coming(j)'),
             \/ entry' = NoEntry
             \/ entry # NoEntry /\ entry'.sock = entry.sock
      PROVE  Served'
  <2>1. Served
    BY <1>0, <1>6
  <2>2. CASE entry' = NoEntry
    BY <1>6, <2>1, <2>2, ServedIsThere DEF Served, InService
  <2>3. CASE entry' # NoEntry
    <3>1. entry # NoEntry /\ entry.sock \in Sockets /\ entry'.sock = entry.sock
      BY <1>6, <2>3 DEF TypeOK, Entry
    <3> QED BY <1>6, <2>1, <2>3, <3>1 DEF Served, InService
  <2> QED BY <2>2, <2>3
<1>1. CASE Boot
  <2>1. CASE sock' = sock /\ started' = started
    <3>1. \A j \in Sockets : (Live(j) => Live(j)') /\ (Coming(j) => Coming(j)')
      BY <2>1 DEF Live, Coming
    <3>2. disconnecting' = disconnecting /\ entry' = entry
      BY <1>1 DEF Boot
    <3>3. entry' = NoEntry \/ (entry # NoEntry /\ entry'.sock = entry.sock)
      BY <3>2
    <3> QED BY <1>6, <2>1, <3>1, <3>2, <3>3
  <2>2. CASE \E n \in Sockets : sock'[n] = Created("starting")
    BY <2>2, CreatedServes
  <2>3. \/ sock' = sock /\ started' = started
        \/ \E n \in Sockets : sock'[n] = Created("starting")
    BY <1>1, BootRenews
  <2> QED BY <2>1, <2>2, <2>3
<1>7. ASSUME NEW k \in Sockets, Qr(k) \/ Open(k) PROVE Served'
  <2>1. entry' = NoEntry \/ (entry # NoEntry /\ entry'.sock = entry.sock)
    <3>1. PICK status \in {"qr_pending", "ready"} : SaysStatus(status)
      BY <1>7 DEF Qr, Open
    <3>2. entry \in Entry \cup {NoEntry}
      BY DEF TypeOK
    <3> QED BY <3>1, <3>2 DEF SaysStatus, Entry
  <2>2. \A j \in Sockets : (Live(j) => Live(j)') /\ (Coming(j) => Coming(j)')
    <3>1. \A j \in Sockets : sock'[j].life = sock[j].life \/ (sock[j].life = "made" /\ sock'[j].life = "open")
      <4>1. CASE Qr(k)
        BY <4>1 DEF Qr
      <4>2. CASE Open(k)
        BY <4>2 DEF Open, TypeOK
      <4> QED BY <1>7, <4>1, <4>2
    <3> QED BY <3>1 DEF Live, Coming
  <2> QED BY <1>6, <1>7, <2>1, <2>2 DEF Qr, Open
<1>8. ASSUME NEW k \in Sockets, Scan(k) \/ Renew(k) \/ Unlink(k) PROVE Served'
  <2>1. entry' = NoEntry \/ (entry # NoEntry /\ entry'.sock = entry.sock)
    BY <1>8 DEF Scan, Renew, Unlink
  <2>2. \A j \in Sockets : (Live(j) => Live(j)') /\ (Coming(j) => Coming(j)')
    BY <1>8 DEF Scan, Renew, Unlink, Live, Coming
  <2> QED BY <1>6, <1>8, <2>1, <2>2 DEF Scan, Renew, Unlink
<1>9. ASSUME NEW c \in Sockets, Save(c) PROVE Served'
  <2>1. \A j \in Sockets : sock'[j].life = sock[j].life
    <3>1. \A j \in Sockets : sock'[j] = [sock[j] EXCEPT !.behind = @ \ {c}] /\ sock[j] \in Socket
      BY <1>9 DEF Save, Released, TypeOK
    <3> QED BY <3>1 DEF Socket
  <2>2. entry' = NoEntry \/ (entry # NoEntry /\ entry'.sock = entry.sock)
    BY <1>9 DEF Save
  <2> QED BY <1>6, <1>9, <2>1, <2>2 DEF Save, Live, Coming
<1>10. ASSUME NEW k \in Sockets, Drop(k) \/ LoggedOut(k) PROVE Served'
  <2>1. PICK out \in BOOLEAN : Closes(k, out)
    BY <1>10, CloseEvents
  <2>2. ~ disconnecting /\ Live(k)
    BY <1>10, CloseEvents
  <2>3. \E n \in Sockets : sock'[n] = Created(Reopens(out))
    BY <2>1, <2>2, ClosesRenews DEF Closes
  <2> QED BY <2>3, CreatedServes DEF Reopens
<1>11. ASSUME NEW k \in Sockets, NEW c \in Contacts, Receive(k, c) PROVE Served'
  <2>1. entry # NoEntry /\ entry'.sock = entry.sock
    BY <1>11 DEF Receive, TypeOK, Entry
  <2>2. \A j \in Sockets : (Live(j) => Live(j)') /\ (Coming(j) => Coming(j)')
    BY <1>11 DEF Receive, Live, Coming
  <2> QED BY <1>6, <1>11, <2>1, <2>2 DEF Receive
<1>12. ASSUME NEW c \in Contacts, Reply(c) PROVE Served'
  <2>1. \A j \in Sockets : (Live(j) => Live(j)') /\ (Coming(j) => Coming(j)')
    BY <1>12 DEF Reply, Live, Coming
  <2> QED BY <1>6, <1>12, <2>1 DEF Reply
<1>13. ASSUME NEW h \in Dashboards, Connected(h) \/ Disconnected(h) PROVE Served'
  <2>1. \A j \in Sockets : (Live(j) => Live(j)') /\ (Coming(j) => Coming(j)')
    BY <1>13 DEF Connected, Disconnected, Live, Coming
  <2> QED BY <1>6, <1>13, <2>1 DEF Connected, Disconnected
\* The entry goes, and with it the socket, but for one that replaced it.
<1>14. ASSUME NEW h \in Dashboards, SignOff(h) PROVE Served'
  <2> DEFINE k == ask[h].sock
  <2>1. CASE k # 0 /\ Live(k)
    <3>1. k \in Sockets /\ ~ disconnecting
      BY <1>14, <2>1 DEF SignOff, TypeOK, Ask
    <3>2. PICK ok \in BOOLEAN : Room(1) /\ sock' = SocketsAfterClose(k, ok, disconnecting)
      BY <1>14, <2>1, <3>1 DEF SignOff
    <3>3. \E n \in Sockets : sock'[n] = Created(Reopens(ok))
      BY <2>1, <3>1, <3>2, ClosesRenews
    <3> QED BY <3>3, CreatedServes DEF Reopens
  <2>2. CASE ~ (k # 0 /\ Live(k))
    <3>1. sock' = sock /\ entry' = NoEntry /\ started' = started /\ disconnecting' = disconnecting
      BY <1>14, <2>2 DEF SignOff
    <3> QED BY <1>6, <3>1 DEF Live, Coming
  <2> QED BY <2>1, <2>2
<1>15. ASSUME NEW h \in Dashboards, Disconnect(h) PROVE Served'
  BY <1>15 DEF Disconnect
<1>16. ASSUME NEW h \in Dashboards, NEW op \in Requests, ConnectReturns(h, op) PROVE Served'
  <2>1. \A j \in Sockets : (Live(j) => Live(j)') /\ (Coming(j) => Coming(j)')
    BY <1>16 DEF ConnectReturns, Live, Coming
  <2> QED BY <1>6, <1>16, <2>1 DEF ConnectReturns
<1>17. ASSUME NEW h \in Dashboards, NEW op \in Requests, Connect(h, op) PROVE Served'
  BY <1>17, ConnectRenews, CreatedServes DEF Connect
<1> QED BY <1>1, <1>2, <1>3, <1>4, <1>5, <1>7, <1>8, <1>9, <1>10, <1>11, <1>12, <1>13,
           <1>14, <1>15, <1>16, <1>17 DEF Next, Creating, Answering

-----------------------------------------------------------------------------
(* The pairing. *)

LEMMA LinkedSame ==
  ASSUME device' = device
  PROVE  Linked' = Linked
  BY DEF Linked

\* A session that starts now reads credentials of a linked device, or waits for
\* them to be saved.
LEMMA NewResumes ==
  ASSUME TypeOK, Paired
  PROVE  /\ Resumes(Created("starting"), saving, store, Linked)
         /\ Resumes(Gone, saving, store, Linked)
<1>1. Created("starting").resumes => saving # {} \/ store \in Linked
  BY CreatedTyped DEF Paired
<1> QED BY <1>1, CreatedTyped DEF Resumes

LEMMA RenewedPaired ==
  ASSUME TypeOK, Paired, Renewed(sock', "starting"),
         saving' = saving, store' = store, device' = device,
         \A h \in Dashboards : ask'[h].at \notin {"logout", "clear"}
  PROVE  Paired'
<1>1. Linked' = Linked
  BY LinkedSame
<1>2. \A k \in Sockets : Resumes(sock'[k], saving, store, Linked)
  BY NewResumes DEF Renewed, Paired
<1>3. \A k \in Sockets : Resumes(sock'[k], saving', store', Linked')
  BY <1>1, <1>2
<1> QED BY <1>1, <1>3 DEF Paired

\* A socket, whatever else, keeps resuming when more devices are linked and
\* more keys are being saved.
LEMMA ResumesMore ==
  ASSUME NEW r, NEW sv, NEW st, NEW L, Resumes(r, sv, st, L), NEW c
  PROVE  Resumes(r, sv \cup {c}, st, L \cup {c}) /\ (c \in L => Resumes(r, sv \cup {c}, st, L))
  BY DEF Resumes

\* One socket changes, and nothing the pairing is about besides.
LEMMA OneSocketPaired ==
  ASSUME TypeOK, Paired, NEW k \in Sockets,
         \A j \in Sockets \ {k} : sock'[j] = sock[j],
         Resumes(sock'[k], saving, store, Linked),
         saving' = saving, store' = store, device' = device, ask' = ask
  PROVE  Paired'
<1>1. Linked' = Linked
  BY LinkedSame
<1>2. \A j \in Sockets : Resumes(sock'[j], saving', store', Linked')
  BY <1>1 DEF Paired
<1> QED BY <1>1, <1>2 DEF Paired

\* Nothing changes but who asks.
LEMMA AskPaired ==
  ASSUME Paired, sock' = sock, saving' = saving, store' = store, device' = device,
         \A h \in Dashboards : ask'[h].at \in {ask[h].at, "idle"}
  PROVE  Paired'
<1>1. Linked' = Linked
  BY LinkedSame
<1>2. \A j \in Sockets : Resumes(sock'[j], saving', store', Linked')
  BY <1>1 DEF Paired
<1>3. \A h \in Dashboards : ask'[h].at \notin {"logout", "clear"}
  BY DEF Paired
<1> QED BY <1>1, <1>2, <1>3 DEF Paired

LEMMA PairStep ==
  ASSUME TypeOK, Fits, PairInv, Next
  PROVE  PairInv'
<1> SUFFICES ASSUME ~ unpaired'
             PROVE  Paired'
  BY DEF PairInv
<1>0. ASSUME unpaired' = unpaired PROVE Paired
  BY <1>0 DEF PairInv
<1>1. CASE Boot
  <2>1. Paired /\ ask' = ask /\ saving' = saving /\ store' = store /\ device' = device
    BY <1>0, <1>1 DEF Boot, tables
  <2>2. Renewed(sock', "starting")
    BY <1>1, BootRenews
  <2> QED BY <2>1, <2>2, RenewedPaired DEF Paired
<1>2. CASE Restart
  <2>1. Paired /\ saving = {} /\ saving' = {} /\ store' = store /\ device' = device
    BY <1>2 DEF Restart, PairInv
  <2>2. ASSUME NEW k \in Sockets PROVE Resumes(sock'[k], saving, store, Linked)
    <3>1. sock'[k] = sock[k] \/ sock'[k] = Gone
      BY <1>2 DEF Restart
    <3> QED BY <2>1, <3>1, NewResumes DEF Paired
  <2>3. Linked' = Linked
    BY <2>1, LinkedSame
  <2>4. \A h \in Dashboards : ask'[h].at \notin {"logout", "clear"}
    BY <1>2 DEF Restart, Rested
  <2> QED BY <2>1, <2>2, <2>3, <2>4 DEF Paired
\* A session that wipes what is stored is made by a refusal.
<1>3. ASSUME NEW k \in Sockets, Wiped(k) PROVE FALSE
  <2>1. Paired /\ sock[k].life = "clearing"
    BY <1>0, <1>3 DEF Wiped
  <2> QED BY <2>1 DEF Paired, Resumes
<1>4. ASSUME NEW k \in Sockets, ReadCreds(k) PROVE Paired'
  <2>1. /\ Paired /\ saving' = saving /\ store' = store /\ device' = device /\ ask' = ask
        /\ sock[k].life = "starting" /\ sock[k].behind = {}
    BY <1>0, <1>4 DEF ReadCreds, ReadsCreds, tables
  <2>2. sock[k].resumes => store \in Linked
    BY <2>1 DEF Paired, Resumes
  <2>3. 0 \notin Linked
    BY SomeSocket DEF Linked, Sockets
  <2>4. sock'[k].resumes => sock'[k].creds \in Linked
    BY <1>4, <2>2, <2>3, ReadEffect
  <2>5. sock'[k].life = "read"
    BY <1>4, ReadEffect
  <2>6. Resumes(sock'[k], saving, store, Linked)
    BY <2>4, <2>5 DEF Resumes
  <2> QED BY <1>4, <2>1, <2>6, ReadEffect, OneSocketPaired
<1>5. ASSUME NEW k \in Sockets, Make(k) PROVE Paired'
  <2>1. Paired /\ saving' = saving /\ store' = store /\ device' = device /\ ask' = ask
    BY <1>0, <1>5 DEF Make, tables
  <2>2. /\ sock[k].life = "read" /\ sock'[k] = [sock[k] EXCEPT !.life = "made"] /\ sock[k] \in Socket
        /\ \A j \in Sockets \ {k} : sock'[j] = sock[j]
    BY <1>5 DEF Make, TypeOK
  <2>3. sock'[k].life = "made" /\ sock'[k].creds = sock[k].creds /\ sock'[k].resumes = sock[k].resumes
    BY <2>2 DEF Socket
  <2>4. Resumes(sock[k], saving, store, Linked)
    BY <2>1 DEF Paired
  <2>5. Resumes(sock'[k], saving, store, Linked)
    BY <2>2, <2>3, <2>4 DEF Resumes
  <2> QED BY <2>1, <2>2, <2>5, OneSocketPaired
<1>6. ASSUME NEW k \in Sockets, Open(k) PROVE Paired'
  <2>1. Paired /\ saving' = saving /\ store' = store /\ device' = device /\ ask' = ask
    BY <1>0, <1>6 DEF Open, tables
  <2>2. /\ sock[k].life = "made" /\ sock'[k] = [sock[k] EXCEPT !.life = "open"] /\ sock[k] \in Socket
        /\ \A j \in Sockets \ {k} : sock'[j] = sock[j]
        /\ device[sock[k].creds] = "linked"
    BY <1>6 DEF Open, TypeOK
  <2>3. sock'[k].life = "open" /\ sock'[k].creds = sock[k].creds
    BY <2>2 DEF Socket
  <2>4. sock[k].creds \in Linked
    BY <2>2 DEF Fits, Socket, Linked
  <2>5. Resumes(sock'[k], saving, store, Linked)
    BY <2>3, <2>4 DEF Resumes
  <2> QED BY <2>1, <2>2, <2>5, OneSocketPaired
<1>7. ASSUME NEW k \in Sockets, Scan(k) PROVE Paired'
  <2> DEFINE c == sock[k].creds
  <2>1. /\ Paired /\ sock' = sock /\ store' = store /\ ask' = ask /\ saving' = saving \cup {c}
        /\ device' = [device EXCEPT ![c] = "linked"]
    BY <1>0, <1>7 DEF Scan
  <2>2. c \in Sockets
    BY <1>7 DEF Scan, TypeOK, Fits, Socket
  <2> HIDE DEF c
  <2>3. Linked' = Linked \cup {c} /\ (\A d \in Sockets : device'[d] \in {device[d], "linked"})
    BY <2>1, <2>2 DEF Linked, TypeOK
  <2>4. \A j \in Sockets : Resumes(sock'[j], saving', store', Linked')
    BY <2>1, <2>3, ResumesMore DEF Paired
  <2> QED BY <2>1, <2>3, <2>4 DEF Paired
<1>8. ASSUME NEW k \in Sockets, Renew(k) PROVE Paired'
  <2> DEFINE c == sock[k].creds
  <2>1. /\ Paired /\ sock' = sock /\ store' = store /\ ask' = ask /\ saving' = saving \cup {c}
        /\ device' = device
    BY <1>0, <1>8 DEF Renew
  <2>2. c \in Linked
    BY <1>8, <2>1 DEF Renew, Paired, Resumes
  <2> HIDE DEF c
  <2>3. Linked' = Linked
    BY <2>1, LinkedSame
  <2>4. \A j \in Sockets : Resumes(sock'[j], saving', store', Linked')
    BY <2>1, <2>2, <2>3, ResumesMore DEF Paired
  <2> QED BY <2>1, <2>2, <2>3, <2>4 DEF Paired
<1>9. ASSUME NEW c \in Sockets, Save(c) PROVE Paired'
  <2>1. Paired /\ c \in saving /\ saving' = saving \ {c} /\ store' = c /\ device' = device /\ ask' = ask
    BY <1>0, <1>9 DEF Save
  <2>2. Linked' = Linked /\ c \in Linked
    BY <2>1, LinkedSame DEF Paired
  <2>3. ASSUME NEW j \in Sockets PROVE Resumes(sock'[j], saving', store', Linked')
    <3>1. sock'[j] = [sock[j] EXCEPT !.behind = @ \ {c}] /\ sock[j] \in Socket
      BY <1>9 DEF Save, Released, TypeOK
    <3>2. /\ sock'[j].life = sock[j].life /\ sock'[j].creds = sock[j].creds
          /\ sock'[j].resumes = sock[j].resumes /\ sock'[j].behind = sock[j].behind \ {c}
      BY <3>1 DEF Socket
    <3>3. Resumes(sock[j], saving, store, Linked)
      BY <2>1 DEF Paired
    <3> QED BY <2>1, <2>2, <3>2, <3>3 DEF Resumes
  <2> QED BY <2>1, <2>2, <2>3 DEF Paired
<1>10. ASSUME NEW k \in Sockets, Unlink(k) \/ LoggedOut(k) PROVE FALSE
  <2>1. CASE Unlink(k)
    BY <2>1 DEF Unlink
  <2>2. CASE LoggedOut(k)
    <3>1. sock[k].creds \in Sockets
      BY <2>2 DEF LoggedOut, Live, Fits, TypeOK, Socket
    <3>2. Paired
      BY <1>0, <2>2 DEF LoggedOut
    <3> QED BY <2>2, <3>1, <3>2 DEF LoggedOut, Paired
  <2> QED BY <1>10, <2>1, <2>2
<1>11. ASSUME NEW k \in Sockets, Drop(k) PROVE Paired'
  <2>1. Paired /\ saving' = saving /\ store' = store /\ device' = device /\ ask' = ask
    BY <1>0, <1>11 DEF Drop, tables
  <2>2. Renewed(sock', Reopens(FALSE))
    BY <1>11, ClosesRenews DEF Drop, Closes
  <2>3. Renewed(sock', "starting")
    BY <2>2 DEF Reopens
  <2> QED BY <2>1, <2>3, RenewedPaired DEF Paired
<1>12. ASSUME NEW k \in Sockets, Qr(k) \/ (\E c \in Contacts : Receive(k, c)) PROVE Paired'
  <2>1. /\ sock' = sock /\ saving' = saving /\ store' = store /\ device' = device /\ ask' = ask
        /\ unpaired' = unpaired
    BY <1>12 DEF Qr, Receive, tables
  <2> QED BY <1>0, <2>1, AskPaired
<1>13. ASSUME NEW c \in Contacts, Reply(c) PROVE Paired'
  <2>1. /\ sock' = sock /\ saving' = saving /\ store' = store /\ device' = device /\ ask' = ask
        /\ unpaired' = unpaired
    BY <1>13 DEF Reply, tables
  <2> QED BY <1>0, <2>1, AskPaired
<1>14. ASSUME NEW h \in Dashboards, Connected(h) PROVE Paired'
  <2>1. /\ sock' = sock /\ saving' = saving /\ store' = store /\ device' = device
        /\ unpaired' = unpaired
    BY <1>14 DEF Connected, tables
  <2>2. \A g \in Dashboards : ask'[g].at \in {ask[g].at, "idle"}
    BY <1>14 DEF Connected, TypeOK, Rested
  <2> QED BY <1>0, <2>1, <2>2, AskPaired
\* A disconnect gives the pairing up.
<1>15. ASSUME NEW h \in Dashboards, SignOff(h) \/ Disconnected(h) \/ Disconnect(h) PROVE FALSE
  <2>1. CASE Disconnect(h)
    BY <2>1 DEF Disconnect
  <2>2. CASE SignOff(h)
    <3>1. ask[h].at = "logout" /\ Paired
      BY <1>0, <2>2 DEF SignOff
    <3> QED BY <3>1 DEF Paired
  <2>3. CASE Disconnected(h)
    <3>1. ask[h].at = "clear" /\ Paired
      BY <1>0, <2>3 DEF Disconnected
    <3> QED BY <3>1 DEF Paired
  <2> QED BY <1>15, <2>1, <2>2, <2>3
<1>16. ASSUME NEW h \in Dashboards, NEW op \in Requests, ConnectReturns(h, op) PROVE Paired'
  <2>1. /\ sock' = sock /\ saving' = saving /\ store' = store /\ device' = device /\ ask' = ask
        /\ unpaired' = unpaired
    BY <1>16 DEF ConnectReturns, tables
  <2> QED BY <1>0, <2>1, AskPaired
<1>17. ASSUME NEW h \in Dashboards, NEW op \in Requests, Connect(h, op) PROVE Paired'
  <2>1. Paired /\ saving' = saving /\ store' = store /\ device' = device
    BY <1>0, <1>17 DEF Connect, tables
  <2>2. Renewed(sock', "starting")
    BY <1>17, ConnectRenews DEF Connect
  <2>3. ask' = [ask EXCEPT ![h] = [at |-> "creating", sock |-> NextIn(Ended)]]
    BY <1>17 DEF Connect
  <2>4. \A g \in Dashboards : ask'[g].at \notin {"logout", "clear"}
    BY <2>1, <2>3 DEF Paired, TypeOK
  <2> QED BY <2>1, <2>2, <2>4, RenewedPaired
<1> QED BY <1>1, <1>2, <1>3, <1>4, <1>5, <1>6, <1>7, <1>8, <1>9, <1>10, <1>11, <1>12, <1>13,
           <1>14, <1>15, <1>16, <1>17 DEF Next, Creating, Answering

-----------------------------------------------------------------------------
(* The invariant, from which the properties follow. *)

LEMMA BridgeInit ==
  Init => BridgeInv
<1> SUFFICES ASSUME Init PROVE BridgeInv
  OBVIOUS
<1>1. TypeOK
  <2>1. sock \in [Sockets -> Socket]
    BY DEF Init, Unused, Socket
  <2>2. ask \in [Dashboards -> Ask]
    BY DEF Init, Rested, Ask
  <2>3. store \in Sockets \cup {0} /\ saving \subseteq Sockets /\ inbox \subseteq Contacts
    BY DEF Init
  <2>4. device \in [Sockets -> {"fresh", "linked", "revoked"}]
    BY DEF Init
  <2>5. {asked, faults, restarts} \subseteq Nat
    BY DEF Init
  <2>6. entry \in Entry \cup {NoEntry} /\ {disconnecting, inFlight, booting, started, unpaired} \subseteq BOOLEAN
    BY DEF Init
  <2> QED BY <2>1, <2>2, <2>3, <2>4, <2>5, <2>6 DEF TypeOK
<1>2. Fits /\ NeverAbandoned
  BY DEF Init, Fits, Unused, NeverAbandoned, LeftOut
<1>3. Paired
  <2>1. Linked = {}
    BY DEF Init, Linked
  <2>2. \A k \in Sockets : Resumes(sock[k], saving, store, Linked)
    BY DEF Init, Unused, Resumes
  <2>3. \A c \in Sockets : device[c] # "revoked"
    BY DEF Init
  <2>4. \A h \in Dashboards : ask[h].at \notin {"logout", "clear"}
    BY DEF Init, Rested
  <2>5. saving = {}
    BY DEF Init
  <2> QED BY <2>1, <2>2, <2>3, <2>4, <2>5 DEF Paired
<1> QED BY <1>1, <1>2, <1>3 DEF BridgeInv, PairInv

LEMMA BridgeStep ==
  BridgeInv /\ [Next]_vars => BridgeInv'
<1> SUFFICES ASSUME BridgeInv, [Next]_vars PROVE BridgeInv'
  OBVIOUS
<1> USE DEF BridgeInv
<1>1. CASE Next
  BY <1>1, TypeStep, PairStep, ServiceStep
<1>2. CASE UNCHANGED vars
  <2>1. TypeOK' /\ Fits'
    BY <1>2 DEF vars, TypeOK, Fits
  <2>2. PairInv'
    <3>1. Paired => Paired'
      BY <1>2, AskPaired DEF vars
    <3> QED BY <1>2, <3>1 DEF PairInv, vars
  <2>3. NeverAbandoned'
    BY <1>2 DEF vars, NeverAbandoned, LeftOut, InService, Live, Coming
  <2> QED BY <2>1, <2>2, <2>3
<1> QED BY <1>1, <1>2

LEMMA Bridged == Spec => []BridgeInv
  BY BridgeInit, BridgeStep, PTL DEF Spec

\* Sockets, the tenant's entry and its requests always have their types.
THEOREM TypesHold == Spec => []TypeOK
<1>1. BridgeInv => TypeOK
  BY DEF BridgeInv
<1> QED BY <1>1, Bridged, PTL

\* However closes, connects, disconnects and restarts overlap, a tenant that is not
\* being disconnected has a live socket or a session in the making, but for one that
\* a boot, unable to ask for the tenants, has left out.
THEOREM TenantsAreServed == Spec => []NeverAbandoned
<1>1. BridgeInv => NeverAbandoned
  BY DEF BridgeInv
<1> QED BY <1>1, Bridged, PTL

\* A paired device's keys are stored, or being written, until the pairing is
\* given up: no close, failed read or second socket loses them.
THEOREM PairingsAreKept == Spec => []PairingIsKept
<1>1. BridgeInv => PairingIsKept
  BY DEF BridgeInv, PairInv, Paired, PairingIsKept
<1> QED BY <1>1, Bridged, PTL

\* A session created once a device is paired resumes it, and shows no QR code,
\* also when it had to wait for the keys to be written.
THEOREM ScansAreSingle == Spec => []NoSecondScan
<1>1. ASSUME BridgeInv PROVE NoSecondScan
  BY <1>1 DEF BridgeInv, PairInv, Paired, Resumes, NoSecondScan, Live
<1> QED BY <1>1, Bridged, PTL
=============================================================================

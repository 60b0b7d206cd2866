-------------------------- MODULE CatalogSync_proofs --------------------------
(***************************************************************************)
(* For every shop, every number of processes and tasks and every bound:    *)
(* the types, and that no more syncs of a source work at once than the     *)
(* slow ones account for.                                                  *)
(***************************************************************************)
EXTENDS CatalogSync, FiniteSetTheorems, TLAPS

-----------------------------------------------------------------------------
(* Types. *)

LEMMA FreshTask ==
  /\ Idle \in Task
  /\ \A p \in Processes : \A at \in {"claim", "fail", "read"} : AsTask(at, p) \in Task
  <1>1. \A p \in Processes : \A at \in {"idle", "claim", "fail", "read"} : AsTask(at, p) \in Task
    BY DEF AsTask, Task, NoRow, Row, Pages
  <1>2. (CHOOSE p \in Processes : TRUE) \in Processes
    BY SomeProcess
  <1> QED BY <1>1, <1>2 DEF Idle

\* A task that goes on stays a task, whatever it has read on the way.
LEMMA TaskGoesOn ==
  ASSUME NEW task \in Task, NEW at \in {"fetch", "read", "commit"}
  PROVE  /\ \A known \in [Ids -> Pages \cup {"none"}] : [task EXCEPT !.at = at, !.known = known] \in Task
         /\ \A seen \in [Ids -> Pages \cup {"unchanged"}] : [task EXCEPT !.seen = seen] \in Task
         /\ \A old \in [Ids -> Row] : [task EXCEPT !.at = at, !.old = old] \in Task
  <1>1. [task EXCEPT !.at = at] \in Task BY DEF Task
  <1>2. \A known \in [Ids -> Pages \cup {"none"}] : [[task EXCEPT !.at = at] EXCEPT !.known = known] \in Task
    BY <1>1 DEF Task
  <1>3. \A old \in [Ids -> Row] : [[task EXCEPT !.at = at] EXCEPT !.old = old] \in Task
    BY <1>1 DEF Task
  <1>4. \A seen \in [Ids -> Pages \cup {"unchanged"}] : [task EXCEPT !.seen = seen] \in Task
    BY DEF Task
  <1> QED BY <1>2, <1>3, <1>4

LEMMA AppliedType ==
  ASSUME NEW row \in Row, NEW page \in Pages \cup {"unchanged"}, NEW x \in Ids
  PROVE  Applied(row, page, x) \in Row
  <1>1. CASE page = "unchanged" BY <1>1 DEF Applied
  <1>2. CASE page = "absent" BY <1>2 DEF Applied, Row
  <1>3. CASE page \notin {"unchanged", "absent"} BY <1>3 DEF Applied, Row, Pages
  <1> QED BY <1>1, <1>2, <1>3

\* Whatever is read, by whichever reader, the task goes on as a task.
LEMMA ReadsType ==
  ASSUME TypeOK, NEW t \in Tasks, NEW reader, NEW lost, Reads(t, Listed(t, reader, lost))
  PROVE  sync' \in [Tasks -> Task]
  <1> DEFINE seen == Listed(t, reader, lost)
  <1>1. seen \in [Ids -> Pages \cup {"unchanged"}]
    BY IdsNameItems DEF TypeOK, Listed, Pages
  <1>2. sync[t].proc \in Processes BY DEF TypeOK, Task
  <1>3. AsTask("fail", sync[t].proc) \in Task /\ AsTask("read", sync[t].proc) \in Task
    BY <1>2, FreshTask
  <1> HIDE DEF seen
  <1>4. [AsTask("read", sync[t].proc) EXCEPT !.seen = seen] \in Task
    BY <1>1, <1>3 DEF Task
  <1> QED BY <1>3, <1>4 DEF TypeOK, Reads, Fails, seen

LEMMA TypesInit == Init => TypeOK
  <1> SUFFICES ASSUME Init PROVE TypeOK
    OBVIOUS
  <1>1. sync \in [Tasks -> Task]
    BY FreshTask DEF Init
  <1>2. site \in [Items -> Pages]
    BY AtFirstArePages DEF Init, Pages
  <1>3. rows \in [Ids -> Row] /\ removal \in Removal
    BY DEF Init, Row, NoRow, Removal, NoRemoval, Pages
  <1> QED BY <1>1, <1>2, <1>3 DEF Init, TypeOK, Source

LEMMA TypesStep == TypeOK /\ [Next]_vars => TypeOK'
  <1> SUFFICES ASSUME TypeOK, [Next]_vars PROVE TypeOK'
    OBVIOUS
  <1> USE BoundsAreNaturals DEF TypeOK
  <1>1. ASSUME NEW t \in Tasks, Claim(t) PROVE TypeOK'
    <2>1. source' \in Source BY <1>1 DEF Claim, Source
    <2>2. [x \in Ids |-> rows[x].hash] \in [Ids -> Pages \cup {"none"}]
      BY DEF Row
    <2>3. sync[t] \in Task OBVIOUS
    <2>4. [sync[t] EXCEPT !.at = "fetch", !.known = [x \in Ids |-> rows[x].hash]] \in Task
      BY <2>2, <2>3, TaskGoesOn
    <2>5. sync' \in [Tasks -> Task] BY <1>1, <2>4 DEF Claim
    <2> QED BY <1>1, <2>1, <2>5 DEF Claim
  <1>2. ASSUME NEW t \in Tasks, Done(t) PROVE sync' \in [Tasks -> Task] /\ running' \subseteq Processes
    BY <1>2, FreshTask DEF Done
  <1>3. ASSUME NEW t \in Tasks, Skip(t) PROVE TypeOK'
    BY <1>2, <1>3 DEF Skip
  <1>4. ASSUME NEW t \in Tasks, FetchTable(t) \/ FetchStore(t) \/ FetchPages(t) PROVE TypeOK'
    <2>1. sync' \in [Tasks -> Task]
      BY <1>4, ReadsType DEF FetchTable, FetchStore, FetchPages
    <2>2. events' \in Nat BY <1>4 DEF FetchTable, FetchStore, FetchPages, Event
    <2> QED BY <1>4, <2>1, <2>2 DEF FetchTable, FetchStore, FetchPages
  <1>5. ASSUME NEW t \in Tasks, ReadRows(t) PROVE TypeOK'
    <2>1. sync[t] \in Task /\ rows \in [Ids -> Row] OBVIOUS
    <2>2. [sync[t] EXCEPT !.at = "commit", !.old = rows] \in Task BY <2>1, TaskGoesOn
    <2>3. sync' \in [Tasks -> Task] BY <1>5, <2>2 DEF ReadRows
    <2> QED BY <1>5, <2>3 DEF ReadRows
  <1>6. ASSUME NEW t \in Tasks, CommitRows(t) PROVE TypeOK'
    <2>1. \A x \in Ids : New(t, x) \in Row
      BY AppliedType DEF New, Task
    <2>2. \A x \in Ids : sync[t].old[x] \in Row BY DEF Task
    <2>3. rows' \in [Ids -> Row] BY <1>6, <2>1, <2>2 DEF CommitRows, Row
    <2>4. source' \in Source BY <1>6 DEF CommitRows, Source
    <2> QED BY <1>2, <1>6, <2>3, <2>4 DEF CommitRows
  <1>7. ASSUME NEW t \in Tasks, Raise(t) PROVE TypeOK'
    <2>1. sync[t].proc \in Processes BY DEF Task
    <2>2. sync' \in [Tasks -> Task] BY <1>7, <2>1, FreshTask DEF Raise, Fails
    <2>3. events' \in Nat BY <1>7 DEF Raise, Event
    <2> QED BY <1>7, <2>2, <2>3 DEF Raise
  <1>8. ASSUME NEW t \in Tasks, RecordError(t) PROVE TypeOK'
    <2>1. source' \in Source BY <1>8 DEF RecordError, Source
    <2> QED BY <1>2, <1>8, <2>1 DEF RecordError
  <1>9. ASSUME NEW t \in Tasks, Crash(t) PROVE TypeOK'
    BY <1>2, <1>9 DEF Crash, Event
  <1>10. ASSUME NEW p \in Processes, TriggerSync(p)
         PROVE sync' \in [Tasks -> Task] /\ running' \subseteq Processes
    BY <1>10, FreshTask DEF TriggerSync
  <1>11. ASSUME NEW p \in Processes, Tick(p) PROVE TypeOK'
    BY <1>10, <1>11 DEF Tick
  <1>12. ASSUME NEW p \in Processes, Ask(p) PROVE TypeOK'
    BY <1>10, <1>12 DEF Ask, Event
  <1>13. ASSUME NEW p \in Processes, Restart(p) PROVE TypeOK'
    BY <1>13, FreshTask DEF Restart, Event
  <1>14. CASE Age
    BY <1>14 DEF Age, Source
  <1>15. CASE Edit
    <2>1. PICK i \in Sold : \E page \in Pages \ {site[i]} : site' = [site EXCEPT ![i] = page]
      BY <1>15 DEF Edit
    <2>2. site' \in [Items -> Pages] BY <2>1
    <2> QED BY <1>15, <2>2 DEF Edit, Event
  <1>16. CASE SellOrReturn
    <2>1. PICK x \in Ids : rows' = [rows EXCEPT ![x].shown = ~ @] BY <1>16 DEF SellOrReturn
    <2>2. rows' \in [Ids -> Row] BY <2>1 DEF Row
    <2> QED BY <1>16, <2>2 DEF SellOrReturn, Event
  <1>17. CASE Toggle
    <2>1. source' \in Source BY <1>17 DEF Toggle, Source
    <2>2. events' \in Nat BY <1>17 DEF Toggle, Event
    <2> QED BY <1>17, <2>1, <2>2 DEF Toggle
  <1>18. CASE RemoveProducts
    <2>1. removal' \in Removal BY <1>18 DEF RemoveProducts, Removal
    <2> QED BY <1>18, <2>1 DEF RemoveProducts, Event
  <1>19. CASE RemoveSource
    <2>1. rows' \in [Ids -> Row] BY <1>19 DEF RemoveSource, NoRow, Row
    <2>2. removal' \in Removal /\ source' \in Source
      BY <1>19 DEF RemoveSource, Removal, NoRemoval, Source
    <2> QED BY <1>19, <2>1, <2>2 DEF RemoveSource
  <1>20. CASE RemovalFails
    BY <1>20 DEF RemovalFails, Removal, NoRemoval, Event
  <1>21. CASE UNCHANGED vars
    BY <1>21 DEF vars
  <1> QED
    BY <1>1, <1>3, <1>4, <1>5, <1>6, <1>7, <1>8, <1>9, <1>11, <1>12, <1>13, <1>14,
       <1>15, <1>16, <1>17, <1>18, <1>19, <1>20, <1>21 DEF Next, Step

\* The rows, the source and the tasks keep their types, whatever is synced.
THEOREM TypesHold == Spec => []TypeOK
  BY TypesInit, TypesStep, PTL DEF Spec

-----------------------------------------------------------------------------
(* Who may claim.  The syncs at work are one more than the slow ones only     *)
(* while the source cannot be claimed.                                        *)

Room == 1 + slow - (IF Claimable THEN 1 ELSE 0)

ClaimInv == Cardinality(Workers) <= Room

LEMMA WorkersAreFinite ==
  IsFiniteSet(Workers) /\ Cardinality(Workers) \in Nat
  BY TasksAreFinite, FS_Subset, FS_CardinalityType DEF Workers

\* A task that ends, or that dies, works no more.
LEMMA DoneWorkers ==
  ASSUME TypeOK, NEW t \in Tasks, Done(t)
  PROVE  /\ Workers' = Workers \ {t}
         /\ IsFiniteSet(Workers')
         /\ Cardinality(Workers') = IF t \in Workers THEN Cardinality(Workers) - 1
                                    ELSE Cardinality(Workers)
  <1>1. \A u \in Tasks : Working(u)' = (Working(u) /\ u # t)
    BY DEF TypeOK, Done, Working, Idle, AsTask
  <1>2. Workers' = Workers \ {t} BY <1>1 DEF Workers
  <1> QED BY <1>2, WorkersAreFinite, FS_RemoveElement

LEMMA ClaimInit == Init => ClaimInv
  <1> SUFFICES ASSUME Init PROVE ClaimInv
    OBVIOUS
  <1>1. Workers = {} BY DEF Init, Workers, Working, Idle, AsTask
  <1> QED BY <1>1, FS_EmptySet DEF Init, ClaimInv, Room

LEMMA ClaimStep == TypeOK /\ ClaimInv /\ [Next]_vars => ClaimInv'
  <1> SUFFICES ASSUME TypeOK, ClaimInv, [Next]_vars PROVE ClaimInv'
    OBVIOUS
  <1> DEFINE C == Cardinality(Workers)
  <1>a. C \in Nat /\ slow \in Nat BY WorkersAreFinite DEF TypeOK
  \* Steps that leave the workers and the claim as they are.
  <1>b. ASSUME \A u \in Tasks : Working(u)' = Working(u), UNCHANGED slow,
               Claimable' = Claimable
        PROVE  ClaimInv'
    <2>1. Workers' = Workers BY <1>b DEF Workers
    <2> QED BY <1>b, <2>1 DEF ClaimInv, Room
  <1>1. ASSUME NEW t \in Tasks, Claim(t) PROVE ClaimInv'
    <2>1. ~ Working(t) /\ \A u \in Tasks : Working(u)' = (Working(u) \/ u = t)
      BY <1>1 DEF Claim, Working, TypeOK, Task
    <2>2. Workers' = Workers \cup {t} /\ t \notin Workers BY <2>1 DEF Workers
    <2>3. Cardinality(Workers') = C + 1 BY <2>2, WorkersAreFinite, FS_AddElement
    <2>4. Claimable /\ ~ Claimable' BY <1>1 DEF Claim, Claimable, Gone, TypeOK, Source
    <2> QED BY <1>1, <1>a, <2>3, <2>4 DEF Claim, ClaimInv, Room
  <1>2. ASSUME NEW t \in Tasks, Skip(t) PROVE ClaimInv'
    <2>1. t \notin Workers BY <1>2 DEF Skip, Workers, Working
    <2>2. Cardinality(Workers') = C BY <1>2, <2>1, DoneWorkers DEF Skip
    <2>3. Claimable' = Claimable BY <1>2 DEF Skip, Claimable, Gone
    <2> QED BY <1>2, <2>2, <2>3 DEF Skip, ClaimInv, Room
  <1>3. ASSUME NEW t \in Tasks, FetchTable(t) \/ FetchStore(t) \/ FetchPages(t) PROVE ClaimInv'
    <2>1. PICK seen : sync[t].at = "fetch" /\ Reads(t, seen)
      BY <1>3 DEF FetchTable, FetchStore, FetchPages
    <2>2. \A u \in Tasks : Working(u)' = Working(u)
      BY <2>1 DEF Reads, Fails, AsTask, Working, TypeOK
    <2>3. Claimable' = Claimable /\ UNCHANGED slow
      BY <1>3 DEF FetchTable, FetchStore, FetchPages, Claimable, Gone
    <2> QED BY <1>b, <2>2, <2>3
  <1>4. ASSUME NEW t \in Tasks, ReadRows(t) PROVE ClaimInv'
    <2>1. \A u \in Tasks : Working(u)' = Working(u)
      BY <1>4 DEF ReadRows, Working, TypeOK, Task
    <2>2. Claimable' = Claimable BY <1>4 DEF ReadRows, Claimable, Gone
    <2> QED BY <1>4, <1>b, <2>1, <2>2 DEF ReadRows
  <1>5. ASSUME NEW t \in Tasks, Done(t), t \in Workers, UNCHANGED slow PROVE ClaimInv'
    <2>1. Cardinality(Workers') = C - 1 BY <1>5, DoneWorkers
    <2> QED BY <1>5, <1>a, <2>1 DEF ClaimInv, Room
  <1>6. ASSUME NEW t \in Tasks, CommitRows(t) PROVE ClaimInv'
    BY <1>5, <1>6 DEF CommitRows, Workers, Working
  <1>7. ASSUME NEW t \in Tasks, Raise(t) PROVE ClaimInv'
    <2>1. \A u \in Tasks : Working(u)' = Working(u)
      BY <1>7 DEF Raise, Fails, AsTask, Working, TypeOK
    <2>2. Claimable' = Claimable BY <1>7 DEF Raise, Claimable, Gone
    <2> QED BY <1>7, <1>b, <2>1, <2>2 DEF Raise
  <1>8. ASSUME NEW t \in Tasks, RecordError(t) PROVE ClaimInv'
    BY <1>5, <1>8 DEF RecordError, Workers, Working
  <1>9. ASSUME NEW t \in Tasks, Crash(t) PROVE ClaimInv'
    <2>1. Cardinality(Workers') <= C BY <1>9, <1>a, DoneWorkers DEF Crash
    <2>2. Cardinality(Workers') \in Nat BY <1>9, DoneWorkers, FS_CardinalityType DEF Crash
    <2>3. Claimable' = Claimable BY <1>9 DEF Crash, Claimable, Gone
    <2> QED BY <1>9, <1>a, <2>1, <2>2, <2>3 DEF Crash, ClaimInv, Room
  <1>10. ASSUME NEW p \in Processes, TriggerSync(p), UNCHANGED <<source, slow>> PROVE ClaimInv'
    <2>1. \A u \in Tasks : Working(u)' = Working(u)
      BY <1>10 DEF TriggerSync, Working, Idle, AsTask, TypeOK
    <2>2. Claimable' = Claimable BY <1>10 DEF Claimable, Gone
    <2> QED BY <1>10, <1>b, <2>1, <2>2
  <1>11. ASSUME NEW p \in Processes, Restart(p) PROVE ClaimInv'
    <2>1. Workers' \in SUBSET Workers
      BY <1>11 DEF Restart, Workers, Working, Idle, AsTask, TypeOK
    <2>2. Cardinality(Workers') <= C /\ Cardinality(Workers') \in Nat
      BY <2>1, WorkersAreFinite, FS_Subset, FS_CardinalityType
    <2>3. Claimable' = Claimable BY <1>11 DEF Restart, Claimable, Gone
    <2> QED BY <1>11, <1>a, <2>2, <2>3 DEF Restart, ClaimInv, Room
  <1>12. CASE Age
    <2>1. Workers' = Workers BY <1>12 DEF Age, Workers, Working
    <2>2. Room' \in Int /\ Room \in Int /\ Room' >= 1 + slow' - 1
      BY <1>12, <1>a DEF Age, Room
    <2>3. CASE source.status = "syncing"
      <3>1. Room = 1 + slow BY <1>12, <1>a, <2>3 DEF Age, Room, Claimable, Gone
      <3>2. CASE Workers = {}
        <4>1. C = 0 /\ slow' = slow BY <1>12, <2>3, <3>2, FS_EmptySet DEF Age, Workers
        <4> QED BY <1>a, <2>1, <2>2, <4>1 DEF ClaimInv
      <3>3. CASE Workers # {}
        <4>1. slow' = slow + 1 BY <1>12, <2>3, <3>3 DEF Age, Workers
        <4> QED BY <1>a, <2>1, <2>2, <3>1, <4>1 DEF ClaimInv
      <3> QED BY <3>2, <3>3
    <2>4. CASE source.status # "syncing"
      BY <1>12, <2>1, <2>4 DEF Age, ClaimInv, Room, Claimable, Gone, TypeOK, Source
    <2> QED BY <2>3, <2>4
  <1>13. CASE Edit \/ SellOrReturn \/ UNCHANGED vars
    BY <1>13, <1>b DEF Edit, SellOrReturn, vars, Working, Claimable, Gone
  <1>14. CASE Toggle
    BY <1>14, <1>b DEF Toggle, Working, Claimable, Gone, TypeOK, Source
  <1>15. CASE RemoveProducts \/ RemovalFails
    BY <1>15, <1>b DEF RemoveProducts, RemovalFails, Working, Claimable, Gone
  <1>16. CASE RemoveSource
    <2>1. Workers' = Workers BY <1>16 DEF RemoveSource, Workers, Working
    <2>2. ~ Claimable' /\ UNCHANGED slow BY <1>16 DEF RemoveSource, Claimable, Gone
    <2> QED BY <1>a, <2>1, <2>2 DEF ClaimInv, Room
  <1> QED
    BY <1>1, <1>2, <1>3, <1>4, <1>6, <1>7, <1>8, <1>9, <1>10, <1>11, <1>12, <1>13, <1>14,
       <1>15, <1>16
       DEF Next, Step, Tick, Ask

\* The claim of sync_source lets one sync of a source work at a time, and one
\* more for each that outlasts STALE_SYNC_AFTER, for any number of replicas.
THEOREM ClaimsExclude == Spec => []OneSyncUnlessSlow
  <1>1. TypeOK /\ ClaimInv => OneSyncUnlessSlow
    BY WorkersAreFinite DEF TypeOK, ClaimInv, Room, OneSyncUnlessSlow
  <1> QED BY <1>1, TypesInit, TypesStep, ClaimInit, ClaimStep, PTL DEF Spec

-----------------------------------------------------------------------------
(* A source that is removed. *)

\* Only a sync inserts rows, and none of them writes once the source is gone.
LEMMA NothingIsInserted ==
  ASSUME TypeOK, Gone, [Next]_vars, NEW x \in Ids, rows'[x].here
  PROVE  rows[x].here
  <1> USE DEF TypeOK
  <1>1. ASSUME NEW t \in Tasks, Step(t) PROVE rows' = rows
    BY <1>1 DEF Step, Claim, Skip, FetchTable, FetchStore, FetchPages, ReadRows, CommitRows,
                MayWrite, Raise, RecordError, Crash
  <1>2. ASSUME NEW p \in Processes, Tick(p) \/ Ask(p) \/ Restart(p) PROVE rows' = rows
    BY <1>2 DEF Tick, Ask, Restart
  <1>3. CASE Age \/ Edit \/ Toggle \/ RemoveProducts \/ RemovalFails \/ UNCHANGED vars
    BY <1>3 DEF Age, Edit, Toggle, RemoveProducts, RemovalFails, vars
  <1>4. CASE SellOrReturn
    <2>1. PICK y \in Ids : rows' = [rows EXCEPT ![y].shown = ~ @] BY <1>4 DEF SellOrReturn
    <2>2. rows'[x].here = rows[x].here BY <2>1 DEF Row
    <2> QED BY <2>2
  <1>5. CASE RemoveSource
    BY <1>5 DEF RemoveSource, NoRow
  <1> QED BY <1>1, <1>2, <1>3, <1>4, <1>5 DEF Next

\* A sync that outlives its source, whatever it has read before, brings no
\* product of it back, for any number of replicas.
THEOREM RemovedStaysRemoved == Spec => NothingComesBack
  <1>1. TypeOK /\ [Next]_vars => [Gone => \A x \in Ids : rows'[x].here => rows[x].here]_vars
    BY NothingIsInserted
  <1> QED BY <1>1, TypesInit, TypesStep, PTL DEF Spec, NothingComesBack
=============================================================================

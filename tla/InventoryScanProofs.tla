------------------------ MODULE InventoryScanProofs ------------------------
(* Theorems about InventoryScan, for every value of its constants. *)
EXTENDS InventoryScan, FiniteSetTheorems, TLAPS

-----------------------------------------------------------------------------
(* Type correctness *)

\* TypeOK is not inductive by itself: a thread that reads or writes a container
\* has one in flight, and a shape it read before it writes one.
Handling == {"read", "unreadable", "compare", "change", "upsert", "columns",
             "inspect", "advance"}
Holding  == {"compare", "change", "upsert", "columns", "inspect"}
InFlight ==
    \A j \in Jobs : /\ worker[j].pc \in Handling => worker[j].name \in Names
                    /\ worker[j].pc \in Holding => worker[j].shape \in Shapes

\* A job's thread, row and database are of their types.
LEMMA JobFacts ==
  ASSUME TypeOK, NEW j \in Jobs
  PROVE  /\ worker[j] \in Worker
         /\ scans[j] \in Row
         /\ Db(j) \in Databases
  BY ConstantsAssumption DEF TypeOK, Row, Db, Database, Request

\* A thread that is not at work is a thread.
LEMMA RestingType ==
  ASSUME NEW pc \in Steps \cup Idle, NEW covers \in BOOLEAN
  PROVE  Resting(pc, covers) \in Worker
  BY ConstantsAssumption DEF Resting, Worker, Upstream, NoOne

\* A step that only moves a thread on keeps the threads' type.
LEMMA GotoType ==
  ASSUME TypeOK, NEW j \in Jobs, NEW step \in Steps, Goto(j, step)
  PROVE  worker' \in [Jobs -> Worker]
  <1>1. worker \in [Jobs -> Worker]
    BY DEF TypeOK
  <1>2. [worker[j] EXCEPT !.pc = step] \in Worker
    BY <1>1 DEF Worker
  <1>3. worker' = [worker EXCEPT ![j] = [worker[j] EXCEPT !.pc = step]]
    BY DEF Goto
  <1> QED
    BY <1>1, <1>2, <1>3

\* What a step that keeps the store leaves to be shown.
LEMMA KeepsStoreType ==
  ASSUME TypeOK, KeepsStore,
         scans' \in [Jobs -> Row], worker' \in [Jobs -> Worker],
         walked' \in [Jobs -> SUBSET (Databases \X Names)],
         held' \in [Jobs -> [Databases -> [Names -> SUBSET Upstream]]]
  PROVE  TypeOK'
  BY DEF TypeOK, KeepsStore, sourceVars, storeVars

\* What a step leaves to be shown that changes nothing but a thread.
LEMMA OnlyWorkerType ==
  ASSUME TypeOK, OnlyWorker, worker' \in [Jobs -> Worker]
  PROVE  TypeOK'
  <1>1. KeepsStore /\ scans' = scans /\ walked' = walked /\ held' = held
    BY DEF OnlyWorker, auxVars
  <1> QED
    BY <1>1, KeepsStoreType DEF TypeOK

\* Registering a job, afresh or continuing another, keeps the types.
LEMMA LaunchType ==
  ASSUME TypeOK, NEW j \in Jobs, NEW req \in Requests, NEW force \in BOOLEAN,
         NEW cursor \in Names \cup {0}, NEW stamp \in Nat,
         NEW baseWalked \in SUBSET (Databases \X Names),
         NEW baseHeld \in [Databases -> [Names -> SUBSET Upstream]],
         Launch(j, req, force, cursor, stamp, baseWalked, baseHeld)
  PROVE  TypeOK'
  <1>1. scans' \in [Jobs -> Row]
    BY DEF TypeOK, Launch, Row
  <1>2. worker' \in [Jobs -> Worker]
    <2>1. Resting("borrow", cursor = 0) \in Worker
      BY RestingType DEF Steps
    <2>2. [Resting("borrow", cursor = 0) EXCEPT !.force = force, !.cursor = cursor]
            \in Worker
      BY <2>1 DEF Worker
    <2> QED
      BY <2>2 DEF TypeOK, Launch
  <1>3. held' \in [Jobs -> [Databases -> [Names -> SUBSET Upstream]]]
    <2> DEFINE h == [d \in Databases |-> [n \in Names |-> baseHeld[d][n] \cup {catalog[d][n]}]]
    <2>1. h \in [Databases -> [Names -> SUBSET Upstream]]
      BY DEF TypeOK
    <2>2. held' = [held EXCEPT ![j] = h]
      BY DEF Launch
    <2> HIDE DEF h
    <2> QED
      BY <2>1, <2>2 DEF TypeOK
  <1>4. walked' \in [Jobs -> SUBSET (Databases \X Names)] /\ running' \subseteq Requests
        /\ cancels' \in [Jobs -> {"none", "clear", "set"}]
    BY DEF TypeOK, Launch
  <1>5. UNCHANGED <<sourceVars, storeVars, crashes>>
    BY DEF Launch
  <1> QED
    BY <1>1, <1>2, <1>3, <1>4, <1>5 DEF TypeOK, sourceVars, storeVars

\* So does the whole of start, with the run it may continue.
LEMMA StartType ==
  ASSUME TypeOK, NEW j \in Jobs, Start(j)
  PROVE  TypeOK'
  <1>1. PICK req \in Requests, opt \in Options, stamp \in Stamps(j) :
          StartAfresh(j, req, opt, stamp) \/ StartResumed(j, req, opt, stamp)
    BY DEF Start
  <1>2. stamp \in Nat /\ opt.force \in BOOLEAN
    <2>1. \A i \in Jobs : scans[i].stamp \in Nat
      BY DEF TypeOK, Row
    <2>2. j # 1 => j - 1 \in Jobs
      BY ConstantsAssumption DEF Jobs
    <2> QED
      BY <2>1, <2>2, ConstantsAssumption DEF Stamps
  <1>3. CASE StartAfresh(j, req, opt, stamp)
    <2>1. Launch(j, req, opt.force, 0, stamp, {}, held[j])
      BY <1>3 DEF StartAfresh
    <2>2. held[j] \in [Databases -> [Names -> SUBSET Upstream]]
      BY DEF TypeOK
    <2> QED
      BY <1>2, <2>1, <2>2, LaunchType
  <1>4. CASE StartResumed(j, req, opt, stamp)
    <2>1. PICK k \in Jobs :
            Launch(j, req, opt.force, scans[k].cursor, stamp, walked[k], held[k])
      BY <1>4 DEF StartResumed, Resumable, Unfinished
    <2>2. scans[k].cursor \in Names \cup {0} /\ walked[k] \in SUBSET (Databases \X Names)
          /\ held[k] \in [Databases -> [Names -> SUBSET Upstream]]
      BY DEF TypeOK, Row
    <2> QED
      BY <1>2, <2>1, <2>2, LaunchType
  <1> QED
    BY <1>1, <1>3, <1>4

\* A page of the catalog holds container names.
LEMMA PageType ==
  ASSUME NEW d, NEW after
  PROVE  Page(d, after) \subseteq Names /\ Listed(d, after) \subseteq Names
  BY DEF Page, Listed

\* Every step of a scan thread keeps the types.
LEMMA WorkType ==
  ASSUME TypeOK, InFlight, NEW j \in Jobs, Work(j)
  PROVE  TypeOK'
  <1> DEFINE w == worker[j]
             To(step) == [w EXCEPT !.pc = step]
  <1>a. /\ w \in Worker /\ scans[j] \in Row /\ Db(j) \in Databases
        /\ worker \in [Jobs -> Worker] /\ scans \in [Jobs -> Row]
    BY JobFacts DEF TypeOK
  <1>b. w.pc \in Handling => w.name \in Names
    BY DEF InFlight
  <1>c. w.pc \in Holding => w.shape \in Shapes
    BY DEF InFlight
  <1>1. CASE Borrow(j)
    <2>1. Goto(j, "list") \/ Goto(j, "failing")
      BY <1>1 DEF Borrow
    <2> QED
      BY <1>1, <2>1, GotoType, OnlyWorkerType DEF Borrow, Steps
  <1>2. CASE ListPage(j)
    <2> DEFINE page == Page(Db(j), w.cursor)
               more == page # Listed(Db(j), w.cursor)
               v == [w EXCEPT !.pc = "next", !.page = page, !.more = more]
    <2>1. CASE Goto(j, "failing")
      BY <1>2, <2>1, GotoType, OnlyWorkerType DEF ListPage, Steps
    <2>2. CASE worker' = [worker EXCEPT ![j] = v]
      <3>1. page \subseteq Names /\ more \in BOOLEAN
        BY PageType
      <3> HIDE DEF page, more
      <3>2. v \in Worker
        BY <1>a, <3>1, ZenonT(60) DEF Worker, Steps
      <3> HIDE DEF v
      <3> QED
        BY <1>a, <1>2, <2>2, <3>2, OnlyWorkerType DEF ListPage
    <2> QED
      BY <1>2, <2>1, <2>2 DEF ListPage
  <1>3. CASE BeginContainer(j)
    <2>1. PICK n \in w.page :
            worker' = [worker EXCEPT ![j] = [w EXCEPT !.pc = "read", !.name = n,
                                !.page = @ \ {n}, !.seen = @ \cup {n}]]
      BY <1>3 DEF BeginContainer
    <2>2. [w EXCEPT !.pc = "read", !.name = n, !.page = @ \ {n}, !.seen = @ \cup {n}]
            \in Worker
      BY <1>a, ZenonT(60) DEF Worker, Steps
    <2> QED
      BY <1>a, <1>3, <2>1, <2>2, OnlyWorkerType DEF BeginContainer
  <1>4. CASE StopCancelled(j)
    <2>1. [scans[j] EXCEPT !.state = "cancelled"] \in Row
      BY <1>a DEF Row
    <2>2. scans' = [scans EXCEPT ![j] = [scans[j] EXCEPT !.state = "cancelled"]]
      BY <1>4 DEF StopCancelled
    <2>3. worker' \in [Jobs -> Worker]
      BY <1>4, GotoType DEF StopCancelled, Steps
    <2>4. KeepsStore /\ walked' = walked /\ held' = held
      BY <1>4 DEF StopCancelled, auxVars
    <2> QED
      BY <1>a, <2>1, <2>2, <2>3, <2>4, KeepsStoreType DEF TypeOK
  <1>5. CASE PageDone(j)
    <2>1. worker' \in [Jobs -> Worker]
      BY <1>5, GotoType DEF PageDone, Steps
    <2> QED
      BY <1>5, <2>1, OnlyWorkerType DEF PageDone
  <1>6. CASE ReadSchema(j)
    <2> DEFINE found == catalog[Db(j)][w.name]
               v == [w EXCEPT !.pc = "compare", !.shape = found]
    <2>1. CASE Goto(j, "unreadable")
      BY <1>6, <2>1, GotoType, OnlyWorkerType DEF ReadSchema, Steps
    <2>2. CASE worker' = [worker EXCEPT ![j] = v]
      <3>1. found \in Upstream
        BY <1>6, <1>a, <1>b DEF TypeOK, ReadSchema, At, Handling
      <3> HIDE DEF found
      <3>2. v \in Worker
        BY <1>a, <3>1 DEF Worker, Steps
      <3> HIDE DEF v
      <3> QED
        BY <1>a, <1>6, <2>2, <3>2, OnlyWorkerType DEF ReadSchema
    <2> QED
      BY <1>6, <2>1, <2>2 DEF ReadSchema
  <1>7. CASE RecordUnreadable(j)
    <2>1. worker' \in [Jobs -> Worker]
      BY <1>7, GotoType DEF RecordUnreadable, Steps
    <2>2. stored' \in [Databases -> [Names -> Shapes \cup {NoRow, Unread}]]
      BY <1>7, <1>a DEF TypeOK, RecordUnreadable
    <2> QED
      BY <1>7, <2>1, <2>2 DEF TypeOK, RecordUnreadable, sourceVars, auxVars
  <1>8. CASE Compare(j)
    <2> DEFINE prior == StoredHash(Db(j), w.name)
               step == IF prior # w.shape THEN "change"
                       ELSE IF w.force THEN "upsert" ELSE "advance"
               v == [w EXCEPT !.prior = prior, !.pc = step]
    <2>1. prior \in Shapes \cup {NoRow}
      BY <1>8, <1>a, <1>b DEF TypeOK, Compare, At, Handling, StoredHash
    <2>2. step \in Steps
      BY DEF Steps
    <2>3. worker' = [worker EXCEPT ![j] = v]
      BY <1>8 DEF Compare
    <2> HIDE DEF prior, step
    <2>4. v \in Worker
      BY <1>a, <2>1, <2>2 DEF Worker
    <2> HIDE DEF v
    <2> QED
      BY <1>a, <1>8, <2>3, <2>4, OnlyWorkerType DEF Compare
  <1>9. CASE RecordChange(j)
    <2>1. worker' \in [Jobs -> Worker]
      BY <1>9, GotoType DEF RecordChange, Steps
    <2> DEFINE c == [type |-> IF w.prior = NoRow THEN "container_added" ELSE "schema_changed",
                     job |-> j, new |-> w.shape]
    <2>2. c \in Change
      BY <1>9, <1>c DEF Change, RecordChange, At, Holding
    <2>3. history' = [history EXCEPT ![Db(j)][w.name] = Append(@, c)]
      BY <1>9 DEF RecordChange
    <2> HIDE DEF c
    <2>4. history' \in [Databases -> [Names -> Seq(Change)]]
      <3>1. w.name \in Names /\ Db(j) \in Databases
        BY <1>9, <1>a, <1>b DEF RecordChange, At, Handling
      <3>2. Append(history[Db(j)][w.name], c) \in Seq(Change)
        BY <2>2, <3>1 DEF TypeOK
      <3> QED
        BY <2>3, <3>1, <3>2 DEF TypeOK
    <2> QED
      BY <1>9, <2>1, <2>4 DEF TypeOK, RecordChange, sourceVars, auxVars
  <1>10. CASE UpsertContainer(j)
    <2>1. worker' \in [Jobs -> Worker]
      BY <1>10, GotoType DEF UpsertContainer, Steps
    <2>2. stored' \in [Databases -> [Names -> Shapes \cup {NoRow, Unread}]]
      BY <1>10, <1>c DEF TypeOK, UpsertContainer, At, Holding
    <2> QED
      BY <1>10, <2>1, <2>2 DEF TypeOK, UpsertContainer, sourceVars, auxVars
  <1>11. CASE ReplaceColumns(j)
    <2>1. worker' \in [Jobs -> Worker]
      BY <1>11, GotoType DEF ReplaceColumns, Steps
    <2>2. columns' \in [Databases -> [Names -> Shapes \cup {NoRow}]]
      BY <1>11, <1>c DEF TypeOK, ReplaceColumns, At, Holding
    <2> QED
      BY <1>11, <2>1, <2>2 DEF TypeOK, ReplaceColumns, sourceVars, auxVars
  <1>12. CASE Inspect(j)
    <2>1. worker' \in [Jobs -> Worker]
      BY <1>12, GotoType DEF Inspect, Steps
    <2>2. inspected' \in [Databases -> [Names -> Shapes \cup {NoRow}]]
      BY <1>12, <1>c DEF TypeOK, Inspect, At, Holding
    <2> QED
      BY <1>12, <2>1, <2>2 DEF TypeOK, Inspect, sourceVars, auxVars
  <1>13. CASE Advance(j)
    <2> DEFINE v == [w EXCEPT !.pc = "next", !.cursor = w.name, !.name = 0,
                              !.shape = Absent, !.prior = NoRow]
               r == [scans[j] EXCEPT !.cursor = w.name]
    <2>1. worker' = [worker EXCEPT ![j] = v] /\ scans' = [scans EXCEPT ![j] = r]
      BY <1>13 DEF Advance
    <2>2. v \in Worker
      BY <1>a DEF Worker, Steps, Upstream
    <2>3. r \in Row
      BY <1>a DEF Worker, Row
    <2>4. walked' \in [Jobs -> SUBSET (Databases \X Names)]
      BY <1>13, <1>a, <1>b DEF TypeOK, Advance, At, Handling
    <2>5. KeepsStore /\ held' = held
      BY <1>13 DEF Advance
    <2> HIDE DEF v, r
    <2> QED
      BY <1>a, <2>1, <2>2, <2>3, <2>4, <2>5, KeepsStoreType DEF TypeOK
  <1>14. CASE PlanRemovals(j)
    <2> DEFINE keys == ContainerKeys(Request(j)) \ ({Db(j)} \X w.seen)
               v == [w EXCEPT !.pc = "remove", !.gone = keys]
    <2>1. keys \subseteq Databases \X Names
      BY DEF ContainerKeys
    <2>2. worker' = [worker EXCEPT ![j] = v]
      BY <1>14 DEF PlanRemovals
    <2> HIDE DEF keys
    <2>3. v \in Worker
      BY <1>a, <2>1, ZenonT(60) DEF Worker, Steps
    <2> HIDE DEF v
    <2> QED
      BY <1>a, <1>14, <2>2, <2>3, OnlyWorkerType DEF PlanRemovals
  <1>15. CASE RecordRemoval(j)
    <2> DEFINE c == [type |-> "container_removed", job |-> j, new |-> NoRow]
    <2>1. PICK k \in w.gone :
            /\ history' = [history EXCEPT ![k[1]][k[2]] = Append(@, c)]
            /\ worker' = [worker EXCEPT ![j] = [w EXCEPT !.pc = "forget", !.victim = k,
                                                         !.gone = @ \ {k}]]
      BY <1>15 DEF RecordRemoval
    <2>2. c \in Change
      BY DEF Change
    <2> HIDE DEF c
    <2>3. k[1] \in Databases /\ k[2] \in Names /\ k \in Databases \X Names
      BY <1>a DEF Worker
    <2>4. history' \in [Databases -> [Names -> Seq(Change)]]
      <3>1. Append(history[k[1]][k[2]], c) \in Seq(Change)
        BY <2>2, <2>3 DEF TypeOK
      <3> QED
        BY <2>1, <2>3, <3>1 DEF TypeOK
    <2>5. [w EXCEPT !.pc = "forget", !.victim = k, !.gone = @ \ {k}] \in Worker
      BY <1>a, <2>3, ZenonT(60) DEF Worker, Steps
    <2>6. worker' \in [Jobs -> Worker]
      BY <1>a, <2>1, <2>5
    <2> QED
      BY <1>15, <2>4, <2>6 DEF TypeOK, RecordRemoval, sourceVars, auxVars
  <1>16. CASE Forget(j)
    <2> DEFINE v == [w EXCEPT !.pc = "remove", !.victim = NoOne]
    <2>1. worker' = [worker EXCEPT ![j] = v]
      BY <1>16 DEF Forget
    <2>2. v \in Worker
      BY <1>a, ConstantsAssumption, ZenonT(60) DEF Worker, Steps, NoOne
    <2> HIDE DEF v
    <2>3. worker' \in [Jobs -> Worker]
      BY <1>a, <2>1, <2>2
    <2>4. /\ stored' \in [Databases -> [Names -> Shapes \cup {NoRow, Unread}]]
          /\ columns' \in [Databases -> [Names -> Shapes \cup {NoRow}]]
          /\ inspected' \in [Databases -> [Names -> Shapes \cup {NoRow}]]
      BY <1>16 DEF TypeOK, Forget
    <2> QED
      BY <1>16, <2>3, <2>4 DEF TypeOK, Forget, sourceVars, auxVars
  <1>17. CASE RemovalsDone(j)
    BY <1>17, GotoType, OnlyWorkerType DEF RemovalsDone, Steps
  <1>18. CASE Finish(j)
    <2>1. PICK state \in {"done", "failed"} :
            scans' = [scans EXCEPT ![j] = [scans[j] EXCEPT !.state = state]]
      BY <1>18 DEF Finish
    <2>2. [scans[j] EXCEPT !.state = state] \in Row
      BY <1>a DEF Row
    <2>3. worker' \in [Jobs -> Worker]
      BY <1>18, GotoType DEF Finish, Steps
    <2>4. KeepsStore /\ walked' = walked /\ held' = held
      BY <1>18 DEF Finish, auxVars
    <2> QED
      BY <1>a, <2>1, <2>2, <2>3, <2>4, KeepsStoreType DEF TypeOK
  <1>19. CASE Cleanup(j)
    <2>1. Resting("ended", w.covers) \in Worker
      BY <1>a, RestingType DEF Worker, Idle
    <2>2. worker' \in [Jobs -> Worker]
      BY <1>a, <1>19, <2>1 DEF Cleanup
    <2> QED
      BY <1>19, <2>2 DEF TypeOK, Cleanup, sourceVars, storeVars, auxVars
  <1> HIDE DEF w
  <1> QED
    BY <1>1, <1>2, <1>3, <1>4, <1>5, <1>6, <1>7, <1>8, <1>9, <1>10, <1>11, <1>12,
       <1>13, <1>14, <1>15, <1>16, <1>17, <1>18, <1>19 DEF Work

\* A step of a thread changes no other thread.
LEMMA OneThread ==
  ASSUME TypeOK, NEW j \in Jobs, Work(j), NEW i \in Jobs, i # j
  PROVE  worker'[i] = worker[i]
  <1>1. worker \in [Jobs -> Worker]
    BY DEF TypeOK
  <1>2. CASE Borrow(j) \/ ListPage(j) \/ BeginContainer(j) \/ StopCancelled(j) \/ PageDone(j)
    BY <1>1, <1>2 DEF Borrow, ListPage, BeginContainer, StopCancelled, PageDone, Goto
  <1>3. CASE ReadSchema(j) \/ RecordUnreadable(j) \/ Compare(j) \/ RecordChange(j)
             \/ UpsertContainer(j) \/ ReplaceColumns(j) \/ Inspect(j)
    BY <1>1, <1>3 DEF ReadSchema, RecordUnreadable, Compare, RecordChange,
       UpsertContainer, ReplaceColumns, Inspect, Goto
  <1>4. CASE Advance(j) \/ PlanRemovals(j) \/ RecordRemoval(j) \/ Forget(j)
             \/ RemovalsDone(j) \/ Finish(j) \/ Cleanup(j)
    BY <1>1, <1>4 DEF Advance, PlanRemovals, RecordRemoval, Forget, RemovalsDone,
       Finish, Cleanup, Goto
  <1> QED
    BY <1>2, <1>3, <1>4 DEF Work

\* A thread handles a container from the moment it begins it until it has
\* saved its cursor, and holds a shape from the read until the last write.
LEMMA WorkInFlight ==
  ASSUME TypeOK, InFlight, NEW j \in Jobs, Work(j)
  PROVE  InFlight'
  <1> DEFINE w == worker[j]
  <1>a. w \in Worker /\ Db(j) \in Databases /\ worker \in [Jobs -> Worker]
    BY JobFacts DEF TypeOK
  <1>b. /\ w.pc \in Handling => w.name \in Names
        /\ w.pc \in Holding => w.shape \in Shapes
    BY DEF InFlight
  <1>c. SUFFICES /\ worker'[j].pc \in Handling => worker'[j].name \in Names
                 /\ worker'[j].pc \in Holding => worker'[j].shape \in Shapes
    BY OneThread DEF InFlight
  <1>1. CASE Borrow(j) \/ ListPage(j) \/ StopCancelled(j) \/ PageDone(j)
    <2>1. worker'[j].pc \in {"list", "failing", "next", "cleanup", "removals", "finish"}
      BY <1>1, <1>a DEF Borrow, ListPage, StopCancelled, PageDone, Goto, Worker
    <2> QED
      BY <2>1 DEF Handling, Holding
  <1>8. CASE PlanRemovals(j) \/ RecordRemoval(j) \/ Forget(j) \/ RemovalsDone(j) \/ Finish(j)
    <2>1. CASE PlanRemovals(j)
      BY <2>1, <1>a DEF PlanRemovals, Handling, Holding, Worker
    <2>2. CASE RecordRemoval(j)
      BY <2>2, <1>a DEF RecordRemoval, Handling, Holding, Worker
    <2>3. CASE Forget(j) \/ RemovalsDone(j) \/ Finish(j)
      BY <2>3, <1>a DEF Forget, RemovalsDone, Finish, Goto, Handling, Holding, Worker
    <2> QED
      BY <1>8, <2>1, <2>2, <2>3
  <1>2. CASE BeginContainer(j)
    BY <1>2, <1>a DEF BeginContainer, Handling, Holding, Worker
  <1>3. CASE ReadSchema(j)
    <2>1. CASE Goto(j, "unreadable")
      BY <1>3, <2>1, <1>a, <1>b DEF ReadSchema, At, Goto, Handling, Holding
    <2>2. CASE /\ catalog[Db(j)][w.name] # Absent
               /\ worker' = [worker EXCEPT ![j].pc = "compare",
                                           ![j].shape = catalog[Db(j)][w.name]]
      <3>1. w.name \in Names
        BY <1>3, <1>b DEF ReadSchema, At, Handling
      <3>2. catalog[Db(j)][w.name] \in Shapes
        BY <3>1, <2>2, <1>a DEF TypeOK, Upstream
      <3> QED
        BY <2>2, <1>a, <3>1, <3>2
    <2> QED
      BY <1>3, <2>1, <2>2 DEF ReadSchema
  <1>4. CASE RecordUnreadable(j) \/ Inspect(j)
    <2>1. worker' = [worker EXCEPT ![j].pc = "advance"] /\ w.pc \in Handling
      BY <1>4 DEF RecordUnreadable, Inspect, At, Goto, Handling
    <2>2. worker'[j].pc = "advance" /\ worker'[j].name = w.name
      BY <2>1, <1>a DEF Worker
    <2> QED
      BY <2>1, <2>2, <1>b DEF Holding
  <1>5. CASE Compare(j) \/ RecordChange(j) \/ UpsertContainer(j) \/ ReplaceColumns(j)
    <2>1. worker'[j].name = w.name /\ worker'[j].shape = w.shape
      BY <1>5, <1>a DEF Compare, RecordChange, UpsertContainer, ReplaceColumns, Goto, Worker
    <2>2. w.pc \in Handling /\ w.pc \in Holding
      BY <1>5 DEF Compare, RecordChange, UpsertContainer, ReplaceColumns, At, Handling, Holding
    <2> QED
      BY <2>1, <2>2, <1>b
  <1>6. CASE Advance(j)
    BY <1>6, <1>a DEF Advance, Handling, Holding
  <1>7. CASE Cleanup(j)
    BY <1>7, <1>a DEF Cleanup, Resting, Handling, Holding
  <1> HIDE DEF w
  <1> QED
    BY <1>1, <1>2, <1>3, <1>4, <1>5, <1>6, <1>7, <1>8 DEF Work

\* Starting a job gives it a thread that handles no container yet.
LEMMA StartInFlight ==
  ASSUME TypeOK, InFlight, NEW j \in Jobs, Start(j)
  PROVE  InFlight'
  <1>1. PICK req, force, cursor, stamp, baseWalked, baseHeld :
          Launch(j, req, force, cursor, stamp, baseWalked, baseHeld)
    BY DEF Start, StartAfresh, StartResumed
  <1>2. worker'[j].pc = "borrow" /\ \A i \in Jobs : i # j => worker'[i] = worker[i]
    BY <1>1 DEF TypeOK, Launch, Resting
  <1> QED
    BY <1>2 DEF InFlight, Handling, Holding

\* The death of the process keeps the types and leaves nothing in flight.
LEMMA CrashType ==
  ASSUME TypeOK, InFlight, Crash
  PROVE  TypeOK' /\ InFlight'
  <1>1. \A j \in Jobs : Resting("ended", worker[j].covers) \in Worker
    BY RestingType, JobFacts DEF Worker, Idle
  <1>2. worker' \in [Jobs -> Worker]
    BY <1>1 DEF TypeOK, Crash
  <1>3. TypeOK'
    BY <1>2 DEF TypeOK, Crash, sourceVars, storeVars, auxVars
  <1>4. \A j \in Jobs : worker'[j].pc \in {"unused", "ended"}
    BY DEF Crash, At, Resting
  <1> QED
    BY <1>3, <1>4 DEF InFlight, Handling, Holding

\* A change of the source keeps the types and disturbs no thread.
LEMMA ChangeUpstreamType ==
  ASSUME TypeOK, InFlight, NEW d \in Databases, NEW n \in Names, ChangeUpstream(d, n)
  PROVE  TypeOK' /\ InFlight'
  <1>1. PICK s \in Upstream :
          /\ catalog' = [catalog EXCEPT ![d][n] = s]
          /\ held' = [j \in Jobs |-> IF scans[j].state = "none" THEN held[j]
                                     ELSE [held[j] EXCEPT ![d][n] = @ \cup {s}]]
    BY DEF ChangeUpstream
  <1>2. catalog' \in [Databases -> [Names -> Upstream]]
    BY <1>1 DEF TypeOK
  <1>3. \A j \in Jobs : [held[j] EXCEPT ![d][n] = @ \cup {s}]
                            \in [Databases -> [Names -> SUBSET Upstream]]
    BY DEF TypeOK
  <1>4. held' \in [Jobs -> [Databases -> [Names -> SUBSET Upstream]]]
    BY <1>1, <1>3 DEF TypeOK
  <1>5. TypeOK'
    BY <1>2, <1>4 DEF TypeOK, ChangeUpstream, storeVars
  <1> QED
    BY <1>5 DEF InFlight, ChangeUpstream

\* A server that starts on an empty store is well typed.
LEMMA InitType ==
  ASSUME Init
  PROVE  TypeOK /\ InFlight
  <1>1. Resting("unused", FALSE) \in Worker
    BY RestingType DEF Idle
  <1>2. worker \in [Jobs -> Worker]
    BY <1>1 DEF Init
  <1>3. scans \in [Jobs -> Row]
    BY DEF Init, Row
  <1>3a. <<>> \in Seq(Change)
    OBVIOUS
  <1>3b. history \in [Databases -> [Names -> Seq(Change)]]
    BY <1>3a DEF Init
  <1>3c. catalog \in [Databases -> [Names -> Upstream]] /\ upstream \in Nat /\ crashes \in Nat
    BY DEF Init
  <1>3d. /\ stored \in [Databases -> [Names -> Shapes \cup {NoRow, Unread}]]
         /\ columns \in [Databases -> [Names -> Shapes \cup {NoRow}]]
         /\ inspected \in [Databases -> [Names -> Shapes \cup {NoRow}]]
    BY DEF Init
  <1>3e. /\ running \subseteq Requests
         /\ cancels \in [Jobs -> {"none", "clear", "set"}]
         /\ walked \in [Jobs -> SUBSET (Databases \X Names)]
         /\ held \in [Jobs -> [Databases -> [Names -> SUBSET Upstream]]]
    BY DEF Init
  <1>4. TypeOK
    BY <1>2, <1>3, <1>3b, <1>3c, <1>3d, <1>3e DEF TypeOK
  <1>5. InFlight
    BY DEF Init, InFlight, Resting, Handling, Holding
  <1> QED
    BY <1>4, <1>5

\* Every step keeps the types and the containers in flight.
LEMMA NextType ==
  ASSUME TypeOK, InFlight, [Next]_vars
  PROVE  TypeOK' /\ InFlight'
  <1>1. CASE \E j \in Jobs : Start(j)
    BY <1>1, StartType, StartInFlight
  <1>2. CASE \E j \in Jobs : Cancel(j)
    BY <1>2 DEF Cancel, TypeOK, InFlight, sourceVars, storeVars, auxVars
  <1>3. CASE \E j \in Jobs : Work(j)
    BY <1>3, WorkType, WorkInFlight
  <1>4. CASE Close
    BY <1>4 DEF Close, TypeOK, InFlight, sourceVars, storeVars, auxVars
  <1>5. CASE \E d \in Databases, n \in Names : ChangeUpstream(d, n)
    BY <1>5, ChangeUpstreamType
  <1>6. CASE Crash
    BY <1>6, CrashType
  <1>7. CASE UNCHANGED vars
    BY <1>7 DEF vars, TypeOK, InFlight, sourceVars, storeVars, auxVars
  <1> QED
    BY <1>1, <1>2, <1>3, <1>4, <1>5, <1>6, <1>7 DEF Next

\* The state keeps its types, and a thread that handles a container always
\* has one in flight.
THEOREM TypeCorrect == Spec => [](TypeOK /\ InFlight)
  <1>1. Init => TypeOK /\ InFlight
    BY InitType
  <1>2. TypeOK /\ InFlight /\ [Next]_vars => (TypeOK /\ InFlight)'
    BY NextType
  <1> QED
    BY <1>1, <1>2, PTL DEF Spec

-----------------------------------------------------------------------------
(* The requests in flight *)

\* A job that was not started yet has no thread.
Unstarted == \A j \in Jobs : scans[j].state = "none" => worker[j].pc = "unused"

\* A step of a thread keeps it in flight, and with it the set of running
\* requests, unless it is the last.
LEMMA StaysInFlight ==
  ASSUME TypeOK, NEW j \in Jobs, Work(j)
  PROVE  /\ j \in Active
         /\ Cleanup(j) \/ (worker'[j].pc \in Steps /\ running' = running)
  <1>a. worker \in [Jobs -> Worker] /\ worker[j] \in Worker
    BY DEF TypeOK
  <1>1. worker[j].pc \in Steps
    <2>1. CASE Borrow(j) \/ ListPage(j) \/ BeginContainer(j) \/ StopCancelled(j)
               \/ PageDone(j) \/ ReadSchema(j) \/ Compare(j) \/ Advance(j)
      BY <2>1 DEF Borrow, ListPage, BeginContainer, StopCancelled, PageDone, ReadSchema,
         Compare, Advance, At, Steps
    <2>2. CASE RecordUnreadable(j) \/ RecordChange(j) \/ UpsertContainer(j)
               \/ ReplaceColumns(j) \/ Inspect(j)
      BY <2>2 DEF RecordUnreadable, RecordChange, UpsertContainer, ReplaceColumns,
         Inspect, At, Steps
    <2>3. CASE PlanRemovals(j) \/ RecordRemoval(j) \/ Forget(j) \/ RemovalsDone(j)
               \/ Finish(j) \/ Cleanup(j)
      BY <2>3 DEF PlanRemovals, RecordRemoval, Forget, RemovalsDone, Finish, Cleanup, At,
         Steps
    <2> QED
      BY <2>1, <2>2, <2>3 DEF Work
  <1>2. Cleanup(j) \/ worker'[j].pc \in Steps
    <2>1. CASE Borrow(j) \/ StopCancelled(j) \/ RemovalsDone(j) \/ Finish(j)
      BY <1>a, <2>1 DEF Borrow, StopCancelled, RemovalsDone, Finish, Goto, Worker, Steps
    <2>2. CASE RecordUnreadable(j) \/ RecordChange(j) \/ UpsertContainer(j)
               \/ ReplaceColumns(j) \/ Inspect(j)
      BY <1>a, <2>2 DEF RecordUnreadable, RecordChange, UpsertContainer, ReplaceColumns,
         Inspect, Goto, Worker, Steps
    <2>3. CASE ListPage(j)
      BY <1>a, <2>3 DEF ListPage, Goto, Worker, Steps
    <2>4. CASE BeginContainer(j)
      BY <1>a, <2>4 DEF BeginContainer, Worker, Steps
    <2>5. CASE PageDone(j)
      BY <1>a, <2>5 DEF PageDone, Goto, Worker, Steps
    <2>6. CASE ReadSchema(j)
      BY <1>a, <2>6 DEF ReadSchema, Goto, Worker, Steps
    <2>7. CASE Compare(j)
      BY <1>a, <2>7 DEF Compare, Worker, Steps
    <2>8. CASE Advance(j)
      BY <1>a, <2>8 DEF Advance, Worker, Steps
    <2>9. CASE PlanRemovals(j)
      BY <1>a, <2>9 DEF PlanRemovals, Worker, Steps
    <2>10. CASE RecordRemoval(j)
      BY <1>a, <2>10 DEF RecordRemoval, Worker, Steps
    <2>11. CASE Forget(j)
      BY <1>a, <2>11 DEF Forget, Worker, Steps
    <2> QED
      BY <2>1, <2>2, <2>3, <2>4, <2>5, <2>6, <2>7, <2>8, <2>9, <2>10,
         <2>11 DEF Work
  <1>3. Cleanup(j) \/ running' = running
    BY DEF Work, Borrow, ListPage, BeginContainer, StopCancelled, PageDone, ReadSchema,
       Compare, Advance, RecordUnreadable, RecordChange, UpsertContainer, ReplaceColumns,
       Inspect, PlanRemovals, RecordRemoval, Forget, RemovalsDone, Finish, OnlyWorker,
       KeepsStore
  <1> QED
    BY <1>1, <1>2, <1>3 DEF Active

\* A step of a thread changes its own row only, and neither its request nor
\* that it was started.
LEMMA RowsKept ==
  ASSUME TypeOK, NEW j \in Jobs, Work(j), NEW i \in Jobs
  PROVE  /\ scans'[i].request = scans[i].request
         /\ i # j => scans'[i] = scans[i]
         /\ scans'[i].state = "none" => scans[i].state = "none"
  <1>1. scans \in [Jobs -> Row]
    BY DEF TypeOK
  <1>2. CASE StopCancelled(j) \/ Finish(j) \/ Advance(j)
    BY <1>1, <1>2 DEF StopCancelled, Finish, Advance, Row
  <1>3. CASE Borrow(j) \/ ListPage(j) \/ BeginContainer(j) \/ PageDone(j) \/ ReadSchema(j)
             \/ Compare(j) \/ PlanRemovals(j) \/ RemovalsDone(j)
    <2>1. OnlyWorker
      BY <1>3 DEF Borrow, ListPage, BeginContainer, PageDone, ReadSchema, Compare,
         PlanRemovals, RemovalsDone
    <2> QED
      BY <2>1 DEF OnlyWorker
  <1>4. CASE RecordUnreadable(j) \/ RecordChange(j) \/ UpsertContainer(j) \/ ReplaceColumns(j)
             \/ Inspect(j) \/ RecordRemoval(j) \/ Forget(j) \/ Cleanup(j)
    BY <1>4 DEF RecordUnreadable, RecordChange, UpsertContainer, ReplaceColumns, Inspect,
       RecordRemoval, Forget, Cleanup
  <1> QED
    BY <1>2, <1>3, <1>4 DEF Work

\* A request is in the set of running ones exactly while one thread serves it.
LEMMA NextRunning ==
  ASSUME TypeOK, RunningIsExact, Unstarted, [Next]_vars
  PROVE  RunningIsExact' /\ Unstarted'
  <1>1. ASSUME NEW j \in Jobs, Start(j)
        PROVE  RunningIsExact' /\ Unstarted'
    <2>1. PICK req, force, cursor, stamp, baseWalked, baseHeld :
            /\ req \notin running
            /\ Launch(j, req, force, cursor, stamp, baseWalked, baseHeld)
      BY <1>1 DEF Start, StartAfresh, StartResumed
    <2>2. j \notin Active
      BY <1>1 DEF Start, NextJob, Unstarted, Active, Steps
    <2>3. /\ worker'[j].pc = "borrow"
          /\ \A i \in Jobs : i # j => worker'[i] = worker[i]
      BY <2>1 DEF TypeOK, Launch, Resting
    <2>4. /\ scans'[j].request = req /\ scans'[j].state = "running"
          /\ \A i \in Jobs : i # j => scans'[i] = scans[i]
      BY <2>1 DEF TypeOK, Launch
    <2>5. Active' = Active \cup {j} /\ running' = running \cup {req}
      BY <2>1, <2>3 DEF Active, Steps, Launch
    <2>6. RunningIsExact'
      BY <2>1, <2>2, <2>4, <2>5 DEF RunningIsExact, Request, Active
    <2> QED
      BY <2>3, <2>4, <2>6 DEF Unstarted
  <1>2. ASSUME NEW j \in Jobs, Work(j)
        PROVE  RunningIsExact' /\ Unstarted'
    <2>1. \A i \in Jobs : Request(i)' = Request(i)
      BY <1>2, RowsKept DEF Request
    <2>2. j \in Active
      BY <1>2, StaysInFlight
    <2>3. \A i \in Jobs : i # j => worker'[i] = worker[i]
      BY <1>2, OneThread
    <2>4. Unstarted'
      BY <1>2, <2>2, <2>3, RowsKept DEF Unstarted, Active, Steps
    <2>5. CASE Cleanup(j)
      <3>1. worker'[j].pc = "ended" /\ running' = running \ {Request(j)}
        BY <2>5 DEF Cleanup, Resting, TypeOK
      <3>2. Active' = Active \ {j}
        BY <2>3, <3>1 DEF Active, Steps
      <3> QED
        BY <2>1, <2>2, <2>4, <3>1, <3>2 DEF RunningIsExact, Active
    <2>6. CASE worker'[j].pc \in Steps /\ running' = running
      <3>1. Active' = Active
        BY <2>2, <2>3, <2>6 DEF Active
      <3> QED
        BY <2>1, <2>4, <2>6, <3>1 DEF RunningIsExact, Active
    <2> QED
      BY <1>2, <2>5, <2>6, StaysInFlight
  <1>3. CASE Crash
    <2>1. \A j \in Jobs : worker'[j].pc \in {"unused", "ended"}
      BY <1>3 DEF Crash, At, Resting
    <2>2. Active' = {} /\ running' = {}
      BY <1>3, <2>1 DEF Crash, Active, Steps
    <2>3. Unstarted'
      BY <1>3 DEF Crash, Unstarted, At
    <2> QED
      BY <2>2, <2>3 DEF RunningIsExact
  <1>4. CASE UNCHANGED <<scans, running, worker>>
    <2>1. Active' = Active /\ \A j \in Jobs : Request(j)' = Request(j)
      BY <1>4 DEF Active, Request
    <2> QED
      BY <1>4, <2>1 DEF RunningIsExact, Unstarted, Active
  <1>5. CASE (\E j \in Jobs : Cancel(j)) \/ Close \/ UNCHANGED vars
             \/ (\E d \in Databases, n \in Names : ChangeUpstream(d, n))
    BY <1>4, <1>5 DEF Cancel, Close, vars, ChangeUpstream
  <1> QED
    BY <1>1, <1>2, <1>3, <1>5 DEF Next

\* At the start nothing is in flight.
LEMMA InitRunning ==
  ASSUME Init
  PROVE  RunningIsExact /\ Unstarted
  <1>1. \A j \in Jobs : worker[j].pc = "unused"
    BY DEF Init, Resting
  <1>2. Active = {} /\ running = {}
    BY <1>1 DEF Init, Active, Steps
  <1> QED
    BY <1>1, <1>2 DEF RunningIsExact, Unstarted

\* A request is refused exactly while one thread works on it: no start is
\* refused for ever by a key left behind, and no two threads share a request.
THEOREM RunningCorrect == Spec => []RunningIsExact
  <1>1. Init => RunningIsExact /\ Unstarted
    BY InitRunning
  <1>2. TypeOK /\ RunningIsExact /\ Unstarted /\ [Next]_vars => (RunningIsExact /\ Unstarted)'
    BY NextRunning
  <1> QED
    BY <1>1, <1>2, TypeCorrect, PTL DEF Spec

-----------------------------------------------------------------------------
(* A finished scan has looked everywhere *)

\* The job has dealt with the container, or a run it continues has, or the
\* container was missing from the source at some moment since then.
Done(j, n) == <<Db(j), n>> \in walked[j] \/ Absent \in held[j][Db(j)][n]

Ending == {"removals", "remove", "forget", "finish"}

\* What a later run may skip, what the thread has behind it, and that what was
\* ever upstream since the start is remembered.
InView(j)  == \A n \in Names : catalog[Db(j)][n] \in held[j][Db(j)][n]
OnRecord(j) == \A n \in Names : n <= scans[j].cursor => Done(j, n)
Behind(j)  == j \in Active => \A n \in Names : n <= worker[j].cursor => Done(j, n)

\* In the middle of a page, a container beyond the cursor is dealt with, or in
\* flight, or left on the page, or on a page still to come.
ToCome(j, n) ==
    /\ worker[j].more
    /\ \A m \in worker[j].page : m < n
    /\ worker[j].pc \in Handling => worker[j].name < n
Ahead(j) ==
    worker[j].pc \in Handling \cup {"next"} =>
        \A n \in Names : \/ n <= worker[j].cursor \/ Done(j, n)
                         \/ worker[j].pc \in Handling /\ n = worker[j].name
                         \/ n \in worker[j].page \/ ToCome(j, n)
InOrder(j) ==
    worker[j].pc \in Handling => \A m \in worker[j].page : worker[j].name < m
Complete(j) ==
    worker[j].pc \in Ending \/ scans[j].state = "done" => \A n \in Names : Done(j, n)

Looked(j) ==
    InView(j) /\ OnRecord(j) /\ Behind(j) /\ Ahead(j) /\ InOrder(j) /\ Complete(j)
LookedEverywhere == \A j \in Jobs : scans[j].state # "none" => Looked(j)

-----------------------------------------------------------------------------
\* A name is a positive number, a cursor one or zero.
LEMMA Numbers ==
  ASSUME TypeOK, NEW j \in Jobs
  PROVE  /\ Names \subseteq Nat \ {0}
         /\ worker[j].cursor \in Nat /\ worker[j].name \in Nat /\ scans[j].cursor \in Nat
         /\ worker[j].page \subseteq Names
         /\ worker[j].more \in BOOLEAN
  <1>1. worker[j] \in Worker /\ scans[j] \in Row
    BY JobFacts
  <1>2. /\ worker[j].cursor \in Names \cup {0} /\ worker[j].name \in Names \cup {0}
        /\ worker[j].page \in SUBSET Names /\ worker[j].more \in BOOLEAN
    BY <1>1 DEF Worker
  <1>3. scans[j].cursor \in Names \cup {0}
    BY <1>1 DEF Row
  <1>4. Names \subseteq Nat \ {0}
    BY ConstantsAssumption
  <1>5. \A x \in Names \cup {0} : x \in Nat
    BY <1>4
  <1> QED
    BY <1>2, <1>3, <1>4, <1>5

\* A page is a prefix of what is listed: what it leaves out comes after it.
LEMMA PageIsPrefix ==
  ASSUME NEW d \in Databases, NEW after \in Nat,
         NEW n \in Listed(d, after) \ Page(d, after), NEW m \in Page(d, after)
  PROVE  m < n
  <1> DEFINE Before(x) == {y \in Listed(d, after) : y < x}
  <1>1. m \in Nat /\ n \in Nat /\ m # n /\ m \in Listed(d, after)
    BY ConstantsAssumption DEF Listed, Page
  <1>2. IsFiniteSet(Listed(d, after))
    BY ConstantsAssumption, FS_Subset DEF Listed
  <1>3. IsFiniteSet(Before(m)) /\ IsFiniteSet(Before(n))
    BY <1>2, FS_Subset
  <1>4. Cardinality(Before(m)) < PageSize /\ ~(Cardinality(Before(n)) < PageSize)
    BY <1>1 DEF Page
  <1>5. SUFFICES ASSUME n < m PROVE FALSE
    BY <1>1
  <1>6. Before(n) \subseteq Before(m)
    <2> SUFFICES ASSUME NEW y \in Listed(d, after), y < n
                 PROVE  y < m
      OBVIOUS
    <2>1. y \in Nat
      BY ConstantsAssumption DEF Listed
    <2> QED
      BY <1>1, <1>5, <2>1
  <1>7. Cardinality(Before(n)) <= Cardinality(Before(m))
    BY <1>3, <1>6, FS_Subset
  <1>8. Cardinality(Before(n)) \in Nat /\ Cardinality(Before(m)) \in Nat /\ PageSize \in Nat
    BY <1>3, FS_CardinalityType, ConstantsAssumption
  <1> QED
    BY <1>4, <1>7, <1>8

\* A job whose row and thread a step leaves alone.
LEMMA LookedKept ==
  ASSUME NEW j \in Jobs, Looked(j), scans'[j] = scans[j], worker'[j] = worker[j],
         walked'[j] = walked[j], held'[j] = held[j], catalog' = catalog
  PROVE  Looked(j)'
  <1>1. Db(j)' = Db(j) /\ (j \in Active)' = (j \in Active)
    BY DEF Db, Request, Database, Active
  <1>2. \A n \in Names : Done(j, n)' = Done(j, n)
    BY <1>1 DEF Done
  <1> QED
    BY <1>1, <1>2 DEF Looked, InView, OnRecord, Behind, Ahead, ToCome, InOrder, Complete

\* A step of the thread within one stretch of its work: handling a container,
\* ending, or on its way out.
LEMMA LookedOn ==
  ASSUME NEW j \in Jobs, Looked(j),
         UNCHANGED <<catalog, walked, held>>,
         scans'[j].request = scans[j].request, scans'[j].cursor = scans[j].cursor,
         scans'[j].state = "done" => scans[j].state = "done" \/ worker[j].pc \in Ending,
         worker'[j].pc \in Steps => worker[j].pc \in Steps /\ worker'[j].cursor = worker[j].cursor,
         worker'[j].pc # "next",
         worker'[j].pc \in Handling =>
             /\ worker[j].pc \in Handling
             /\ worker'[j].page = worker[j].page /\ worker'[j].more = worker[j].more
             /\ worker'[j].name = worker[j].name,
         worker'[j].pc \in Ending => worker[j].pc \in Ending
  PROVE  Looked(j)'
  <1>1. Db(j)' = Db(j)
    BY DEF Db, Request, Database
  <1>2. \A n \in Names : Done(j, n)' = Done(j, n)
    BY <1>1 DEF Done
  <1>3. InView(j)' /\ OnRecord(j)'
    BY <1>1, <1>2 DEF Looked, InView, OnRecord
  <1>4. Behind(j)'
    BY <1>2 DEF Looked, Behind, Active
  <1>5. Ahead(j)' /\ InOrder(j)'
    <2>1. CASE worker'[j].pc \notin Handling
      BY <2>1 DEF Ahead, InOrder
    <2>2. CASE worker'[j].pc \in Handling
      <3>1. worker'[j].cursor = worker[j].cursor
        BY <2>2 DEF Handling, Steps
      <3> QED
        BY <1>2, <2>2, <3>1 DEF Looked, Ahead, ToCome, InOrder
    <2> QED
      BY <2>1, <2>2
  <1>6. Complete(j)'
    BY <1>2 DEF Looked, Complete
  <1> QED
    BY <1>3, <1>4, <1>5, <1>6 DEF Looked

-----------------------------------------------------------------------------
(* The steps of a thread, for the job whose thread it is *)

\* All that happens inside the handling of a container, among the removals, or
\* on the way out.
LEMMA PlainStep ==
  ASSUME TypeOK, NEW j \in Jobs, Looked(j), Work(j),
         ~ListPage(j), ~BeginContainer(j), ~PageDone(j), ~Advance(j)
  PROVE  Looked(j)'
  <1>a. worker \in [Jobs -> Worker] /\ worker[j] \in Worker
        /\ scans \in [Jobs -> Row] /\ scans[j] \in Row
    BY DEF TypeOK
  <1>1. CASE Borrow(j) \/ RemovalsDone(j)
    <2>1. worker' = [worker EXCEPT ![j].pc = "list"] \/ worker' = [worker EXCEPT ![j].pc = "failing"]
          \/ worker' = [worker EXCEPT ![j].pc = "finish"]
      BY <1>1 DEF Borrow, RemovalsDone, Goto
    <2>2. OnlyWorker /\ worker[j].pc \in Steps
      BY <1>1 DEF Borrow, RemovalsDone, At, Steps
    <2>3. worker'[j].pc = "finish" => worker[j].pc = "remove"
      BY <1>a, <1>1 DEF Borrow, RemovalsDone, At, Goto, Worker
    <2>4. worker'[j].cursor = worker[j].cursor /\ worker'[j].pc \in {"list", "failing", "finish"}
      BY <1>a, <2>1 DEF Worker
    <2> QED
      BY <2>2, <2>3, <2>4, LookedOn DEF OnlyWorker, KeepsStore, sourceVars, auxVars, Ending, Handling
  <1>2. CASE ReadSchema(j)
    <2>1. \/ worker' = [worker EXCEPT ![j].pc = "compare",
                                      ![j].shape = catalog[Db(j)][worker[j].name]]
          \/ worker' = [worker EXCEPT ![j].pc = "unreadable"]
      BY <1>2 DEF ReadSchema, Goto
    <2>2. worker'[j].pc \in {"compare", "unreadable"} /\ worker'[j].cursor = worker[j].cursor
          /\ worker'[j].page = worker[j].page /\ worker'[j].more = worker[j].more
          /\ worker'[j].name = worker[j].name
      BY <1>a, <2>1 DEF Worker
    <2>3. OnlyWorker /\ worker[j].pc = "read"
      BY <1>2 DEF ReadSchema, At
    <2> QED
      BY <2>2, <2>3, LookedOn DEF OnlyWorker, KeepsStore, sourceVars, auxVars, Ending, Handling, Steps
  <1>3. CASE Compare(j)
    <2>1. PICK pc \in {"change", "upsert", "advance"} :
            worker' = [worker EXCEPT ![j].prior = StoredHash(Db(j), worker[j].name), ![j].pc = pc]
      BY <1>3 DEF Compare
    <2>2. worker'[j].pc = pc /\ worker'[j].cursor = worker[j].cursor
          /\ worker'[j].page = worker[j].page /\ worker'[j].more = worker[j].more
          /\ worker'[j].name = worker[j].name
      BY <1>a, <2>1 DEF Worker
    <2>3. OnlyWorker /\ worker[j].pc = "compare"
      BY <1>3 DEF Compare, At
    <2> QED
      BY <2>2, <2>3, LookedOn DEF OnlyWorker, KeepsStore, sourceVars, auxVars, Ending, Handling, Steps
  <1>4. CASE RecordUnreadable(j) \/ RecordChange(j) \/ UpsertContainer(j) \/ ReplaceColumns(j)
             \/ Inspect(j)
    <2>1. PICK pc \in {"advance", "upsert", "columns", "inspect"} :
            worker' = [worker EXCEPT ![j].pc = pc]
      BY <1>4 DEF RecordUnreadable, RecordChange, UpsertContainer, ReplaceColumns, Inspect, Goto
    <2>2. worker'[j].pc = pc /\ worker'[j].cursor = worker[j].cursor
          /\ worker'[j].page = worker[j].page /\ worker'[j].more = worker[j].more
          /\ worker'[j].name = worker[j].name
      BY <1>a, <2>1 DEF Worker
    <2>3. worker[j].pc \in {"unreadable", "change", "upsert", "columns", "inspect"}
      BY <1>4 DEF RecordUnreadable, RecordChange, UpsertContainer, ReplaceColumns, Inspect, At
    <2>4. UNCHANGED <<sourceVars, scans, auxVars>>
      BY <1>4 DEF RecordUnreadable, RecordChange, UpsertContainer, ReplaceColumns, Inspect
    <2> QED
      BY <2>2, <2>3, <2>4, LookedOn DEF sourceVars, auxVars, Ending, Handling, Steps
  <1>5. CASE PlanRemovals(j) \/ RecordRemoval(j) \/ Forget(j)
    <2>1. worker'[j].pc \in {"remove", "forget"} /\ worker'[j].cursor = worker[j].cursor
      <3>1. CASE PlanRemovals(j)
        BY <1>a, <3>1 DEF PlanRemovals, Worker
      <3>2. CASE RecordRemoval(j)
        BY <1>a, <3>2 DEF RecordRemoval, Worker
      <3>3. CASE Forget(j)
        BY <1>a, <3>3 DEF Forget, Worker
      <3> QED
        BY <1>5, <3>1, <3>2, <3>3
    <2>2. worker[j].pc \in {"removals", "remove", "forget"}
      BY <1>5 DEF PlanRemovals, RecordRemoval, Forget, At
    <2>3. UNCHANGED <<sourceVars, scans, auxVars>>
      BY <1>5 DEF PlanRemovals, RecordRemoval, Forget, OnlyWorker, KeepsStore
    <2> QED
      BY <2>1, <2>2, <2>3, LookedOn DEF sourceVars, auxVars, Ending, Handling, Steps
  <1>6. CASE StopCancelled(j) \/ Finish(j)
    <2>1. worker' = [worker EXCEPT ![j].pc = "cleanup"]
      BY <1>6 DEF StopCancelled, Finish, Goto
    <2>2. worker'[j].pc = "cleanup" /\ worker'[j].cursor = worker[j].cursor
      BY <1>a, <2>1 DEF Worker
    <2>3. worker[j].pc \in {"next", "finish", "failing"}
      BY <1>6 DEF StopCancelled, Finish, At
    <2>4. scans'[j].request = scans[j].request /\ scans'[j].cursor = scans[j].cursor
          /\ (scans'[j].state = "done" => worker[j].pc = "finish")
      BY <1>a, <1>6 DEF StopCancelled, Finish, At, Row
    <2>5. KeepsStore /\ UNCHANGED auxVars
      BY <1>6 DEF StopCancelled, Finish
    <2> QED
      BY <2>2, <2>3, <2>4, <2>5, LookedOn DEF KeepsStore, sourceVars, auxVars, Ending, Handling, Steps
  <1>7. CASE Cleanup(j)
    <2>1. worker'[j].pc = "ended"
      BY <1>a, <1>7 DEF Cleanup, Resting
    <2>2. UNCHANGED <<sourceVars, scans, auxVars>>
      BY <1>7 DEF Cleanup
    <2> QED
      BY <2>1, <2>2, LookedOn DEF sourceVars, auxVars, Ending, Handling, Steps
  <1> QED
    BY <1>1, <1>2, <1>3, <1>4, <1>5, <1>6, <1>7 DEF Work

\* A page that was listed leaves out what is absent, hence done, and what comes
\* after it.
LEMMA ListPageStep ==
  ASSUME TypeOK, NEW j \in Jobs, Looked(j), ListPage(j)
  PROVE  Looked(j)'
  <1> DEFINE page == Page(Db(j), worker[j].cursor)
             listed == Listed(Db(j), worker[j].cursor)
  <1>a. worker \in [Jobs -> Worker] /\ worker[j] \in Worker
    BY DEF TypeOK
  <1>b. UNCHANGED <<catalog, scans, walked, held>> /\ worker[j].pc = "list"
    BY DEF ListPage, At, OnlyWorker, KeepsStore, sourceVars, auxVars
  <1>1. CASE worker' = [worker EXCEPT ![j].pc = "failing"]
    <2>1. worker'[j].pc = "failing" /\ worker'[j].cursor = worker[j].cursor
      BY <1>a, <1>1 DEF Worker
    <2> QED
      BY <1>b, <2>1, LookedOn DEF Ending, Handling, Steps
  <1>2. CASE worker' = [worker EXCEPT ![j].pc = "next", ![j].page = page,
                                      ![j].more = page # listed]
    <2>1. /\ worker'[j].pc = "next" /\ worker'[j].cursor = worker[j].cursor
          /\ worker'[j].page = page /\ worker'[j].more = (page # listed)
      BY <1>a, <1>2 DEF Worker
    <2>2. Db(j)' = Db(j) /\ \A n \in Names : Done(j, n)' = Done(j, n)
      BY <1>b DEF Db, Request, Done
    <2>3. InView(j)' /\ OnRecord(j)' /\ Complete(j)'
      BY <1>b, <2>1, <2>2 DEF Looked, InView, OnRecord, Complete, Ending
    <2>4. Behind(j)' /\ InOrder(j)'
      BY <1>b, <2>1, <2>2 DEF Looked, Behind, InOrder, Active, Steps, Handling
    <2>5. ASSUME NEW n \in Names, ~(n <= worker[j].cursor), ~Done(j, n), n \notin page
          PROVE  ToCome(j, n)'
      <3>1. n \in listed
        <4>1. catalog[Db(j)][n] # Absent
          BY <2>5 DEF Looked, InView, Done
        <4>2. n > worker[j].cursor
          BY <2>5, Numbers
        <4> QED
          BY <4>1, <4>2 DEF Listed
      <3>2. page # listed
        BY <2>5, <3>1
      <3>3. \A m \in page : m < n
        BY <2>5, <3>1, PageIsPrefix, Numbers, JobFacts
      <3> QED
        BY <2>1, <3>2, <3>3 DEF ToCome, Handling
    <2>6. Ahead(j)'
      BY <2>1, <2>2, <2>5 DEF Ahead
    <2> QED
      BY <2>3, <2>4, <2>6 DEF Looked
  <1> QED
    BY <1>1, <1>2 DEF ListPage, Goto

\* The container begun is the first of what was left of the page.
LEMMA BeginContainerStep ==
  ASSUME TypeOK, NEW j \in Jobs, Looked(j), BeginContainer(j)
  PROVE  Looked(j)'
  <1>a. worker \in [Jobs -> Worker] /\ worker[j] \in Worker
    BY DEF TypeOK
  <1>b. UNCHANGED <<catalog, scans, walked, held>> /\ worker[j].pc = "next"
    BY DEF BeginContainer, At, OnlyWorker, KeepsStore, sourceVars, auxVars
  <1>1. PICK name \in worker[j].page :
          /\ \A m \in worker[j].page : name <= m
          /\ worker' = [worker EXCEPT ![j].pc = "read", ![j].name = name,
                          ![j].page = @ \ {name}, ![j].seen = @ \cup {name}]
    BY DEF BeginContainer
  <1>2. /\ worker'[j].pc = "read" /\ worker'[j].cursor = worker[j].cursor
        /\ worker'[j].name = name /\ worker'[j].page = worker[j].page \ {name}
        /\ worker'[j].more = worker[j].more
    BY <1>a, <1>1 DEF Worker
  <1>3. Db(j)' = Db(j) /\ \A n \in Names : Done(j, n)' = Done(j, n)
    BY <1>b DEF Db, Request, Done
  <1>4. InView(j)' /\ OnRecord(j)' /\ Complete(j)'
    BY <1>b, <1>2, <1>3 DEF Looked, InView, OnRecord, Complete, Ending
  <1>5. Behind(j)'
    BY <1>b, <1>2, <1>3 DEF Looked, Behind, Active, Steps
  <1>6. InOrder(j)'
    <2> SUFFICES ASSUME NEW m \in worker[j].page, m # name
                 PROVE  name < m
      BY <1>2 DEF InOrder
    <2>1. m \in Nat /\ name \in Nat /\ name <= m
      BY <1>1, Numbers
    <2> QED
      BY <2>1
  <1>7. Ahead(j)'
    <2> SUFFICES ASSUME NEW n \in Names, ~(n <= worker[j].cursor), ~Done(j, n),
                        n # name, n \notin worker[j].page
                 PROVE  ToCome(j, n)'
      BY <1>2, <1>3 DEF Ahead, Handling
    <2>1. ToCome(j, n)
      BY <1>b DEF Looked, Ahead, Handling
    <2> QED
      BY <1>1, <1>2, <2>1 DEF ToCome
  <1> QED
    BY <1>4, <1>5, <1>6, <1>7 DEF Looked

\* When a page is used up, either there is more or all is done.
LEMMA PageDoneStep ==
  ASSUME TypeOK, NEW j \in Jobs, Looked(j), PageDone(j)
  PROVE  Looked(j)'
  <1>a. worker \in [Jobs -> Worker] /\ worker[j] \in Worker
    BY DEF TypeOK
  <1>b. UNCHANGED <<catalog, scans, walked, held>> /\ worker[j].pc = "next"
        /\ worker[j].page = {}
    BY DEF PageDone, At, OnlyWorker, KeepsStore, sourceVars, auxVars
  <1>1. PICK pc \in {"list", "removals", "finish"} :
          /\ worker' = [worker EXCEPT ![j].pc = pc]
          /\ pc # "list" => ~worker[j].more
    BY DEF PageDone, Goto
  <1>2. worker'[j].pc = pc /\ worker'[j].cursor = worker[j].cursor
    BY <1>a, <1>1 DEF Worker
  <1>3. Db(j)' = Db(j) /\ \A n \in Names : Done(j, n)' = Done(j, n)
    BY <1>b DEF Db, Request, Done
  <1>4. InView(j)' /\ OnRecord(j)'
    BY <1>b, <1>3 DEF Looked, InView, OnRecord
  <1>5. Behind(j)' /\ InOrder(j)' /\ Ahead(j)'
    BY <1>b, <1>2, <1>3 DEF Looked, Behind, InOrder, Ahead, Active, Steps, Handling
  <1>6. Complete(j)'
    <2>1. CASE pc = "list"
      BY <1>b, <1>2, <1>3, <2>1 DEF Looked, Complete, Ending
    <2>2. CASE pc # "list"
      <3>1. ASSUME NEW n \in Names PROVE Done(j, n)
        <4>1. n <= worker[j].cursor \/ Done(j, n)
          BY <1>b, <1>1, <2>2 DEF Looked, Ahead, ToCome, Handling
        <4> QED
          BY <1>b, <4>1 DEF Looked, Behind, Active, Steps
      <3> QED
        BY <1>3, <3>1 DEF Complete
    <2> QED
      BY <2>1, <2>2
  <1> QED
    BY <1>4, <1>5, <1>6 DEF Looked

\* What is up to and including the container in flight is done with it.
LEMMA AdvanceStep ==
  ASSUME TypeOK, InFlight, NEW j \in Jobs, Looked(j), Advance(j)
  PROVE  Looked(j)'
  <1>a. /\ worker \in [Jobs -> Worker] /\ worker[j] \in Worker
        /\ scans \in [Jobs -> Row] /\ scans[j] \in Row
        /\ walked \in [Jobs -> SUBSET (Databases \X Names)]
    BY DEF TypeOK
  <1>b. UNCHANGED <<catalog, held>> /\ worker[j].pc = "advance"
    BY DEF Advance, At, KeepsStore, sourceVars
  <1>c. PICK name \in Names : name = worker[j].name
    BY <1>b DEF InFlight, Handling
  <1>1. /\ worker'[j].pc = "next" /\ worker'[j].cursor = name
        /\ worker'[j].page = worker[j].page /\ worker'[j].more = worker[j].more
    BY <1>a, <1>c DEF Advance, Worker
  <1>2. scans'[j].request = scans[j].request /\ scans'[j].state = scans[j].state
        /\ scans'[j].cursor = name
    BY <1>a, <1>c DEF Advance, Row
  <1>3. walked'[j] = walked[j] \cup {<<Db(j), name>>}
    BY <1>a, <1>c DEF Advance
  <1>4. Db(j)' = Db(j)
    BY <1>2 DEF Db, Request
  <1>5. \A n \in Names : Done(j, n) => Done(j, n)'
    BY <1>b, <1>3, <1>4 DEF Done
  <1>6. Done(j, name)'
    BY <1>3, <1>4 DEF Done
  <1>7. ASSUME NEW n \in Names, n <= name PROVE Done(j, n)'
    <2>1. CASE n = name
      BY <1>6, <2>1
    <2>2. CASE n # name
      <3>1. n \in Nat /\ name \in Nat /\ worker[j].cursor \in Nat /\ n < name
        BY <1>7, <1>c, <2>2, Numbers
      <3>2. n \notin worker[j].page
        <4>1. \A m \in worker[j].page : name < m
          BY <1>b, <1>c DEF Looked, InOrder, Handling
        <4> QED
          BY <3>1, <4>1
      <3>3. ~ToCome(j, n)
        BY <1>b, <1>c, <3>1 DEF ToCome, Handling
      <3>4. n <= worker[j].cursor \/ Done(j, n)
        BY <1>b, <1>c, <2>2, <3>2, <3>3 DEF Looked, Ahead, Handling
      <3>5. Done(j, n)
        BY <1>b, <3>4 DEF Looked, Behind, Active, Steps
      <3> QED
        BY <1>5, <3>5
    <2> QED
      BY <2>1, <2>2
  <1>8. InView(j)' /\ InOrder(j)'
    BY <1>b, <1>1, <1>4 DEF Looked, InView, InOrder, Handling
  <1>9. OnRecord(j)' /\ Behind(j)'
    BY <1>1, <1>2, <1>7 DEF OnRecord, Behind
  <1>10. Ahead(j)'
    <2> SUFFICES ASSUME NEW n \in Names, ~(n <= name), ~Done(j, n), n \notin worker[j].page
                 PROVE  ToCome(j, n)'
      BY <1>1, <1>5 DEF Ahead
    <2>1. n \in Nat /\ name \in Nat /\ worker[j].cursor \in Nat
      BY <1>c, Numbers
    <2>2. ~(n <= worker[j].cursor)
      BY <1>b DEF Looked, Behind, Active, Steps
    <2>3. ToCome(j, n)
      BY <1>b, <1>c, <2>1, <2>2 DEF Looked, Ahead, Handling
    <2> QED
      BY <1>1, <2>3 DEF ToCome, Handling
  <1>11. Complete(j)'
    BY <1>1, <1>2, <1>5 DEF Looked, Complete, Ending
  <1> QED
    BY <1>8, <1>9, <1>10, <1>11 DEF Looked

-----------------------------------------------------------------------------
(* Every step, for every job *)

\* A run begins with nothing behind it, or with what the run it continues had.
LEMMA StartStep ==
  ASSUME TypeOK, LookedEverywhere, NEW j \in Jobs, Start(j)
  PROVE  LookedEverywhere'
  <1>a. /\ worker \in [Jobs -> Worker] /\ scans \in [Jobs -> Row]
        /\ walked \in [Jobs -> SUBSET (Databases \X Names)]
        /\ held \in [Jobs -> [Databases -> [Names -> SUBSET Upstream]]]
        /\ catalog \in [Databases -> [Names -> Upstream]]
    BY DEF TypeOK
  <1>1. PICK req \in Requests, opt \in Options, stamp \in Stamps(j) :
          StartAfresh(j, req, opt, stamp) \/ StartResumed(j, req, opt, stamp)
    BY DEF Start
  <1>d. Database(req) \in Databases
    BY ConstantsAssumption DEF Database
  <1>2. ASSUME NEW cursor, NEW baseWalked, NEW baseHeld,
               Launch(j, req, opt.force, cursor, stamp, baseWalked, baseHeld),
               \A n \in Names : n <= cursor =>
                   \/ <<Database(req), n>> \in baseWalked
                   \/ Absent \in baseHeld[Database(req)][n]
        PROVE  LookedEverywhere'
    <2>1. \A i \in Jobs \ {j} : /\ scans'[i] = scans[i] /\ worker'[i] = worker[i]
                                /\ walked'[i] = walked[i] /\ held'[i] = held[i]
      BY <1>a, <1>2 DEF Launch
    <2>2. catalog' = catalog
      BY <1>2 DEF Launch, sourceVars
    <2>3. scans'[j].request = req /\ scans'[j].cursor = 0 /\ scans'[j].state = "running"
      BY <1>a, <1>2 DEF Launch
    <2>4. worker'[j].pc = "borrow" /\ worker'[j].cursor = cursor
      BY <1>a, <1>2 DEF Launch, Resting
    <2>5. walked'[j] = baseWalked
      BY <1>a, <1>2 DEF Launch
    <2>6. \A n \in Names : held'[j][Database(req)][n] =
                              baseHeld[Database(req)][n] \cup {catalog[Database(req)][n]}
      BY <1>a, <1>d, <1>2 DEF Launch
    <2>7. Db(j)' = Database(req)
      BY <2>3 DEF Db, Request, Database
    <2>8. InView(j)'
      BY <2>2, <2>6, <2>7 DEF InView
    <2>9. OnRecord(j)'
      BY <2>3, ConstantsAssumption DEF OnRecord
    <2>10. Behind(j)'
      BY <1>2, <2>4, <2>5, <2>6, <2>7 DEF Behind, Done
    <2>11. Ahead(j)' /\ InOrder(j)' /\ Complete(j)'
      BY <2>3, <2>4 DEF Ahead, InOrder, Complete, Ending, Handling
    <2>12. Looked(j)'
      BY <2>8, <2>9, <2>10, <2>11 DEF Looked
    <2>13. ASSUME NEW i \in Jobs \ {j}, scans'[i].state # "none" PROVE Looked(i)'
      BY <2>1, <2>2, <2>13, LookedKept DEF LookedEverywhere
    <2> QED
      BY <2>12, <2>13 DEF LookedEverywhere
  <1>3. CASE StartAfresh(j, req, opt, stamp)
    <2>1. Launch(j, req, opt.force, 0, stamp, {}, held[j])
      BY <1>3 DEF StartAfresh
    <2>2. \A n \in Names : ~(n <= 0)
      BY ConstantsAssumption
    <2> QED
      BY <1>2, <2>1, <2>2
  <1>4. CASE StartResumed(j, req, opt, stamp)
    <2>1. PICK k \in Resumable(req) :
            Launch(j, req, opt.force, scans[k].cursor, stamp, walked[k], held[k])
      BY <1>4 DEF StartResumed
    <2>2. k \in Jobs /\ scans[k].request = req /\ scans[k].state # "none"
      BY DEF Resumable, Unfinished
    <2>3. \A n \in Names : n <= scans[k].cursor =>
             \/ <<Database(req), n>> \in walked[k] \/ Absent \in held[k][Database(req)][n]
      BY <2>2 DEF LookedEverywhere, Looked, OnRecord, Done, Db, Request
    <2> QED
      BY <1>2, <2>1, <2>3
  <1> QED
    BY <1>1, <1>3, <1>4

\* A step of a thread touches its own row, thread and record only.
LEMMA WorkStep ==
  ASSUME TypeOK, InFlight, Unstarted, LookedEverywhere, NEW j \in Jobs, Work(j)
  PROVE  LookedEverywhere'
  <1>1. Looked(j)
    <2>1. scans[j].state # "none"
      BY StaysInFlight DEF Unstarted, Active, Steps
    <2> QED
      BY <2>1 DEF LookedEverywhere
  <1>2. Looked(j)'
    BY <1>1, PlainStep, ListPageStep, BeginContainerStep, PageDoneStep, AdvanceStep
  <1>3. ASSUME NEW i \in Jobs \ {j}, scans'[i].state # "none" PROVE Looked(i)'
    <2>1. scans'[i] = scans[i]
      BY <1>3, RowsKept
    <2>2. worker'[i] = worker[i]
      BY <1>3, OneThread
    <2>3. catalog' = catalog /\ held' = held /\ walked'[i] = walked[i]
      BY <1>3 DEF TypeOK, Work, Borrow, ListPage, BeginContainer, StopCancelled, PageDone,
         ReadSchema, Compare, Advance, RecordUnreadable, RecordChange, UpsertContainer,
         ReplaceColumns, Inspect, PlanRemovals, RecordRemoval, Forget, RemovalsDone, Finish,
         Cleanup, OnlyWorker, KeepsStore, sourceVars, auxVars
    <2> QED
      BY <1>3, <2>1, <2>2, <2>3, LookedKept DEF LookedEverywhere
  <1> QED
    BY <1>2, <1>3 DEF LookedEverywhere

\* A change upstream is seen by every run that was started.
LEMMA ChangeUpstreamStep ==
  ASSUME TypeOK, LookedEverywhere, NEW d \in Databases, NEW n \in Names,
         ChangeUpstream(d, n)
  PROVE  LookedEverywhere'
  <1>a. /\ catalog \in [Databases -> [Names -> Upstream]]
        /\ held \in [Jobs -> [Databases -> [Names -> SUBSET Upstream]]]
    BY DEF TypeOK
  <1>1. PICK s : /\ catalog' = [catalog EXCEPT ![d][n] = s]
                 /\ held' = [j \in Jobs |-> IF scans[j].state = "none" THEN held[j]
                                            ELSE [held[j] EXCEPT ![d][n] = @ \cup {s}]]
    BY DEF ChangeUpstream
  <1>b. UNCHANGED <<scans, worker, walked>>
    BY DEF ChangeUpstream
  <1>2. SUFFICES ASSUME NEW j \in Jobs, scans[j].state # "none"
                 PROVE  Looked(j)'
    BY <1>b DEF LookedEverywhere
  <1>3. Db(j)' = Db(j) /\ Db(j) \in Databases /\ (j \in Active)' = (j \in Active) /\ Looked(j)
    BY <1>b, <1>2, JobFacts DEF Db, Request, Active, LookedEverywhere
  <1>4. ASSUME NEW m \in Names
        PROVE  /\ held[j][Db(j)][m] \subseteq held'[j][Db(j)][m]
               /\ \/ catalog'[Db(j)][m] = catalog[Db(j)][m]
                  \/ catalog'[Db(j)][m] \in held'[j][Db(j)][m]
    <2>1. held'[j] = [held[j] EXCEPT ![d][n] = @ \cup {s}]
      BY <1>1, <1>2
    <2>2. held[j] \in [Databases -> [Names -> SUBSET Upstream]]
      BY <1>a
    <2>3. CASE Db(j) = d /\ m = n
      BY <1>a, <1>1, <2>1, <2>2, <2>3
    <2>4. CASE ~(Db(j) = d /\ m = n)
      BY <1>a, <1>1, <1>3, <2>1, <2>2, <2>4
    <2> QED
      BY <2>3, <2>4
  <1>5. \A m \in Names : Done(j, m) => Done(j, m)'
    BY <1>b, <1>3, <1>4 DEF Done
  <1>6. InView(j)'
    BY <1>3, <1>4 DEF Looked, InView
  <1>7. OnRecord(j)' /\ Behind(j)' /\ Complete(j)'
    BY <1>b, <1>3, <1>5 DEF Looked, OnRecord, Behind, Complete
  <1>8. Ahead(j)' /\ InOrder(j)'
    BY <1>b, <1>3, <1>5 DEF Looked, Ahead, InOrder, ToCome
  <1> QED
    BY <1>6, <1>7, <1>8 DEF Looked

\* When the process dies, no thread is left that has anything to come.
LEMMA CrashStep ==
  ASSUME TypeOK, Unstarted, LookedEverywhere, Crash
  PROVE  LookedEverywhere'
  <1> SUFFICES ASSUME NEW j \in Jobs, scans[j].state # "none"
               PROVE  Looked(j)'
    BY DEF Crash, LookedEverywhere
  <1>1. UNCHANGED <<catalog, scans, walked, held>>
    BY DEF Crash, sourceVars, auxVars
  <1>2. worker'[j].pc \in Idle
    BY DEF Crash, At, Resting, Idle
  <1> QED
    BY <1>1, <1>2, LookedOn DEF LookedEverywhere, Idle, Steps, Ending, Handling

\* One step of the whole.
LEMMA NextLooked ==
  ASSUME TypeOK, InFlight, Unstarted, LookedEverywhere, [Next]_vars
  PROVE  LookedEverywhere'
  <1>1. CASE UNCHANGED <<scans, worker, auxVars, catalog>>
    <2>1. \A j \in Jobs : Looked(j) => Looked(j)'
      BY <1>1, LookedKept DEF auxVars
    <2> QED
      BY <1>1, <2>1 DEF LookedEverywhere
  <1>2. CASE UNCHANGED vars \/ Close \/ \E j \in Jobs : Cancel(j)
    <2>1. UNCHANGED <<scans, worker, auxVars, catalog>>
      BY <1>2 DEF vars, Close, Cancel, sourceVars
    <2> QED
      BY <1>1, <2>1
  <1> QED
    BY <1>2, StartStep, WorkStep, ChangeUpstreamStep, CrashStep DEF Next

\* A scan that reports `done` has, with the runs it continued, dealt with every
\* container that was there all along: for any databases, page size and number of
\* runs, through failures, crashes and changes of the catalog.
THEOREM FinishedLookedEverywhere == Spec => []FinishedScanLookedEverywhere
  <1> DEFINE Inv == RunningIsExact /\ Unstarted /\ LookedEverywhere
  <1>1. Init => Inv
    <2>1. Init => RunningIsExact /\ Unstarted
      BY InitRunning
    <2>2. Init => LookedEverywhere
      BY DEF Init, LookedEverywhere
    <2> QED
      BY <2>1, <2>2
  <1>2. TypeOK /\ InFlight /\ Inv /\ [Next]_vars => Inv'
    BY NextRunning, NextLooked
  <1>3. LookedEverywhere => FinishedScanLookedEverywhere
    BY DEF LookedEverywhere, Looked, Complete, Done, FinishedScanLookedEverywhere
  <1> QED
    BY <1>1, <1>2, <1>3, TypeCorrect, PTL DEF Spec

-----------------------------------------------------------------------------
(* What a step of a thread leaves alone *)

Known(j) == scans[j].state # "none"

\* A thread changes neither the source nor what is remembered of it, and no
\* other job's record; a job stays on its database and stays known.
LEMMA WorkFrame ==
  ASSUME TypeOK, Unstarted, NEW j \in Jobs, Work(j)
  PROVE  /\ catalog' = catalog /\ held' = held /\ crashes' = crashes
         /\ \A i \in Jobs : i # j => walked'[i] = walked[i]
         /\ \A i \in Jobs : /\ Request(i)' = Request(i)
                            /\ Db(i)' = Db(i)
                            /\ Known(i)' <=> Known(i)
         /\ worker'[j].covers = worker[j].covers
  <1>a. worker \in [Jobs -> Worker] /\ worker[j] \in Worker /\ scans \in [Jobs -> Row]
        /\ walked \in [Jobs -> SUBSET (Databases \X Names)]
    BY DEF TypeOK
  <1>1. catalog' = catalog /\ held' = held /\ crashes' = crashes
    BY DEF Work, Borrow, ListPage, BeginContainer, StopCancelled, PageDone,
       ReadSchema, Compare, Advance, RecordUnreadable, RecordChange, UpsertContainer,
       ReplaceColumns, Inspect, PlanRemovals, RecordRemoval, Forget, RemovalsDone, Finish,
       Cleanup, OnlyWorker, KeepsStore, sourceVars, auxVars
  <1>2. \A i \in Jobs : i # j => walked'[i] = walked[i]
    BY <1>a DEF Work, Borrow, ListPage, BeginContainer, StopCancelled, PageDone,
       ReadSchema, Compare, Advance, RecordUnreadable, RecordChange, UpsertContainer,
       ReplaceColumns, Inspect, PlanRemovals, RecordRemoval, Forget, RemovalsDone, Finish,
       Cleanup, OnlyWorker, KeepsStore, sourceVars, auxVars
  <1>3. \A i \in Jobs : Request(i)' = Request(i) /\ Db(i)' = Db(i)
    BY RowsKept DEF Request, Db
  <1>4. ASSUME NEW i \in Jobs PROVE Known(i)' <=> Known(i)
    <2>1. CASE StopCancelled(j) \/ Finish(j)
      <3>1. scans[j].state # "none"
        BY StaysInFlight DEF Unstarted, Active, Steps
      <3>2. scans'[j].state # "none"
        BY <1>a, <2>1 DEF StopCancelled, Finish, Row
      <3>3. i # j => scans'[i] = scans[i]
        BY RowsKept
      <3> QED
        BY <3>1, <3>2, <3>3 DEF Known
    <2>2. CASE Advance(j)
      BY <1>a, <2>2 DEF Advance, Known, Row
    <2>3. CASE Borrow(j) \/ ListPage(j) \/ BeginContainer(j) \/ PageDone(j) \/ ReadSchema(j)
             \/ Compare(j) \/ PlanRemovals(j) \/ RemovalsDone(j)
      <3>1. OnlyWorker
        BY <2>3 DEF Borrow, ListPage, BeginContainer, PageDone, ReadSchema, Compare,
         PlanRemovals, RemovalsDone
      <3> QED
        BY <3>1 DEF OnlyWorker, Known
    <2>4. CASE RecordUnreadable(j) \/ RecordChange(j) \/ UpsertContainer(j) \/ ReplaceColumns(j)
             \/ Inspect(j) \/ RecordRemoval(j) \/ Forget(j) \/ Cleanup(j)
      BY <2>4 DEF RecordUnreadable, RecordChange, UpsertContainer, ReplaceColumns, Inspect,
         RecordRemoval, Forget, Cleanup, Known
    <2> QED
      BY <2>1, <2>2, <2>3, <2>4 DEF Work
  <1>5. worker'[j].covers = worker[j].covers
    <2>1. CASE Borrow(j) \/ StopCancelled(j) \/ PageDone(j) \/ RecordUnreadable(j)
               \/ RecordChange(j) \/ UpsertContainer(j) \/ ReplaceColumns(j) \/ Inspect(j)
               \/ RemovalsDone(j) \/ Finish(j)
      BY <1>a, <2>1 DEF Borrow, StopCancelled, PageDone, RecordUnreadable, RecordChange,
         UpsertContainer, ReplaceColumns, Inspect, RemovalsDone, Finish, Goto, Worker
    <2>2. CASE ListPage(j)
      BY <1>a, <2>2 DEF ListPage, Goto, Worker
    <2>3. CASE BeginContainer(j)
      BY <1>a, <2>3 DEF BeginContainer, Worker
    <2>4. CASE ReadSchema(j)
      BY <1>a, <2>4 DEF ReadSchema, Goto, Worker
    <2>5. CASE Compare(j)
      BY <1>a, <2>5 DEF Compare, Worker
    <2>6. CASE Advance(j)
      BY <1>a, <2>6 DEF Advance, Worker
    <2>7. CASE PlanRemovals(j)
      BY <1>a, <2>7 DEF PlanRemovals, Worker
    <2>8. CASE RecordRemoval(j)
      BY <1>a, <2>8 DEF RecordRemoval, Worker
    <2>9. CASE Forget(j)
      BY <1>a, <2>9 DEF Forget, Worker
    <2>10. CASE Cleanup(j)
      BY <1>a, <2>10 DEF Cleanup, Resting, Worker
    <2> QED
      BY <2>1, <2>2, <2>3, <2>4, <2>5, <2>6, <2>7, <2>8, <2>9, <2>10 DEF Work
  <1> QED
    BY <1>1, <1>2, <1>3, <1>4, <1>5

\* A row is written by the thread of its database that handles the container,
\* or erased by the one whose removal it is.
LEMMA StoredBy ==
  ASSUME TypeOK, InFlight, NEW j \in Jobs, Work(j), NEW d \in Databases, NEW n \in Names
  PROVE  \/ stored'[d][n] = stored[d][n]
         \/ RecordUnreadable(j) /\ d = Db(j) /\ n = worker[j].name /\ stored'[d][n] = Unread
         \/ UpsertContainer(j) /\ d = Db(j) /\ n = worker[j].name
            /\ stored'[d][n] = worker[j].shape
         \/ Forget(j) /\ worker[j].victim = <<d, n>> /\ stored'[d][n] = NoRow
  <1>a. stored \in [Databases -> [Names -> Shapes \cup {NoRow, Unread}]]
        /\ worker[j] \in Worker
    BY DEF TypeOK
  <1>1. CASE RecordUnreadable(j)
    BY <1>a, <1>1 DEF RecordUnreadable
  <1>2. CASE UpsertContainer(j)
    BY <1>a, <1>2 DEF UpsertContainer
  <1>3. CASE Forget(j)
    <2>1. worker[j].victim \in Databases \X (Names \cup {0})
      BY <1>a DEF Worker
    <2>2. worker[j].victim = <<worker[j].victim[1], worker[j].victim[2]>>
      BY <2>1
    <2>3. stored' = [stored EXCEPT ![worker[j].victim[1]][worker[j].victim[2]] = NoRow]
      BY <1>3 DEF Forget
    <2> QED
      BY <1>a, <1>3, <2>2, <2>3
  <1>4. CASE ~RecordUnreadable(j) /\ ~UpsertContainer(j) /\ ~Forget(j)
    <2>1. stored' = stored
      BY <1>4 DEF Work, Borrow, ListPage, BeginContainer, StopCancelled, PageDone,
       ReadSchema, Compare, Advance, RecordChange, ReplaceColumns, Inspect, PlanRemovals,
       RecordRemoval, RemovalsDone, Finish, Cleanup, OnlyWorker, KeepsStore, storeVars
    <2> QED
      BY <2>1
  <1> QED
    BY <1>1, <1>2, <1>3, <1>4

\* The history of a container grows by the change its thread found, or by the
\* removal its thread is at.
LEMMA RecordedBy ==
  ASSUME TypeOK, InFlight, NEW j \in Jobs, Work(j), NEW d \in Databases, NEW n \in Names
  PROVE  \/ history'[d][n] = history[d][n]
         \/ \E c \in Change :
               /\ RecordChange(j) /\ d = Db(j) /\ n = worker[j].name
               /\ history'[d][n] = Append(history[d][n], c)
               /\ c.type # "container_removed" /\ c.job = j /\ c.new = worker[j].shape
         \/ \E c \in Change :
               /\ RecordRemoval(j) /\ <<d, n>> \in worker[j].gone
               /\ worker'[j].victim = <<d, n>>
               /\ history'[d][n] = Append(history[d][n], c)
               /\ c.type = "container_removed" /\ c.job = j /\ c.new = NoRow
  <1>a. history \in [Databases -> [Names -> Seq(Change)]] /\ worker \in [Jobs -> Worker]
        /\ worker[j] \in Worker
    BY DEF TypeOK
  <1>1. CASE RecordChange(j)
    <2> DEFINE c == [type |-> IF worker[j].prior = NoRow THEN "container_added"
                              ELSE "schema_changed",
                     job |-> j, new |-> worker[j].shape]
    <2>1. history' = [history EXCEPT ![Db(j)][worker[j].name] = Append(@, c)]
      BY <1>1 DEF RecordChange
    <2>2. c \in Change
      BY <1>1 DEF InFlight, Change, RecordChange, At, Holding
    <2>3. c.type # "container_removed" /\ c.job = j /\ c.new = worker[j].shape
      OBVIOUS
    <2> HIDE DEF c
    <2> QED
      BY <1>1, <1>a, <2>1, <2>2, <2>3
  <1>2. CASE RecordRemoval(j)
    <2> DEFINE c == [type |-> "container_removed", job |-> j, new |-> NoRow]
    <2>1. PICK k \in worker[j].gone :
            /\ history' = [history EXCEPT ![k[1]][k[2]] = Append(@, c)]
            /\ worker' = [worker EXCEPT ![j].pc = "forget", ![j].victim = k,
                                        ![j].gone = @ \ {k}]
      BY <1>2 DEF RecordRemoval
    <2>2. c \in Change /\ c.type = "container_removed" /\ c.job = j /\ c.new = NoRow
      BY DEF Change
    <2> HIDE DEF c
    <2>3. k \in Databases \X Names
      BY <1>a DEF Worker
    <2>4. worker'[j].victim = k /\ k = <<k[1], k[2]>>
      BY <1>a, <2>1, <2>3 DEF Worker
    <2>5. history'[d][n] = IF k = <<d, n>> THEN Append(history[d][n], c) ELSE history[d][n]
      BY <1>a, <2>1, <2>3, <2>4
    <2> QED
      BY <1>2, <2>1, <2>2, <2>4, <2>5
  <1>3. CASE ~RecordChange(j) /\ ~RecordRemoval(j)
    <2>1. history' = history
      BY <1>3 DEF Work, Borrow, ListPage, BeginContainer, StopCancelled, PageDone,
       ReadSchema, RecordUnreadable, Compare, Advance, UpsertContainer, ReplaceColumns, Inspect,
       PlanRemovals, Forget, RemovalsDone, Finish, Cleanup, OnlyWorker, KeepsStore, storeVars
    <2> QED
      BY <2>1
  <1> QED
    BY <1>1, <1>2, <1>3

-----------------------------------------------------------------------------
(* How jobs come to be *)

\* A new job is the first that is not known, its request is not in flight, and
\* one that covers everything has seen nothing but what is there now.
LEMMA StartFacts ==
  ASSUME TypeOK, NEW j \in Jobs, Start(j)
  PROVE  /\ ~Known(j) /\ Known(j)' /\ scans'[j].state = "running"
         /\ \A i \in Jobs : i < j => Known(i)
         /\ Request(j)' \in Requests /\ Request(j)' \notin running
         /\ worker'[j].pc = "borrow"
         /\ worker'[j].covers =>
               /\ walked'[j] = {} /\ worker'[j].seen = {}
               /\ \A d \in Databases, n \in Names :
                     held'[j][d][n] = held[j][d][n] \cup {catalog[d][n]}
         /\ \A i \in Jobs \ {j} : /\ scans'[i] = scans[i] /\ worker'[i] = worker[i]
                                  /\ walked'[i] = walked[i] /\ held'[i] = held[i]
                                  /\ Request(i)' = Request(i) /\ Db(i)' = Db(i)
                                  /\ Known(i)' <=> Known(i)
         /\ UNCHANGED <<catalog, stored, columns, inspected, history, crashes>>
  <1>a. /\ worker \in [Jobs -> Worker] /\ scans \in [Jobs -> Row]
        /\ walked \in [Jobs -> SUBSET (Databases \X Names)]
        /\ held \in [Jobs -> [Databases -> [Names -> SUBSET Upstream]]]
    BY DEF TypeOK
  <1>1. PICK req \in Requests, opt \in Options, stamp \in Stamps(j) :
          StartAfresh(j, req, opt, stamp) \/ StartResumed(j, req, opt, stamp)
    BY DEF Start
  <1>2. PICK cursor, baseWalked, baseHeld :
          /\ Launch(j, req, opt.force, cursor, stamp, baseWalked, baseHeld)
          /\ cursor = 0 => baseWalked = {} /\ baseHeld = held[j]
    BY <1>1 DEF StartAfresh, StartResumed
  <1>3. ~Known(j) /\ \A i \in Jobs : i < j => Known(i)
    BY DEF Start, NextJob, Known
  <1>4. req \notin running
    BY <1>1 DEF StartAfresh, StartResumed
  <1>5. scans'[j].request = req /\ scans'[j].state = "running"
    BY <1>a, <1>2 DEF Launch
  <1>6. /\ worker'[j].pc = "borrow" /\ worker'[j].seen = {}
        /\ worker'[j].covers <=> cursor = 0
    BY <1>a, <1>2 DEF Launch, Resting
  <1>7. walked'[j] = baseWalked
    BY <1>a, <1>2 DEF Launch
  <1>8. \A d \in Databases, n \in Names : held'[j][d][n] = baseHeld[d][n] \cup {catalog[d][n]}
    BY <1>a, <1>2 DEF Launch
  <1>9. \A i \in Jobs \ {j} : /\ scans'[i] = scans[i] /\ worker'[i] = worker[i]
                              /\ walked'[i] = walked[i] /\ held'[i] = held[i]
    BY <1>a, <1>2 DEF Launch
  <1>10. \A i \in Jobs \ {j} : /\ Request(i)' = Request(i) /\ Db(i)' = Db(i)
                               /\ Known(i)' <=> Known(i)
    BY <1>9 DEF Request, Db, Known
  <1>11. UNCHANGED <<catalog, stored, columns, inspected, history, crashes>>
    BY <1>2 DEF Launch, sourceVars, storeVars
  <1>12. worker'[j].covers =>
             /\ walked'[j] = {}
             /\ \A d \in Databases, n \in Names :
                   held'[j][d][n] = held[j][d][n] \cup {catalog[d][n]}
    BY <1>2, <1>6, <1>7, <1>8
  <1>13. Request(j)' = req /\ Known(j)'
    BY <1>5 DEF Request, Known
  <1> QED
    BY <1>3, <1>4, <1>5, <1>6, <1>9, <1>10, <1>11, <1>12, <1>13

\* A change of the source adds to what is remembered for the jobs that are
\* known, and leaves the others theirs.
LEMMA UpstreamFacts ==
  ASSUME TypeOK, NEW d \in Databases, NEW n \in Names, ChangeUpstream(d, n)
  PROVE  /\ UNCHANGED <<scans, worker, walked, running, stored, columns, inspected,
                        history, crashes>>
         /\ \A i \in Jobs : /\ Request(i)' = Request(i) /\ Db(i)' = Db(i)
                            /\ Known(i)' <=> Known(i)
         /\ \A i \in Jobs : ~Known(i) => held'[i] = held[i]
         /\ \E s : \A i \in Jobs : Known(i) =>
               \A e \in Databases, m \in Names :
                  /\ e = d /\ m = n => held'[i][e][m] = held[i][e][m] \cup {s}
                  /\ (e = d /\ m = n) \/ held'[i][e][m] = held[i][e][m]
  <1>a. held \in [Jobs -> [Databases -> [Names -> SUBSET Upstream]]]
    BY DEF TypeOK
  <1>1. UNCHANGED <<scans, worker, walked, running, stored, columns, inspected,
                    history, crashes>>
    BY DEF ChangeUpstream, storeVars
  <1>2. \A i \in Jobs : /\ Request(i)' = Request(i) /\ Db(i)' = Db(i)
                        /\ Known(i)' <=> Known(i)
    BY <1>1 DEF Request, Db, Known
  <1>3. PICK s : held' = [i \in Jobs |-> IF scans[i].state = "none" THEN held[i]
                                         ELSE [held[i] EXCEPT ![d][n] = @ \cup {s}]]
    BY DEF ChangeUpstream
  <1>4. \A i \in Jobs : ~Known(i) => held'[i] = held[i]
    BY <1>3 DEF Known
  <1>5. ASSUME NEW i \in Jobs, Known(i), NEW e \in Databases, NEW m \in Names
        PROVE  /\ e = d /\ m = n => held'[i][e][m] = held[i][e][m] \cup {s}
               /\ (e = d /\ m = n) \/ held'[i][e][m] = held[i][e][m]
    <2>1. held'[i] = [held[i] EXCEPT ![d][n] = @ \cup {s}]
      BY <1>3, <1>5 DEF Known
    <2>2. held[i] \in [Databases -> [Names -> SUBSET Upstream]]
      BY <1>a
    <2>3. CASE e = d
      BY <2>1, <2>2, <2>3
    <2>4. CASE e # d
      BY <2>1, <2>2, <2>4
    <2> QED
      BY <2>3, <2>4
  <1>6. \E t : \A i \in Jobs : Known(i) => \A e \in Databases, m \in Names :
            /\ e = d /\ m = n => held'[i][e][m] = held[i][e][m] \cup {t}
            /\ (e = d /\ m = n) \/ held'[i][e][m] = held[i][e][m]
    BY <1>5
  <1> QED
    BY <1>1, <1>2, <1>4, <1>6

\* Jobs are numbered in the order they are started, by requests that clients
\* make, and nothing is remembered for one that is still to come.
InTurn ==
    /\ \A i, k \in Jobs : i < k /\ Known(k) => Known(i)
    /\ \A k \in Jobs : Known(k) => Request(k) \in Requests
    /\ \A k \in Jobs : ~Known(k) => \A d \in Databases, n \in Names : held[k][d][n] = {}

\* Every row is of a database some request stands for.
RowsAskedFor ==
    \A d \in Databases, n \in Names :
        stored[d][n] # NoRow => \E req \in Requests : d = Database(req)

LEMMA NextInTurn ==
  ASSUME TypeOK, InFlight, Unstarted, InTurn, RowsAskedFor, [Next]_vars
  PROVE  InTurn' /\ RowsAskedFor'
  <1>1. ASSUME NEW j \in Jobs, Start(j)
        PROVE  InTurn' /\ RowsAskedFor'
    <2>1. \A i, k \in Jobs : i < k /\ Known(k)' => Known(i)'
      BY <1>1, StartFacts DEF InTurn
    <2>2. \A k \in Jobs : Known(k)' => Request(k)' \in Requests
      BY <1>1, StartFacts DEF InTurn
    <2>3. \A k \in Jobs : ~Known(k)' => \A d \in Databases, n \in Names : held'[k][d][n] = {}
      BY <1>1, StartFacts DEF InTurn
    <2>4. stored' = stored
      BY <1>1, StartFacts
    <2> QED
      BY <2>1, <2>2, <2>3, <2>4 DEF InTurn, RowsAskedFor
  <1>2. ASSUME NEW j \in Jobs, Work(j)
        PROVE  InTurn' /\ RowsAskedFor'
    <2>1. InTurn'
      BY <1>2, WorkFrame DEF InTurn
    <2>2. Known(j)
      BY <1>2, StaysInFlight DEF Unstarted, Active, Steps, Known
    <2>3. Request(j) \in Requests
      BY <2>2 DEF InTurn
    <2>4. ASSUME NEW d \in Databases, NEW n \in Names, stored'[d][n] # NoRow
          PROVE  \E req \in Requests : d = Database(req)
      <3>1. stored'[d][n] = stored[d][n] \/ d = Db(j)
        BY <1>2, <2>4, StoredBy
      <3> QED
        BY <2>3, <2>4, <3>1 DEF RowsAskedFor, Db
    <2> QED
      BY <2>1, <2>4 DEF RowsAskedFor
  <1>3. ASSUME NEW d \in Databases, NEW n \in Names, ChangeUpstream(d, n)
        PROVE  InTurn' /\ RowsAskedFor'
    <2>1. InTurn'
      BY <1>3, UpstreamFacts DEF InTurn
    <2> QED
      BY <1>3, <2>1, UpstreamFacts DEF RowsAskedFor
  <1>4. CASE UNCHANGED <<scans, held, stored>>
    <2>1. \A k \in Jobs : Request(k)' = Request(k) /\ (Known(k)' <=> Known(k))
      BY <1>4 DEF Request, Known
    <2> QED
      BY <1>4, <2>1 DEF InTurn, RowsAskedFor
  <1>5. CASE (\E j \in Jobs : Cancel(j)) \/ Close \/ Crash \/ UNCHANGED vars
    BY <1>4, <1>5 DEF Cancel, Close, Crash, vars, storeVars, auxVars
  <1> QED
    BY <1>1, <1>2, <1>3, <1>5 DEF Next

LEMMA InitInTurn ==
  ASSUME Init
  PROVE  InTurn /\ RowsAskedFor
  BY DEF Init, InTurn, RowsAskedFor, Known

-----------------------------------------------------------------------------
(* A removal is recorded only of what was missing *)

\* What a covering run has seen is what it is done with and the container in
\* flight; what it takes for removed is of its database and was missing.
Seen(j) == worker[j].covers => \A n \in Names :
    n \in worker[j].seen <=> \/ <<Db(j), n>> \in walked[j]
                             \/ worker[j].pc \in Handling /\ n = worker[j].name
Missed(j, k) == k[1] = Db(j) /\ k[2] \in Names /\ Absent \in held[j][k[1]][k[2]]
Gone(j) ==
    /\ worker[j].pc \in {"removals", "remove", "forget"} => worker[j].covers
    /\ worker[j].pc \in {"remove", "forget"} => \A k \in worker[j].gone : Missed(j, k)
    /\ worker[j].pc = "forget" => Missed(j, worker[j].victim)
Swept == \A j \in Active : Seen(j) /\ Gone(j)

\* Clients name their database always or never.
EitherWay == NoDb \notin Requests \/ Requests \subseteq {NoDb}

\* What the store holds for a request is then of the database it stands for.
LEMMA KeysAreOwn ==
  ASSUME TypeOK, InTurn, RowsAskedFor, EitherWay \/ Databases = {DefaultDb},
         NEW j \in Jobs, Known(j), NEW k \in ContainerKeys(Request(j))
  PROVE  /\ k[1] = Db(j) /\ k[2] \in Names /\ k = <<k[1], k[2]>>
         /\ stored[k[1]][k[2]] # NoRow
  <1>1. /\ k \in Databases \X Names /\ stored[k[1]][k[2]] # NoRow
        /\ Request(j) # NoDb => k[1] = Request(j)
    BY DEF ContainerKeys
  <1>2. k[1] \in Databases /\ k[2] \in Names /\ k = <<k[1], k[2]>>
    BY <1>1
  <1>3. Request(j) \in Requests /\ Db(j) \in Databases
    BY JobFacts DEF InTurn
  <1>4. CASE Request(j) # NoDb
    BY <1>1, <1>2, <1>4 DEF Db, Database
  <1>5. CASE Request(j) = NoDb /\ Requests \subseteq {NoDb}
    <2>1. PICK req \in Requests : k[1] = Database(req)
      BY <1>1, <1>2 DEF RowsAskedFor
    <2> QED
      BY <1>1, <1>2, <1>5, <2>1 DEF Db
  <1>6. CASE Databases = {DefaultDb}
    BY <1>1, <1>2, <1>3, <1>6
  <1> QED
    BY <1>3, <1>4, <1>5, <1>6 DEF EitherWay

\* A job whose row and thread a step leaves alone, and for which it remembers
\* no less.
LEMMA SweptKept ==
  ASSUME NEW j \in Jobs, Seen(j), Gone(j), Db(j)' = Db(j), worker'[j] = worker[j],
         walked'[j] = walked[j], Db(j) \in Databases,
         \A d \in Databases, n \in Names : held[j][d][n] \subseteq held'[j][d][n]
  PROVE  Seen(j)' /\ Gone(j)'
  <1>1. \A k : Missed(j, k) => Missed(j, k)'
    BY DEF Missed
  <1> QED
    BY <1>1 DEF Seen, Gone

\* A step of the thread that begins and ends no container and plans nothing.
LEMMA SweptOn ==
  ASSUME NEW j \in Jobs, Seen(j), Gone(j), Db(j)' = Db(j), held' = held,
         walked'[j] = walked[j], worker'[j].covers = worker[j].covers,
         worker'[j].seen = worker[j].seen, worker'[j].name = worker[j].name,
         worker'[j].pc \in Handling <=> worker[j].pc \in Handling,
         worker'[j].pc = "removals" => worker[j].covers,
         worker'[j].pc \in {"remove", "forget"} => worker[j].pc \in {"remove", "forget"},
         worker'[j].gone \subseteq worker[j].gone,
         worker'[j].pc = "forget" => worker'[j].victim \in worker[j].gone
  PROVE  Seen(j)' /\ Gone(j)'
  <1>1. \A k : Missed(j, k) => Missed(j, k)'
    BY DEF Missed
  <1>2. Seen(j)'
    BY DEF Seen
  <1> QED
    BY <1>1, <1>2 DEF Gone

\* A container that is begun is seen, one that is done with was seen, and what
\* is planned to be removed is on record and was not.
LEMMA SweptStep ==
  ASSUME TypeOK, InFlight, Unstarted, InTurn, RowsAskedFor,
         EitherWay \/ Databases = {DefaultDb},
         NEW j \in Jobs, Looked(j), Seen(j), Gone(j), Work(j), ~Cleanup(j)
  PROVE  Seen(j)' /\ Gone(j)'
  <1>a. worker \in [Jobs -> Worker] /\ worker[j] \in Worker
        /\ walked \in [Jobs -> SUBSET (Databases \X Names)]
    BY DEF TypeOK
  <1>b. held' = held /\ Db(j)' = Db(j) /\ worker'[j].covers = worker[j].covers
    BY WorkFrame
  <1>c. Advance(j) \/ walked' = walked
    BY DEF Work, Borrow, ListPage, BeginContainer, StopCancelled, PageDone, ReadSchema,
       Compare, RecordUnreadable, RecordChange, UpsertContainer, ReplaceColumns, Inspect,
       PlanRemovals, RecordRemoval, Forget, RemovalsDone, Finish, OnlyWorker, auxVars
  <1>d. \A k : Missed(j, k)' <=> Missed(j, k)
    BY <1>b DEF Missed
  <1>1. CASE Borrow(j) \/ StopCancelled(j) \/ RemovalsDone(j) \/ Finish(j)
    <2>1. /\ worker'[j].seen = worker[j].seen /\ worker'[j].name = worker[j].name
          /\ worker'[j].pc \in {"list", "failing", "cleanup", "finish"}
      BY <1>a, <1>1 DEF Borrow, StopCancelled, RemovalsDone, Finish, Goto, Worker
    <2>2. worker[j].pc \in {"borrow", "next", "remove", "finish", "failing"}
      BY <1>1 DEF Borrow, StopCancelled, RemovalsDone, Finish, At
    <2>3. worker'[j].gone = worker[j].gone
      BY <1>a, <1>1 DEF Borrow, StopCancelled, RemovalsDone, Finish, Goto, Worker
    <2>4. walked' = walked
      BY <1>1, <1>c, <2>2 DEF Advance, At
    <2> QED
      BY <1>b, <2>1, <2>2, <2>3, <2>4, SweptOn DEF Handling
  <1>2. CASE ListPage(j)
    <2>1. /\ worker'[j].seen = worker[j].seen /\ worker'[j].name = worker[j].name
          /\ worker'[j].pc \in {"next", "failing"} /\ worker[j].pc = "list"
          /\ worker'[j].gone = worker[j].gone
      BY <1>a, <1>2 DEF ListPage, Goto, At, Worker
    <2>2. walked' = walked
      BY <1>c, <2>1 DEF Advance, At
    <2> QED
      BY <1>b, <2>1, <2>2, SweptOn DEF Handling
  <1>3. CASE BeginContainer(j)
    <2>1. PICK n \in worker[j].page :
            worker' = [worker EXCEPT ![j].pc = "read", ![j].name = n,
                            ![j].page = @ \ {n}, ![j].seen = @ \cup {n}]
      BY <1>3 DEF BeginContainer
    <2>2. /\ worker'[j].pc = "read" /\ worker'[j].name = n
          /\ worker'[j].seen = worker[j].seen \cup {n}
      BY <1>a, <2>1 DEF Worker
    <2>3. worker[j].pc = "next" /\ walked' = walked
      BY <1>3, <1>c DEF BeginContainer, Advance, At
    <2>4. Seen(j)'
      BY <1>b, <2>2, <2>3 DEF Seen, Handling
    <2> QED
      BY <2>2, <2>4 DEF Gone
  <1>4. CASE PageDone(j)
    <2>1. /\ worker'[j].seen = worker[j].seen /\ worker'[j].name = worker[j].name
          /\ worker'[j].pc \in {"list", "removals", "finish"} /\ worker[j].pc = "next"
          /\ worker'[j].gone = worker[j].gone
          /\ worker'[j].pc = "removals" => worker[j].covers
      BY <1>a, <1>4 DEF PageDone, Goto, At, Worker
    <2>2. walked' = walked
      BY <1>c, <2>1 DEF Advance, At
    <2> QED
      BY <1>b, <2>1, <2>2, SweptOn DEF Handling
  <1>5. CASE ReadSchema(j) \/ RecordUnreadable(j) \/ Compare(j) \/ RecordChange(j)
             \/ UpsertContainer(j) \/ ReplaceColumns(j) \/ Inspect(j)
    <2>1. /\ worker'[j].seen = worker[j].seen /\ worker'[j].name = worker[j].name
          /\ worker'[j].pc \in Handling /\ worker'[j].gone = worker[j].gone
      <3>1. CASE ReadSchema(j)
        BY <1>a, <3>1 DEF ReadSchema, Goto, Worker, Handling
      <3>2. CASE Compare(j)
        BY <1>a, <3>2 DEF Compare, Worker, Handling
      <3>3. CASE RecordUnreadable(j) \/ RecordChange(j) \/ UpsertContainer(j)
                 \/ ReplaceColumns(j) \/ Inspect(j)
        BY <1>a, <3>3 DEF RecordUnreadable, RecordChange, UpsertContainer, ReplaceColumns,
           Inspect, Goto, Worker, Handling
      <3> QED
        BY <1>5, <3>1, <3>2, <3>3
    <2>2. worker[j].pc \in Handling /\ worker[j].pc # "advance"
      BY <1>5 DEF ReadSchema, RecordUnreadable, Compare, RecordChange, UpsertContainer,
         ReplaceColumns, Inspect, At, Handling
    <2>3. walked' = walked
      BY <1>c, <2>2 DEF Advance, At
    <2> QED
      BY <1>b, <2>1, <2>2, <2>3, SweptOn DEF Handling
  <1>6. CASE Advance(j)
    <2>1. worker'[j].pc = "next" /\ worker'[j].seen = worker[j].seen
          /\ worker[j].pc = "advance"
      BY <1>a, <1>6 DEF Advance, At, Worker
    <2>2. walked'[j] = walked[j] \cup {<<Db(j), worker[j].name>>}
      BY <1>a, <1>6 DEF Advance
    <2>3. Seen(j)'
      BY <1>b, <2>1, <2>2 DEF Seen, Handling
    <2> QED
      BY <2>1, <2>3 DEF Gone
  <1>7. CASE PlanRemovals(j)
    <2>1. /\ worker'[j].seen = worker[j].seen /\ worker'[j].pc = "remove"
          /\ worker[j].pc = "removals"
          /\ worker'[j].gone = ContainerKeys(Request(j)) \ ({Db(j)} \X worker[j].seen)
      BY <1>a, <1>7 DEF PlanRemovals, At, Worker
    <2>2. walked' = walked
      BY <1>c, <2>1 DEF Advance, At
    <2>3. worker[j].covers /\ Known(j)
      BY <2>1, StaysInFlight DEF Gone, Unstarted, Active, Steps, Known
    <2>4. Seen(j)'
      BY <1>b, <2>1, <2>2 DEF Seen, Handling
    <2>5. ASSUME NEW k \in worker'[j].gone PROVE Missed(j, k)
      <3>1. k \in ContainerKeys(Request(j)) /\ k \notin {Db(j)} \X worker[j].seen
        BY <2>1
      <3>2. k[1] = Db(j) /\ k[2] \in Names /\ k = <<k[1], k[2]>>
        BY <2>3, <3>1, KeysAreOwn
      <3>3. k[2] \notin worker[j].seen
        BY <3>1, <3>2
      <3>4. <<Db(j), k[2]>> \notin walked[j]
        BY <2>3, <3>2, <3>3 DEF Seen
      <3>5. Done(j, k[2])
        BY <2>1, <3>2 DEF Looked, Complete, Ending
      <3> QED
        BY <3>2, <3>4, <3>5 DEF Done, Missed
    <2> QED
      BY <1>b, <1>d, <2>1, <2>3, <2>4, <2>5 DEF Gone
  <1>8. CASE RecordRemoval(j)
    <2>1. PICK k \in worker[j].gone :
            worker' = [worker EXCEPT ![j].pc = "forget", ![j].victim = k,
                                      ![j].gone = @ \ {k}]
      BY <1>8 DEF RecordRemoval
    <2>2. /\ worker'[j].pc = "forget" /\ worker'[j].victim = k
          /\ worker'[j].gone = worker[j].gone \ {k} /\ worker'[j].seen = worker[j].seen
          /\ worker'[j].name = worker[j].name
      BY <1>a, <2>1 DEF Worker
    <2>3. worker[j].pc = "remove" /\ walked' = walked
      BY <1>8, <1>c DEF RecordRemoval, Advance, At
    <2> QED
      BY <1>b, <2>2, <2>3, SweptOn DEF Handling
  <1>9. CASE Forget(j)
    <2>1. /\ worker'[j].pc = "remove" /\ worker'[j].gone = worker[j].gone
          /\ worker'[j].seen = worker[j].seen /\ worker'[j].name = worker[j].name
      BY <1>a, <1>9 DEF Forget, Worker
    <2>2. worker[j].pc = "forget" /\ walked' = walked
      BY <1>9, <1>c DEF Forget, Advance, At
    <2> QED
      BY <1>b, <2>1, <2>2, SweptOn DEF Handling
  <1> QED
    BY <1>1, <1>2, <1>3, <1>4, <1>5, <1>6, <1>7, <1>8, <1>9 DEF Work

LEMMA NextSwept ==
  ASSUME TypeOK, InFlight, Unstarted, LookedEverywhere, InTurn, RowsAskedFor, Swept,
         EitherWay \/ Databases = {DefaultDb}, [Next]_vars
  PROVE  Swept'
  <1>a. \A i \in Active : Known(i) /\ Db(i) \in Databases /\ Looked(i)
    BY JobFacts DEF Unstarted, Active, Steps, Known, LookedEverywhere
  <1>1. ASSUME NEW j \in Jobs, Start(j) PROVE Swept'
    <2>1. ASSUME NEW i \in Jobs \ {j}, worker'[i].pc \in Steps
          PROVE  Seen(i)' /\ Gone(i)'
      <3>1. i \in Active /\ held'[i] = held[i]
        BY <1>1, <2>1, StartFacts DEF Active
      <3> QED
        BY <1>1, <1>a, <3>1, StartFacts, SweptKept DEF Swept
    <2>2. Seen(j)' /\ Gone(j)'
      BY <1>1, StartFacts DEF Seen, Gone, Handling
    <2> QED
      BY <2>1, <2>2 DEF Swept, Active
  <1>2. ASSUME NEW j \in Jobs, Work(j) PROVE Swept'
    <2>1. ASSUME NEW i \in Jobs \ {j}, worker'[i].pc \in Steps
          PROVE  Seen(i)' /\ Gone(i)'
      <3>1. worker'[i] = worker[i] /\ i \in Active
        BY <1>2, <2>1, OneThread DEF Active
      <3>2. held' = held /\ walked'[i] = walked[i] /\ Db(i)' = Db(i)
        BY <1>2, WorkFrame
      <3> QED
        BY <1>a, <3>1, <3>2, SweptKept DEF Swept
    <2>2. j \in Active
      BY <1>2, StaysInFlight
    <2>3. Cleanup(j) => worker'[j].pc \notin Steps
      BY DEF Cleanup, Resting, Steps, TypeOK
    <2>4. worker'[j].pc \in Steps => Seen(j)' /\ Gone(j)'
      BY <1>2, <1>a, <2>2, <2>3, SweptStep DEF Swept
    <2> QED
      BY <2>1, <2>4 DEF Swept, Active
  <1>3. ASSUME NEW d \in Databases, NEW n \in Names, ChangeUpstream(d, n) PROVE Swept'
    <2>1. ASSUME NEW i \in Active PROVE Seen(i)' /\ Gone(i)'
      <3>1. i \in Jobs /\ Known(i) /\ Db(i) \in Databases
        BY <1>a DEF Active
      <3>2. \A e \in Databases, m \in Names : held[i][e][m] \subseteq held'[i][e][m]
        BY <1>3, <3>1, UpstreamFacts
      <3>3. worker' = worker /\ walked' = walked /\ Db(i)' = Db(i)
        BY <1>3, <3>1, UpstreamFacts
      <3> QED
        BY <3>1, <3>2, <3>3, SweptKept DEF Swept
    <2> QED
      BY <1>3, <2>1, UpstreamFacts DEF Swept, Active
  <1>4. CASE Crash
    <2>1. Active' = {}
      BY <1>4 DEF Crash, At, Resting, Active, Steps
    <2> QED
      BY <2>1 DEF Swept
  <1>5. CASE UNCHANGED <<scans, worker, walked, held>>
    <2>1. Active' = Active /\ \A i \in Jobs : Db(i)' = Db(i)
      BY <1>5 DEF Active, Db, Request
    <2>2. ASSUME NEW i \in Active PROVE Seen(i)' /\ Gone(i)'
      BY <1>5, <1>a, <2>1, SweptKept DEF Swept, Active
    <2> QED
      BY <2>1, <2>2 DEF Swept
  <1>6. CASE (\E j \in Jobs : Cancel(j)) \/ Close \/ UNCHANGED vars
    BY <1>5, <1>6 DEF Cancel, Close, vars, auxVars
  <1> QED
    BY <1>1, <1>2, <1>3, <1>4, <1>6 DEF Next

\* What the history says was removed was missing, for a job that was known then.
RemovalsMissed ==
    \A d \in Databases, n \in Names : \A i \in DOMAIN history[d][n] :
        LET c == history[d][n][i] IN
        /\ c.job \in Jobs /\ Known(c.job)
        /\ c.type = "container_removed" => Absent \in held[c.job][d][n]

LEMMA NextRemovals ==
  ASSUME TypeOK, InFlight, Unstarted, Swept, RemovalsMissed, [Next]_vars
  PROVE  RemovalsMissed'
  <1>1. ASSUME history' = history,
               \A k \in Jobs : Known(k) =>
                  /\ Known(k)'
                  /\ \A d \in Databases, n \in Names : held[k][d][n] \subseteq held'[k][d][n]
        PROVE  RemovalsMissed'
    BY <1>1 DEF RemovalsMissed
  <1>2. ASSUME NEW j \in Jobs, Start(j) PROVE RemovalsMissed'
    <2>1. \A k \in Jobs : Known(k) => k # j
      BY <1>2, StartFacts
    <2> QED
      BY <1>1, <1>2, <2>1, StartFacts
  <1>3. ASSUME NEW j \in Jobs, Work(j) PROVE RemovalsMissed'
    <2>a. held' = held /\ \A k \in Jobs : Known(k)' <=> Known(k)
      BY <1>3, WorkFrame
    <2>b. j \in Active /\ Known(j)
      BY <1>3, StaysInFlight DEF Unstarted, Active, Steps, Known
    <2> SUFFICES ASSUME NEW d \in Databases, NEW n \in Names, NEW i \in DOMAIN history'[d][n]
                 PROVE  /\ history'[d][n][i].job \in Jobs /\ Known(history'[d][n][i].job)
                        /\ history'[d][n][i].type = "container_removed" =>
                              Absent \in held[history'[d][n][i].job][d][n]
      BY <2>a DEF RemovalsMissed
    <2>1. CASE history'[d][n] = history[d][n]
      BY <2>1 DEF RemovalsMissed
    <2>2. ASSUME NEW c \in Change, history'[d][n] = Append(history[d][n], c),
                 c.job = j, c.type = "container_removed" => Absent \in held[j][d][n]
          PROVE  /\ history'[d][n][i].job \in Jobs /\ Known(history'[d][n][i].job)
                 /\ history'[d][n][i].type = "container_removed" =>
                       Absent \in held[history'[d][n][i].job][d][n]
      <3>1. history[d][n] \in Seq(Change)
        BY DEF TypeOK
      <3>2. \/ i \in DOMAIN history[d][n] /\ history'[d][n][i] = history[d][n][i]
            \/ history'[d][n][i] = c
        BY <2>2, <3>1
      <3> QED
        BY <2>2, <2>b, <3>2 DEF RemovalsMissed
    <2>3. CASE \E c \in Change :
               /\ RecordRemoval(j) /\ <<d, n>> \in worker[j].gone
               /\ worker'[j].victim = <<d, n>>
               /\ history'[d][n] = Append(history[d][n], c)
               /\ c.type = "container_removed" /\ c.job = j /\ c.new = NoRow
      <3>1. Missed(j, <<d, n>>)
        BY <2>3, <2>b DEF Swept, Gone, RecordRemoval, At
      <3> QED
        BY <2>2, <2>3, <3>1 DEF Missed
    <2>4. CASE \E c \in Change :
               /\ RecordChange(j) /\ d = Db(j) /\ n = worker[j].name
               /\ history'[d][n] = Append(history[d][n], c)
               /\ c.type # "container_removed" /\ c.job = j /\ c.new = worker[j].shape
      BY <2>2, <2>4
    <2> QED
      BY <1>3, <2>1, <2>3, <2>4, RecordedBy, SMTT(30)
  <1>4. ASSUME NEW d \in Databases, NEW n \in Names, ChangeUpstream(d, n) PROVE RemovalsMissed'
    <2>1. \A k \in Jobs : Known(k) => \A e \in Databases, m \in Names :
             held[k][e][m] \subseteq held'[k][e][m]
      BY <1>4, UpstreamFacts
    <2> QED
      BY <1>1, <1>4, <2>1, UpstreamFacts
  <1>5. CASE (\E j \in Jobs : Cancel(j)) \/ Close \/ Crash \/ UNCHANGED vars
    <2>1. UNCHANGED <<history, scans, held>>
      BY <1>5 DEF Cancel, Close, Crash, vars, storeVars, auxVars
    <2> QED
      BY <1>1, <2>1 DEF Known
  <1> QED
    BY <1>2, <1>3, <1>4, <1>5 DEF Next

\* A removal is recorded only of a container that was missing from the source
\* since the scan began: for any number of scans, through crashes and resumed
\* runs, where clients name their database always or never, or there is but
\* one.  (The run default_removals shows that it is false otherwise.)
THEOREM NothingFabricated ==
  ASSUME EitherWay \/ Databases = {DefaultDb}
  PROVE  Spec => []NoFabricatedRemoval
  <1> DEFINE Before == RunningIsExact /\ Unstarted /\ LookedEverywhere
             Inv == InTurn /\ RowsAskedFor /\ Swept /\ RemovalsMissed
  <1>1. Init => Before /\ Inv
    <2> SUFFICES ASSUME Init PROVE Before /\ Inv
      OBVIOUS
    <2>1. LookedEverywhere /\ RemovalsMissed
      BY DEF Init, LookedEverywhere, RemovalsMissed
    <2>2. Swept
      BY DEF Init, Swept, Active, Resting, Steps
    <2> QED
      BY <2>1, <2>2, InitRunning, InitInTurn
  <1>2. TypeOK /\ InFlight /\ Before /\ Inv /\ [Next]_vars => (Before /\ Inv)'
    BY NextRunning, NextLooked, NextInTurn, NextSwept, NextRemovals
  <1>3. RemovalsMissed => NoFabricatedRemoval
    BY DEF RemovalsMissed, NoFabricatedRemoval
  <1> QED
    BY <1>1, <1>2, <1>3, TypeCorrect, PTL DEF Spec

-----------------------------------------------------------------------------
(* What a complete scan leaves is current *)

\* Where a thread's step has come from, by where it has led.
LEMMA Arrivals ==
  ASSUME TypeOK, NEW j \in Jobs, Work(j)
  PROVE  /\ worker'[j].pc = "upsert" => RecordChange(j) \/ Compare(j)
         /\ worker'[j].pc = "columns" => UpsertContainer(j)
         /\ worker'[j].pc = "inspect" => ReplaceColumns(j)
         /\ worker'[j].pc = "advance" => RecordUnreadable(j) \/ Compare(j) \/ Inspect(j)
         /\ worker'[j].pc = "remove" => PlanRemovals(j) \/ Forget(j)
         /\ worker'[j].pc = "forget" => RecordRemoval(j)
         /\ worker'[j].pc = "finish" => RemovalsDone(j) \/ (PageDone(j) /\ ~worker[j].covers)
         /\ worker'[j].pc \in Holding => \/ ReadSchema(j)
                                         \/ worker[j].pc \in Holding
         /\ worker'[j].pc \in {"upsert", "columns", "inspect", "advance"}
              => worker'[j].name = worker[j].name /\ worker'[j].shape = worker[j].shape
  <1>a. worker \in [Jobs -> Worker] /\ worker[j] \in Worker
    BY DEF TypeOK
  <1> DEFINE pc == worker'[j].pc
             Same == worker'[j].name = worker[j].name /\ worker'[j].shape = worker[j].shape
             Was(steps) == worker[j].pc \in steps
  <1>1. CASE Borrow(j)
    <2>1. pc \in {"list", "failing"}
      BY <1>a, <1>1 DEF Borrow, Goto, Worker
    <2> QED
      BY <2>1 DEF Holding
  <1>2. CASE ListPage(j)
    <2>1. pc \in {"next", "failing"}
      BY <1>a, <1>2 DEF ListPage, Goto, Worker
    <2> QED
      BY <2>1 DEF Holding
  <1>3. CASE BeginContainer(j)
    <2>1. pc = "read"
      BY <1>a, <1>3 DEF BeginContainer, Worker
    <2> QED
      BY <2>1 DEF Holding
  <1>4. CASE PageDone(j)
    <2>1. pc \in {"list", "removals", "finish"} /\ (pc = "finish" => ~worker[j].covers)
      BY <1>a, <1>4 DEF PageDone, Goto, Worker
    <2> QED
      BY <1>4, <2>1 DEF Holding
  <1>5. CASE ReadSchema(j)
    <2>1. pc \in {"compare", "unreadable"}
      BY <1>a, <1>5 DEF ReadSchema, Goto, Worker
    <2> QED
      BY <1>5, <2>1 DEF Holding
  <1>6. CASE RecordUnreadable(j)
    <2>1. pc = "advance" /\ Same
      BY <1>a, <1>6 DEF RecordUnreadable, Goto, Worker
    <2> QED
      BY <1>6, <2>1 DEF Holding
  <1>7. CASE Compare(j)
    <2>1. pc \in {"change", "upsert", "advance"} /\ Same /\ Was({"compare"})
      BY <1>a, <1>7 DEF Compare, At, Worker
    <2> QED
      BY <1>7, <2>1 DEF Holding
  <1>8. CASE RecordChange(j)
    <2>1. pc = "upsert" /\ Same /\ Was({"change"})
      BY <1>a, <1>8 DEF RecordChange, At, Goto, Worker
    <2> QED
      BY <1>8, <2>1 DEF Holding
  <1>9. CASE UpsertContainer(j)
    <2>1. pc = "columns" /\ Same /\ Was({"upsert"})
      BY <1>a, <1>9 DEF UpsertContainer, At, Goto, Worker
    <2> QED
      BY <1>9, <2>1 DEF Holding
  <1>10. CASE ReplaceColumns(j)
    <2>1. pc = "inspect" /\ Same /\ Was({"columns"})
      BY <1>a, <1>10 DEF ReplaceColumns, At, Goto, Worker
    <2> QED
      BY <1>10, <2>1 DEF Holding
  <1>11. CASE Inspect(j)
    <2>1. pc = "advance" /\ Same /\ Was({"inspect"})
      BY <1>a, <1>11 DEF Inspect, At, Goto, Worker
    <2> QED
      BY <1>11, <2>1 DEF Holding
  <1>12. CASE Advance(j)
    <2>1. pc = "next"
      BY <1>a, <1>12 DEF Advance, Worker
    <2> QED
      BY <2>1 DEF Holding
  <1>13. CASE PlanRemovals(j)
    <2>1. pc = "remove"
      BY <1>a, <1>13 DEF PlanRemovals, Worker
    <2> QED
      BY <1>13, <2>1 DEF Holding
  <1>14. CASE RecordRemoval(j)
    <2>1. pc = "forget"
      BY <1>a, <1>14 DEF RecordRemoval, Worker
    <2> QED
      BY <1>14, <2>1 DEF Holding
  <1>15. CASE Forget(j)
    <2>1. pc = "remove"
      BY <1>a, <1>15 DEF Forget, Worker
    <2> QED
      BY <1>15, <2>1 DEF Holding
  <1>16. CASE RemovalsDone(j)
    <2>1. pc = "finish"
      BY <1>a, <1>16 DEF RemovalsDone, Goto, Worker
    <2>2. pc \notin Holding
      BY <2>1 DEF Holding
    <2>3. RemovalsDone(j) \/ (PageDone(j) /\ ~worker[j].covers)
      BY <1>16, Zenon
    <2> QED
      BY <2>1, <2>2, <2>3
  <1>17. CASE StopCancelled(j) \/ Finish(j)
    <2>1. pc = "cleanup"
      BY <1>a, <1>17 DEF StopCancelled, Finish, Goto, Worker
    <2> QED
      BY <2>1 DEF Holding
  <1>18. CASE Cleanup(j)
    <2>1. pc = "ended"
      BY <1>a, <1>18 DEF Cleanup, Resting
    <2> QED
      BY <2>1 DEF Holding
  <1> HIDE DEF pc, Same, Was
  <1> QED
    BY <1>1, <1>2, <1>3, <1>4, <1>5, <1>6, <1>7, <1>8, <1>9, <1>10, <1>11, <1>12, <1>13,
       <1>14, <1>15, <1>16, <1>17, <1>18 DEF Work

\* What a thread carries from one step of a container to the next.
LEMMA ShapeKept ==
  ASSUME TypeOK, NEW j \in Jobs, Work(j), worker'[j].pc \in Holding,
         worker[j].pc \in Holding
  PROVE  worker'[j].name = worker[j].name /\ worker'[j].shape = worker[j].shape
  <1>a. worker \in [Jobs -> Worker] /\ worker[j] \in Worker
    BY DEF TypeOK
  <1>1. Compare(j) \/ RecordChange(j) \/ UpsertContainer(j) \/ ReplaceColumns(j) \/ Inspect(j)
    BY DEF Work, Borrow, ListPage, BeginContainer, StopCancelled, PageDone, ReadSchema,
       RecordUnreadable, Advance, PlanRemovals, RecordRemoval, Forget, RemovalsDone, Finish,
       Cleanup, At, Holding
  <1> QED
    BY <1>a, <1>1 DEF Compare, RecordChange, UpsertContainer, ReplaceColumns, Inspect, Goto,
       Worker

\* Where clients name their database always or never, two jobs on one database
\* are of one request, so one thread at a time works on it.
LEMMA OneRequest ==
  ASSUME EitherWay, InTurn, NEW i \in Jobs, NEW k \in Jobs, Known(i), Known(k),
         Db(i) = Db(k)
  PROVE  Request(i) = Request(k)
  <1>1. Request(i) \in Requests /\ Request(k) \in Requests
    BY DEF InTurn
  <1> QED
    BY <1>1 DEF EitherWay, Db, Database

LEMMA OneScan ==
  ASSUME EitherWay, InTurn, Unstarted, RunningIsExact, NEW i \in Active, NEW k \in Active,
         Db(i) = Db(k)
  PROVE  i = k
  <1>1. i \in Jobs /\ k \in Jobs /\ Known(i) /\ Known(k)
    BY DEF Active, Unstarted, Known, Steps
  <1> QED
    BY <1>1, OneRequest DEF RunningIsExact

\* A job that is started is on a database no thread works on.
LEMMA StartedAlone ==
  ASSUME EitherWay, TypeOK, InTurn, Unstarted, RunningIsExact, NEW j \in Jobs, Start(j),
         NEW k \in Active
  PROVE  k # j /\ Known(k) /\ Db(j)' # Db(k)
  <1>1. k \in Jobs /\ Known(k) /\ Request(k) \in Requests
    BY DEF Active, Unstarted, Known, Steps, InTurn
  <1>2. Request(k) \in running
    BY DEF RunningIsExact
  <1>3. ~Known(j) /\ Request(j)' \in Requests /\ Request(j)' \notin running
    BY StartFacts
  <1> QED
    BY <1>1, <1>2, <1>3 DEF EitherWay, Db, Database

\* The latest known job of a database is the one at work on it; what it has read
\* was there for every job of that database; and what a covering run remembers
\* the runs before it remember too.
Alone ==
    \A k \in Active, i \in Jobs : Known(i) /\ Db(i) = Db(k) => i <= k
Fresh ==
    \A k \in Active, i \in Jobs :
        Known(i) /\ Db(i) = Db(k) /\ worker[k].pc \in Holding
            => worker[k].shape \in held[i][Db(k)][worker[k].name]
Nested ==
    \A i, k \in Jobs : Known(k) /\ worker[k].covers /\ i < k /\ Db(i) = Db(k) =>
        \A n \in Names : held[k][Db(k)][n] \subseteq held[i][Db(k)][n]

LEMMA NextAlone ==
  ASSUME EitherWay, TypeOK, InTurn, Unstarted, RunningIsExact, Alone, [Next]_vars
  PROVE  Alone'
  <1>0. ConstantsAssumption => Jobs \subseteq Nat
    BY DEF Jobs
  <1>1. ASSUME NEW j \in Jobs, Start(j) PROVE Alone'
    <2>1. ASSUME NEW i \in Jobs, i # j, Known(i) PROVE i <= j
      <3>1. ~Known(j)
        BY <1>1, StartFacts
      <3>2. ~(j < i)
        BY <2>1, <3>1 DEF InTurn
      <3> QED
        BY <1>0, <3>2, ConstantsAssumption
    <2>2. ASSUME NEW k \in Jobs, NEW i \in Jobs, worker'[k].pc \in Steps, Known(i)',
                 Db(i)' = Db(k)'
          PROVE  i <= k
      <3>1. CASE k = j
        <4>1. i = j \/ Known(i)
          BY <1>1, <2>2, StartFacts
        <4>2. j <= j
          BY <1>0, ConstantsAssumption
        <4> QED
          BY <2>1, <3>1, <4>1, <4>2
      <3>2. CASE k # j
        <4>1. k \in Active /\ Db(k)' = Db(k)
          BY <1>1, <2>2, <3>2, StartFacts DEF Active
        <4>2. i # j
          BY <1>1, <2>2, <4>1, StartedAlone
        <4>3. Known(i) /\ Db(i)' = Db(i)
          BY <1>1, <2>2, <4>2, StartFacts
        <4> QED
          BY <2>2, <4>1, <4>3 DEF Alone
      <3> QED
        BY <3>1, <3>2
    <2> QED
      BY <2>2 DEF Alone, Active
  <1>2. ASSUME NEW j \in Jobs, Work(j) PROVE Alone'
    <2>1. Active' \subseteq Active
      BY <1>2, StaysInFlight, OneThread DEF Active
    <2> QED
      BY <1>2, <2>1, WorkFrame DEF Alone, Active
  <1>3. ASSUME Active' \subseteq Active, scans' = scans PROVE Alone'
    BY <1>3 DEF Alone, Active, Known, Db, Request
  <1>4. CASE Crash
    <2>1. Active' = {}
      BY <1>4 DEF Crash, At, Resting, Active, Steps
    <2> QED
      BY <2>1 DEF Alone
  <1>5. CASE (\E j \in Jobs : Cancel(j)) \/ Close \/ UNCHANGED vars
             \/ \E d \in Databases, n \in Names : ChangeUpstream(d, n)
    <2>1. scans' = scans /\ worker' = worker
      BY <1>5 DEF Cancel, Close, vars, ChangeUpstream
    <2> QED
      BY <1>3, <2>1 DEF Active
  <1> QED
    BY <1>1, <1>2, <1>4, <1>5 DEF Next

LEMMA NextFresh ==
  ASSUME EitherWay, TypeOK, InFlight, InTurn, Unstarted, RunningIsExact, LookedEverywhere,
         Fresh, [Next]_vars
  PROVE  Fresh'
  <1>1. ASSUME NEW j \in Jobs, Start(j) PROVE Fresh'
    <2> SUFFICES ASSUME NEW k \in Jobs, NEW i \in Jobs, Known(i)', Db(i)' = Db(k)',
                        worker'[k].pc \in Holding
                 PROVE  worker'[k].shape \in held'[i][Db(k)'][worker'[k].name]
      BY DEF Fresh, Active
    <2>1. k # j
      BY <1>1, StartFacts DEF Holding
    <2>2. k \in Active /\ worker'[k] = worker[k] /\ Db(k)' = Db(k)
      BY <1>1, <2>1, StartFacts DEF Active, Holding, Steps
    <2>3. i # j
      BY <1>1, <2>2, StartedAlone
    <2>4. Known(i) /\ Db(i)' = Db(i) /\ held'[i] = held[i]
      BY <1>1, <2>3, StartFacts
    <2> QED
      BY <2>2, <2>4 DEF Fresh
  <1>2. ASSUME NEW j \in Jobs, Work(j) PROVE Fresh'
    <2> SUFFICES ASSUME NEW k \in Jobs, NEW i \in Jobs, Known(i)', Db(i)' = Db(k)',
                        worker'[k].pc \in Holding
                 PROVE  worker'[k].shape \in held'[i][Db(k)'][worker'[k].name]
      BY DEF Fresh, Active
    <2>1. Known(i) /\ Db(i) = Db(k) /\ Db(k)' = Db(k) /\ held' = held
      BY <1>2, WorkFrame
    <2>2. CASE k # j \/ worker[j].pc \in Holding
      <3>1. /\ worker[k].pc \in Holding
            /\ worker'[k].name = worker[k].name /\ worker'[k].shape = worker[k].shape
        BY <1>2, <2>2, OneThread, ShapeKept
      <3>2. k \in Active
        BY <3>1 DEF Active, Holding, Steps
      <3> QED
        BY <2>1, <3>1, <3>2 DEF Fresh
    <2>3. CASE k = j /\ worker[j].pc \notin Holding
      <3>1. ReadSchema(j)
        BY <1>2, <2>3, Arrivals
      <3>2. worker[j].name \in Names
        BY <3>1 DEF InFlight, ReadSchema, At, Handling
      <3>3. worker'[j].shape = catalog[Db(j)][worker[j].name]
            /\ worker'[j].name = worker[j].name
        <4>1. worker \in [Jobs -> Worker] /\ worker[j] \in Worker
          BY DEF TypeOK
        <4>2. worker'[j].pc # "unreadable"
          BY <2>3 DEF Holding
        <4> QED
          BY <3>1, <4>1, <4>2 DEF ReadSchema, Goto, Worker
      <3>4. catalog[Db(i)][worker[j].name] \in held[i][Db(i)][worker[j].name]
        BY <2>1, <3>2 DEF LookedEverywhere, Looked, InView, Known
      <3> QED
        BY <2>1, <2>3, <3>3, <3>4
    <2> QED
      BY <2>2, <2>3
  <1>3. ASSUME UNCHANGED <<scans, worker>>,
               \A i \in Jobs : Known(i) => \A d \in Databases, n \in Names :
                  held[i][d][n] \subseteq held'[i][d][n]
        PROVE  Fresh'
    <2>1. \A i \in Jobs : Db(i)' = Db(i) /\ (Known(i)' <=> Known(i))
      BY <1>3 DEF Db, Request, Known
    <2>2. \A k \in Jobs : Db(k) \in Databases /\ (worker[k].pc \in Holding => worker[k].name \in Names)
      BY JobFacts DEF InFlight, Handling, Holding
    <2> QED
      BY <1>3, <2>1, <2>2 DEF Fresh, Active
  <1>4. ASSUME NEW d \in Databases, NEW n \in Names, ChangeUpstream(d, n) PROVE Fresh'
    <2>1. \A k \in Jobs : Known(k) => \A e \in Databases, m \in Names :
             held[k][e][m] \subseteq held'[k][e][m]
      BY <1>4, UpstreamFacts
    <2> QED
      BY <1>3, <1>4, <2>1, UpstreamFacts
  <1>5. CASE Crash
    <2>1. Active' = {}
      BY <1>5 DEF Crash, At, Resting, Active, Steps
    <2> QED
      BY <2>1 DEF Fresh
  <1>6. CASE (\E j \in Jobs : Cancel(j)) \/ Close \/ UNCHANGED vars
    <2>1. UNCHANGED <<scans, worker, held>>
      BY <1>6 DEF Cancel, Close, vars, auxVars
    <2> QED
      BY <1>3, <2>1
  <1> QED
    BY <1>1, <1>2, <1>4, <1>5, <1>6 DEF Next

LEMMA NextNested ==
  ASSUME TypeOK, InFlight, InTurn, Unstarted, LookedEverywhere, Nested, [Next]_vars
  PROVE  Nested'
  <1>1. ASSUME NEW j \in Jobs, Start(j) PROVE Nested'
    <2> SUFFICES ASSUME NEW i \in Jobs, NEW k \in Jobs, Known(k)', worker'[k].covers, i < k,
                        Db(i)' = Db(k)', NEW n \in Names
                 PROVE  held'[k][Db(k)'][n] \subseteq held'[i][Db(k)'][n]
      BY DEF Nested
    <2>1. CASE k = j
      <3>1. i # j /\ Known(i)
        <4>1. j \in Nat /\ i \in Nat
          BY ConstantsAssumption DEF Jobs
        <4> QED
          BY <1>1, <2>1, <4>1, StartFacts
      <3>2. Db(i)' = Db(i) /\ held'[i] = held[i] /\ Db(i) \in Databases
        BY <1>1, <3>1, StartFacts, JobFacts
      <3>3. held'[j][Db(i)][n] = {catalog[Db(i)][n]}
        BY <1>1, <2>1, <3>2, StartFacts DEF InTurn
      <3>4. catalog[Db(i)][n] \in held[i][Db(i)][n]
        BY <3>1 DEF LookedEverywhere, Looked, InView, Known
      <3> QED
        BY <2>1, <3>2, <3>3, <3>4
    <2>2. CASE k # j
      <3>1. Known(k) /\ worker'[k] = worker[k] /\ Db(k)' = Db(k) /\ held'[k] = held[k]
        BY <1>1, <2>2, StartFacts
      <3>2. Known(i)
        BY <3>1 DEF InTurn
      <3>3. Db(i)' = Db(i) /\ held'[i] = held[i]
        BY <1>1, <3>2, StartFacts
      <3> QED
        BY <3>1, <3>2, <3>3 DEF Nested
    <2> QED
      BY <2>1, <2>2
  <1>2. ASSUME held' = held,
               \A i \in Jobs : Db(i)' = Db(i) /\ (Known(i)' <=> Known(i))
                               /\ worker'[i].covers = worker[i].covers
        PROVE  Nested'
    BY <1>2 DEF Nested
  <1>3. ASSUME NEW j \in Jobs, Work(j) PROVE Nested'
    <2>1. \A i \in Jobs : worker'[i].covers = worker[i].covers
      BY <1>3, OneThread, WorkFrame
    <2> QED
      BY <1>2, <1>3, <2>1, WorkFrame
  <1>4. ASSUME NEW d \in Databases, NEW n \in Names, ChangeUpstream(d, n) PROVE Nested'
    <2> SUFFICES ASSUME NEW i \in Jobs, NEW k \in Jobs, Known(k)', worker'[k].covers, i < k,
                        Db(i)' = Db(k)', NEW m \in Names
                 PROVE  held'[k][Db(k)'][m] \subseteq held'[i][Db(k)'][m]
      BY DEF Nested
    <2>1. Known(k) /\ worker[k].covers /\ Db(i) = Db(k) /\ Db(k)' = Db(k)
      BY <1>4, UpstreamFacts
    <2>2. Known(i) /\ Db(k) \in Databases
      BY <2>1, JobFacts DEF InTurn
    <2>3. held[k][Db(k)][m] \subseteq held[i][Db(k)][m]
      BY <2>1 DEF Nested
    <2>4. PICK s : \A x \in Jobs : Known(x) => \A e \in Databases, y \in Names :
                  /\ e = d /\ y = n => held'[x][e][y] = held[x][e][y] \cup {s}
                  /\ (e = d /\ y = n) \/ held'[x][e][y] = held[x][e][y]
      BY <1>4, UpstreamFacts
    <2> QED
      BY <2>1, <2>2, <2>3, <2>4
  <1>5. CASE Crash
    <2>1. \A i \in Jobs : worker'[i].covers = worker[i].covers
      BY <1>5 DEF Crash, At, Resting
    <2>2. held' = held /\ scans' = scans
      BY <1>5 DEF Crash, auxVars
    <2> QED
      BY <1>2, <2>1, <2>2 DEF Known, Db, Request
  <1>6. CASE (\E j \in Jobs : Cancel(j)) \/ Close \/ UNCHANGED vars
    <2>1. UNCHANGED <<scans, worker, held>>
      BY <1>6 DEF Cancel, Close, vars, auxVars
    <2> QED
      BY <1>2, <2>1 DEF Known, Db, Request
  <1> QED
    BY <1>1, <1>3, <1>4, <1>5, <1>6 DEF Next

\* The row of a container is current for a job: a state that the source was in
\* since the job began, or the record of a read that failed.
Current(j, n) ==
    LET s == stored[Db(j)][n]
        h == held[j][Db(j)][n]
    IN  s = Unread \/ s \in h \/ (s = NoRow /\ Absent \in h)

\* What is current for a job stays so, whatever scan writes the row next.
LEMMA CurrentKept ==
  ASSUME EitherWay, TypeOK, InFlight, InTurn, Unstarted, Swept, Alone, Fresh, Nested,
         NEW k \in Jobs, Work(k), NEW j \in Jobs, Known(j), NEW n \in Names, Current(j, n)
  PROVE  Current(j, n)'
  <1>a. held' = held /\ Db(j)' = Db(j) /\ Db(j) \in Databases
    BY WorkFrame, JobFacts
  <1>b. k \in Active /\ Known(k)
    BY StaysInFlight DEF Unstarted, Active, Known, Steps
  <1>1. CASE stored'[Db(j)][n] = stored[Db(j)][n]
    BY <1>1, <1>a DEF Current
  <1>2. CASE stored'[Db(j)][n] = Unread
    BY <1>2, <1>a DEF Current
  <1>3. CASE UpsertContainer(k) /\ Db(j) = Db(k) /\ n = worker[k].name
             /\ stored'[Db(j)][n] = worker[k].shape
    <2>1. worker[k].shape \in held[j][Db(k)][worker[k].name]
      BY <1>3, <1>b DEF Fresh, UpsertContainer, At, Holding
    <2> QED
      BY <1>3, <1>a, <2>1 DEF Current
  <1>4. CASE Forget(k) /\ worker[k].victim = <<Db(j), n>> /\ stored'[Db(j)][n] = NoRow
    <2>1. Missed(k, <<Db(j), n>>) /\ worker[k].covers
      BY <1>4, <1>b DEF Swept, Gone, Forget, At
    <2>2. Db(j) = Db(k) /\ Absent \in held[k][Db(k)][n]
      BY <2>1 DEF Missed
    <2>3. j <= k
      BY <1>b, <2>2 DEF Alone
    <2>4. j = k \/ j < k
      BY <2>3, ConstantsAssumption DEF Jobs
    <2>5. Absent \in held[j][Db(j)][n]
      BY <1>b, <2>1, <2>2, <2>4 DEF Nested
    <2> QED
      BY <1>4, <1>a, <2>5 DEF Current
  <1> QED
    BY <1>a, <1>1, <1>2, <1>3, <1>4, StoredBy

\* What a covering run is done with is current, and so is the container it has
\* written; when it forgets what was removed, all else is current; and when it
\* is finished, everything.
Walked(j) ==
    j \in Active => \A n \in Names : <<Db(j), n>> \in walked[j] => Current(j, n)
Written(j) ==
    worker[j].pc \in {"columns", "inspect", "advance"} => Current(j, worker[j].name)
Remaining(j) ==
    worker[j].pc \in {"remove", "forget"} => \A n \in Names :
        \/ Current(j, n)
        \/ <<Db(j), n>> \in worker[j].gone
        \/ worker[j].pc = "forget" /\ worker[j].victim = <<Db(j), n>>
AtLast(j) ==
    worker[j].pc = "finish" \/ scans[j].state = "done" => \A n \in Names : Current(j, n)
Kept(j) == Walked(j) /\ Written(j) /\ Remaining(j) /\ AtLast(j)
AllKept == \A j \in Jobs : Known(j) /\ worker[j].covers => Kept(j)

\* A job whose thread and row a step leaves alone.
LEMMA KeptKept ==
  ASSUME TypeOK, InFlight, NEW j \in Jobs, Kept(j), Db(j)' = Db(j), scans'[j] = scans[j],
         worker'[j] = worker[j], walked'[j] = walked[j],
         \A n \in Names : Current(j, n) => Current(j, n)'
  PROVE  Kept(j)'
  <1>1. worker[j].pc \in {"columns", "inspect", "advance"} => worker[j].name \in Names
    BY DEF InFlight, Handling
  <1> QED
    BY <1>1 DEF Kept, Walked, Written, Remaining, AtLast, Active

\* The thread's own steps.
LEMMA KeptStep ==
  ASSUME EitherWay, TypeOK, InFlight, InTurn, RowsAskedFor, Unstarted, Swept, Alone, Fresh,
         Nested, NEW j \in Jobs, Work(j), Looked(j), worker[j].covers, Kept(j)
  PROVE  Kept(j)'
  <1>a. /\ worker \in [Jobs -> Worker] /\ worker[j] \in Worker /\ scans \in [Jobs -> Row]
        /\ walked \in [Jobs -> SUBSET (Databases \X Names)]
        /\ stored \in [Databases -> [Names -> Shapes \cup {NoRow, Unread}]]
    BY DEF TypeOK
  <1>b. held' = held /\ Db(j)' = Db(j) /\ Db(j) \in Databases
    BY WorkFrame, JobFacts
  <1>c. j \in Active /\ Known(j)
    BY StaysInFlight DEF Unstarted, Active, Known, Steps
  <1>d. \A n \in Names : Current(j, n) => Current(j, n)'
    BY <1>c, CurrentKept
  <1>e. worker[j].pc \in Handling => worker[j].name \in Names
    BY DEF InFlight
  <1>1. Walked(j)'
    <2>1. CASE Advance(j)
      <3>1. walked'[j] = walked[j] \cup {<<Db(j), worker[j].name>>}
        BY <1>a, <2>1 DEF Advance
      <3>2. worker[j].pc = "advance" /\ worker[j].name \in Names
        BY <2>1, <1>e DEF Advance, At, Handling
      <3>3. \A n \in Names : <<Db(j), n>> \in walked'[j] => Current(j, n)
        BY <1>c, <3>1, <3>2 DEF Kept, Walked, Written
      <3> QED
        BY <1>b, <1>d, <3>3 DEF Walked
    <2>2. CASE ~Advance(j)
      <3>1. walked' = walked
        BY <2>2 DEF Work, Borrow, ListPage, BeginContainer, StopCancelled, PageDone, ReadSchema,
           Compare, RecordUnreadable, RecordChange, UpsertContainer, ReplaceColumns, Inspect,
           PlanRemovals, RecordRemoval, Forget, RemovalsDone, Finish, Cleanup, OnlyWorker, auxVars
      <3> QED
        BY <1>b, <1>c, <1>d, <3>1 DEF Kept, Walked
    <2> QED
      BY <2>1, <2>2
  <1>2. Written(j)'
    <2> SUFFICES ASSUME worker'[j].pc \in {"columns", "inspect", "advance"}
                 PROVE  Current(j, worker[j].name)'
      BY DEF Written
    <2>0. worker'[j].name = worker[j].name
      BY Arrivals
    <2>1. CASE UpsertContainer(j)
      <3>1. worker[j].pc = "upsert" /\ worker[j].name \in Names
        BY <2>1, <1>e DEF UpsertContainer, At, Handling
      <3>2. stored'[Db(j)][worker[j].name] = worker[j].shape
        BY <1>a, <1>b, <2>1, <3>1 DEF UpsertContainer
      <3>3. worker[j].shape \in held[j][Db(j)][worker[j].name]
        BY <1>c, <3>1 DEF Fresh, Holding
      <3> QED
        BY <1>b, <2>0, <3>2, <3>3 DEF Current
    <2>2. CASE ReplaceColumns(j) \/ Inspect(j)
      <3>1. worker[j].pc \in {"columns", "inspect"} /\ worker[j].name \in Names
        BY <2>2, <1>e DEF ReplaceColumns, Inspect, At, Handling
      <3>2. Current(j, worker[j].name)
        BY <3>1 DEF Kept, Written
      <3> QED
        BY <1>b, <2>0, <2>2, <3>2 DEF ReplaceColumns, Inspect, Current
    <2>3. CASE RecordUnreadable(j)
      <3>1. worker[j].name \in Names
        BY <2>3, <1>e DEF RecordUnreadable, At, Handling
      <3>2. stored'[Db(j)][worker[j].name] = Unread
        BY <1>a, <1>b, <2>3, <3>1 DEF RecordUnreadable
      <3> QED
        BY <1>b, <2>0, <3>2 DEF Current
    <2>4. CASE Compare(j)
      <3>1. worker[j].pc = "compare" /\ worker[j].name \in Names /\ worker[j].shape \in Shapes
        BY <2>4, <1>e DEF Compare, At, Handling, Holding, InFlight
      <3>2. worker'[j].pc = "advance"
        BY <1>a, <2>4 DEF Compare, Worker
      <3>3. StoredHash(Db(j), worker[j].name) = worker[j].shape
        BY <1>a, <2>4, <3>2 DEF Compare, Worker
      <3>4. stored[Db(j)][worker[j].name] = worker[j].shape
        BY <3>1, <3>3, ConstantsAssumption DEF StoredHash
      <3>5. stored' = stored
        BY <2>4 DEF Compare, OnlyWorker, KeepsStore, storeVars
      <3>6. worker[j].shape \in held[j][Db(j)][worker[j].name]
        BY <1>c, <3>1 DEF Fresh, Holding
      <3> QED
        BY <1>b, <2>0, <3>4, <3>5, <3>6 DEF Current
    <2> QED
      BY <2>1, <2>2, <2>3, <2>4, Arrivals
  <1>3. Remaining(j)'
    <2> SUFFICES ASSUME worker'[j].pc \in {"remove", "forget"}, NEW n \in Names, ~Current(j, n)'
                 PROVE  \/ <<Db(j), n>> \in worker'[j].gone
                        \/ worker'[j].pc = "forget" /\ worker'[j].victim = <<Db(j), n>>
      BY <1>b DEF Remaining
    <2>a. ~Current(j, n)
      BY <1>d
    <2>1. CASE PlanRemovals(j)
      <3>1. /\ worker[j].pc = "removals"
            /\ worker'[j].gone = ContainerKeys(Request(j)) \ ({Db(j)} \X worker[j].seen)
        BY <1>a, <2>1 DEF PlanRemovals, At, Worker
      <3>2. <<Db(j), n>> \notin walked[j]
        BY <1>c, <2>a DEF Kept, Walked
      <3>3. Absent \in held[j][Db(j)][n]
        BY <3>1, <3>2 DEF Looked, Complete, Ending, Done
      <3>4. stored[Db(j)][n] # NoRow
        BY <2>a, <3>3 DEF Current
      <3>5. n \notin worker[j].seen
        BY <1>c, <3>1, <3>2 DEF Swept, Seen, Handling
      <3>6. <<Db(j), n>> \in ContainerKeys(Request(j))
        BY <1>b, <3>4 DEF ContainerKeys, Db, Database
      <3> QED
        BY <3>1, <3>5, <3>6
    <2>2. CASE Forget(j)
      <3>1. /\ worker[j].pc = "forget" /\ worker'[j].gone = worker[j].gone
        BY <1>a, <2>2 DEF Forget, At, Worker
      <3>2. CASE worker[j].victim = <<Db(j), n>>
        <4>1. stored'[Db(j)][n] = NoRow
          BY <1>a, <1>b, <2>2, <3>2 DEF Forget
        <4>2. Absent \in held[j][Db(j)][n]
          BY <1>c, <3>1, <3>2 DEF Swept, Gone, Missed
        <4> QED
          BY <1>b, <4>1, <4>2 DEF Current
      <3>3. CASE worker[j].victim # <<Db(j), n>>
        BY <2>a, <3>1, <3>3 DEF Kept, Remaining
      <3> QED
        BY <3>2, <3>3
    <2>3. CASE RecordRemoval(j)
      <3>1. PICK k \in worker[j].gone :
            worker' = [worker EXCEPT ![j].pc = "forget", ![j].victim = k,
                                      ![j].gone = @ \ {k}]
        BY <2>3 DEF RecordRemoval
      <3>2. /\ worker'[j].pc = "forget" /\ worker'[j].victim = k
            /\ worker'[j].gone = worker[j].gone \ {k}
        BY <1>a, <3>1 DEF Worker
      <3>3. worker[j].pc = "remove"
        BY <2>3 DEF RecordRemoval, At
      <3>4. <<Db(j), n>> \in worker[j].gone
        BY <2>a, <3>3 DEF Kept, Remaining
      <3> QED
        BY <3>2, <3>4
    <2> QED
      BY <2>1, <2>2, <2>3, Arrivals
  <1>4. AtLast(j)'
    <2> SUFFICES ASSUME worker'[j].pc = "finish" \/ scans'[j].state = "done"
                 PROVE  \A n \in Names : Current(j, n)
      BY <1>d DEF AtLast
    <2>1. CASE worker'[j].pc = "finish"
      <3>1. RemovalsDone(j)
        BY <2>1, Arrivals
      <3> QED
        BY <3>1 DEF RemovalsDone, At, Kept, Remaining
    <2>2. CASE scans'[j].state = "done"
      <3>1. scans[j].state = "done" \/ worker[j].pc = "finish"
        <4>1. CASE StopCancelled(j) \/ Finish(j)
          BY <1>a, <2>2, <4>1 DEF StopCancelled, Finish, At, Row
        <4>2. CASE Advance(j)
          BY <1>a, <2>2, <4>2 DEF Advance, Row
        <4>3. CASE ~StopCancelled(j) /\ ~Finish(j) /\ ~Advance(j)
          <5>1. scans' = scans
            BY <4>3 DEF Work, Borrow, ListPage, BeginContainer, PageDone, ReadSchema, Compare,
               RecordUnreadable, RecordChange, UpsertContainer, ReplaceColumns, Inspect,
               PlanRemovals, RecordRemoval, Forget, RemovalsDone, Cleanup, OnlyWorker
          <5> QED
            BY <2>2, <5>1
        <4> QED
          BY <4>1, <4>2, <4>3
      <3> QED
        BY <3>1 DEF Kept, AtLast
    <2> QED
      BY <2>1, <2>2
  <1> QED
    BY <1>1, <1>2, <1>3, <1>4 DEF Kept

LEMMA NextKept ==
  ASSUME EitherWay, TypeOK, InFlight, InTurn, RowsAskedFor, Unstarted, LookedEverywhere, Swept,
         Alone, Fresh, Nested, AllKept, [Next]_vars
  PROVE  AllKept'
  <1>1. ASSUME NEW j \in Jobs, Start(j) PROVE AllKept'
    <2>1. ASSUME NEW i \in Jobs \ {j}, Known(i), worker[i].covers PROVE Kept(i)'
      <3>1. /\ Db(i)' = Db(i) /\ scans'[i] = scans[i] /\ worker'[i] = worker[i]
            /\ walked'[i] = walked[i] /\ held'[i] = held[i] /\ stored' = stored
        BY <1>1, StartFacts
      <3>2. \A n \in Names : Current(i, n) => Current(i, n)'
        BY <3>1 DEF Current
      <3> QED
        BY <2>1, <3>1, <3>2, KeptKept DEF AllKept
    <2>2. worker'[j].covers => Kept(j)'
      BY <1>1, StartFacts DEF Kept, Walked, Written, Remaining, AtLast
    <2>3. \A i \in Jobs \ {j} : worker'[i] = worker[i] /\ (Known(i)' <=> Known(i))
      BY <1>1, StartFacts
    <2> QED
      BY <2>1, <2>2, <2>3 DEF AllKept
  <1>2. ASSUME NEW j \in Jobs, Work(j) PROVE AllKept'
    <2>1. ASSUME NEW i \in Jobs \ {j}, Known(i), worker[i].covers PROVE Kept(i)'
      <3>1. /\ Db(i)' = Db(i) /\ scans'[i] = scans[i] /\ worker'[i] = worker[i]
            /\ walked'[i] = walked[i]
        BY <1>2, WorkFrame, RowsKept, OneThread
      <3>2. \A n \in Names : Current(i, n) => Current(i, n)'
        BY <1>2, <2>1, CurrentKept
      <3> QED
        BY <2>1, <3>1, <3>2, KeptKept DEF AllKept
    <2>2. ASSUME worker[j].covers PROVE Kept(j)'
      <3>1. Known(j)
        BY <1>2, StaysInFlight DEF Unstarted, Active, Known, Steps
      <3>2. Looked(j) /\ Kept(j)
        BY <2>2, <3>1 DEF LookedEverywhere, AllKept, Known
      <3> QED
        BY <1>2, <2>2, <3>2, KeptStep
    <2>3. worker'[j].covers = worker[j].covers
          /\ \A i \in Jobs \ {j} : worker'[i] = worker[i] /\ (Known(i)' <=> Known(i))
      BY <1>2, WorkFrame, OneThread
    <2> QED
      BY <2>1, <2>2, <2>3 DEF AllKept
  <1>3. ASSUME UNCHANGED <<scans, worker, walked, stored>>,
               \A i \in Jobs : Known(i) => \A d \in Databases, n \in Names :
                  held[i][d][n] \subseteq held'[i][d][n]
        PROVE  AllKept'
    <2>1. \A i \in Jobs : Db(i)' = Db(i) /\ (Known(i)' <=> Known(i)) /\ Db(i) \in Databases
      BY <1>3, JobFacts DEF Db, Request, Known
    <2>2. \A i \in Jobs, n \in Names : Known(i) /\ Current(i, n) => Current(i, n)'
      BY <1>3, <2>1 DEF Current
    <2>3. ASSUME NEW i \in Jobs, Known(i), worker[i].covers PROVE Kept(i)'
      BY <1>3, <2>1, <2>2, <2>3, KeptKept DEF AllKept
    <2> QED
      BY <1>3, <2>1, <2>3 DEF AllKept
  <1>4. ASSUME NEW d \in Databases, NEW n \in Names, ChangeUpstream(d, n) PROVE AllKept'
    <2>1. \A k \in Jobs : Known(k) => \A e \in Databases, m \in Names :
             held[k][e][m] \subseteq held'[k][e][m]
      BY <1>4, UpstreamFacts
    <2> QED
      BY <1>3, <1>4, <2>1, UpstreamFacts
  <1>5. CASE Crash
    <2>1. UNCHANGED <<scans, stored, held>>
      BY <1>5 DEF Crash, storeVars, auxVars
    <2>2. \A i \in Jobs : worker'[i].covers = worker[i].covers /\ worker'[i].pc \in Idle
      BY <1>5 DEF Crash, At, Resting, Idle
    <2>3. \A i \in Jobs, n \in Names : Current(i, n) => Current(i, n)'
      BY <2>1 DEF Current, Db, Request
    <2>4. ASSUME NEW i \in Jobs, Kept(i) PROVE Kept(i)'
      BY <2>1, <2>2, <2>3, <2>4 DEF Kept, Walked, Written, Remaining, AtLast, Active, Idle, Steps
    <2> QED
      BY <2>1, <2>2, <2>4 DEF AllKept, Known
  <1>6. CASE (\E j \in Jobs : Cancel(j)) \/ Close \/ UNCHANGED vars
    <2>1. UNCHANGED <<scans, worker, walked, stored, held>>
      BY <1>6 DEF Cancel, Close, vars, storeVars, auxVars
    <2> QED
      BY <1>3, <2>1
  <1> QED
    BY <1>1, <1>2, <1>4, <1>5, <1>6 DEF Next

\* After a complete scan, the store holds of every container a state the source
\* was in since the scan began, or the record of a failed read: for any number
\* of scans, databases and crashes, where clients name their database always or
\* never.
THEOREM FinishedCurrent ==
  ASSUME EitherWay
  PROVE  Spec => []FinishedScanIsCurrent
  <1> DEFINE Before == RunningIsExact /\ Unstarted /\ LookedEverywhere
             Inv == InTurn /\ RowsAskedFor /\ Swept /\ Alone /\ Fresh /\ Nested /\ AllKept
  <1>1. Init => Before /\ Inv
    <2> SUFFICES ASSUME Init PROVE Before /\ Inv
      OBVIOUS
    <2>1. LookedEverywhere /\ Nested /\ AllKept
      BY DEF Init, LookedEverywhere, Nested, AllKept, Known
    <2>2. Active = {}
      BY DEF Init, Active, Resting, Steps
    <2>3. Swept /\ Alone /\ Fresh
      BY <2>2 DEF Swept, Alone, Fresh
    <2> QED
      BY <2>1, <2>3, InitRunning, InitInTurn
  <1>2. TypeOK /\ InFlight /\ Before /\ Inv /\ [Next]_vars => (Before /\ Inv)'
    BY NextRunning, NextLooked, NextInTurn, NextSwept, NextAlone, NextFresh, NextNested, NextKept
  <1>3. AllKept => FinishedScanIsCurrent
    <2>1. \A j \in Jobs : scans[j].state = "done" => Known(j)
      BY DEF Known
    <2> QED
      BY <2>1 DEF AllKept, Kept, AtLast, Current, FinishedScanIsCurrent
  <1> QED
    BY <1>1, <1>2, <1>3, TypeCorrect, PTL DEF Spec

-----------------------------------------------------------------------------
(* The history, the row and the columns agree while the process lives *)

\* The last change on record made the row what it is given to be.
Told(d, n, value) ==
    history[d][n] # <<>> /\ history[d][n][Len(history[d][n])].new = value

\* A thread that is about to write a row has told the history of it, and one
\* that is about to write the columns has written the row.
InStep(j) ==
    /\ worker[j].pc = "upsert" => Told(Db(j), worker[j].name, worker[j].shape)
    /\ worker[j].pc = "forget" => Told(worker[j].victim[1], worker[j].victim[2], NoRow)
    /\ worker[j].pc \in {"columns", "inspect"}
         => stored[Db(j)][worker[j].name] = worker[j].shape
AllInStep == \A j \in Active : InStep(j)

\* Writing's thread, and the two properties of one container.
WrittenBy(i, d, n, steps) ==
    /\ worker[i].pc \in steps
    /\ IF At(i, "forget") THEN worker[i].victim = <<d, n>>
       ELSE Db(i) = d /\ worker[i].name = n
TellsTrue(d, n) ==
    \/ Writing(d, n, {"upsert", "forget"})
    \/ stored[d][n] = Unread
    \/ stored[d][n] = NoRow /\ history[d][n] = <<>>
    \/ Told(d, n, stored[d][n])
Vouches(d, n) == stored[d][n] \in Shapes =>
    /\ Writing(d, n, {"columns"}) \/ columns[d][n] = stored[d][n]
    /\ Writing(d, n, {"columns", "inspect"}) \/ inspected[d][n] = stored[d][n]
Agreed == crashes = 0 =>
    /\ AllInStep
    /\ \A d \in Databases, n \in Names : TellsTrue(d, n) /\ Vouches(d, n)

LEMMA WriterKept ==
  ASSUME NEW i \in Active, worker'[i] = worker[i], Db(i)' = Db(i), NEW d, NEW n, NEW steps,
         WrittenBy(i, d, n, steps)
  PROVE  Writing(d, n, steps)'
  <1>1. i \in Active'
    BY DEF Active
  <1>2. worker'[i].pc \in steps
    BY DEF WrittenBy
  <1>3. At(i, "forget")' <=> At(i, "forget")
    BY DEF At
  <1> QED
    BY <1>1, <1>2, <1>3 DEF WrittenBy, Writing

LEMMA WritingBy ==
  ASSUME NEW d, NEW n, NEW steps
  PROVE  Writing(d, n, steps) <=> \E i \in Active : WrittenBy(i, d, n, steps)
  BY DEF Writing, WrittenBy

\* What a thread writes is of its own database.
LEMMA OwnDatabase ==
  ASSUME TypeOK, Swept, NEW i \in Active, NEW d \in Databases, NEW n \in Names, NEW steps,
         WrittenBy(i, d, n, steps)
  PROVE  Db(i) = d
  <1>1. CASE At(i, "forget")
    BY <1>1 DEF Swept, Gone, Missed, At, WrittenBy
  <1>2. CASE ~At(i, "forget")
    BY <1>2 DEF WrittenBy
  <1> QED
    BY <1>1, <1>2

\* The columns and the verdicts are written by the thread of the container, or
\* erased with the row.
LEMMA ColumnsBy ==
  ASSUME TypeOK, InFlight, NEW j \in Jobs, Work(j), NEW d \in Databases, NEW n \in Names,
         stored'[d][n] \in Shapes
  PROVE  /\ \/ columns'[d][n] = columns[d][n]
            \/ ReplaceColumns(j) /\ d = Db(j) /\ n = worker[j].name
               /\ columns'[d][n] = worker[j].shape
         /\ \/ inspected'[d][n] = inspected[d][n]
            \/ Inspect(j) /\ d = Db(j) /\ n = worker[j].name
               /\ inspected'[d][n] = worker[j].shape
  <1>a. /\ stored \in [Databases -> [Names -> Shapes \cup {NoRow, Unread}]]
        /\ columns \in [Databases -> [Names -> Shapes \cup {NoRow}]]
        /\ inspected \in [Databases -> [Names -> Shapes \cup {NoRow}]]
        /\ worker[j] \in Worker
    BY DEF TypeOK
  <1>1. CASE ReplaceColumns(j)
    <2>1. inspected' = inspected
      BY <1>1 DEF ReplaceColumns
    <2> QED
      BY <1>1, <1>a, <2>1 DEF ReplaceColumns
  <1>2. CASE Inspect(j)
    <2>1. columns' = columns
      BY <1>2 DEF Inspect
    <2> QED
      BY <1>2, <1>a, <2>1 DEF Inspect
  <1>3. CASE Forget(j)
    <2> DEFINE v == worker[j].victim
    <2>1. /\ stored' = [stored EXCEPT ![v[1]][v[2]] = NoRow]
          /\ columns' = [columns EXCEPT ![v[1]][v[2]] = NoRow]
          /\ inspected' = [inspected EXCEPT ![v[1]][v[2]] = NoRow]
      BY <1>3 DEF Forget
    <2> HIDE DEF v
    <2>2. ~(v[1] = d /\ v[2] = n)
      BY <1>a, <2>1, ConstantsAssumption
    <2>3. columns'[d][n] = columns[d][n]
      BY <1>a, <2>1, <2>2
    <2>4. inspected'[d][n] = inspected[d][n]
      BY <1>a, <2>1, <2>2
    <2> QED
      BY <2>3, <2>4
  <1>4. CASE ~ReplaceColumns(j) /\ ~Inspect(j) /\ ~Forget(j)
    <2>1. columns' = columns /\ inspected' = inspected
      BY <1>4 DEF Work, Borrow, ListPage, BeginContainer, StopCancelled, PageDone, ReadSchema,
       Compare, Advance, RecordUnreadable, RecordChange, UpsertContainer, PlanRemovals,
       RecordRemoval, RemovalsDone, Finish, Cleanup, OnlyWorker, KeepsStore, storeVars
    <2> QED
      BY <2>1
  <1> QED
    BY <1>1, <1>2, <1>3, <1>4

\* A step of a thread keeps the history true of every container.
LEMMA TellsTrueStep ==
  ASSUME TypeOK, InFlight, Unstarted, AllInStep, NEW j \in Jobs, Work(j),
         NEW d \in Databases, NEW n \in Names, TellsTrue(d, n)
  PROVE  TellsTrue(d, n)'
  <1>a. j \in Active
    BY StaysInFlight
  <1>1. CASE \E i \in Active \ {j} : WrittenBy(i, d, n, {"upsert", "forget"})
    <2>1. PICK i \in Active \ {j} : WrittenBy(i, d, n, {"upsert", "forget"})
      BY <1>1
    <2>2. worker'[i] = worker[i] /\ Db(i)' = Db(i)
      BY OneThread, WorkFrame DEF Active
    <2> QED
      BY <2>1, <2>2, WriterKept DEF TellsTrue
  <1>2. CASE WrittenBy(j, d, n, {"upsert", "forget"})
    <2>1. CASE worker[j].pc = "upsert"
      <3>1. Db(j) = d /\ worker[j].name = n
        BY <1>2, <2>1 DEF WrittenBy, At
      <3>2. UpsertContainer(j)
        BY <2>1 DEF Work, Borrow, ListPage, BeginContainer, StopCancelled, PageDone, ReadSchema,
         RecordUnreadable, Compare, RecordChange, ReplaceColumns, Inspect, Advance, PlanRemovals,
         RecordRemoval, Forget, RemovalsDone, Finish, Cleanup, At
      <3>3. stored'[d][n] = worker[j].shape /\ history' = history
        BY <3>1, <3>2 DEF UpsertContainer, TypeOK
      <3>4. Told(d, n, worker[j].shape)
        BY <1>a, <2>1, <3>1 DEF AllInStep, InStep
      <3> QED
        BY <3>3, <3>4 DEF TellsTrue, Told
    <2>2. CASE worker[j].pc = "forget"
      <3>1. worker[j].victim = <<d, n>>
        BY <1>2, <2>2 DEF WrittenBy, At
      <3>2. Forget(j)
        BY <2>2 DEF Work, Borrow, ListPage, BeginContainer, StopCancelled, PageDone, ReadSchema,
         RecordUnreadable, Compare, RecordChange, ReplaceColumns, Inspect, Advance, PlanRemovals,
         RecordRemoval, UpsertContainer, RemovalsDone, Finish, Cleanup, At
      <3>3. stored'[d][n] = NoRow /\ history' = history
        BY <3>1, <3>2 DEF Forget, TypeOK
      <3>4. Told(d, n, NoRow)
        BY <1>a, <2>2, <3>1 DEF AllInStep, InStep
      <3> QED
        BY <3>3, <3>4 DEF TellsTrue, Told
    <2> QED
      BY <1>2, <2>1, <2>2 DEF WrittenBy
  <1>3. CASE ~\E i \in Active : WrittenBy(i, d, n, {"upsert", "forget"})
    <2>1. CASE stored'[d][n] = stored[d][n] /\ history'[d][n] = history[d][n]
      BY <1>3, <2>1, WritingBy DEF TellsTrue, Told
    <2>2. CASE stored'[d][n] = Unread
      BY <2>2 DEF TellsTrue
    <2>3. CASE UpsertContainer(j) /\ d = Db(j) /\ n = worker[j].name
      <3>1. WrittenBy(j, d, n, {"upsert", "forget"})
        BY <2>3 DEF WrittenBy, UpsertContainer, At
      <3> QED
        BY <1>a, <1>3, <3>1
    <2>4. CASE Forget(j) /\ worker[j].victim = <<d, n>>
      <3>1. WrittenBy(j, d, n, {"upsert", "forget"})
        BY <2>4 DEF WrittenBy, Forget, At
      <3> QED
        BY <1>a, <1>3, <3>1
    <2>5. CASE RecordChange(j) /\ d = Db(j) /\ n = worker[j].name
      <3>1. worker'[j].pc = "upsert" /\ worker'[j].name = n /\ Db(j)' = d
        BY <2>5, WorkFrame DEF RecordChange, Goto, TypeOK, Worker
      <3>2. j \in Active' /\ WrittenBy(j, d, n, {"upsert", "forget"})'
        BY <3>1 DEF Active, Steps, WrittenBy, At
      <3> QED
        BY <3>2 DEF TellsTrue, Writing, WrittenBy
    <2>6. CASE RecordRemoval(j) /\ worker'[j].victim = <<d, n>>
      <3>1. worker'[j].pc = "forget"
        BY <2>6 DEF RecordRemoval, TypeOK, Worker
      <3>2. j \in Active' /\ WrittenBy(j, d, n, {"upsert", "forget"})'
        BY <2>6, <3>1 DEF Active, Steps, WrittenBy, At
      <3> QED
        BY <3>2 DEF TellsTrue, Writing, WrittenBy
    <2>7. \/ history'[d][n] = history[d][n]
          \/ RecordChange(j) /\ d = Db(j) /\ n = worker[j].name
          \/ RecordRemoval(j) /\ worker'[j].victim = <<d, n>>
      BY RecordedBy, ZenonT(60)
    <2>8. \/ stored'[d][n] = stored[d][n] \/ stored'[d][n] = Unread
          \/ UpsertContainer(j) /\ d = Db(j) /\ n = worker[j].name
          \/ Forget(j) /\ worker[j].victim = <<d, n>>
      BY StoredBy
    <2> QED
      BY <2>1, <2>2, <2>3, <2>4, <2>5, <2>6, <2>7, <2>8
  <1> QED
    BY <1>1, <1>2, <1>3

\* A step of a thread keeps the columns and the verdicts those of the row.
LEMMA VouchesStep ==
  ASSUME TypeOK, InFlight, Unstarted, AllInStep, NEW j \in Jobs, Work(j),
         NEW d \in Databases, NEW n \in Names, Vouches(d, n)
  PROVE  Vouches(d, n)'
  <1>a. j \in Active
    BY StaysInFlight
  <1>b. ConstantsAssumption
    BY ConstantsAssumption
  <1> SUFFICES ASSUME stored'[d][n] \in Shapes
               PROVE  /\ Writing(d, n, {"columns"})' \/ columns'[d][n] = stored'[d][n]
                      /\ \/ Writing(d, n, {"columns", "inspect"})'
                         \/ inspected'[d][n] = stored'[d][n]
    BY DEF Vouches
  <1>1. CASE UpsertContainer(j) /\ d = Db(j) /\ n = worker[j].name
    <2>1. worker'[j].pc = "columns" /\ worker'[j].name = n /\ Db(j)' = d
      BY <1>1, WorkFrame DEF UpsertContainer, Goto, TypeOK, Worker
    <2>2. j \in Active'
      BY <2>1 DEF Active, Steps
    <2>3. WrittenBy(j, d, n, {"columns"})' /\ WrittenBy(j, d, n, {"columns", "inspect"})'
      BY <2>1 DEF WrittenBy, At
    <2> QED
      BY <2>2, <2>3 DEF Writing, WrittenBy
  <1>2. CASE stored'[d][n] = stored[d][n]
    <2>a. /\ Writing(d, n, {"columns"}) \/ columns[d][n] = stored[d][n]
          /\ Writing(d, n, {"columns", "inspect"}) \/ inspected[d][n] = stored[d][n]
      BY <1>2 DEF Vouches
    <2>b. ASSUME NEW steps, NEW i \in Active \ {j}, WrittenBy(i, d, n, steps)
          PROVE  Writing(d, n, steps)'
      <3>1. worker'[i] = worker[i] /\ Db(i)' = Db(i)
        BY OneThread, WorkFrame DEF Active
      <3> QED
        BY <2>b, <3>1, WriterKept
    <2>c. ASSUME WrittenBy(j, d, n, {"columns", "inspect"})
          PROVE  stored[d][n] = worker[j].shape /\ d = Db(j) /\ n = worker[j].name
      BY <1>a, <2>c DEF WrittenBy, At, AllInStep, InStep
    <2>1. Writing(d, n, {"columns"})' \/ columns'[d][n] = stored'[d][n]
      <3>1. CASE \E i \in Active \ {j} : WrittenBy(i, d, n, {"columns"})
        BY <2>b, <3>1
      <3>2. CASE WrittenBy(j, d, n, {"columns"})
        <4>1. worker[j].pc = "columns"
          BY <3>2 DEF WrittenBy
        <4>2. ReplaceColumns(j)
          BY <4>1 DEF Work, Borrow, ListPage, BeginContainer, StopCancelled, PageDone, ReadSchema,
           RecordUnreadable, Compare, RecordChange, UpsertContainer, Inspect, Advance,
           PlanRemovals, RecordRemoval, Forget, RemovalsDone, Finish, Cleanup, At
        <4>3. stored[d][n] = worker[j].shape /\ d = Db(j) /\ n = worker[j].name
          BY <2>c, <3>2 DEF WrittenBy
        <4>4. columns'[d][n] = worker[j].shape
          BY <4>2, <4>3 DEF ReplaceColumns, TypeOK
        <4> QED
          BY <1>2, <4>3, <4>4
      <3>3. CASE ~Writing(d, n, {"columns"})
        <4>1. columns[d][n] = stored[d][n]
          BY <2>a, <3>3
        <4>2. CASE columns'[d][n] = columns[d][n]
          BY <1>2, <4>1, <4>2
        <4>3. CASE ReplaceColumns(j) /\ d = Db(j) /\ n = worker[j].name
          <5>1. WrittenBy(j, d, n, {"columns"})
            BY <4>3 DEF WrittenBy, ReplaceColumns, At
          <5> QED
            BY <1>a, <3>3, <5>1, WritingBy
        <4> QED
          BY <4>2, <4>3, ColumnsBy
      <3> QED
        BY <3>1, <3>2, <3>3, WritingBy
    <2>2. Writing(d, n, {"columns", "inspect"})' \/ inspected'[d][n] = stored'[d][n]
      <3>1. CASE \E i \in Active \ {j} : WrittenBy(i, d, n, {"columns", "inspect"})
        BY <2>b, <3>1
      <3>2. CASE WrittenBy(j, d, n, {"columns", "inspect"}) /\ worker[j].pc = "columns"
        <4>1. ReplaceColumns(j)
          BY <3>2 DEF Work, Borrow, ListPage, BeginContainer, StopCancelled, PageDone, ReadSchema,
           RecordUnreadable, Compare, RecordChange, UpsertContainer, Inspect, Advance,
           PlanRemovals, RecordRemoval, Forget, RemovalsDone, Finish, Cleanup, At
        <4>2. worker'[j].pc = "inspect" /\ worker'[j].name = worker[j].name /\ Db(j)' = Db(j)
          BY <4>1, WorkFrame DEF ReplaceColumns, Goto, TypeOK, Worker
        <4>3. d = Db(j) /\ n = worker[j].name
          BY <2>c, <3>2
        <4>4. j \in Active' /\ WrittenBy(j, d, n, {"columns", "inspect"})'
          BY <4>2, <4>3 DEF WrittenBy, Active, Steps, At
        <4> QED
          BY <4>4 DEF Writing, WrittenBy
      <3>3. CASE WrittenBy(j, d, n, {"columns", "inspect"}) /\ worker[j].pc = "inspect"
        <4>1. Inspect(j)
          BY <3>3 DEF Work, Borrow, ListPage, BeginContainer, StopCancelled, PageDone, ReadSchema,
           RecordUnreadable, Compare, RecordChange, UpsertContainer, ReplaceColumns, Advance,
           PlanRemovals, RecordRemoval, Forget, RemovalsDone, Finish, Cleanup, At
        <4>2. stored[d][n] = worker[j].shape /\ d = Db(j) /\ n = worker[j].name
          BY <2>c, <3>3
        <4>3. inspected'[d][n] = worker[j].shape
          BY <4>1, <4>2 DEF Inspect, TypeOK
        <4> QED
          BY <1>2, <4>2, <4>3
      <3>4. CASE ~Writing(d, n, {"columns", "inspect"})
        <4>1. inspected[d][n] = stored[d][n]
          BY <2>a, <3>4
        <4>2. CASE inspected'[d][n] = inspected[d][n]
          BY <1>2, <4>1, <4>2
        <4>3. CASE Inspect(j) /\ d = Db(j) /\ n = worker[j].name
          <5>1. WrittenBy(j, d, n, {"columns", "inspect"})
            BY <4>3 DEF WrittenBy, Inspect, At
          <5> QED
            BY <1>a, <3>4, <5>1, WritingBy
        <4> QED
          BY <4>2, <4>3, ColumnsBy
      <3>5. WrittenBy(j, d, n, {"columns", "inspect"}) => worker[j].pc \in {"columns", "inspect"}
        BY DEF WrittenBy
      <3> QED
        BY <3>1, <3>2, <3>3, <3>4, <3>5, WritingBy
    <2> QED
      BY <2>1, <2>2
  <1> QED
    BY <1>b, <1>1, <1>2, StoredBy DEF ConstantsAssumption

\* A thread stays in step, whichever thread moves.
LEMMA InStepOther ==
  ASSUME EitherWay, TypeOK, InFlight, InTurn, Unstarted, RunningIsExact, Swept,
         NEW j \in Jobs, Work(j), NEW i \in Active \ {j}, InStep(i)
  PROVE  InStep(i)'
  <1>a. j \in Active /\ i \in Jobs /\ worker'[i] = worker[i] /\ Db(i)' = Db(i)
    BY StaysInFlight, OneThread, WorkFrame DEF Active
  <1>b. Db(i) # Db(j)
    BY <1>a, OneScan
  <1>c. Db(i) \in Databases
    BY <1>a, JobFacts
  <1>1. ASSUME NEW n \in Names
        PROVE  history'[Db(i)][n] = history[Db(i)][n] /\ stored'[Db(i)][n] = stored[Db(i)][n]
    <2>1. ~(RecordRemoval(j) /\ <<Db(i), n>> \in worker[j].gone)
      BY <1>a, <1>b DEF Swept, Gone, Missed, RecordRemoval, At
    <2>2. ~(Forget(j) /\ worker[j].victim = <<Db(i), n>>)
      BY <1>a, <1>b DEF Swept, Gone, Missed, Forget, At
    <2>3. history'[Db(i)][n] = history[Db(i)][n]
      BY <1>b, <1>c, <2>1, RecordedBy
    <2>4. stored'[Db(i)][n] = stored[Db(i)][n]
      BY <1>b, <1>c, <2>2, StoredBy
    <2> QED
      BY <2>3, <2>4
  <1>2. worker[i].pc \in {"upsert", "columns", "inspect"} => worker[i].name \in Names
    BY <1>a DEF InFlight, Handling
  <1>3. worker[i].pc = "forget" => worker[i].victim[1] = Db(i) /\ worker[i].victim[2] \in Names
    BY DEF Swept, Gone, Missed
  <1>4. worker[i].pc = "upsert" => Told(Db(i), worker[i].name, worker[i].shape)'
    BY <1>a, <1>1, <1>2, SMTT(30) DEF InStep, Told
  <1>5. worker[i].pc = "forget" => Told(worker[i].victim[1], worker[i].victim[2], NoRow)'
    BY <1>a, <1>1, <1>3, SMTT(30) DEF InStep, Told
  <1>6. worker[i].pc \in {"columns", "inspect"}
          => (stored[Db(i)][worker[i].name] = worker[i].shape)'
    BY <1>a, <1>1, <1>2 DEF InStep
  <1> QED
    BY <1>a, <1>4, <1>5, <1>6 DEF InStep

LEMMA InStepOwn ==
  ASSUME EitherWay, TypeOK, InFlight, InTurn, Unstarted, RunningIsExact, Swept, AllInStep,
         \A d \in Databases, n \in Names : TellsTrue(d, n),
         NEW j \in Jobs, Work(j)
  PROVE  InStep(j)'
  <1>a. /\ worker \in [Jobs -> Worker] /\ worker[j] \in Worker
        /\ stored \in [Databases -> [Names -> Shapes \cup {NoRow, Unread}]]
        /\ history \in [Databases -> [Names -> Seq(Change)]]
    BY DEF TypeOK
  <1>b. j \in Active /\ Db(j)' = Db(j) /\ Db(j) \in Databases
    BY StaysInFlight, WorkFrame, JobFacts
  <1>c. worker[j].pc \in Handling => worker[j].name \in Names
    BY DEF InFlight
  <1>d. ASSUME NEW s \in Seq(Change), NEW c \in Change
        PROVE  Append(s, c) # <<>> /\ Append(s, c)[Len(Append(s, c))] = c
    BY <1>d
  <1>1. ASSUME worker'[j].pc = "upsert"
        PROVE  Told(Db(j), worker[j].name, worker[j].shape)'
    <2>0. worker'[j].name = worker[j].name /\ worker'[j].shape = worker[j].shape
      BY <1>1, Arrivals
    <2>1. CASE RecordChange(j)
      <3>1. worker[j].name \in Names
        BY <2>1, <1>c DEF RecordChange, At, Handling
      <3>2. \E c \in Change : /\ history'[Db(j)][worker[j].name]
                                    = Append(history[Db(j)][worker[j].name], c)
                              /\ c.new = worker[j].shape
        <4> DEFINE c == [type |-> IF worker[j].prior = NoRow THEN "container_added"
                                  ELSE "schema_changed",
                         job |-> j, new |-> worker[j].shape]
        <4>1. history' = [history EXCEPT ![Db(j)][worker[j].name] = Append(@, c)]
          BY <2>1 DEF RecordChange
        <4>2. c \in Change /\ c.new = worker[j].shape
          BY <2>1 DEF InFlight, Change, RecordChange, At, Holding
        <4> HIDE DEF c
        <4> QED
          BY <1>a, <1>b, <3>1, <4>1, <4>2
      <3>3. history[Db(j)][worker[j].name] \in Seq(Change)
        BY <1>a, <1>b, <3>1
      <3>4. PICK c \in Change : /\ history'[Db(j)'][worker'[j].name]
                                     = Append(history[Db(j)][worker[j].name], c)
                                /\ c.new = worker'[j].shape
        BY <1>b, <2>0, <3>2
      <3> DEFINE s == history[Db(j)][worker[j].name]
                 t == history'[Db(j)'][worker'[j].name]
      <3>5. s \in Seq(Change) /\ t = Append(s, c)
        BY <3>3, <3>4
      <3>6. c.new = worker'[j].shape
        BY <3>4
      <3>7. t # <<>> /\ t[Len(t)] = c
        <4> HIDE DEF s, t
        <4> QED
          BY <1>d, <3>5
      <3> QED
        BY <3>6, <3>7 DEF Told
    <2>2. CASE Compare(j)
      <3>1. /\ worker[j].pc = "compare" /\ worker[j].name \in Names
            /\ worker[j].shape \in Shapes
        BY <2>2, <1>c DEF Compare, At, Handling, Holding, InFlight
      <3>2. StoredHash(Db(j), worker[j].name) = worker[j].shape
        BY <1>1, <1>a, <2>2 DEF Compare, Worker
      <3>3. stored[Db(j)][worker[j].name] = worker[j].shape
        BY <3>1, <3>2, ConstantsAssumption DEF StoredHash
      <3>4. history' = history
        BY <2>2 DEF Compare, OnlyWorker, KeepsStore, storeVars
      <3>5. ~Writing(Db(j), worker[j].name, {"upsert", "forget"})
        <4> SUFFICES ASSUME NEW i \in Active,
                            WrittenBy(i, Db(j), worker[j].name, {"upsert", "forget"})
                     PROVE  FALSE
          BY WritingBy
        <4>1. i = j
          BY <1>b, <3>1, OwnDatabase, OneScan
        <4> QED
          BY <3>1, <4>1 DEF WrittenBy
      <3>6. Told(Db(j), worker[j].name, worker[j].shape)
        BY <1>b, <3>1, <3>3, <3>5, ConstantsAssumption DEF TellsTrue
      <3> QED
        BY <1>b, <2>0, <3>4, <3>6 DEF Told
    <2> QED
      BY <1>1, <2>1, <2>2, Arrivals
  <1>2. ASSUME worker'[j].pc = "forget"
        PROVE  Told(worker[j].victim[1], worker[j].victim[2], NoRow)'
    <2>1. RecordRemoval(j)
      BY <1>2, Arrivals
    <2> DEFINE c == [type |-> "container_removed", job |-> j, new |-> NoRow]
    <2>2. PICK k \in worker[j].gone :
            /\ history' = [history EXCEPT ![k[1]][k[2]] = Append(@, c)]
            /\ worker' = [worker EXCEPT ![j].pc = "forget", ![j].victim = k,
                                        ![j].gone = @ \ {k}]
      BY <2>1 DEF RecordRemoval
    <2>3. c \in Change /\ c.new = NoRow
      BY DEF Change
    <2> HIDE DEF c
    <2>4. k \in Databases \X Names /\ k[1] \in Databases /\ k[2] \in Names
      BY <1>a DEF Worker
    <2>5. worker'[j].victim = k
      BY <1>a, <2>2 DEF Worker
    <2>6. history'[k[1]][k[2]] = Append(history[k[1]][k[2]], c)
      BY <1>a, <2>2, <2>4
    <2>7. history[k[1]][k[2]] \in Seq(Change)
      BY <1>a, <2>4
    <2> QED
      BY <1>d, <2>3, <2>5, <2>6, <2>7 DEF Told
  <1>3. ASSUME worker'[j].pc \in {"columns", "inspect"}
        PROVE  stored'[Db(j)][worker'[j].name] = worker'[j].shape
    <2>0. worker'[j].name = worker[j].name /\ worker'[j].shape = worker[j].shape
      BY <1>3, Arrivals
    <2>1. CASE UpsertContainer(j)
      <3>1. worker[j].name \in Names
        BY <2>1, <1>c DEF UpsertContainer, At, Handling
      <3> QED
        BY <1>a, <1>b, <2>0, <2>1, <3>1 DEF UpsertContainer
    <2>2. CASE ReplaceColumns(j)
      <3>1. stored' = stored /\ worker[j].pc = "columns"
        BY <2>2 DEF ReplaceColumns, At
      <3> QED
        BY <1>b, <2>0, <3>1 DEF AllInStep, InStep
    <2> QED
      BY <1>3, <2>1, <2>2, Arrivals
  <1> QED
    BY <1>b, <1>1, <1>2, <1>3 DEF InStep

LEMMA NextAgreed ==
  ASSUME EitherWay, TypeOK, InFlight, InTurn, Unstarted, RunningIsExact, Swept, Agreed,
         [Next]_vars
  PROVE  Agreed'
  <1>1. ASSUME NEW j \in Jobs, Start(j), crashes' = 0
        PROVE  /\ AllInStep'
               /\ \A d \in Databases, n \in Names : TellsTrue(d, n)' /\ Vouches(d, n)'
    <2>1. j \notin Active
      BY <1>1, StartFacts DEF Unstarted, Known, Active, Steps
    <2>2. crashes = 0 /\ UNCHANGED <<stored, columns, inspected, history>>
      BY <1>1, StartFacts
    <2>3. \A i \in Active : worker'[i] = worker[i] /\ Db(i)' = Db(i)
      BY <1>1, <2>1, StartFacts DEF Active
    <2>4. AllInStep'
      <3> SUFFICES ASSUME NEW i \in Jobs, worker'[i].pc \in Steps PROVE InStep(i)'
        BY DEF AllInStep, Active
      <3>1. CASE i = j
        BY <1>1, <3>1, StartFacts DEF InStep
      <3>2. CASE i # j
        <4>1. i \in Active
          BY <1>1, <3>2, StartFacts DEF Active
        <4> QED
          BY <2>2, <2>3, <4>1 DEF Agreed, AllInStep, InStep, Told
      <3> QED
        BY <3>1, <3>2
    <2>5. \A d, n, steps : Writing(d, n, steps) => Writing(d, n, steps)'
      BY <2>3, WritingBy, WriterKept
    <2> QED
      BY <2>2, <2>4, <2>5 DEF Agreed, TellsTrue, Vouches, Told
  <1>2. ASSUME NEW j \in Jobs, Work(j), crashes' = 0
        PROVE  /\ AllInStep'
               /\ \A d \in Databases, n \in Names : TellsTrue(d, n)' /\ Vouches(d, n)'
    <2>1. /\ crashes = 0 /\ AllInStep
          /\ \A d \in Databases, n \in Names : TellsTrue(d, n) /\ Vouches(d, n)
      BY <1>2, WorkFrame DEF Agreed
    <2>2. Active' \subseteq Active
      BY <1>2, StaysInFlight, OneThread DEF Active
    <2>3. \A i \in Active \ {j} : InStep(i)'
      BY <1>2, <2>1, InStepOther DEF AllInStep
    <2>4. InStep(j)'
      BY <1>2, <2>1, InStepOwn
    <2>5. AllInStep'
      BY <2>2, <2>3, <2>4 DEF AllInStep
    <2> QED
      BY <1>2, <2>1, <2>5, TellsTrueStep, VouchesStep
  <1>3. CASE UNCHANGED <<scans, worker, stored, columns, inspected, history, crashes>>
    <2>1. \A i \in Jobs : Db(i)' = Db(i) /\ (At(i, "forget")' <=> At(i, "forget"))
      BY <1>3 DEF Db, Request, At
    <2>2. Active' = Active
      BY <1>3 DEF Active
    <2>3. AllInStep => AllInStep'
      BY <1>3, <2>1, <2>2 DEF AllInStep, InStep, Told, Active
    <2>4. \A d, n, steps : Writing(d, n, steps) => Writing(d, n, steps)'
      BY <1>3, <2>1, WritingBy, WriterKept DEF Active
    <2> QED
      BY <1>3, <2>3, <2>4 DEF Agreed, TellsTrue, Vouches, Told
  <1>4. CASE Crash
    <2>1. crashes \in Nat /\ crashes' = crashes + 1
      BY <1>4 DEF Crash, TypeOK
    <2>2. crashes' # 0
      BY <2>1
    <2> QED
      BY <2>2 DEF Agreed
  <1>5. CASE (\E j \in Jobs : Cancel(j)) \/ Close \/ UNCHANGED vars
             \/ \E d \in Databases, n \in Names : ChangeUpstream(d, n)
    <2>1. UNCHANGED <<scans, worker, stored, columns, inspected, history, crashes>>
      BY <1>5 DEF Cancel, Close, vars, storeVars, ChangeUpstream
    <2> QED
      BY <1>3, <2>1
  <1> QED
    BY <1>1, <1>2, <1>4, <1>5 DEF Next, Agreed

\* While the process lives, the history ends in the change that made each row
\* what it is, and a hash on record vouches for the columns, the verdicts and the
\* statistics: for any number of scans on any number of databases, where clients
\* name their database always or never.
LEMMA RecordsAgree ==
  ASSUME EitherWay
  PROVE  Spec => [](crashes = 0 => HistoryMatchesStore /\ HashVouchesForColumns)
  <1> DEFINE Before == RunningIsExact /\ Unstarted /\ LookedEverywhere
             Inv == InTurn /\ RowsAskedFor /\ Swept /\ Agreed
  <1>1. Init => Before /\ Inv
    <2> SUFFICES ASSUME Init PROVE Before /\ Inv
      OBVIOUS
    <2>1. LookedEverywhere
      BY DEF Init, LookedEverywhere
    <2>2. Active = {}
      BY DEF Init, Active, Resting, Steps
    <2>3. Swept /\ AllInStep
      BY <2>2 DEF Swept, AllInStep
    <2>4. \A d \in Databases, n \in Names :
             stored[d][n] = NoRow /\ history[d][n] = <<>> /\ NoRow \notin Shapes
      BY ConstantsAssumption DEF Init
    <2>5. Agreed
      BY <2>3, <2>4 DEF Agreed, TellsTrue, Vouches
    <2> QED
      BY <2>1, <2>3, <2>5, InitRunning, InitInTurn
  <1>2. TypeOK /\ InFlight /\ Before /\ Inv /\ [Next]_vars => (Before /\ Inv)'
    BY NextRunning, NextLooked, NextInTurn, NextSwept, NextAgreed
  <1>3. Agreed => (crashes = 0 => HistoryMatchesStore /\ HashVouchesForColumns)
    BY DEF Agreed, TellsTrue, Vouches, Told, HistoryMatchesStore, HashVouchesForColumns
  <1> QED
    BY <1>1, <1>2, <1>3, TypeCorrect, PTL DEF Spec

\* While the process lives, the history of a container ends in the change that
\* made its row what it is: what record_change wrote last is what upsert_container
\* or forget_container then did, though scans fail or are cancelled between any two.
THEOREM HistoryAgrees ==
  ASSUME EitherWay
  PROVE  Spec => [](crashes = 0 => HistoryMatchesStore)
  BY RecordsAgree, PTL

\* While the process lives, the hash by which _scan_container skips a container
\* vouches for the columns, the verdicts and the statistics on record.
THEOREM HashesVouch ==
  ASSUME EitherWay
  PROVE  Spec => [](crashes = 0 => HashVouchesForColumns)
  BY RecordsAgree, PTL
=============================================================================

--------------------------- MODULE InventoryScan ---------------------------
(***************************************************************************)
(* Background catalog scans: InventoryService (src/service/inventory.py)   *)
(* together with the tables of StagingStore a scan writes                  *)
(* (src/service/staging.py).                                               *)
(*                                                                         *)
(* A scan is a thread that pages through the container names of one        *)
(* database and, container by container, brings the staging store up to    *)
(* date.  Every store method is one transaction, so a step of a worker is  *)
(* one read of the source, one store transaction, or the bookkeeping       *)
(* between two of them.  While it runs the source changes, other scans are *)
(* started, cancellations arrive, and the process may be killed: what it   *)
(* held in memory is then gone and what it wrote stays.                    *)
(***************************************************************************)
EXTENDS Integers, Sequences, FiniteSets

CONSTANTS
    Databases,      \* the databases the server may scan
    DefaultDb,      \* the one a request without a database is resolved to
    NoDb,           \* the request without a database (database=None)
    Requests,       \* the requests clients make: databases, perhaps NoDb
    Names,          \* container names; their order is the catalog's order
    Shapes,         \* container shapes; a schema hash identifies a shape
    Options,        \* the [force, resume] combinations clients ask for
    Faults,         \* the steps of a scan whose source may raise
    PageSize,       \* containers per catalog page
    MaxScans,       \* bound: scans ever started
    MaxUpstream,    \* bound: changes of the source's catalog
    MaxCrashes,     \* bound: process deaths
    Absent,         \* the value of a container that does not exist upstream
    NoRow,          \* no row in `containers`, or none in `columns`
    Unread          \* a row with an empty hash and an error

ASSUME ConstantsAssumption ==
    /\ DefaultDb \in Databases
    /\ NoDb \notin Databases
    /\ Requests \subseteq Databases \cup {NoDb}
    /\ Names \subseteq Nat \ {0}
    /\ IsFiniteSet(Names)
    /\ Options \subseteq [force : BOOLEAN, resume : BOOLEAN]
    /\ Faults \subseteq {"borrow", "list", "read"}
    /\ PageSize \in Nat \ {0}
    /\ MaxScans \in Nat /\ MaxUpstream \in Nat /\ MaxCrashes \in Nat
    /\ Absent \notin Shapes /\ NoRow \notin Shapes /\ Unread \notin Shapes
    /\ NoRow # Unread

Jobs == 1 .. MaxScans               \* job ids, in the order of their creation

VARIABLES
    catalog,     \* what each database holds upstream
    upstream,    \* changes of it so far
    stored,      \* `containers`: the hash on record
    columns,     \* `columns`: the shape whose columns are on record
    inspected,   \* the shape whose columns were last judged and profiled
    history,     \* `schema_changes`, per container
    scans,       \* `scans`: one row per job
    running,     \* _running_databases, keyed by the request
    cancels,     \* _cancels: each job's event, if it still has one
    worker,      \* the scan threads
    crashes,     \* process deaths so far
    walked,      \* auxiliary: what a job, or a run it continues, is done with
    held         \* auxiliary: all that a container has been upstream since
                 \* the job, or a run it continues, was started

sourceVars == <<catalog, upstream>>
storeVars  == <<stored, columns, inspected, history>>
auxVars    == <<walked, held>>
vars == <<sourceVars, storeVars, scans, running, cancels, worker, crashes, auxVars>>

-----------------------------------------------------------------------------
(* Values *)

Upstream == Shapes \cup {Absent}
Row      == [request : Requests \cup {NoDb},
             state   : {"none", "running", "done", "failed", "cancelled"},
             cursor  : Names \cup {0},          \* 0 is NULL
             stamp   : Nat]                     \* started_at, in whole seconds
Change   == [type : {"container_added", "schema_changed", "container_removed"},
             job  : Jobs,
             new  : Shapes \cup {NoRow}]
Steps    == {"borrow", "list", "next", "read", "unreadable", "compare", "change",
             "upsert", "columns", "inspect", "advance", "removals", "remove",
             "forget", "finish", "failing", "cleanup"}
Idle     == {"unused", "ended"}
Worker   == [pc     : Steps \cup Idle,
             force  : BOOLEAN,
             covers : BOOLEAN,                  \* covers_everything
             cursor : Names \cup {0},           \* the name to list after
             page   : SUBSET Names,             \* what is left of the page
             more   : BOOLEAN,                  \* page.next_cursor is not None
             name   : Names \cup {0},           \* the container in flight
             shape  : Upstream,                 \* the columns read from it
             prior  : Shapes \cup {NoRow},      \* the hash on record before
             seen   : SUBSET Names,
             gone   : SUBSET (Databases \X Names),
             victim : Databases \X (Names \cup {0})]    \* the removal in flight

NoOne == <<DefaultDb, 0>>
Resting(pc, covers) ==
    [pc |-> pc, force |-> FALSE, covers |-> covers, cursor |-> 0, page |-> {},
     more |-> FALSE, name |-> 0, shape |-> Absent, prior |-> NoRow, seen |-> {},
     gone |-> {}, victim |-> NoOne]

-----------------------------------------------------------------------------
(* The source: an adapter's page of the catalog is a keyset page, the       *)
(* first PageSize names after the cursor.                                   *)

Listed(d, after) == {n \in Names : n > after /\ catalog[d][n] # Absent}

Page(d, after) ==
    {n \in Listed(d, after) :
        Cardinality({m \in Listed(d, after) : m < n}) < PageSize}

(* The store *)

Database(req) == IF req = NoDb THEN DefaultDb ELSE req

\* resumable_scan: the latest unfinished runs of a request.  started_at has
\* whole seconds, so there may be several and the engine picks any of them.
Unfinished(req) ==
    {k \in Jobs : scans[k].request = req /\ scans[k].state \in {"running", "failed"}}
Resumable(req) ==
    {k \in Unfinished(req) : \A i \in Unfinished(req) : scans[i].stamp <= scans[k].stamp}

\* mutant: the WHERE clause without `error IS NULL`
MutStoredHash(d, n) == stored[d][n]

\* stored_schema_hash: a row with an error has no hash to compare with.
StoredHash(d, n) == IF stored[d][n] = Unread THEN NoRow ELSE stored[d][n]

\* container_keys: without a database, the containers of every database.
ContainerKeys(req) ==
    {k \in Databases \X Names :
        stored[k[1]][k[2]] # NoRow /\ (req # NoDb => k[1] = req)}

Request(j) == scans[j].request
Db(j)      == Database(Request(j))
At(j, pc)  == worker[j].pc = pc
Active     == {j \in Jobs : worker[j].pc \in Steps}

\* One thread's step: it goes to pc, with the given changes of its locals.
Goto(j, pc) == worker' = [worker EXCEPT ![j].pc = pc]

-----------------------------------------------------------------------------
Init ==
    /\ catalog \in [Databases -> [Names -> Upstream]]
    /\ upstream = 0
    /\ stored = [d \in Databases |-> [n \in Names |-> NoRow]]
    /\ columns = [d \in Databases |-> [n \in Names |-> NoRow]]
    /\ inspected = [d \in Databases |-> [n \in Names |-> NoRow]]
    /\ history = [d \in Databases |-> [n \in Names |-> <<>>]]
    /\ scans = [j \in Jobs |-> [request |-> NoDb, state |-> "none",
                                cursor |-> 0, stamp |-> 0]]
    /\ running = {}
    /\ cancels = [j \in Jobs |-> "none"]
    /\ worker = [j \in Jobs |-> Resting("unused", FALSE)]
    /\ crashes = 0
    /\ walked = [j \in Jobs |-> {}]
    /\ held = [j \in Jobs |-> [d \in Databases |-> [n \in Names |-> {}]]]

-----------------------------------------------------------------------------
(* The service's operations *)

\* The next job id, and the seconds its row may be stamped with: the same as
\* the row before it, or a later one.
NextJob(j)   == scans[j].state = "none" /\ \A i \in Jobs : i < j => scans[i].state # "none"
Stamps(j)    == IF j = 1 THEN {0} ELSE {scans[j - 1].stamp, scans[j - 1].stamp + 1}

\* Register job j for req, starting after cursor; base is what the run it
\* continues had walked and seen upstream.
Launch(j, req, force, cursor, stamp, baseWalked, baseHeld) ==
    /\ scans' = [scans EXCEPT ![j] = [request |-> req, state |-> "running",
                                      cursor |-> 0, stamp |-> stamp]]
    /\ running' = running \cup {req}
    /\ cancels' = [cancels EXCEPT ![j] = "clear"]
    /\ worker' = [worker EXCEPT ![j] =
                    [Resting("borrow", cursor = 0) EXCEPT !.force = force,
                                                          !.cursor = cursor]]
    /\ walked' = [walked EXCEPT ![j] = baseWalked]
    /\ held' = [held EXCEPT ![j] = [d \in Databases |->
                    [n \in Names |-> baseHeld[d][n] \cup {catalog[d][n]}]]]
    /\ UNCHANGED <<sourceVars, storeVars, crashes>>

\* mutant: no look at _running_databases
MutStartAfresh(j, req, opt, stamp) == Launch(j, req, opt.force, 0, stamp, {}, held[j])

\* start: refused while the same request is in flight.  A run to continue is
\* one that never finished and got as far as a cursor.
StartAfresh(j, req, opt, stamp) ==
    /\ req \notin running
    /\ \/ ~opt.resume
       \/ Resumable(req) = {}
       \/ \E k \in Resumable(req) : scans[k].cursor = 0
    /\ Launch(j, req, opt.force, 0, stamp, {}, held[j])

StartResumed(j, req, opt, stamp) ==
    /\ req \notin running
    /\ opt.resume
    /\ \E k \in Resumable(req) :
          /\ scans[k].cursor # 0
          /\ Launch(j, req, opt.force, scans[k].cursor, stamp, walked[k], held[k])

Start(j) ==
    /\ NextJob(j)
    /\ \E req \in Requests, opt \in Options, stamp \in Stamps(j) :
          StartAfresh(j, req, opt, stamp) \/ StartResumed(j, req, opt, stamp)

\* cancel: only a job that still has its event can be asked to stop.
Cancel(j) ==
    /\ cancels[j] = "clear"
    /\ cancels' = [cancels EXCEPT ![j] = "set"]
    /\ UNCHANGED <<sourceVars, storeVars, scans, running, worker, crashes, auxVars>>

\* close: every job is asked to stop; the joins that follow change nothing.
Close ==
    /\ \E j \in Jobs : cancels[j] = "clear"
    /\ cancels' = [j \in Jobs |-> IF cancels[j] = "none" THEN "none" ELSE "set"]
    /\ UNCHANGED <<sourceVars, storeVars, scans, running, worker, crashes, auxVars>>

-----------------------------------------------------------------------------
(* The worker thread *)

KeepsStore   == UNCHANGED <<sourceVars, storeVars, running, cancels, crashes>>
OnlyWorker   == KeepsStore /\ UNCHANGED <<scans, auxVars>>

\* provider.get(database)
Borrow(j) ==
    /\ At(j, "borrow")
    /\ \/ Goto(j, "list")
       \/ "borrow" \in Faults /\ Goto(j, "failing")
    /\ OnlyWorker

\* adapter.list_containers(limit, cursor)
ListPage(j) ==
    /\ At(j, "list")
    /\ \/ LET page == Page(Db(j), worker[j].cursor) IN
          worker' = [worker EXCEPT ![j].pc = "next", ![j].page = page,
                        ![j].more = page # Listed(Db(j), worker[j].cursor)]
       \/ "list" \in Faults /\ Goto(j, "failing")
    /\ OnlyWorker

\* mutant: the cursor saved when a container is begun
MutBeginContainer(j) ==
    /\ At(j, "next")
    /\ cancels[j] # "set"
    /\ \E n \in worker[j].page :
          /\ \A m \in worker[j].page : n <= m
          /\ worker' = [worker EXCEPT ![j].pc = "read", ![j].name = n,
                            ![j].page = @ \ {n}, ![j].seen = @ \cup {n}]
          /\ scans' = [scans EXCEPT ![j].cursor = n]
    /\ KeepsStore
    /\ UNCHANGED auxVars

\* The loop over a page: the next container is begun unless the job has been
\* cancelled.
BeginContainer(j) ==
    /\ At(j, "next")
    /\ cancels[j] # "set"
    /\ \E n \in worker[j].page :
          /\ \A m \in worker[j].page : n <= m
          /\ worker' = [worker EXCEPT ![j].pc = "read", ![j].name = n,
                            ![j].page = @ \ {n}, ![j].seen = @ \cup {n}]
    /\ OnlyWorker

\* mutant: a cancelled job returns without closing its row
MutStopCancelled(j) ==
    /\ At(j, "next") /\ worker[j].page # {} /\ cancels[j] = "set"
    /\ Goto(j, "cleanup")
    /\ OnlyWorker

StopCancelled(j) ==
    /\ At(j, "next")
    /\ worker[j].page # {}
    /\ cancels[j] = "set"
    /\ scans' = [scans EXCEPT ![j].state = "cancelled"]
    /\ Goto(j, "cleanup")
    /\ KeepsStore
    /\ UNCHANGED auxVars

\* mutants: removals never looked for; looked for whatever the run covered
MutNoRemovals(j) ==
    /\ At(j, "next") /\ worker[j].page = {}
    /\ Goto(j, IF worker[j].more THEN "list" ELSE "finish")
    /\ OnlyWorker

MutAllRemovals(j) ==
    /\ At(j, "next") /\ worker[j].page = {}
    /\ Goto(j, IF worker[j].more THEN "list" ELSE "removals")
    /\ OnlyWorker

PageDone(j) ==
    /\ At(j, "next")
    /\ worker[j].page = {}
    /\ Goto(j, IF worker[j].more THEN "list"
               ELSE IF worker[j].covers THEN "removals" ELSE "finish")
    /\ OnlyWorker

\* adapter.get_schema: raises for a container dropped since it was listed,
\* and whenever the source cannot answer.
ReadSchema(j) ==
    LET found == catalog[Db(j)][worker[j].name] IN
    /\ At(j, "read")
    /\ \/ /\ found # Absent
          /\ worker' = [worker EXCEPT ![j].pc = "compare", ![j].shape = found]
       \/ /\ found = Absent \/ "read" \in Faults
          /\ Goto(j, "unreadable")
    /\ OnlyWorker

\* upsert_container(hash_="", error=...): the columns on record stay.
RecordUnreadable(j) ==
    /\ At(j, "unreadable")
    /\ stored' = [stored EXCEPT ![Db(j)][worker[j].name] = Unread]
    /\ Goto(j, "advance")
    /\ UNCHANGED <<sourceVars, columns, inspected, history, scans, running, cancels,
                   crashes, auxVars>>

\* mutant: a container with no usable hash is written without a record
MutCompare(j) ==
    /\ At(j, "compare")
    /\ LET prior == StoredHash(Db(j), worker[j].name) IN
       worker' = [worker EXCEPT ![j].prior = prior,
           ![j].pc = IF prior \notin {NoRow, worker[j].shape} THEN "change"
                     ELSE IF prior = NoRow \/ worker[j].force THEN "upsert"
                     ELSE "advance"]
    /\ OnlyWorker

\* stored_schema_hash, and what follows from it: an unchanged container is
\* skipped, or only re-read under force; a changed one is recorded first.
Compare(j) ==
    /\ At(j, "compare")
    /\ LET prior == StoredHash(Db(j), worker[j].name) IN
       worker' = [worker EXCEPT ![j].prior = prior,
           ![j].pc = IF prior # worker[j].shape THEN "change"
                     ELSE IF worker[j].force THEN "upsert" ELSE "advance"]
    /\ OnlyWorker

\* _record_change
RecordChange(j) ==
    /\ At(j, "change")
    /\ history' = [history EXCEPT ![Db(j)][worker[j].name] = Append(@,
          [type |-> IF worker[j].prior = NoRow THEN "container_added" ELSE "schema_changed",
           job |-> j, new |-> worker[j].shape])]
    /\ Goto(j, "upsert")
    /\ UNCHANGED <<sourceVars, stored, columns, inspected, scans, running, cancels,
                   crashes, auxVars>>

\* upsert_container(hash_=current)
UpsertContainer(j) ==
    /\ At(j, "upsert")
    /\ stored' = [stored EXCEPT ![Db(j)][worker[j].name] = worker[j].shape]
    /\ Goto(j, "columns")
    /\ UNCHANGED <<sourceVars, columns, inspected, history, scans, running, cancels,
                   crashes, auxVars>>

\* mutant: columns already on record are left as they are
MutReplaceColumns(j) ==
    /\ At(j, "columns")
    /\ columns' = [columns EXCEPT ![Db(j)][worker[j].name] =
                      IF @ = NoRow THEN worker[j].shape ELSE @]
    /\ Goto(j, "inspect")
    /\ UNCHANGED <<sourceVars, stored, inspected, history, scans, running, cancels,
                   crashes, auxVars>>

\* replace_columns, one transaction
ReplaceColumns(j) ==
    /\ At(j, "columns")
    /\ columns' = [columns EXCEPT ![Db(j)][worker[j].name] = worker[j].shape]
    /\ Goto(j, "inspect")
    /\ UNCHANGED <<sourceVars, stored, inspected, history, scans, running, cancels,
                   crashes, auxVars>>

\* _detect_sensitivity and _profile_column: what they cannot read they step
\* over, so the container is never failed by them.
Inspect(j) ==
    /\ At(j, "inspect")
    /\ inspected' = [inspected EXCEPT ![Db(j)][worker[j].name] = worker[j].shape]
    /\ Goto(j, "advance")
    /\ UNCHANGED <<sourceVars, stored, columns, history, scans, running, cancels,
                   crashes, auxVars>>

\* advance_scan: the cursor is what a later run resumes from.
Advance(j) ==
    /\ At(j, "advance")
    /\ scans' = [scans EXCEPT ![j].cursor = worker[j].name]
    /\ worker' = [worker EXCEPT ![j].pc = "next", ![j].cursor = worker[j].name,
                     ![j].name = 0, ![j].shape = Absent, ![j].prior = NoRow]
    /\ walked' = [walked EXCEPT ![j] = @ \cup {<<Db(j), worker[j].name>>}]
    /\ KeepsStore
    /\ UNCHANGED held

\* _record_removals: what the store knows and the scan never saw, computed
\* once, then recorded and forgotten one by one.
PlanRemovals(j) ==
    /\ At(j, "removals")
    /\ worker' = [worker EXCEPT ![j].pc = "remove",
           ![j].gone = ContainerKeys(Request(j)) \ ({Db(j)} \X worker[j].seen)]
    /\ OnlyWorker

RecordRemoval(j) ==
    /\ At(j, "remove")
    /\ \E k \in worker[j].gone :
          /\ history' = [history EXCEPT ![k[1]][k[2]] = Append(@,
                [type |-> "container_removed", job |-> j, new |-> NoRow])]
          /\ worker' = [worker EXCEPT ![j].pc = "forget", ![j].victim = k,
                                      ![j].gone = @ \ {k}]
    /\ UNCHANGED <<sourceVars, stored, columns, inspected, scans, running, cancels,
                   crashes, auxVars>>

\* forget_container: the row and its columns, one transaction
Forget(j) ==
    LET d == worker[j].victim[1]
        n == worker[j].victim[2] IN
    /\ At(j, "forget")
    /\ stored' = [stored EXCEPT ![d][n] = NoRow]
    /\ columns' = [columns EXCEPT ![d][n] = NoRow]
    /\ inspected' = [inspected EXCEPT ![d][n] = NoRow]
    /\ worker' = [worker EXCEPT ![j].pc = "remove", ![j].victim = NoOne]
    /\ UNCHANGED <<sourceVars, history, scans, running, cancels, crashes, auxVars>>

RemovalsDone(j) ==
    /\ At(j, "remove")
    /\ worker[j].gone = {}
    /\ Goto(j, "finish")
    /\ OnlyWorker

\* finish_scan
Finish(j) ==
    /\ \/ /\ At(j, "finish")
          /\ scans' = [scans EXCEPT ![j].state = "done"]
       \/ /\ At(j, "failing")
          /\ scans' = [scans EXCEPT ![j].state = "failed"]
    /\ Goto(j, "cleanup")
    /\ KeepsStore
    /\ UNCHANGED auxVars

\* mutant: the request is not released
MutCleanup(j) ==
    /\ At(j, "cleanup")
    /\ cancels' = [cancels EXCEPT ![j] = "none"]
    /\ worker' = [worker EXCEPT ![j] = Resting("ended", @.covers)]
    /\ UNCHANGED <<sourceVars, storeVars, scans, running, crashes, auxVars>>

\* finally: the request may be started again, the event is dropped.
Cleanup(j) ==
    /\ At(j, "cleanup")
    /\ running' = running \ {Request(j)}
    /\ cancels' = [cancels EXCEPT ![j] = "none"]
    /\ worker' = [worker EXCEPT ![j] = Resting("ended", @.covers)]
    /\ UNCHANGED <<sourceVars, storeVars, scans, crashes, auxVars>>

Work(j) ==
    \/ Borrow(j) \/ ListPage(j) \/ BeginContainer(j) \/ StopCancelled(j)
    \/ PageDone(j) \/ ReadSchema(j) \/ RecordUnreadable(j) \/ Compare(j)
    \/ RecordChange(j) \/ UpsertContainer(j) \/ ReplaceColumns(j) \/ Inspect(j)
    \/ Advance(j) \/ PlanRemovals(j) \/ RecordRemoval(j) \/ Forget(j)
    \/ RemovalsDone(j) \/ Finish(j) \/ Cleanup(j)

-----------------------------------------------------------------------------
(* The environment *)

\* A container is created, altered or dropped in the source.
ChangeUpstream(d, n) ==
    /\ upstream < MaxUpstream
    /\ \E s \in Upstream \ {catalog[d][n]} :
          /\ catalog' = [catalog EXCEPT ![d][n] = s]
          /\ held' = [j \in Jobs |-> IF scans[j].state = "none" THEN held[j]
                                     ELSE [held[j] EXCEPT ![d][n] = @ \cup {s}]]
    /\ upstream' = upstream + 1
    /\ UNCHANGED <<storeVars, scans, running, cancels, worker, crashes, walked>>

\* The process is killed and started again: threads, events and the set of
\* running requests were in memory only.
Crash ==
    /\ crashes < MaxCrashes
    /\ Active # {}
    /\ crashes' = crashes + 1
    /\ running' = {}
    /\ cancels' = [j \in Jobs |-> "none"]
    /\ worker' = [j \in Jobs |-> IF At(j, "unused") THEN worker[j]
                                 ELSE Resting("ended", worker[j].covers)]
    /\ UNCHANGED <<sourceVars, storeVars, scans, auxVars>>

-----------------------------------------------------------------------------
Next ==
    \/ \E j \in Jobs : Start(j) \/ Cancel(j) \/ Work(j)
    \/ Close
    \/ \E d \in Databases, n \in Names : ChangeUpstream(d, n)
    \/ Crash

Spec == Init /\ [][Next]_vars

\* A started thread is scheduled until it ends.
FairSpec == Spec /\ \A j \in Jobs : WF_vars(Work(j))
-----------------------------------------------------------------------------
(* Properties *)

TypeOK ==
    /\ catalog \in [Databases -> [Names -> Upstream]]
    /\ upstream \in Nat
    /\ stored \in [Databases -> [Names -> Shapes \cup {NoRow, Unread}]]
    /\ columns \in [Databases -> [Names -> Shapes \cup {NoRow}]]
    /\ inspected \in [Databases -> [Names -> Shapes \cup {NoRow}]]
    /\ history \in [Databases -> [Names -> Seq(Change)]]
    /\ scans \in [Jobs -> Row]
    /\ running \subseteq Requests
    /\ cancels \in [Jobs -> {"none", "clear", "set"}]
    /\ worker \in [Jobs -> Worker]
    /\ crashes \in Nat
    /\ walked \in [Jobs -> SUBSET (Databases \X Names)]
    /\ held \in [Jobs -> [Databases -> [Names -> SUBSET Upstream]]]

\* A request is refused exactly while a live thread works on it, and never
\* two threads work on one request: a key left behind would refuse the
\* database for ever, one released early would let two scans interleave.
RunningIsExact ==
    /\ running = {Request(j) : j \in Active}
    /\ \A i, j \in Active : Request(i) = Request(j) => i = j

\* A scan that reports `done` has, with the unfinished runs it continued,
\* dealt with every container that was in the catalog all along, whatever
\* happened to the catalog, the process and the earlier runs meanwhile.
FinishedScanLookedEverywhere ==
    \A j \in Jobs : scans[j].state = "done" =>
        \A n \in Names : <<Db(j), n>> \in walked[j] \/ Absent \in held[j][Db(j)][n]

\* What the store holds after a complete scan is, for every container, a
\* state the source was in at some moment since that scan began: a shape
\* it had then, no row if it was missing then, or the record of a read that
\* failed.
FinishedScanIsCurrent ==
    \A j \in Jobs : scans[j].state = "done" /\ worker[j].covers =>
        \A n \in Names :
            LET s == stored[Db(j)][n]
                h == held[j][Db(j)][n]
            IN  s = Unread \/ s \in h \/ (s = NoRow /\ Absent \in h)

\* A removal is recorded only of a container that was missing from the source
\* at some moment since the scan began: the history cannot take it back.
NoFabricatedRemoval ==
    \A d \in Databases, n \in Names : \A i \in DOMAIN history[d][n] :
        LET c == history[d][n][i] IN
        c.type = "container_removed" => Absent \in held[c.job][d][n]

\* The worker between recording a change of a container and writing it.
Writing(d, n, steps) ==
    \E j \in Active :
        /\ worker[j].pc \in steps
        /\ IF At(j, "forget") THEN worker[j].victim = <<d, n>>
           ELSE Db(j) = d /\ worker[j].name = n

\* While the process lives, the last change recorded of a container is the
\* one that made the row what it is.
HistoryMatchesStore ==
    \A d \in Databases, n \in Names :
        LET h == history[d][n] IN
        \/ Writing(d, n, {"upsert", "forget"})
        \/ stored[d][n] = Unread
        \/ stored[d][n] = NoRow /\ h = <<>>
        \/ h # <<>> /\ h[Len(h)].new = stored[d][n]

\* While the process lives, a hash on record vouches for the columns, the
\* verdicts and the statistics on record.
HashVouchesForColumns ==
    \A d \in Databases, n \in Names : stored[d][n] \in Shapes =>
        /\ Writing(d, n, {"columns"}) \/ columns[d][n] = stored[d][n]
        /\ Writing(d, n, {"columns", "inspect"}) \/ inspected[d][n] = stored[d][n]

\* Over any execution: after a complete scan reported `done`, the columns on
\* record are those the hash on record was computed from.
FinishedScanHasColumns ==
    \A j \in Jobs : scans[j].state = "done" /\ worker[j].covers =>
        \A n \in Names : stored[Db(j)][n] \in Shapes =>
            Writing(Db(j), n, {"columns"}) \/ columns[Db(j)][n] = stored[Db(j)][n]

\* The run of a request before job j.
IsPrevious(k, j) ==
    /\ k < j
    /\ scans[k].request = scans'[j].request
    /\ \A i \in Jobs : k < i /\ i < j => scans[i].request # scans'[j].request
Started(j) == scans[j].state = "none" /\ scans'[j].state = "running"

\* A run started after one that finished is not a continuation of anything.
FinishedIsNotResumed ==
    [][\A j, k \in Jobs :
          Started(j) /\ IsPrevious(k, j) /\ scans[k].state = "done"
              => worker'[j].cursor = 0]_vars

\* The row of a scan leaves `running`: a client that polls it gets an end.
ScanEnds ==
    \A j \in Jobs : scans[j].state = "running" ~> scans[j].state # "running"

\* A request refused because a scan of it is in flight can be made later.
RequestIsFreed ==
    \A req \in Requests : req \in running ~> req \notin running
=============================================================================

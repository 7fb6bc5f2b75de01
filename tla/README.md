# Verification of Database_connector_mcp

Models, model-checked properties and machine-checked theorems about the MCP server that lets
agents read database catalogs, scan them into a local inventory, and be let in by signed tokens.
Paths below are those of the repository (`src/service/...`, `main.py`, `docker/...`).

| module | what it is | runs |
| --- | --- | --- |
| `InventoryScan` | scan threads and the store tables they write | `scan_faults`, `scan_store`, `default_removals`, `crash_columns` |
| `StagedColumns` | the column rows of a container: scans, annotations, verdicts, pages, masking | `staged_columns` |
| `StagedCatalog` | the staging file: the start of a server on it, pages of containers, exports, search | `staged_catalog` |
| `AdapterPool` | the pool of database connections | `pool_safety`, `pool_liveness` |
| `ToolCalls` | tool calls and a scan on one adapter: its statements, its caches, the records | `tool_calls` |
| `RemoteAdapter` | another MCP server as a source: lazy connection, event loop, closing | in `RecordedCalls` |
| `Journal` | what an audit trail promises | in `AuditLog` |
| `AuditLog` | the files of the trail and their rotation; implements `Journal` | in `RecordedCalls` |
| `RecordedCalls` | composes `RemoteAdapter` and `AuditLog`, with kills of the server | `recorded_calls` |
| `Credentials` | key pairs, tokens, provisioning, the server's key cache | `keys_safety` |
| `Grants` | roles file, flags, claims, the bundle that describes them, and what the server answers | `grants` |
| `InventoryScanProofs`, `StagedColumnsProofs`, `StagedCatalogProofs`, `AdapterPoolProofs`, `ToolCallsProofs`, `RecordedCallsProofs`, `CredentialsProofs`, `GrantsProofs` | theorems, for every value of the constants | checked by `tlapm` |
| `MC*` | values of the constants for TLC | |

To repeat: `tlc -config scan_faults.cfg MCInventoryScan` (and so on: `scan_*`, `default_removals`, `crash_columns`
with `MCInventoryScan`; `staged_columns` with `MCStagedColumns`; `staged_catalog` with `MCStagedCatalog`; `pool_*` with
`MCAdapterPool`; `tool_calls` with `MCToolCalls`; `recorded_calls` with `MCRecordedCalls`; `keys_safety` with
`MCCredentials`; `grants` with `MCGrants`), and `tlapm InventoryScanProofs.tla` (and the other seven).

## 1. The system

### Components, their state and their operations

* **Inventory scans** (`src/service/inventory.py`). State in memory: `_running_databases`,
  the set of requested databases with a scan; `_cancels`, an event per job; one thread per scan.
  Operations: `start` (fresh, or resumed from the cursor of an unfinished run), `cancel`,
  `close`, and the scan itself, which walks the catalog page by page and container by container.
* **Staging store** (`src/service/staging.py`). A sqlite file with the tables `scans`, `containers`,
  `columns` and `schema_changes`; every method is one transaction under one lock. Operations of a
  scan: `create_scan`, `resumable_scan`, `stored_schema_hash`, `upsert_container`, `replace_columns`,
  `record_change`, `advance_scan`, `finish_scan`, `container_keys`, `forget_container`, and the ones
  for verdicts and statistics. Operations of the tools: `annotate`, and pages of containers, columns,
  changes and search results.
* **Adapter pool** (`src/service/pool.py`). An ordered dictionary of adapters by database in the order
  of last use, a lock, a reaper thread with its event. Operations: `get`, `reap`, `start_reaper`,
  `stop_reaper`, `close`.
* **Adapter base** (`src/adapter/base.py`). Per adapter: a list of the statements sent since it was last
  read, a cache of the container names and one of the columns of containers, each with a TTL; for
  DB-API engines one connection and its lock.
* **Engine adapters** (`src/adapter/{sqlite,postgres,mysql,mssql,mongodb,datalake}.py`).
  Queries in the dialect of each engine. A catalog page is a keyset page: names after a cursor.
* **Remote adapter** (`src/adapter/remote_mcp.py`). Two flags, a lock, a client and an event loop on its own thread.
  Everything is submitted to the loop and waited for with a time limit. Operations: `_call`, `ping`, `close`.
* **Keys and tokens** (`src/auth/keys.py`, `verifier.py`, `issue.py`, `commands.py`,
  `docker/entrypoint.sh`). Three files per identity, on three volumes: signing key, public key, token.
  Operations: `token keygen`, `token issue`, `provision` (both, for every identity, on every start),
  `serve`; in the server, a cache of public keys with a TTL.
* **Permissions, roles, sensitivity** (`src/auth/permissions.py`, `src/core/roles.py`, `src/core/tools.py`,
  `src/service/sensitivity.py`). No state: what a token's claims allow, what a role grants, which
  values are masked and how.
* **Bundles** (`docker/provision.py`). `.mcp.json` and `SKILL.md`, written after the token and read by an agent.
* **Audit trail** (`src/service/audit.py`). A JSON-lines file, rotated under a lock before a write; each file that is
  moved aside gets the next number, the oldest goes first.
* **Export** (`src/service/export.py`). Pages through the store into a file.
* **Tools** (`src/server.py`). Each tool: identify the caller, check access, take an adapter from the
  pool, open an audit record, call the adapter or the store, pop the statements into the record.
* **Start-up** (`main.py`). The connection check, the staging store (which claims its file or refuses it), the pool, the server.
* **Configuration, factory** (`src/core`, `src/service/factory.py`). Declarations and wiring.

### How they interact

Tool calls run on a thread pool and scans on threads of their own. Both borrow adapters from the
pool, so one adapter, its connection, its caches and its list of statements are shared by all of
them; a borrowed adapter is never given back. Tools read and annotate the store while scans write it.
The server's lifespan starts the reaper, and on the way out stops it, closes scans, store and pool.
Provisioning and server share only the volume of public keys, which the server reads and never writes.

### What is hard in it

Processes die between two transactions of a scan and leave the store as it was; sources fail at any
step; the catalog changes under a walk that takes hours; scans are continued by later ones; requests
race with the end of a scan; pool, reaper and callers interleave around a lock that is released
before closing; a container may be killed inside the write of a key; volumes are lost one by one; a
key is cached after the file it was read from has changed; giving up on an event loop leaves the attempt on it; a rotation
of five renames may stop after any of them; a bundle is three files, written from a token signed some time before. `PROJECT.json` lists each hazard at its line.

### What makes each part correct

* Scans: a run that says `done` has dealt with everything that was there, what it wrote is a state
  the source was in, a removal in the history happened, the hash that lets a later run skip a container
  vouches for its columns, a request is refused exactly while it is worked on, and every scan ends.
* Column rows: what callers wrote survives every rescan, a recorded change is the difference it claims to be, names that tell
  are judged, pages miss nothing, and a level that is found on record decides what a sample shows.
* Pool: bounded, every adapter owned by one entry or one closing thread, nothing lost, idle ones closed.
* Keys: a removed key dies out in TTL and stays out, restarts invalidate no token, no public key is without its
  signing key.
* Statements: each is recorded once, with the call that sent it; caches: what they let through was there a TTL ago.
* Audit trail: whatever interrupts it, it is a journal, and deep enough. Remote: every call returns, no session is left open by mistake.
* Roles and bundles: the nearest section of a roles file decides, an agent that does what its SKILL.md says is not refused, and flags take nothing but what they list.
* Staging file: nobody else's is written, an export is complete and in order while scans write, a short search is a whole one.

## 2. The models

### InventoryScan

`worker[j]` is the thread of job *j*: its program counter and the locals of `_run` (`cursor`, `page`,
`seen`, `covers` for `covers_everything`) and of `_scan_container` (`shape`, `prior`). `scans`, `stored`,
`columns` and `history` are the tables; `inspected` stands for verdicts and statistics together;
`running` and `cancels` are the service's dictionaries.
A step of a worker is one read of the source, one store transaction, or the bookkeeping between two:

| actions | code |
| --- | --- |
| `StartAfresh`, `StartResumed` | `start`, under `_lock` |
| `Borrow`, `ListPage`, `BeginContainer`, `StopCancelled`, `PageDone` | the loops of `_run` |
| `ReadSchema`, `RecordUnreadable`, `Compare`, `RecordChange`, `UpsertContainer`, `ReplaceColumns`, `Inspect`, `Advance` | `_scan_container`, one store call at a time, and the saving of the cursor |
| `PlanRemovals`, `RecordRemoval`, `Forget`, `RemovalsDone` | `_record_removals` |
| `Finish`, `Cleanup` | the end of `_run` and its `finally` |
| `Cancel`, `Close` | `cancel`, `close` |
| `ChangeUpstream`, `Crash` | the world: DDL by others; the process killed, with memory gone and tables kept |

Data is abstracted to what the properties tell apart: a container's columns are a *shape*, and
the schema hash identifies it; `Unread` is a row with an error and no hash. Every fault may be
raised where `Faults` allows it, and leads where the `except` clauses lead.
Two auxiliary variables remember what the properties speak of: `walked[j]`, what job *j* or a run it
continues dealt with, and `held[j]`, all that each container has been upstream since then.

### StagedColumns

`rows[c]` is the row of column *c* of one container (ordinal 0: no row), `stored` what the hash of the container's row
stands for, `change` the latest record of the history, `scan` the thread of a scan while it is at this container. A scan's
step is one read of the source or one transaction of the store, as in `InventoryScan`; here the rows have their columns.

| actions | code |
| --- | --- |
| `Visit`, `ReadSchema`, `ReadFails`, `Compare`, `RecordChange`, `UpsertContainer`, `ReplaceColumns` | `_scan_container`, with `_record_change` comparing what is on record with what was read |
| `Judge`, `RecordSensitivity` | `_detect_sensitivity`: the verdict formed by names and values, and its transaction |
| `PassBy`, `ForgetContainer` | `_record_removals` for a container the walk did not meet |
| `Describe`, `Mark` | `inventory_annotate`, a column at a time: a description, or a level |
| `BeginWalk`, `NextPage`, `LastPage` | a client of `inventory_columns`, or the export's `_all_columns` |
| `ReadSample`, `MaskSample` | `get_sample`: the rows from the source, then masking by the levels on record |
| `ChangeSource`, `Crash` | DDL by others; the process killed, with its tables kept |

What a name says of a column is a constant (`NameLevel`); what values look like is chosen afresh at each look (`telling`), for a
scan's sample and for a caller's. That an adapter numbers the columns of a container one by one is assumed
(`OrdinalsAssumption`); with ties a page of the code could end between two columns of one ordinal. `Known` is the lookup of the levels on record, `OnRecord` when it `Finds` the container's own rows: it asks under
the empty schema, where rows of an engine with schemas are not (`SourceSchema`), and for an omitted database it takes the first that `list_databases` names,
where there may be a container of the same name (`Namesakes`; `{}` when the first is the one the sample is of). A lookup that raises finds nothing (the fault
`lookup`), as does one on a server without a staging file, where nothing is recorded either. `sample` keeps whether the database was `named` and whether the lookup `failed`. Three auxiliary variables serve the properties: `said`, what callers last wrote on
each row; `walk.steady`, the columns that kept their place since the walk began; `sample.firm`, those
nobody marked and no scan deleted since the sample was read. Left out are descriptions of containers, column
statistics (`record_profile`), which rescans keep as they keep descriptions, samples asked for unmasked, an annotation of several columns at once
(one transaction, so no other step sees a part of it), and two scans at one container at once (requested as `None` and by name).

### AdapterPool

`entry`, `used` and `older` are the ordered dictionary (`older` is its order); `lock` is its holder; each
thread has a program counter, the adapter it got, and what it has taken out and not yet closed.
`get` is `BeginGet` (taking the lock, the sweep of the expired), `FindAlive` / `FindNone` (lookup and
ping), `Create` / `CreateFails`, `Settle` (insertion and eviction, the lock released), `CloseOne` for each
adapter taken out, and `Return`; nobody tells the pool of `Drop`. The reaper and the lifespan have
their own steps, and the server may drop a connection (`Die`). Adapter names are reused once nothing
refers to them, which bounds a system that makes connections for ever.

### ToolCalls

The threads that run tool calls and the thread of a scan use one adapter. `thread[t].todo` is what is left of
the call a thread is in, and `Reads` and `ToolSteps` are the bodies of the tools as sequences of such steps; `log` is the
adapter's list of statements (of each, the call that sent it), `catalog` and `schemas` are its two caches.

| actions | code |
| --- | --- |
| `CallTool`, `ScanReads` | a tool past its checks, opening its record; the reads of a scan |
| `Send`, `SendFails` | `_rows`: the statement put on the list, then sent, with an answer or an error |
| `Look`, `Fill`, with `Qualify` and `Member` | `_known_containers` from the cache or by a walk under the lock; `_qualify` and `_require_container` judge by it |
| `LookUpSchema`, `StoreSchema`, with `RequireColumn` | `_cached_schema`, whose miss runs `get_schema`, allowlist and all, under the same lock |
| `Join`, `Clear` | the two steps of `pop_rendered_sql` |
| `AskVerdicts`, `Emit` | what `get_sample` asks after it; the record |

The catalog lock is held while a `fill` or a `store` is still to come (`Holds`); an error drops the rest of the steps, and the
lock with them. Names are pairs of schema and table, as in the engines with schemas, and callers may give the table
alone. `during` remembers what the source held in the last `Ttl + ReadTime` units of time, which the properties compare with.

### RemoteAdapter, AuditLog and RecordedCalls

`RemoteAdapter` has a program counter for each thread that calls or pings and for the one that closes. `Ensure` and `Lock` are the
two looks at the flags in `_ensure`, before the lock and under it; `Connected`, `ConnectFails`, `ConnectTimesOut` the ends of
`_LoopRunner.submit`; `Submit`, `Answer`, `TimesOut` those of `_call` and `ping`; `BeginClose`, `Leave`, `LeaveFails`,
`StopLoop`, `CloseLoop` are `close`, whose holder of the lock waits for the loop too. What a caller gave up is `adrift`
and may still happen (`EnterLate`). `sessions` counts entries of the client not yet left, and `late` those made after closing or giving up.

`AuditLog` has the files by number, each a set of record numbers. `BeginEmit` takes the lock and looks at the size; `Unlink`, `Shift` (a
rename each, oldest first), `MoveAside` and `Append` are one system call each; `Interrupt` stops anywhere in between, by a kill or an error, and frees the
lock. `Before` is how much an earlier server left in the file. The abstract `Journal` has two variables, the number of the next
record and the set of those that can be read, and two actions: a record is added at the end (`Record`), or some are given up
from the beginning (`Forget`). The mapping is `next <- written + 1, kept <- Kept` (the union of the files): `Append` is a `Record`,
`Unlink` a `Forget`, all other steps stutter.

`RecordedCalls` runs the two with the same threads: a call that has ended, well or not, is put on the trail before its result leaves
(`BeginRecord`, `RecordStep`, `CallEnds`); if the disk refuses, the caller is told of that instead (`DiskRefuses`); `Kill` ends the process with all
its threads, locks and sessions, and starts it again on the files as they are. Pings by the pool leave no record.

### StagedCatalog

`store` is what the staging file holds (`empty`, `ours`, `foreign`, `older`, `newer`, or `unmarked`: tables without their marker), and
`server` how far a start has come: `CheckConnection`, `Claim`, `CreateTables`, `Mark`, `Serve` are the steps of `build` and
`StagingStore.__init__` in their order. Then `UpsertContainer`, `ReplaceColumns`, `ForgetContainer` and `Annotate` write `rows`
while one walk at a time reads: `BeginWalk` (an export empties its file), `NextPage`, `WriteContainer` (which reads the columns of a container
when its turn comes), `TurnPage`, `Reported`. `ContainersPage` is the keyset page, whose cursor is a name without its database;
`Search` the two queries, each with its own limit, and the ranking. A description is known by whether it mentions the keyword, of the container or of which of its columns (`told`); columns are counted, and there may be none.
`stable` remembers what the walk could have shown from its beginning on.

### Grants

`Build`, `Resolve` and `LoadRoles` are `core/roles.py` with every refusal (`Bad`); `Start` and `Merged` are `_grants`; `Claims` is what
`issue_token` signs, `FromClaims` what `permissions.py` reads, with `LegacyHumanScope`; `Answers` says for every tool and
argument whether `server.py` refuses the caller, `Lists` which containers the answer of a listing tool may name (two of the six never ask), `Offers` which databases
`list_databases` names. `Skill` is
what `provision.py` tells of a token and a deployment. The actions are the operator's (`EditRoles`, `EditSettings`, `StartServer`), and those of a
provisioning: `Provision`, `KeepToken` or `SignToken` (or `IssueFails`), `ReadToken`, `WriteMcp`, `WriteSkill`, with a `Crash` between any two.
A glob is the set of names it matches; a section whose `extends` is an empty string counts as one without, as in the code. `WriteMcp` is of a bundle for a
server on the network with the token written in it, which is the default: with `PROVISION_INLINE_TOKEN=0`, and over stdio, the agent's environment holds the
credential and nothing can be said of which one it is. Roles files, flags and settings are small sets in `MCGrants`, refused files among them.

### Credentials

`signing[k]`, `public[k]`, `token[k]` are the three files of identity *k*; a key pair is a number, and a
file is `Missing`, `Torn` (opened, which empties it, and not yet filled) or holds a key. `run` is the command
at work. `StartProvision`, `NextIdentity`, `Keygen` (the branches of `--if-missing`), `CreateSigningKey` /
`SaveSigningKey`, `OpenPublicKey` / `FilePublicKey`, `CheckToken`, `SignToken`, `DeliverToken` are
`docker/entrypoint.sh` and the commands it runs, one file operation at a time; `StartKeygen` is the
command run by hand. `ReadKey` and `CacheKey` are `PublicKeyDirectory.get`, the read apart from the stamp;
`Fresh` is its test of the TTL. `Collect`, `Revoke`, `LoseVolumes` and `Crash` are agents, operators and
accidents, and `Tick` lets time pass, though no more than `ReadTime` during one read.
One command runs at a time (compose runs one provisioning container); claims, scopes and
audiences of a token are left out, its signature and expiry are kept.

## 3. The runs

All TLC bounds are in the `.cfg` files and are named constants of the modules.

| run | instance | shows |
| --- | --- | --- |
| `scan_faults` | 3 scans of a database of 2 containers, pages of 1, listings that fail, 1 change upstream, 1 crash, cancellation | `RunningIsExact`, `FinishedScanLookedEverywhere`, `FinishedScanIsCurrent`, `NoFabricatedRemoval` |
| `scan_store` | 2 scans, resumed or forced, 2 shapes, all faults, 1 change; fair | `TypeOK`, `HistoryMatchesStore`, `HashVouchesForColumns`; `ScanEnds`, `RequestIsFreed` |
| `staged_columns` | 3 shapes of 2 columns (swapped and retyped, one dropped), 3 visits, 1 annotation, 1 walk or sample, the database named or omitted, reads and lookups that fail, 1 change, 1 crash, pages of 1 | `TypeOK`, `WrittenSurvives`, `DetailIsTheDifference`, `NamesAreJudged`, `PagesMissNothing`, `FoundMarksDecide` |
| `pool_safety` | 2 callers, 3 databases, room for 2, failing connections | `PoolBounded`, `SweepTakesEveryIdle`, `TakenOutOnce` |
| `pool_liveness` | 1 caller, room for 1, connections that die or cannot be opened; fair | `OnlyFailureLeaks`, `IdleIsClosed` |
| `tool_calls` | 1 caller and a scan, 2 calls, 2 containers of one table name, 1 change, TTL 1; fair | `RecordIsComplete`, `NamesAreTimely`; `CallEnds` |
| `recorded_calls` | 2 threads, 4 calls or pings, a remote that refuses and times out, closing; 3 files of 2 records, 2 on file at the start, 1 kill or refused write; fair | `OnlyLateEntriesStay`, `RetentionHolds`, `TrailIsAJournal`; `EveryCallReturns` |
| `staged_catalog` | 2 starts on any kind of file, 4 containers in 2 databases with a shared name, pages of 1, up to 2 columns, 2 writes | `OnlyNamesakesAreSkipped`, `EachIsShownOnce`, `ShortSearchIsComplete`, `NobodyElsesFileIsWritten` |
| `grants` | 9 roles files of up to 3 levels, 2 roles, no flags, flags that only add, that name a database, that allow and deny, 3 deployments, 1 edit, 2 provisionings cut short anywhere | `LastWordDecides`, `SkillTellsTheTruth`, `FlagsTakeWhatTheyList` |
| `keys_safety` | 1 identity, 2 key pairs, 2 kills, 2 losses or revocations, 3 units of time | `TypeOK`, `RevokedWithinTtl`, `TokensOutliveRestarts`, `AllowedCanSign` |

The type invariants of `InventoryScan`, `StagedColumns` and `Credentials` are checked and proved; those of the pool and the tool calls
are proved (`PoolTyped`, `CallsTyped`) and left out of the runs; that of `Grants` is stated in its module and left out too (TLC finds it
kept in the instance of `grants`). Why these bounds are enough for what they
ask: a page of one container makes a cursor lie between two containers, two containers and three runs
are what a chain *fails - continued - continued* needs, and one change lets a container come, go or
change at every point of it. Column rows need a first scan, one that fails or finds a change and one that repairs or repeats, two
columns that can change places between two pages, and one annotation before, between or after; the theorems of section 4 lift these bounds. The pool needs one database more than it has room for, two callers to
race, and adapter names for what is pooled, held and being closed at once (four, or five when connections
die). Of tool calls, two are
enough to overlap, to find a cache filled or stale, or to find statements left; the second name makes the first ambiguous.
Three files of two records, the first already full, let a rotation shift a file and be stopped before or after each rename, with room for a
second rotation from what that left; two threads and a closer are what a race for one connection needs. Pages of one
container make the namesake fall on either side of a page's end. Three levels of roles are the least at which a parent and a grandparent can disagree,
and the files are chosen so that every key is set, inherited, replaced and refused. Keys need a pair to replace another, a crash or loss between any two steps and again after
the repair, and enough time for a cached copy, and a read, to run out.

Deadlock is not checked: with bounded jobs, crashes and time every instance may stop, and the
program itself rests when nobody calls it.

**Fairness.** `InventoryScan!FairSpec` asks that a thread that was started goes on
(`WF(Work(j))`): the code starts it and nothing blocks it but store transactions and calls to the source,
which return or raise. `ToolCalls!FairSpec` asks that a call goes on, which waits for nothing but
the lock and the source. `AdapterPool!FairSpec` asks that a call of `get` that was begun goes on, that
closing goes on, and that the reaper's wait with its time limit ends. `RecordedCalls!FairSpec` asks that a call that was begun goes on, the
waits on the loop being limited by `timeout`, and that a closing goes on; nothing is asked of the remote, so `EveryCallReturns` holds of one that never answers. Nothing is asked of clients, operators or crashes.
The liveness properties are therefore checked without crashes (see below what a crash does to `ScanEnds`).

### Runs that find a disagreement

| run | what happens |
| --- | --- |
| `default_removals` | A scan requested without a database lists the default one, but `container_keys(None)` returns the rows of all databases: their containers are recorded as removed and forgotten. |
| `crash_columns` | The hash is committed before the columns. After a crash between the two the next scan finds the hash equal and skips the container, whose columns stay out of date. |

### Statements that do not hold, without a run

Each is defined in its module, and TLC finds it violated when its name is put in the configuration that is named.

* `InventoryScan!FinishedIsNotResumed` (`scan_faults`). A failed row stays resumable after a later run continued it and finished
  (`staging.py:522`). Every default run from then on starts at the old cursor, never looks before it, and records no removals;
  a test is named `test_a_finished_scan_is_not_resumed_from`.
* `Credentials!RevokedStaysRevoked` (`keys_safety`). `rm <kid>.pub` is the documented revocation (`keys.py:48`); the next `docker compose up`
  restores the file from the signing key (`commands.py:244`, `entrypoint.sh:319`).
* `StagedColumns!MarkDecides` (`staged_columns`). That a level a caller gave decides how a sample is masked fails in three ways. A tool called without a
  database looks levels up in `list_databases()[0]` (`server.py:199`), which on postgres, mysql, mssql and mongodb is the first of all databases by name and not
  the default one the sample is of, although the comment there says that an omitted one *has to be resolved rather than quietly missing every recorded verdict*;
  a lookup that raises counts as one that found nothing (`server.py:203`); and the tools look levels up without a schema (`server.py:202`), while postgres and
  mssql list containers with theirs. The configuration shows the first two. For the third alone take `SourceSchema = "dbo"`, `Namesakes = {}` and `Faults = {"read"}`;
  with `SourceSchema = ""` and the other two so, `MarkDecides` holds. `FoundMarksDecide`, which is checked and proved, leaves out these three cases and nothing else.
* `Grants!FlagsOnlyWiden` (`grants`). On a role without a list of databases, `--database` makes one, which is a limit, and so does `--allow-container`;
  `--deny-container` takes away whatever it names. The docstring of `_grants` (`commands.py:270`) says *only adding, never removing*, and the help that flags *never
  take anything away*. `FlagsTakeWhatTheyList`, checked and proved for any flags, says exactly what is taken.
* `Grants!DatabaseLimitHolds` (`grants`). SKILL.md says *Databases: ... only* (`phrases.toml:66`), but `inventory_export` checks no database
  (`server.py:610`): it writes down any database's part of the inventory, and without an argument the whole.
* `Grants!DeniedAreNotListed` (`grants`). SKILL.md says of denied containers that *these are filtered out of listings too* (`phrases.toml:69`), but
  `inventory_relationships` and `inventory_changes` return what is on record as it is (`server.py:500`, `:522`).
* `StagedCatalog!SearchKeepsTheBest` (`staged_catalog`). Each table is cut off in the order of names before the hits are ranked (`staging.py:1105`), so
  a container whose description matches may survive and one whose name matches may not.

### Seen while modelling, without a run of their own

* A request without a database and one for the default database by name are two keys of
  `_running_databases` (`inventory.py:118`), so two scans of one database may run; `RunningIsExact` says
  one per request.
* A crash leaves the row of a scan `running`; it can be resumed but a client that polls it sees no end.
* A cancelled scan is not resumable (`staging.py:519`), although a test is named for resuming one
  (`tests/service/test_inventory.py:570`).
* After a read that fails, the next good read of the same container is recorded as `container_added`.
* When connecting raises, what `get` had taken out as expired or dead is neither kept nor closed (`pool.py:172`);
  `OnlyFailureLeaks` shows that nothing else is lost.
* A container written by a scan that then crashes keeps columns without a level until its shape changes or a scan is forced:
  `NamesAreJudged` and `DetailIsTheDifference` are stated of histories without a crash.
* `list_databases` leaves its statement on the adapter's list, and the next call's record shows it as what that call ran
  (`server.py:222`). So do failed calls, scans, and what `get_sample` asks last. `audit.py:27` says *what actually ran*.
* A provisioning killed inside the write of the public key leaves it empty (`commands.py:244`). The next one takes it for present, signs a token,
  does not check it, and ends well: the server then starts and accepts nobody of that name.
* Of two tool calls that overlap, either may record the other's statements, both may, or a statement sent between the join and
  the clearing is in no record. During a scan the list of statements grows until a tool is called on that adapter.
* The pool closes adapters that callers are using (`pool.py:188`): a borrowed adapter is only as old as its borrowing.
* A signing key torn by a crash is kept by `--if-missing`, and every later provisioning fails until someone removes it.
* Losing the volume of the signing keys alone makes provisioning put a new public key over the old one, which is intended, and invalidates the tokens handed out.
* A crash between `.mcp.json` and `SKILL.md` (`provision.py:652`) leaves the new token beside a document of the old one until the next provisioning.
* `entrypoint.sh:322` says that an edited role reaches the skill. The document is made from the token's claims, so only a role's description does
  before the token is signed anew, and that is why `SkillTellsTheTruth` holds.
* A token with the scope `annotate:human` makes a person of its caller (`permissions.py:30`), and its SKILL.md does not say so.
* The server filters the hits of a search by what the caller may read after they were limited (`server.py:556`): a restricted caller may get fewer than there are.
* A page of containers that ends between two namesakes skips the second (`staging.py:1002`).
* A start killed between the tables and their marker leaves a file that every later start refuses (`staging.py:409`).
* Two exports to one path, the default one among them, write over each other (`export.py:96`).
* `_ensure` does not look at `_closed` again under the lock (`remote_mcp.py:121`), and a connection that timed out may be made later: such sessions are never left.
  A client whose leaving raises keeps the loop's thread for good (`remote_mcp.py:132`).
* Each interruption of a rotation costs at most one file's records (`audit.py:105`): a gap in the numbers is not closed, and is moved on until it is past the last.
* The check of a token on file mirrors the verifier only when `MCP_AUDIENCE` is set (compose sets it).

## 4. The proofs

All theorems are for every value of the constants that satisfies the module's assumption: any number of
databases, containers, scans, callers, crashes, identities and losses, any page size, capacity and TTL. Each is
an induction: its invariant, stated before its lemmas, holds at the start and is kept by every action, of which each has a step of its own.

**InventoryScanProofs**

* `TypeCorrect`: `TypeOK` with `InFlight`. `TypeOK` alone is not inductive: `UpsertContainer` writes
  `worker[j].shape` as a hash, so one must know that a thread at that step holds a shape and a container.
* `RunningCorrect`: `RunningIsExact`. It needs `Unstarted` (a job without a row has no thread),
  so that starting one adds exactly one thread, and `RowsKept`: a step of a thread changes its own row only, and never its request.
* `FinishedLookedEverywhere`: `FinishedScanLookedEverywhere`. A container is dealt with (`Done`) when the run, or one it
  continues, walked it or it was absent at some time since. The invariant `LookedEverywhere` says, of each job:
  everything at or before the cursor of its row is dealt with, which is what a continuation
  relies on (`OnRecord`); so is everything at or before the thread's cursor (`Behind`); between that cursor and the last
  name of the page in hand, what is not on the page is dealt with (`Ahead`); what remains of the page lies past
  the cursor, in order (`InOrder`); and once the walk is over, everything is dealt with (`Complete`).
  `PageIsPrefix` is the fact about `ListPage` it rests on: a page is a prefix of what follows the cursor.
* `NothingFabricated`: `NoFabricatedRemoval`. `Swept` says of a thread that what it has seen is what it walked and has in
  flight (`Seen`), so that what it takes for removed was absent at some time (`Gone`); `RowsAskedFor` that every row is of a database some request stands for.
* `FinishedCurrent`: `FinishedScanIsCurrent`. `Alone`: only the latest job of a database works on it; `Fresh`: what it has read was there for
  all of its jobs; `Nested`: what happened during a complete run happened during the runs before it too. With these `Kept` follows a container through a job: it was
  written (`Walked`, `Written`), is still to be removed (`Remaining`), or the end has come (`AtLast`).
* `HistoryAgrees`, `HashesVouch`: `HistoryMatchesStore` and `HashVouchesForColumns` as long as no process has died. `Agreed` allows each difference between
  history, hash, columns and verdicts only at the step of a live thread that is about to remove it (`Writing`), and says that this thread decided by what is still so (`InStep`).

The last four assume `EitherWay`: clients name their database always or never (for `NothingFabricated`, having one database
is enough too). The code does not enforce it, and without it they are false. For removals the run `default_removals` shows it; for the
others TLC finds it with `Requests` holding both `NoDb` and the default database, where two scans of one database overlap, and one
records, skips or forgets what the other is writing. They assume no bound on overlapping scans of different databases.

**StagedColumnsProofs**

* `ColumnsTyped`: `TypeOK` with `InHand`: a scan that has read the container holds one of its shapes.
* `WhatIsWrittenSurvives`: `WrittenSurvives`, with `Signed`: every level has an author, by which `record_sensitivity`
  tells what it may overwrite; without that it is not inductive.
* `MarksDecide`: `FoundMarksDecide`, for any schema and any namesakes, from `WrittenSurvives` and that whoever is still
  firm was not written on (`FirmStands`).
* `PagesAreExact`: `PagesMissNothing`. `Walked` says that of the columns that kept their place a client has exactly those up to its
  cursor; `PageIsPrefix` (on cardinalities, from `Columns` being finite) that a page leaves out none before its last.
* `DetailsAreDifferences`, `NamesGetJudged`: from `Uncrashed`, which has `Vouched` (the columns are those of the hash, but
  between the two transactions that write them) and `Told` (a telling name has told, or the scan has the level in hand).

**StagedCatalogProofs**

* `OthersFilesAreSafe`: `NobodyElsesFileIsWritten`. `StartInv`: only a start that passed its checks gets to where files are written.
* `OnlyNamesakesGoMissing`, `NothingIsShownTwice`: `OnlyNamesakesAreSkipped` and `EachIsShownOnce`. `OrderedInv` says that what was shown is in order, before
  the page in hand and before all that comes after; `CoverInv` that what could be shown from the start was shown, is on the page, is yet to come, or is a
  namesake. They rest on `PageIsTheNext`: the page is the first `PageSize` containers past the cursor, and its last name the next cursor.
* `ShortSearchFindsAll`: `ShortSearchIsComplete`, for any limit. Each of the two queries is cut off at the limit by name; if either is,
  the ranked hits fill the limit (`MoreThanFirst`), so a result below it has everything (`NotFullIsAll`).

**AdapterPoolProofs**

* `PoolTyped`: `TypeOK` with `Control`: who may be at which step, that the thread inside the lock is the one that holds it, and that a
  thread has something to close only there or while closing.
* `PoolNeverOverflows`, `SweepsMissNothing`: `PoolBounded` and `SweepTakesEveryIdle`. `OrderInv` says that the ordered dictionary is a line of its
  entries (`StrictOrder`), in the order of their last use but for the entry that `Settle` is about to move. Finitely many entries have a first one
  (`HasFirst`), so eviction finds one to evict, and every idle entry is in the prefix a sweep takes.
* `OneOwner`, `NothingElseLeaks`: `TakenOutOnce` and `OnlyFailureLeaks`, from `OwnInv`: a live adapter, and no other, has an owner, and only one.

**ToolCallsProofs**

* `CallsTyped`: `TypeOK`, from `Shaped`: the steps a thread has left follow one another as in the bodies of the tools (`Follows`, `Linked`), so that who is about
  to store a schema has a container in hand. `Numbered` adds that statements carry the numbers of calls that have begun.
* `AllowedOfLate`: `NamesAreTimely`. `OfLate`: what a cache holds, and what a thread has read and not yet put there, was upstream at a time no more than `ReadTime` before
  its stamp (`CatalogOfLate`, `SchemaOfLate`, `ReadOfLate`), and `during` remembers that time long enough.
* `RecordsHoldAll`: `RecordIsComplete`, from `Recorded`: while a call has the adapter to itself, what is on the list or already joined for the record is as many
  statements of its own as it has sent (`Counted`).

**RecordedCallsProofs**

* `TrailImplementsJournal`: `TrailIsAJournal`, the refinement of `Journal` by the rotating files. `TrailInv` says that the files are in order
  (all of a file with a higher number is older) and that, while files are shifted, the next place is free: without the
  second a rename would drop records from the middle. `StepIsJournalStep` maps each step to `Record`, `Forget` or a stutter.
* `RetentionIsDeep`: `RetentionHolds`. A gap is a number without a file, below one that has a file or where files were given up, but for the place
  a rotation is about to fill. `RetentionInv`: there are no more gaps than interruptions, and what was moved aside is full. Then n files that are
  disjoint hold n capacities (`FullFilesAddUp`), and `RetentionFollows`.
* `ClosedLeavesNothing`: `OnlyLateEntriesStay`. `AdapterInv` says who holds the adapter's lock, that the flag `_closed` is raised exactly when
  closing begins, and that at most one session more than the late ones is open, and only while the adapter counts as connected.

**CredentialsProofs**

* `CredentialsCorrect`: `TypeOK`, `InRun` and `Paired`. `InRun` says what the command at work knows:
  when it files or signs with a key it holds in memory, that key is the signing key on file. `Paired` is
  the conjunction of `TokensOutliveRestarts`, `AllowedCanSign`, and that a token on file was signed by
  the signing key on file; none of the three is inductive without the others and `InRun`.
* `TokensOutlive`, `AllowlistUsable`: its two consequences that runs check.
* `RevocationIsTimely`: `RevokedWithinTtl`, from `InTime`: a key being read was on file when the
  read began, and a cached one was at most `ReadTime` before its stamp. `Recorded` and `StillHeld` show that every
  step that takes a key off the file records the time, so that nothing known of the past is lost.

**GrantsProofs**

* `DocumentsAreTrue`: `SkillTellsTheTruth`, from `BundleInv` (a document is of the token beside it, unless the container was killed in between) and
  `ToldIsAnswered`: for every claims and deployment, what the document tells of a call is what the server answers. The property names its exceptions: an
  export of a database that is not listed is answered, two listings show what is denied, and the old scope makes a person of its caller unsaid.
* `NearestSectionDecides`: `LastWordDecides`. `Resolve` is recursive, on the trail of names already met. `TableIsThere` shows that the recursion has a
  solution (a trail that leaves out no more names refuses all), and `Worded` that in it the nearest section above a name that speaks of a
  key decides: `TopHasTheWord` for a section that extends nothing, `ChildHasTheWord` for one that does.
* `FlagsTakeNothingElse`: `FlagsTakeWhatTheyList`. `GrantAnswers` puts what a token of a grant is answered in terms of the grant (claims are read
  back as they were written, `ClaimsSay`), and `LimitsMerged` says what is left of a limit when a list is added to it. No flags are excluded.

**Assumptions.** `ConstantsAssumption`, `ColumnsAssumption`, `OrdinalsAssumption`, `CatalogAssumption`, `PoolAssumption`, `ToolCallsAssumption`, `RemoteAssumption`,
`AuditAssumption`, `SameThreads`, `CredentialsAssumption`, `GrantsAssumption` and `ListsAssumption` give the constants their types, make absent values differ from present
ones, and make finite what the code keeps in a file or a dictionary; TLC evaluates them in every run of the module. `SameThreads` is that the threads that call are
those that write the trail. `ListsAssumption` is that roles files and flags name databases and containers of the model.

**Recursion.** Where a proof needs induction over data (lines, files, trails of names), it takes a smallest counterexample among finite sets (`WFMin` of
`WellFoundedInduction`), which needs no operator as a parameter. The few facts on lines are stated in the two modules that use them, each as far as it uses them.

**Model-checked only.** Liveness (`ScanEnds`, `RequestIsFreed`, `IdleIsClosed`, `CallEnds`, `EveryCallReturns`), which is out of the
prover's reach, and the two runs that find a disagreement. `Grants!TypeOK` is only stated: the theorems use
the part of it that is in `BundleInv`, and nothing is assumed of `None` by which it could not be a token.

## 5. Not modelled

Engine queries, argument parsing, configuration, templates, install notes and client formats hold no state that steps of
others can disturb. `forget` and `kids` of the key directory are not called while serving. Writes of the store that raise inside `_scan_container`, which end a scan as failed with history or hash ahead of the rows
(`inventory.py:239`), are not modelled: only sources fail. An adapter whose closing raises counts as closed (`pool.py:311` logs it and goes on). Restarting the
reaper after a `stop_reaper` that timed out, and the pool without an idle timeout, are left out. Shutdown
that gives up on a thread after thirty seconds is not modelled. A line of the trail torn by a kill inside one write is left out. Column statistics,
relationships, the list of changes and the counts of `summary`, what masking leaves of a value, and where an export may be
written (`resolve_target`) are left out. In `ToolCalls`,
calls that are refused send nothing and leave no record, and are left out; so are `invalidate_catalog_cache`, which nothing calls, and
the pool replacing the adapter, which starts with empty caches and an empty list. A thread that cannot be started (`inventory.py:145`), a reaper that outlives
`stop_reaper` (`pool.py:266`) and a `get` after `close` (`pool.py:154`) are hazards nothing here covers.

## 6. Plan

Every safety property that a run checks has its theorem. What is left, in order of what matters most:

1. Abstract specifications: an inventory that promises only *each finished scan saw a state of the source*, refined by
   `InventoryScan`; an allowlist with bounded delay, refined by `Credentials`; a bounded set of owned connections, refined by
   `AdapterPool`. The invariants they need are proved: what is left is the mapping of each step.
2. `FinishedScanIsCurrent` of the default database alone, where it is requested only without its name and others by theirs.
3. Pages of changes, relationships and column statistics in `StagedCatalog`; two exports at once.

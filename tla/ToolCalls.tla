------------------------------ MODULE ToolCalls ------------------------------
\* Tool calls that read a source, and a scan that reads it too, all through the
\* one adapter the pool keeps for their database (server.py, adapter/base.py).
\* They share the adapter's list of statements, which a tool call reads and
\* empties for its audit record, and its two caches, which decide what a caller
\* may name. Names are those of an engine with schemas: a container is
\* <<schema, table>>, and callers may ask for the table alone.
EXTENDS Naturals, FiniteSets, Sequences

CONSTANTS
    Callers,    \* threads that run tool calls
    Scanner,    \* the thread of a scan, or Nobody
    Tools,      \* the tools called
    Names,      \* full names of containers: a set of <<schema, table>>
    Asked,      \* what callers name: full names or tables
    Columns,
    Start,      \* what the source may hold at first
    Absent,     \* upstream: no such container
    Nothing,    \* nothing cached
    Nobody,
    Ttl,        \* catalog_ttl
    ReadTime,   \* how long a read and the stamping of it may take
    MaxTime,    \* bound: the clock
    MaxCalls,   \* bound: calls of tools and of the scan's adapter, together
    MaxChanges  \* bound: changes of the catalog upstream

ASSUME ToolCallsAssumption ==
    /\ Scanner \notin Callers /\ Nobody \notin Callers
    /\ Tools \subseteq {"list_databases", "list_containers", "get_schema", "get_sample",
                       "profile_column"}
    /\ IsFiniteSet(Names) /\ \A n \in Names : Len(n) = 2
    /\ \A c \in SUBSET Columns : c # Absent
    /\ Start \subseteq [Names -> {Absent} \cup SUBSET Columns]
    /\ Ttl \in Nat \ {0} /\ ReadTime \in Nat
    /\ MaxTime \in Nat /\ MaxCalls \in Nat /\ MaxChanges \in Nat

VARIABLES
    now,
    upstream,   \* the columns of each container of the source
    catalog,    \* _catalog_cache
    schemas,    \* _schema_cache
    log,        \* _statement_log: of each statement, the call that sent it
    thread,     \* what each thread is doing
    trail,      \* the records of the audit trail
    calls,      \* calls begun
    changes,    \* changes made upstream
    during      \* what upstream was, in each unit of time still of interest

vars == <<now, upstream, catalog, schemas, log, thread, trail, calls, changes, during>>
world == <<now, upstream, changes, during>>
caches == <<catalog, schemas>>

Threads == Callers \cup ({Scanner} \ {Nobody})
Catalogs == [Names -> {Absent} \cup SUBSET Columns]
There(u) == {n \in Names : u[n] # Absent}
Window == Ttl + ReadTime

-----------------------------------------------------------------------------
\* A thread has the steps of its call that are left, and its locals: the name as
\* far as it is resolved, the column asked for, the names and the columns last
\* read, and when. `sent` counts the statements it sent for its answer; `alone`
\* says no other tool call was in progress with it. Both are there for the
\* properties.

Idle == [todo |-> <<>>, call |-> 0, tool |-> "none", name |-> Nothing, column |-> Nothing,
         known |-> {}, cols |-> {}, readAt |-> 0, rendered |-> <<>>, outcome |-> "ok",
         sent |-> 0, alone |-> TRUE]

\* The steps of a call. One statement stands for those of one read (a schema takes
\* up to three), and a page of containers for the counts that come with it.

\* _require_container: resolve the name in the catalog, then look the result up.
RequireContainer == <<"qualify", "member">>

\* What the adapter does for each tool.
Reads ==
    [list_databases  |-> <<"databases">>,
     list_containers |-> <<"page">>,
     get_schema      |-> RequireContainer \o <<"columns">>,
     get_sample      |-> RequireContainer \o <<"rows">>,
     profile_column  |-> RequireContainer \o <<"schema", "stat">>]

\* mutant: the list is emptied before it is read
MutToolSteps(tool) ==
    Reads[tool]
    \o (IF tool = "list_databases" THEN <<>> ELSE <<"clear", "join">>)
    \o (IF tool = "get_sample" THEN <<"verdicts">> ELSE <<>>)
    \o <<"emit">>

\* A tool reads, then takes the statements for its record; list_databases does
\* not, and get_sample may ask for the default database's name afterwards.
ToolSteps(tool) ==
    Reads[tool]
    \o (IF tool = "list_databases" THEN <<>> ELSE <<"join", "clear">>)
    \o (IF tool = "get_sample" THEN <<"verdicts">> ELSE <<>>)
    \o <<"emit">>

Busy(t) == thread[t].todo # <<>>
At(t, step) == Busy(t) /\ Head(thread[t].todo) = step
Rest(t) == Tail(thread[t].todo)

\* mutant: the catalog lock is not reentrant
MutFree(t) == \A u \in Threads : ~(\E i \in DOMAIN thread[u].todo : thread[u].todo[i] \in {"fill", "store"})

\* The catalog lock is reentrant, and held from a miss until its result is stored.
Holds(t) == \E i \in DOMAIN thread[t].todo : thread[t].todo[i] \in {"fill", "store"}
Free(t) == \A u \in Threads \ {t} : ~Holds(u)

\* mutant: a cached answer is used one unit too long
MutFresh(stamp) == now - stamp <= Ttl

\* _fresh
Fresh(stamp) == now - stamp < Ttl

-----------------------------------------------------------------------------
\* Calls begin. A tool call that is not allowed, or finds no adapter, ends before
\* its record is opened and has sent nothing: it is left out here.

Begin(t, steps, tool, name, column) ==
    /\ ~Busy(t) /\ calls < MaxCalls
    /\ calls' = calls + 1
    /\ thread' = [u \in Threads |->
           IF u = t THEN [Idle EXCEPT !.todo = steps, !.call = calls + 1, !.tool = tool,
                              !.name = name, !.column = column,
                              !.alone = \A v \in Callers : ~Busy(v)]
           ELSE [thread[u] EXCEPT !.alone = @ /\ ~(t \in Callers /\ u \in Callers /\ Busy(u))]]
    /\ UNCHANGED <<now, upstream, changes, during, catalog, schemas, log, trail>>

CallTool(t) ==
    /\ t \in Callers
    /\ \E tool \in Tools, name \in Asked, column \in Columns :
          Begin(t, ToolSteps(tool), tool, name, column)

\* The scan calls the same methods, with full names, and reads no statements back.
ScanReads(t) ==
    /\ t = Scanner
    /\ \E tool \in Tools \ {"list_databases"}, name \in Names, column \in Columns :
          Begin(t, Reads[tool], tool, name, column)

-----------------------------------------------------------------------------
\* Statements. _rows puts one on the list, then sends it under the connection's
\* lock. Whatever comes of it, it is on the list.

\* The steps whose statement the call's answer rests on.
ForAnswer == {"databases", "page", "columns", "rows", "stat", "walk"}

Sent(t) == log' = Append(log, thread[t].call)

\* What the statement of a step needs to find upstream.
Answerable(t) ==
    LET step == Head(thread[t].todo)
        n == thread[t].name
    IN  /\ step \in {"columns", "rows", "stat"} => n \in There(upstream)
        /\ step = "stat" => thread[t].column \in upstream[n]

Send(t) ==
    /\ Busy(t) /\ Head(thread[t].todo) \in ForAnswer
    /\ Answerable(t)
    /\ Sent(t)
    /\ thread' = [thread EXCEPT
           ![t].todo = Rest(t),
           ![t].sent = @ + 1,
           ![t].known = IF At(t, "walk") THEN There(upstream) ELSE @,
           ![t].cols = IF At(t, "columns") THEN upstream[thread[t].name] ELSE @,
           ![t].readAt = IF At(t, "walk") \/ At(t, "columns") THEN now ELSE @]
    /\ UNCHANGED <<world, caches, trail, calls>>

\* An error leaves every `with` on its way: the record of a tool call is still
\* written, without statements; a scan goes on to something else.
GiveUp(t) ==
    thread' = [thread EXCEPT ![t] =
        IF t \in Callers THEN [@ EXCEPT !.todo = <<"emit">>, !.outcome = "error"] ELSE Idle]

SendFails(t) ==
    /\ Busy(t) /\ Head(thread[t].todo) \in ForAnswer
    /\ Sent(t)
    /\ GiveUp(t)
    /\ UNCHANGED <<world, caches, trail, calls>>

\* Where the call named no database, there is an inventory and the rows are to be
\* masked, the verdicts on record are looked up by the default database's name,
\* which is asked of the adapter. An error there is logged and no more.
AskVerdicts(t) ==
    /\ At(t, "verdicts")
    /\ Sent(t) \/ UNCHANGED log
    /\ thread' = [thread EXCEPT ![t].todo = Rest(t)]
    /\ UNCHANGED <<world, caches, trail, calls>>

-----------------------------------------------------------------------------
\* The allowlist: which containers and columns there are, each cached for Ttl.

\* What a name may stand for: itself, if it is full or known; else any container
\* known by that name in some schema.
Matches(name, known) ==
    IF name \in known \cup Names THEN {name} ELSE {n \in known : n[2] = name}

\* The steps left once `step` is done, whether its names came from the cache or
\* were just read.
After(t) == IF At(t, "fill") \/ At(t, "store") THEN Tail(Rest(t)) ELSE Rest(t)

\* _qualify: the one match. A name nothing matches goes on as it is, to be refused
\* as unknown; one that several match is refused here.
Qualify(t, known) ==
    LET matches == Matches(thread[t].name, known)
    IN  IF Cardinality(matches) > 1 THEN GiveUp(t)
        ELSE thread' = [thread EXCEPT
                 ![t].todo = After(t), ![t].known = {}, ![t].readAt = 0,
                 ![t].name = IF matches = {} THEN @ ELSE CHOOSE n \in matches : TRUE]

\* The membership test of _require_container.
Member(t, known) ==
    IF thread[t].name \in known
    THEN thread' = [thread EXCEPT ![t].todo = After(t), ![t].known = {}, ![t].readAt = 0]
    ELSE GiveUp(t)

Judge(t, step, known) == IF step = "qualify" THEN Qualify(t, known) ELSE Member(t, known)

\* _known_containers, from the cache ...
Look(t) ==
    /\ At(t, "qualify") \/ At(t, "member")
    /\ Free(t)
    /\ IF catalog # Nothing /\ Fresh(catalog.stamp)
       THEN Judge(t, Head(thread[t].todo), catalog.names)
       ELSE thread' = [thread EXCEPT ![t].todo = <<"walk", "fill">> \o @]
    /\ UNCHANGED <<world, caches, log, trail, calls>>

\* ... or by a walk of the catalog under the lock.
Fill(t) ==
    /\ At(t, "fill")
    /\ catalog' = [names |-> thread[t].known, stamp |-> now]
    /\ Judge(t, Head(Rest(t)), thread[t].known)
    /\ UNCHANGED <<world, schemas, log, trail, calls>>

\* _require_column
RequireColumn(t, cols) ==
    IF thread[t].column \in cols
    THEN thread' = [thread EXCEPT ![t].todo = After(t), ![t].cols = {}, ![t].readAt = 0]
    ELSE GiveUp(t)

\* _cached_schema: a miss reads the schema under the lock, which asks again
\* whether the container is known.
LookUpSchema(t) ==
    /\ At(t, "schema") /\ Free(t)
    /\ LET cached == schemas[thread[t].name]
       IN  IF cached # Nothing /\ Fresh(cached.stamp)
           THEN RequireColumn(t, cached.cols)
           ELSE thread' = [thread EXCEPT ![t].todo = Reads.get_schema \o <<"store">> \o @]
    /\ UNCHANGED <<world, caches, log, trail, calls>>

StoreSchema(t) ==
    /\ At(t, "store")
    /\ schemas' = [schemas EXCEPT ![thread[t].name] = [cols |-> thread[t].cols, stamp |-> now]]
    /\ RequireColumn(t, thread[t].cols)
    /\ UNCHANGED <<world, catalog, log, trail, calls>>

-----------------------------------------------------------------------------
\* The record. pop_rendered_sql joins the list and then replaces it, and holds
\* no lock in between; a statement put on the old list meanwhile goes with it.

Join(t) ==
    /\ At(t, "join")
    /\ thread' = [thread EXCEPT ![t].todo = IF log = <<>> THEN Tail(Rest(t)) ELSE Rest(t),
                                ![t].rendered = log]
    /\ UNCHANGED <<world, caches, log, trail, calls>>

Clear(t) ==
    /\ At(t, "clear")
    /\ log' = <<>>
    /\ thread' = [thread EXCEPT ![t].todo = Rest(t)]
    /\ UNCHANGED <<world, caches, trail, calls>>

\* AuditLogger.operation, when its body has ended well or badly.
Emit(t) ==
    /\ At(t, "emit")
    /\ trail' = trail \cup
           {[call |-> thread[t].call, tool |-> thread[t].tool, outcome |-> thread[t].outcome,
             sql |-> thread[t].rendered, sent |-> thread[t].sent, alone |-> thread[t].alone]}
    /\ thread' = [thread EXCEPT ![t] = Idle]
    /\ UNCHANGED <<world, caches, log, calls>>

-----------------------------------------------------------------------------
\* The world.

\* Containers and columns come and go by other hands.
ChangeUpstream ==
    /\ changes < MaxChanges
    /\ changes' = changes + 1
    /\ \E n \in Names, c \in {Absent} \cup SUBSET Columns :
          /\ c # upstream[n]
          /\ upstream' = [upstream EXCEPT ![n] = c]
    /\ during' = [during EXCEPT ![now] = @ \cup {upstream'}]
    /\ UNCHANGED <<now, caches, log, thread, trail, calls>>

\* A read takes no more than ReadTime until it is stamped.
Tick ==
    /\ now < MaxTime
    /\ \A t \in Threads :
          At(t, "fill") \/ At(t, "store") => now - thread[t].readAt < ReadTime
    /\ now' = now + 1
    /\ during' = [x \in 0..MaxTime |->
           IF x = now + 1 THEN {upstream}
           ELSE IF x + Window > now + 1 THEN during[x] ELSE {}]
    /\ UNCHANGED <<upstream, changes, caches, log, thread, trail, calls>>

-----------------------------------------------------------------------------
Init ==
    /\ now = 0
    /\ upstream \in Start
    /\ catalog = Nothing
    /\ schemas = [n \in Names |-> Nothing]
    /\ log = <<>>
    /\ thread = [t \in Threads |-> Idle]
    /\ trail = {}
    /\ calls = 0 /\ changes = 0
    /\ during = [x \in 0..MaxTime |-> IF x = 0 THEN {upstream} ELSE {}]

\* A thread inside a call.
Step(t) ==
    \/ Send(t) \/ SendFails(t) \/ AskVerdicts(t)
    \/ Look(t) \/ Fill(t) \/ LookUpSchema(t) \/ StoreSchema(t)
    \/ Join(t) \/ Clear(t) \/ Emit(t)

Next ==
    \/ \E t \in Threads : CallTool(t) \/ ScanReads(t) \/ Step(t)
    \/ ChangeUpstream
    \/ Tick

Spec == Init /\ [][Next]_vars

\* A thread in a call goes on: nothing in it waits but for the lock and the source,
\* and the source answers or fails.
FairSpec == Spec /\ \A t \in Threads : WF_vars(Step(t))

-----------------------------------------------------------------------------
\* Properties.

TypeOK ==
    /\ now \in 0..MaxTime /\ upstream \in Catalogs
    /\ catalog = Nothing \/ catalog \in [names : SUBSET Names, stamp : 0..now]
    /\ \A n \in Names : schemas[n] = Nothing
                        \/ schemas[n] \in [cols : SUBSET Columns, stamp : 0..now]
    /\ log \in Seq(1..calls)
    /\ \A t \in Threads : /\ thread[t].call \in 0..calls
                          /\ thread[t].known \subseteq Names
                          /\ thread[t].cols \subseteq Columns
    /\ \A r \in trail : r.call \in 1..calls /\ r.sql \in Seq(1..calls)

\* What upstream was at some time in the last Window units.
Recent == UNION {during[x] : x \in {y \in 0..now : now - y < Window}}

\* The step of the allowlist a thread is at, and whether it passes it.
Passes(t, step) ==
    /\ \/ At(t, step)
       \/ (At(t, "fill") \/ At(t, "store")) /\ Head(Rest(t)) = step
    /\ thread'[t].todo = After(t)

\* A container is read only under a name that was there, and stood for it alone,
\* at some time no longer ago than the caches allow; and a column only if its
\* container had it no longer ago than that.
NamesAreTimely ==
    [][\A t \in Threads :
        /\ Passes(t, "qualify") =>
              \E u \in Recent : Matches(thread[t].name, There(u)) \subseteq {thread'[t].name}
        /\ Passes(t, "member") =>
              \E u \in Recent : thread[t].name \in There(u)
        /\ Passes(t, "schema") =>
              \E u \in Recent : /\ thread[t].name \in There(u)
                                /\ thread[t].column \in u[thread[t].name]]_vars

Count(sql, call) == Cardinality({i \in DOMAIN sql : sql[i] = call})

\* A call with no other tool call beside it has all it read on its record, each
\* statement once, whether or not a scan uses the adapter too. (What
\* list_databases sends is left on the list.)
RecordIsComplete ==
    \A r \in trail :
        r.outcome = "ok" /\ r.alone /\ r.tool # "list_databases" => Count(r.sql, r.call) = r.sent

\* Every call ends and leaves its record: no error keeps the catalog lock, and no
\* thread waits for a lock it holds.
CallEnds == \A t \in Threads : Busy(t) ~> ~Busy(t)
=============================================================================

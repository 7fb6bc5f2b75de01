---------------------------- MODULE StagedCatalog ----------------------------
(***************************************************************************)
(* The staging file: the start of a server (main.py) on a file that may be *)
(* anybody's, and then the pages of containers, the exports and the        *)
(* searches that callers are answered while a scan writes it               *)
(* (service/staging.py, service/export.py).  A container is a database and *)
(* a name; names are numbers, in the order SQL sorts them.  Columns are    *)
(* counted, and how they change is in StagedColumns.                       *)
(***************************************************************************)
EXTENDS Naturals, FiniteSets, Sequences

CONSTANTS
    Keys,           \* containers there may be: [db, name]
    Permitted,      \* names the caller may read
    PageSize,       \* rows on a page
    Columns,        \* most columns a container has
    NameMentions,   \* container names that mention the keyword of a search
    ColumnMentions, \* and the columns whose name does, by ordinal
    Checks,         \* settings of the connection check: "require", "warn", "off"
    Formats,        \* what is asked for: "markdown", "csv", "dbt_yaml", "listing"
    MaxWrites,      \* bound on what scans and annotations write
    MaxStarts,      \* bound on starts of the server
    None            \* no database given, no cursor, no walk

ASSUME CatalogAssumption ==
    /\ Keys \subseteq [db : Nat, name : Nat] /\ IsFiniteSet(Keys)
    /\ None \notin Nat
    /\ PageSize \in Nat \ {0}
    /\ Columns \in Nat /\ MaxWrites \in Nat /\ MaxStarts \in Nat

VARIABLES
    store,      \* what is in the staging file
    server,     \* how far the server that uses it has come
    start,      \* of one that is starting: its check of the connection
    starts,     \* starts so far
    rows,       \* the containers table, with the columns recorded of each
    scanning,   \* the container a scan has written, but not its columns yet
    writes,     \* writes so far
    walk,       \* the export or the listing under way
    target,     \* the containers in the file of the last export, in order
    stable      \* containers the walk has been able to show since it began

vars == <<store, server, start, starts, rows, scanning, writes, walk, target, stable>>

Databases == {k.db : k \in Keys} \cup {None}

NoWalk == [at |-> None]

Recorded == DOMAIN rows

NoStart == [check |-> None, reached |-> FALSE]

Init ==
    /\ store \in {"empty", "ours", "foreign", "older", "newer"}
    /\ server = "down" /\ start = NoStart /\ starts = 0
    /\ rows = IF store = "ours" THEN [k \in Keys |-> [columns |-> 1, error |-> FALSE, told |-> {}]]
              ELSE [k \in {} |-> [columns |-> 0, error |-> FALSE, told |-> {}]]
    /\ scanning = None /\ writes = 0
    /\ walk = NoWalk /\ target = <<>> /\ stable = {}

----------------------------------------------------------------------------
(* The start of a server.                                                   *)

unread == <<rows, scanning, writes, walk, target, stable>>

\* Whether there is a source to serve is asked before anything is written.
CheckConnection(check) ==
    /\ server = "down" /\ starts < MaxStarts
    /\ starts' = starts + 1
    /\ \E reached \in IF check = "off" THEN {FALSE} ELSE BOOLEAN :
         /\ start' = [check |-> check, reached |-> reached]
         /\ server' = IF check = "require" /\ ~reached THEN "refused" ELSE "checked"
    /\ UNCHANGED <<store, unread>>

\* An older layout is taken for this one's, as CREATE ... IF NOT EXISTS would.
MutRefuses == store \in {"foreign", "newer", "unmarked"}

\* A file with anything in it that this version did not mark is left alone.
Refuses == store \in {"foreign", "older", "newer", "unmarked"}

Claim ==
    /\ server = "checked"
    /\ server' = IF Refuses THEN "refused" ELSE "claimed"
    /\ UNCHANGED <<store, start, starts, unread>>

CreateTables ==
    /\ server = "claimed"
    /\ store' = IF store = "empty" THEN "unmarked" ELSE store
    /\ server' = "created"
    /\ UNCHANGED <<start, starts, unread>>

Mark ==
    /\ server = "created"
    /\ store' = "ours" /\ server' = "marked"
    /\ UNCHANGED <<start, starts, unread>>

\* The server is built last, and refuses a key directory it cannot use.
Serve ==
    /\ server = "marked"
    /\ server' \in {"open", "refused"}
    /\ start' = NoStart
    /\ UNCHANGED <<store, starts, unread>>

\* The process ends, in the middle of whatever it does.
Crash ==
    /\ server # "down"
    /\ server' = "down" /\ start' = NoStart
    /\ scanning' = None /\ walk' = NoWalk /\ stable' = {}
    /\ UNCHANGED <<store, starts, rows, writes, target>>

----------------------------------------------------------------------------
(* What scans and annotations write.                                        *)

files == <<store, server, start, starts>>

MayWrite == server = "open" /\ writes < MaxWrites /\ writes' = writes + 1

\* A container keeps the columns and the description it had.
UpsertContainer(k, failed) ==
    /\ MayWrite /\ scanning = None
    /\ rows' = [j \in Recorded \cup {k} |->
                  IF j # k THEN rows[j]
                  ELSE IF k \in Recorded THEN [rows[k] EXCEPT !.error = failed]
                  ELSE [columns |-> 0, error |-> failed, told |-> {}]]
    /\ scanning' = IF failed THEN None ELSE k
    /\ UNCHANGED <<files, walk, target, stable>>

\* What was told of a column goes with it, and one without columns is no dbt
\* model any more.
ReplaceColumns ==
    /\ server = "open" /\ scanning # None
    /\ \E n \in 0 .. Columns :
         /\ rows' = [rows EXCEPT ![scanning].columns = n, ![scanning].told = @ \cap (0 .. n)]
         /\ stable' = {k \in stable : k # scanning \/ n > 0 \/ walk.format # "dbt_yaml"}
    /\ scanning' = None
    /\ UNCHANGED <<files, writes, walk, target>>

ForgetContainer(k) ==
    /\ MayWrite /\ scanning = None /\ k \in Recorded
    /\ rows' = [j \in Recorded \ {k} |-> rows[j]]
    /\ stable' = stable \ {k}
    /\ UNCHANGED <<files, scanning, walk, target>>

\* A description that mentions the keyword, of the container (0) or a column.
Annotate(k) ==
    /\ MayWrite /\ k \in Recorded
    /\ \E i \in 0 .. rows[k].columns : rows' = [rows EXCEPT ![k].told = @ \cup {i}]
    /\ UNCHANGED <<files, scanning, walk, target, stable>>

----------------------------------------------------------------------------
(* Reading.                                                                 *)

OfDatabase(db) == {k \in Recorded : db = None \/ k.db = db}

\* SQL leaves open how equal names are ordered: here by their database.
Before(j, k) == j.name < k.name \/ (j.name = k.name /\ j.db < k.db)

TopOf(n, S, Ahead(_, _)) == {x \in S : Cardinality({y \in S : Ahead(y, x)}) < n}

LastOf(S) == CHOOSE k \in S : \A j \in S : ~Before(k, j)

\* The cursor is the extra row that only tells whether more remain.
MutContainersPage(db, cursor) ==
    LET left == {k \in OfDatabase(db) : cursor = None \/ k.name > cursor}
    IN [rows |-> TopOf(PageSize, left, Before),
        next |-> IF Cardinality(left) > PageSize
                 THEN LastOf(TopOf(PageSize + 1, left, Before)).name ELSE None]

\* The page starts at the name where the one before it ended.
MutFromCursor(db, cursor) ==
    LET left == {k \in OfDatabase(db) : cursor = None \/ k.name >= cursor}
        page == TopOf(PageSize, left, Before)
    IN [rows |-> page,
        next |-> IF Cardinality(left) > PageSize THEN LastOf(page).name ELSE None]

\* A page, and the name the next one starts after.
ContainersPage(db, cursor) ==
    LET left == {k \in OfDatabase(db) : cursor = None \/ k.name > cursor}
        page == TopOf(PageSize, left, Before)
    IN [rows |-> page,
        next |-> IF Cardinality(left) > PageSize THEN LastOf(page).name ELSE None]

\* A hit is a container, with column 0, or one of its columns.
Hit(k, i) == [key |-> k, column |-> i]

ByName(h) == IF h.column = 0 THEN h.key.name \in NameMentions ELSE h.column \in ColumnMentions

Sooner(g, h) == Before(g.key, h.key) \/ (g.key = h.key /\ g.column < h.column)

\* A keyword in a name ranks before one in a description, and a container
\* before a column.
Outranks(g, h) ==
    LET ByKind == IF (g.column = 0) = (h.column = 0) THEN Sooner(g, h) ELSE g.column = 0
    IN IF ByName(g) = ByName(h) THEN ByKind ELSE ByName(g)

ContainerMatches(db) == {Hit(k, 0) : k \in {j \in OfDatabase(db) :
                                             j.name \in NameMentions \/ 0 \in rows[j].told}}

ColumnMatches(db) ==
    UNION {{Hit(k, i) : i \in (ColumnMentions \cup rows[k].told) \cap (1 .. rows[k].columns)} :
              k \in OfDatabase(db)}

\* Half of the hits are containers and half are columns.
MutSearch(db, limit) ==
    TopOf(limit, TopOf((limit + 1) \div 2, ContainerMatches(db), Sooner)
                 \cup TopOf((limit + 1) \div 2, ColumnMatches(db), Sooner), Outranks)

\* Each table is cut off in the order of names; what is left is ranked and cut.
Search(db, limit) ==
    TopOf(limit, TopOf(limit, ContainerMatches(db), Sooner)
                 \cup TopOf(limit, ColumnMatches(db), Sooner), Outranks)

----------------------------------------------------------------------------
(* A walk of the containers: an export's, or a client's with its cursor.    *)

\* A dbt model needs columns, and nobody is shown what they may not read.
Shows(format, k) ==
    /\ k.name \in Permitted
    /\ format = "dbt_yaml" => k \in Recorded /\ rows[k].columns > 0

\* An export empties the file before it reads its first page.
BeginWalk(format, db) ==
    /\ server = "open" /\ walk = NoWalk
    /\ walk' = [at |-> "page", format |-> format, db |-> db, cursor |-> None,
                page |-> {}, next |-> None, shown |-> <<>>]
    /\ target' = IF format = "listing" THEN target ELSE <<>>
    /\ stable' = {k \in OfDatabase(db) : Shows(format, k)}
    /\ UNCHANGED <<files, rows, scanning, writes>>

Walking(at) == walk # NoWalk /\ walk.at = at

NextPage ==
    /\ Walking("page")
    /\ LET page == ContainersPage(walk.db, walk.cursor)
       IN walk' = [walk EXCEPT !.at = "rows", !.page = page.rows, !.next = page.next]
    /\ UNCHANGED <<files, rows, scanning, writes, target, stable>>

\* The columns of each container are read when its turn comes.
WriteContainer ==
    /\ Walking("rows") /\ walk.page # {}
    /\ LET k == CHOOSE k \in walk.page : \A j \in walk.page : ~Before(j, k)
           shown == IF Shows(walk.format, k) THEN <<k>> ELSE <<>>
       IN /\ walk' = [walk EXCEPT !.page = @ \ {k}, !.shown = @ \o shown]
          /\ target' = IF walk.format = "listing" THEN target ELSE target \o shown
    /\ UNCHANGED <<files, rows, scanning, writes, stable>>

TurnPage ==
    /\ Walking("rows") /\ walk.page = {} /\ walk.next # None
    /\ walk' = [walk EXCEPT !.at = "page", !.cursor = walk.next]
    /\ UNCHANGED <<files, rows, scanning, writes, target, stable>>

\* After the last page the caller is told, of an export where it was written.
Reported ==
    /\ Walking("rows") /\ walk.page = {} /\ walk.next = None
    /\ walk' = NoWalk /\ stable' = {}
    /\ UNCHANGED <<files, rows, scanning, writes, target>>

Next ==
    \/ \E check \in Checks : CheckConnection(check)
    \/ Claim \/ CreateTables \/ Mark \/ Serve \/ Crash
    \/ \E k \in Keys : \/ \E failed \in BOOLEAN : UpsertContainer(k, failed)
                       \/ ForgetContainer(k) \/ Annotate(k)
    \/ ReplaceColumns
    \/ \E format \in Formats, db \in Databases : BeginWalk(format, db)
    \/ NextPage \/ WriteContainer \/ TurnPage \/ Reported

Spec == Init /\ [][Next]_vars

----------------------------------------------------------------------------
\* A start writes nothing to a file of somebody else's, or of another version
\* of this store, wherever it is interrupted, and none to any file before it has
\* reached the source that it was required to reach (staging.py _claim_or_reject
\* "refusing to write to what looks like a source database"; main.py build).
NobodyElsesFileIsWritten ==
    [][/\ (store \in {"foreign", "older", "newer"}) => UNCHANGED <<store, rows>>
       /\ (store' # store /\ start.check = "require") => start.reached]_vars

Told == {walk.shown[i] : i \in 1 .. Len(walk.shown)}

LastPageRead == Walking("rows") /\ walk.page = {} /\ walk.next = None

\* An export or a listing leaves out no container that could have been shown
\* from its first page to its last, whatever scans wrote in between, except one
\* with a namesake in another database: pages continue after a name
\* (staging.py containers; export.py _walk "Every container the caller may see").
OnlyNamesakesAreSkipped ==
    LastPageRead =>
        \A k \in stable \ Told : \E j \in Keys : j # k /\ j.name = k.name /\ Before(j, k)

\* No container is in a file or a listing twice, and they come in order, although
\* containers are added and forgotten between two pages (staging.py containers:
\* "Keyset on the name").
EachIsShownOnce ==
    walk # NoWalk =>
        /\ \A i, j \in 1 .. Len(walk.shown) : i < j => Before(walk.shown[i], walk.shown[j])
        /\ walk.format # "listing" => target = walk.shown

\* A search that returns fewer hits than it was asked for returns all there are
\* (staging.py search, _container_hits, _column_hits).
ShortSearchIsComplete ==
    \A db \in Databases, limit \in 1 .. 3 :
        Cardinality(Search(db, limit)) < limit =>
            Search(db, limit) = ContainerMatches(db) \cup ColumnMatches(db)

\* What the limit of a search cuts off ranks below all that is kept.  The code
\* does not keep this: each table is cut off by name before the ranking
\* (staging.py search: "The order decides what survives the limit below").
SearchKeepsTheBest ==
    \A db \in Databases, limit \in 1 .. 3 :
        \A g \in Search(db, limit),
           h \in (ContainerMatches(db) \cup ColumnMatches(db)) \ Search(db, limit) : Outranks(g, h)
=============================================================================

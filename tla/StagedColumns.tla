--------------------------- MODULE StagedColumns ---------------------------
(***************************************************************************)
(* The column rows of one container in StagingStore                        *)
(* (src/service/staging.py), and everyone who writes or reads them: a scan *)
(* that brings them up to date and judges what is personal                 *)
(* (src/service/inventory.py), callers who describe and mark columns       *)
(* (`inventory_annotate`), a client who reads them a page at a time, and a *)
(* caller whose sample of the source is masked by what they say            *)
(* (src/server.py).                                                        *)
(*                                                                         *)
(* A row is shared property: a scan owns its shape, callers own what they  *)
(* wrote on it, and the verdict on its sensitivity may come from either.   *)
(* Every store method is one transaction; a scan, a walk over the pages    *)
(* and a sample take several, and the others' fall in between.             *)
(***************************************************************************)
EXTENDS Integers, FiniteSets

CONSTANTS
    Columns,        \* the column names there may be
    Types,          \* native types
    Shapes,         \* what the container may be upstream: of each column,
                    \* its type and its ordinal, or 0 for none
    NameLevel,      \* from_name: what a column's name says of it
    Texts,          \* descriptions
    Callers,        \* who may have written: SOURCE_AI, SOURCE_HUMAN
    SourceSchema,   \* the schema_name the adapter lists the container under
    NoSchema,       \* NO_SCHEMA, for an engine that has none
    Namesakes,      \* the levels there may be on record for a container of
                    \* this name in the database list_databases names first;
                    \* {} where that is the database of the container itself
    Faults,         \* "read": get_schema may raise; "lookup": so may the
                    \* lookup of the levels on record
    PageSize,       \* columns per page
    MaxScans,       \* bound: visits of the container by a scan
    MaxNotes,       \* bound: annotations
    MaxReads,       \* bound: walks begun and samples taken
    MaxUpstream,    \* bound: changes of the source
    MaxCrashes,     \* bound: process deaths
    None,           \* NULL
    NoRow,          \* the container has no row
    Unread          \* its row has an error

Levels == {"none", "pii", "secret"}         \* Sensitivity
Sources == Callers \cup {"detected"}        \* SOURCE_DETECTED
LevelMaps == [Columns -> Levels \cup {None}]

ASSUME ColumnsAssumption ==
    /\ None \notin Types /\ None \notin Texts /\ None \notin Levels
    /\ None \notin Sources /\ "detected" \notin Callers
    /\ Shapes \subseteq [Columns -> [ordinal : Nat, type : Types]]
    /\ NoRow \notin Shapes /\ Unread \notin Shapes /\ NoRow # Unread
    /\ IsFiniteSet(Columns)
    /\ NameLevel \in [Columns -> {None, "pii", "secret"}]
    /\ Namesakes \subseteq LevelMaps
    /\ PageSize \in Nat \ {0}
    /\ MaxScans \in Nat /\ MaxNotes \in Nat /\ MaxReads \in Nat
    /\ MaxUpstream \in Nat /\ MaxCrashes \in Nat

\* An adapter numbers the columns of a container one by one.
ASSUME OrdinalsAssumption ==
    \A s \in Shapes : \A b, c \in Columns :
        s[b].ordinal = s[c].ordinal /\ s[b].ordinal # 0 => b = c

VARIABLES
    upstream,    \* the container in the source, NoRow if it is not there
    turns,       \* changes of it so far
    stored,      \* `containers`: the shape its hash stands for
    rows,        \* `columns`
    change,      \* `schema_changes`: the latest
    scan,        \* the scan's thread, at this container
    scans,       \* visits so far
    notes,       \* annotations so far
    reads,       \* walks and samples so far
    crashes,     \* process deaths so far
    walk,        \* a client's walk over the pages
    sample,      \* a call of get_sample
    said         \* auxiliary: what callers last wrote on each row

sourceVars == <<upstream, turns>>
vars == <<sourceVars, stored, rows, change, scan, scans, notes, reads, crashes, walk,
          sample, said>>

-----------------------------------------------------------------------------
(* Values *)

Row  == [ordinal : Nat, type : Types \cup {None},       \* ordinal 0: no row
         text    : Texts \cup {None},  textBy  : Callers \cup {None},
         level   : Levels \cup {None}, levelBy : Sources \cup {None}]
Said == [text    : Texts \cup {None},  textBy  : Callers \cup {None},
         level   : Levels \cup {None}, levelBy : Callers \cup {None}]
Diff == [added : SUBSET Columns, removed : SUBSET Columns, retyped : SUBSET Columns]

EmptyRow == [ordinal |-> 0, type |-> None, text |-> None, textBy |-> None,
             level |-> None, levelBy |-> None]
Nothing  == [text |-> None, textBy |-> None, level |-> None, levelBy |-> None]
NoDiff   == [added |-> {}, removed |-> {}, retyped |-> {}]
NoLevels == [c \in Columns |-> None]

Present(s) == {c \in Columns : s[c].ordinal # 0}

\* What _record_change compares: the columns on record and those just read.
Difference(old, new) ==
    [added   |-> Present(new) \ Present(old),
     removed |-> Present(old) \ Present(new),
     retyped |-> {c \in Present(old) \cap Present(new) : old[c].type # new[c].type}]

At(pc) == scan.pc = pc

-----------------------------------------------------------------------------
Init ==
    /\ upstream \in Shapes \cup {NoRow}
    /\ turns = 0
    /\ stored = NoRow
    /\ rows = [c \in Columns |-> EmptyRow]
    /\ change = [old |-> NoRow, new |-> NoRow, detail |-> NoDiff]
    /\ scan = [pc |-> "away", force |-> FALSE, shape |-> NoRow, levels |-> NoLevels]
    /\ scans = 0
    /\ notes = 0
    /\ reads = 0
    /\ crashes = 0
    /\ walk = [pc |-> "off", cursor |-> 0, got |-> [c \in Columns |-> 0], steady |-> {}]
    /\ sample = [pc |-> "off", named |-> FALSE, failed |-> FALSE, read |-> {},
                 telling |-> {}, mask |-> NoLevels, firm |-> {}]
    /\ said = [c \in Columns |-> Nothing]

-----------------------------------------------------------------------------
(* A scan at this container: _scan_container *)

Elsewhere == UNCHANGED <<sourceVars, notes, reads, crashes>>
OnlyScan  == Elsewhere /\ UNCHANGED <<stored, rows, change, scans, walk, sample, said>>

\* The walk of a scan comes to this container.
Visit ==
    /\ At("away")
    /\ upstream # NoRow
    /\ scans < MaxScans
    /\ scans' = scans + 1
    /\ \E force \in BOOLEAN : scan' = [scan EXCEPT !.pc = "read", !.force = force]
    /\ Elsewhere
    /\ UNCHANGED <<stored, rows, change, walk, sample, said>>

\* The scan goes on to other containers.
Leave == scan' = [pc |-> "away", force |-> FALSE, shape |-> NoRow, levels |-> NoLevels]

\* get_schema, and the hash of what it returned
ReadSchema ==
    /\ At("read")
    /\ upstream # NoRow
    /\ scan' = [scan EXCEPT !.pc = "compare", !.shape = upstream]
    /\ OnlyScan

\* It raises, as it does for a container dropped since it was listed: the
\* error is recorded, and the columns stay.
ReadFails ==
    /\ At("read")
    /\ "read" \in Faults \/ upstream = NoRow
    /\ stored' = Unread
    /\ Leave
    /\ Elsewhere
    /\ UNCHANGED <<rows, change, scans, walk, sample, said>>

\* mutant: the WHERE clause without `error IS NULL`
MutStoredHash == stored

\* stored_schema_hash has no answer for a row with an error.
StoredHash == IF stored = Unread THEN NoRow ELSE stored

\* The hash on record decides whether there is anything to do.
Compare ==
    /\ At("compare")
    /\ IF StoredHash = scan.shape
       THEN IF scan.force THEN scan' = [scan EXCEPT !.pc = "upsert"] ELSE Leave
       ELSE scan' = [scan EXCEPT !.pc = "change"]
    /\ OnlyScan

\* mutant: the comparison is made after the columns were replaced
MutRecordChange ==
    /\ At("change")
    /\ change' = [old |-> StoredHash, new |-> scan.shape, detail |-> NoDiff]
    /\ scan' = [scan EXCEPT !.pc = "upsert"]
    /\ Elsewhere
    /\ UNCHANGED <<stored, rows, scans, walk, sample, said>>

\* _record_change, "while the previous shape is still on record"
RecordChange ==
    /\ At("change")
    /\ change' = [old |-> StoredHash, new |-> scan.shape,
                  detail |-> IF StoredHash = NoRow THEN NoDiff
                             ELSE Difference(rows, scan.shape)]
    /\ scan' = [scan EXCEPT !.pc = "upsert"]
    /\ Elsewhere
    /\ UNCHANGED <<stored, rows, scans, walk, sample, said>>

\* upsert_container
UpsertContainer ==
    /\ At("upsert")
    /\ stored' = scan.shape
    /\ scan' = [scan EXCEPT !.pc = "columns"]
    /\ Elsewhere
    /\ UNCHANGED <<rows, change, scans, walk, sample, said>>

\* mutant: the rows are deleted and inserted again
MutUpserted(c) == [EmptyRow EXCEPT !.ordinal = scan.shape[c].ordinal, !.type = scan.shape[c].type]

\* One column's row after replace_columns: its shape is the scan's, the rest
\* of a row that was there stays.
Upserted(c) == [rows[c] EXCEPT !.ordinal = scan.shape[c].ordinal, !.type = scan.shape[c].type]

\* Rows that are not in keep go, with what was written on them; auxiliary
\* variables follow.
Forgotten(new) ==
    LET gone  == {c \in Columns : new[c].ordinal = 0}
        moved == {c \in Columns : new[c].ordinal # rows[c].ordinal}
    IN  /\ said' = [c \in Columns |-> IF c \in gone THEN Nothing ELSE said[c]]
        /\ walk' = [walk EXCEPT !.steady = @ \ moved]
        /\ sample' = [sample EXCEPT !.firm = @ \ gone]

\* replace_columns: upsert what was read, delete what was not
ReplaceColumns ==
    /\ At("columns")
    /\ rows' = [c \in Columns |-> IF c \in Present(scan.shape) THEN Upserted(c) ELSE EmptyRow]
    /\ Forgotten(rows')
    /\ scan' = [scan EXCEPT !.pc = "judge"]
    /\ Elsewhere
    /\ UNCHANGED <<stored, change, scans>>

\* The columns whose names tell nothing.
Unnamed(cs) == {c \in cs : NameLevel[c] = None}

\* detect, of a column, given those whose values look personal: every value
\* pattern says "pii".
Level(c, telling) == IF NameLevel[c] # None THEN NameLevel[c]
                     ELSE IF c \in telling THEN "pii" ELSE None

Judged(telling) ==
    [c \in Columns |-> IF c \in Present(scan.shape) THEN Level(c, telling) ELSE None]

\* mutant: rows that tell nothing, or a sample that is refused, end it
MutJudge ==
    /\ At("judge")
    /\ \E telling \in SUBSET Unnamed(Present(scan.shape)) :
          scan' = [scan EXCEPT !.pc = "mark",
                      !.levels = IF telling = {} THEN NoLevels ELSE Judged(telling)]
    /\ OnlyScan

\* _detect_sensitivity: the names first; the values of a few rows for the
\* columns whose names give nothing away, and what they look like depends on
\* the rows.  When the sample is refused the names are all there is.
Judge ==
    /\ At("judge")
    /\ \E telling \in SUBSET Unnamed(Present(scan.shape)) :
          scan' = [scan EXCEPT !.pc = "mark", !.levels = Judged(telling)]
    /\ OnlyScan

\* The rows record_sensitivity writes: not those a caller has marked.
MayJudge(c) == rows[c].ordinal # 0 /\ rows[c].levelBy \in {None, "detected"}

\* record_sensitivity
RecordSensitivity ==
    /\ At("mark")
    /\ rows' = [c \in Columns |->
          IF scan.levels[c] # None /\ MayJudge(c)
          THEN [rows[c] EXCEPT !.level = scan.levels[c], !.levelBy = "detected"]
          ELSE rows[c]]
    /\ Leave
    /\ Elsewhere
    /\ UNCHANGED <<stored, change, scans, walk, sample, said>>

\* A scan that covered the catalog has not come across the container.
PassBy ==
    /\ At("away")
    /\ scans < MaxScans
    /\ upstream = NoRow /\ stored # NoRow
    /\ scans' = scans + 1
    /\ scan' = [scan EXCEPT !.pc = "missed"]
    /\ Elsewhere
    /\ UNCHANGED <<stored, rows, change, walk, sample, said>>

\* _record_removals, when the walk is over: forget_container takes the columns
\* along, though the container may be back by now.
ForgetContainer ==
    /\ At("missed")
    /\ stored' = NoRow
    /\ rows' = [c \in Columns |-> EmptyRow]
    /\ Forgotten(rows')
    /\ change' = [old |-> NoRow, new |-> NoRow, detail |-> NoDiff]
    /\ Leave
    /\ Elsewhere
    /\ UNCHANGED scans

-----------------------------------------------------------------------------
(* inventory_annotate: one transaction, refused for a container that is not *)
(* in the inventory; a column that is not comes back as unknown.            *)

CanAnnotate(c) == stored # NoRow /\ rows[c].ordinal # 0 /\ notes < MaxNotes

\* A description; a blank one clears it, and says who cleared it.
Describe(c, by) ==
    /\ CanAnnotate(c)
    /\ notes' = notes + 1
    /\ \E text \in Texts \cup {None} :
          /\ rows' = [rows EXCEPT ![c].text = text, ![c].textBy = by]
          /\ said' = [said EXCEPT ![c].text = text, ![c].textBy = by]
    /\ UNCHANGED <<sourceVars, stored, change, scan, scans, reads, crashes, walk, sample>>

\* A level, "none" included: what detection guessed is corrected.
Mark(c, by) ==
    /\ CanAnnotate(c)
    /\ notes' = notes + 1
    /\ \E level \in Levels :
          /\ rows' = [rows EXCEPT ![c].level = level, ![c].levelBy = by]
          /\ said' = [said EXCEPT ![c].level = level, ![c].levelBy = by]
    /\ sample' = [sample EXCEPT !.firm = @ \ {c}]
    /\ UNCHANGED <<sourceVars, stored, change, scan, scans, reads, crashes, walk>>

-----------------------------------------------------------------------------
(* inventory_columns, page after page; the cursor is the client's. The      *)
(* export's _all_columns walks the same pages.                              *)

After(cursor) == {c \in Columns : rows[c].ordinal > cursor}

\* mutant: `ordinal>=?`
MutColumnsPage(cursor) ==
    {c \in Present(rows) : /\ rows[c].ordinal >= cursor
        /\ Cardinality({b \in Present(rows) : rows[b].ordinal >= cursor
                            /\ rows[b].ordinal < rows[c].ordinal}) < PageSize}

\* columns: the first PageSize rows after the cursor, in ordinal order
ColumnsPage(cursor) ==
    {c \in After(cursor) :
        Cardinality({b \in After(cursor) : rows[b].ordinal < rows[c].ordinal}) < PageSize}

BeginWalk ==
    /\ walk.pc # "on"
    /\ reads < MaxReads
    /\ reads' = reads + 1
    /\ walk' = [pc |-> "on", cursor |-> 0, got |-> [c \in Columns |-> 0],
                steady |-> Present(rows)]
    /\ UNCHANGED <<sourceVars, stored, rows, change, scan, scans, notes, crashes,
                   sample, said>>

OnlyWalk == UNCHANGED <<sourceVars, stored, rows, change, scan, scans, notes, reads,
                       crashes, sample, said>>
Given(page) == [c \in Columns |-> IF c \in page THEN walk.got[c] + 1 ELSE walk.got[c]]

\* A page with a row left over comes with a cursor, its last ordinal.
NextPage ==
    LET page == ColumnsPage(walk.cursor) IN
    /\ walk.pc = "on"
    /\ page # After(walk.cursor)
    /\ \E last \in page :
          /\ \A c \in page : rows[c].ordinal <= rows[last].ordinal
          /\ walk' = [walk EXCEPT !.cursor = rows[last].ordinal, !.got = Given(page)]
    /\ OnlyWalk

\* One without is the last.
LastPage ==
    LET page == ColumnsPage(walk.cursor) IN
    /\ walk.pc = "on"
    /\ page = After(walk.cursor)
    /\ walk' = [walk EXCEPT !.pc = "over", !.got = Given(page)]
    /\ OnlyWalk

-----------------------------------------------------------------------------
(* get_sample *)

\* The rows are read from the source, and with them what they look like.  The
\* caller names the database, or omits it where it is the default one.
ReadSample ==
    /\ sample.pc # "read"
    /\ reads < MaxReads
    /\ upstream # NoRow
    /\ \E telling \in SUBSET Unnamed(Present(upstream)), named \in BOOLEAN :
          sample' = [pc |-> "read", named |-> named, failed |-> FALSE,
                     read |-> Present(upstream), telling |-> telling,
                     mask |-> NoLevels, firm |-> Columns]
    /\ reads' = reads + 1
    /\ UNCHANGED <<sourceVars, stored, rows, change, scan, scans, notes, crashes,
                   walk, said>>

\* mutant: only what is personal counts as known, not what was cleared
MutOnRecord == [c \in Columns |-> IF rows[c].level = "none" THEN None ELSE rows[c].level]

\* sensitivity_of, asked of the container's own rows
OnRecord == [c \in Columns |-> rows[c].level]

\* Whether a lookup is of those rows: it names no schema, and for a database
\* that was omitted it takes the first that list_databases names.
Finds(named) == SourceSchema = NoSchema /\ (named \/ Namesakes = {})

\* What _known_sensitivity may come back with; a lookup that raises is empty.
Known(named, failed) ==
    IF failed THEN {NoLevels}
    ELSE IF Finds(named) THEN {OnRecord}
    ELSE IF named \/ Namesakes = {} THEN {NoLevels} ELSE Namesakes

\* sensitive_columns and mask_rows: what is known wins, the rest is judged by
\* the rows at hand, and a column is masked as its level asks.
Masked(known) ==
    [c \in Columns |->
        IF c \notin sample.read \/ known[c] = "none" THEN None
        ELSE IF known[c] # None THEN known[c]
        ELSE Level(c, sample.telling)]

MaskSample ==
    /\ sample.pc = "read"
    /\ \E failed \in BOOLEAN :
          /\ failed => "lookup" \in Faults
          /\ \E known \in Known(sample.named, failed) :
                sample' = [sample EXCEPT !.pc = "answered", !.failed = failed,
                                         !.mask = Masked(known)]
    /\ UNCHANGED <<sourceVars, stored, rows, change, scan, scans, notes, reads, crashes,
                   walk, said>>

-----------------------------------------------------------------------------
(* The environment *)

\* Columns are added, dropped, moved or retyped, or the container is dropped
\* or created.
ChangeSource ==
    /\ turns < MaxUpstream
    /\ turns' = turns + 1
    /\ upstream' \in (Shapes \cup {NoRow}) \ {upstream}
    /\ UNCHANGED <<stored, rows, change, scan, scans, notes, reads, crashes, walk,
                   sample, said>>

\* The process is killed: the scan and the call are gone, the client and its
\* cursor are not.
Crash ==
    /\ crashes < MaxCrashes
    /\ ~At("away") \/ sample.pc = "read"
    /\ crashes' = crashes + 1
    /\ Leave
    /\ sample' = [sample EXCEPT !.pc = "off"]
    /\ UNCHANGED <<sourceVars, stored, rows, change, scans, notes, reads, walk, said>>

-----------------------------------------------------------------------------
Scan == \/ Visit \/ ReadSchema \/ ReadFails \/ Compare \/ RecordChange
        \/ UpsertContainer \/ ReplaceColumns \/ Judge
        \/ RecordSensitivity \/ PassBy \/ ForgetContainer

Next ==
    \/ Scan
    \/ \E c \in Columns, by \in Callers : Describe(c, by) \/ Mark(c, by)
    \/ BeginWalk \/ NextPage \/ LastPage
    \/ ReadSample \/ MaskSample
    \/ ChangeSource
    \/ Crash

Spec == Init /\ [][Next]_vars

-----------------------------------------------------------------------------
(* Properties *)

TypeOK ==
    /\ upstream \in Shapes \cup {NoRow}
    /\ turns \in Nat /\ scans \in Nat /\ notes \in Nat /\ reads \in Nat /\ crashes \in Nat
    /\ stored \in Shapes \cup {NoRow, Unread}
    /\ rows \in [Columns -> Row]
    /\ change \in [old : Shapes \cup {NoRow}, new : Shapes \cup {NoRow}, detail : Diff]
    /\ scan \in [pc     : {"away", "read", "compare", "change", "upsert", "columns",
                            "judge", "mark", "missed"},
                  force  : BOOLEAN,
                  shape  : Shapes \cup {NoRow},
                  levels : [Columns -> Levels \cup {None}]]
    /\ walk \in [pc : {"off", "on", "over"}, cursor : Nat,
                  got : [Columns -> Nat], steady : SUBSET Columns]
    /\ sample \in [pc : {"off", "read", "answered"}, named : BOOLEAN, failed : BOOLEAN,
                    read : SUBSET Columns, telling : SUBSET Columns,
                    mask : LevelMaps, firm : SUBSET Columns]
    /\ said \in [Columns -> Said]

\* A rescan keeps what callers wrote, whenever they wrote it: between any two
\* steps of any scans, before a failed read, around a crash. A column's row
\* holds the last description and the last level it was given, and who gave
\* them, until the column itself goes.
WrittenSurvives ==
    \A c \in Columns :
        /\ rows[c].text = said[c].text /\ rows[c].textBy = said[c].textBy
        /\ said[c].level # None =>
              rows[c].level = said[c].level /\ rows[c].levelBy = said[c].levelBy

\* Without a crash, a recorded change tells the difference between the two
\* shapes its hashes stand for, whatever failed reads, forced scans and
\* annotations lie between them.
DetailIsTheDifference ==
    crashes = 0 /\ change.old # NoRow =>
        change.detail = Difference(change.old, change.new)

\* Without a crash, once a scan has left a container, every column on record
\* whose name gives it away has a level on record, though the source refused
\* the sample and callers were marking columns meanwhile.
NamesAreJudged ==
    crashes = 0 /\ At("away") =>
        \A c \in Present(rows) : NameLevel[c] # None => rows[c].level # None

\* A client that walks the pages of a container while scans rewrite its rows
\* is given, exactly once, every column that kept its place all the while.
PagesMissNothing ==
    \A c \in walk.steady :
        walk.got[c] <= 1 /\ (walk.pc = "over" => walk.got[c] = 1)

\* A column a caller gave a level that stood while a sample was taken is
\* masked as that level asks.
MarksHold ==
    \A c \in sample.read \cap sample.firm : said[c].level # None =>
        sample.mask[c] = IF said[c].level = "none" THEN None ELSE said[c].level

\* "It may have been corrected by a person": when a level a caller gave a
\* column stands while a sample is taken, it decides whether and how the
\* sample masks the column, however many scans ago it was given.  The code
\* does not keep this where it looks the level up in the wrong place, or
\* cannot look it up.
MarkDecides == sample.pc = "answered" => MarksHold

\* It does where the lookup ends and is of the container's own rows: not under
\* a schema, and with the database named, unless the default one is also the
\* first that list_databases names.
FoundMarksDecide ==
    sample.pc = "answered" /\ ~sample.failed /\ Finds(sample.named) => MarksHold
=============================================================================

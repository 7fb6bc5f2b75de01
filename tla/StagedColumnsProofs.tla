------------------------ MODULE StagedColumnsProofs ------------------------
(* Theorems about StagedColumns, for every value of its constants. *)
EXTENDS StagedColumns, FiniteSetTheorems, TLAPS

-----------------------------------------------------------------------------
(* Type correctness *)

\* TypeOK is not inductive by itself: a scan that has read the container holds
\* one of its shapes until it leaves.
Holding == {"compare", "change", "upsert", "columns", "judge", "mark"}
InHand  == scan.pc \in Holding => scan.shape \in Shapes
Typed   == TypeOK /\ InHand

Steps == {"away", "read"} \cup Holding \cup {"missed"}
ScanType == [pc : Steps, force : BOOLEAN, shape : Shapes \cup {NoRow},
             levels : [Columns -> Levels \cup {None}]]

\* The parts of TypeOK by name.
Counted == turns \in Nat /\ scans \in Nat /\ notes \in Nat /\ reads \in Nat /\ crashes \in Nat
WalkType == [pc : {"off", "on", "over"}, cursor : Nat,
             got : [Columns -> Nat], steady : SUBSET Columns]
SampleType == [pc : {"off", "read", "answered"}, named : BOOLEAN, failed : BOOLEAN,
               read : SUBSET Columns, telling : SUBSET Columns,
               mask : LevelMaps, firm : SUBSET Columns]
ChangeType == [old : Shapes \cup {NoRow}, new : Shapes \cup {NoRow}, detail : Diff]
Parts ==
    /\ upstream \in Shapes \cup {NoRow}
    /\ Counted
    /\ stored \in Shapes \cup {NoRow, Unread}
    /\ rows \in [Columns -> Row]
    /\ change \in ChangeType
    /\ scan \in ScanType
    /\ walk \in WalkType
    /\ sample \in SampleType
    /\ said \in [Columns -> Said]

LEMMA TypeParts == TypeOK <=> Parts
  BY DEF TypeOK, Parts, Counted, WalkType, SampleType, ChangeType, ScanType, Steps, Holding

LEMMA TypePartsNext == TypeOK' <=> Parts'
  BY DEF TypeOK, Parts, Counted, WalkType, SampleType, ChangeType, ScanType, Steps, Holding

\* A scan's fields may be set one by one.
LEMMA ScanFields ==
  ASSUME scan \in ScanType, NEW pc \in Steps, NEW force \in BOOLEAN,
         NEW shape \in Shapes \cup {NoRow}, NEW levels \in [Columns -> Levels \cup {None}]
  PROVE  /\ [scan EXCEPT !.pc = pc] \in ScanType
         /\ [scan EXCEPT !.pc = pc, !.force = force] \in ScanType
         /\ [scan EXCEPT !.pc = pc, !.shape = shape] \in ScanType
         /\ [scan EXCEPT !.pc = pc, !.levels = levels] \in ScanType
         /\ [scan EXCEPT !.pc = pc].pc = pc
         /\ [scan EXCEPT !.pc = pc].shape = scan.shape
  BY DEF ScanType

LEMMA LeaveType ==
  ASSUME Leave
  PROVE  scan' \in ScanType /\ InHand' /\ scan'.pc = "away"
  BY DEF Leave, ScanType, InHand, Holding, Steps, NoLevels

\* The difference of two maps of columns names columns.
LEMMA DifferenceType ==
  ASSUME NEW old, NEW new
  PROVE  Difference(old, new) \in Diff /\ NoDiff \in Diff
  BY DEF Difference, Diff, NoDiff, Present

\* What goes with the rows keeps the types of the auxiliary variables.
LEMMA ForgottenType ==
  ASSUME Parts, NEW new, Forgotten(new)
  PROVE  walk' \in WalkType /\ sample' \in SampleType /\ said' \in [Columns -> Said]
  <1>1. said' \in [Columns -> Said]
    BY DEF Parts, Forgotten, Said, Nothing
  <1>2. walk' \in WalkType
    BY DEF Parts, Forgotten, WalkType
  <1>3. sample' \in SampleType
    BY DEF Parts, Forgotten, SampleType
  <1> QED
    BY <1>1, <1>2, <1>3

\* A verdict is a level, or none.
LEMMA JudgedType ==
  ASSUME NEW telling
  PROVE  /\ \A c \in Columns : Level(c, telling) \in Levels \cup {None}
         /\ Judged(telling) \in [Columns -> Levels \cup {None}]
  BY ColumnsAssumption DEF Level, Judged, Levels

\* What is looked up for a sample gives each column a level, or none.
LEMMA KnownType ==
  ASSUME rows \in [Columns -> Row], NEW named, NEW failed
  PROVE  Known(named, failed) \subseteq LevelMaps
  <1>1. NoLevels \in LevelMaps
    BY DEF NoLevels, LevelMaps
  <1>2. OnRecord \in LevelMaps
    BY DEF OnRecord, LevelMaps, Row
  <1> QED
    BY <1>1, <1>2, ColumnsAssumption DEF Known

\* The steps of a scan up to the writing of columns.
LEMMA ScanReadsType ==
  ASSUME Typed, Visit \/ ReadSchema \/ ReadFails \/ Compare \/ RecordChange
                \/ UpsertContainer \/ PassBy
  PROVE  Typed'
  <1> USE TypeParts, TypePartsNext
  <1>1. Parts /\ InHand /\ scan \in ScanType
    BY DEF Typed, Parts
  <1>2. Elsewhere => UNCHANGED <<upstream, turns, notes, reads, crashes>>
    BY DEF Elsewhere, sourceVars
  <1>3. CASE Visit
    <2>1. scan' \in ScanType /\ scan'.pc = "read"
      <3>1. PICK force \in BOOLEAN : scan' = [scan EXCEPT !.pc = "read", !.force = force]
        BY <1>3 DEF Visit
      <3> QED
        BY <1>1, <3>1 DEF ScanType, Steps
    <2>2. scans' \in Nat
      <3>1. scans' = scans + 1
        BY <1>3 DEF Visit
      <3> QED
        BY <1>1, <3>1 DEF Parts, Counted
    <2>3. Parts'
      BY <1>1, <1>2, <1>3, <2>1, <2>2 DEF Visit, Parts, Counted
    <2> QED
      BY <2>1, <2>3 DEF Typed, InHand, Holding
  <1>4. CASE PassBy
    <2>1. scan' \in ScanType /\ scan'.pc = "missed"
      BY <1>1, <1>4 DEF PassBy, ScanType, Steps
    <2>2. scans' \in Nat
      BY <1>1, <1>4 DEF PassBy, Parts, Counted
    <2>3. Parts'
      BY <1>1, <1>2, <1>4, <2>1, <2>2 DEF PassBy, Parts, Counted
    <2> QED
      BY <2>1, <2>3 DEF Typed, InHand, Holding
  <1>5. CASE ReadSchema
    <2>1. scan' \in ScanType /\ scan'.shape \in Shapes
      BY <1>1, <1>5 DEF ReadSchema, Parts, ScanType, Steps, Holding
    <2>2. Parts'
      BY <1>1, <1>2, <1>5, <2>1 DEF ReadSchema, OnlyScan, Parts, Counted
    <2> QED
      BY <2>1, <2>2 DEF Typed, InHand
  <1>6. CASE ReadFails
    <2>1. Parts'
      BY <1>1, <1>2, <1>6, LeaveType DEF ReadFails, Parts, Counted
    <2> QED
      BY <1>6, <2>1, LeaveType DEF Typed, ReadFails
  <1>7. CASE Compare
    <2>1. scan' \in ScanType /\ InHand'
      <3>1. CASE scan' = [scan EXCEPT !.pc = "upsert"] \/ scan' = [scan EXCEPT !.pc = "change"]
        BY <1>1, <1>7, <3>1 DEF Compare, At, InHand, Holding, ScanType, Steps
      <3> QED
        BY <1>7, <3>1, LeaveType DEF Compare
    <2>2. Parts'
      BY <1>1, <1>2, <1>7, <2>1 DEF Compare, OnlyScan, Parts, Counted
    <2> QED
      BY <2>1, <2>2 DEF Typed
  <1>8. CASE RecordChange
    <2>1. scan' \in ScanType /\ InHand'
      BY <1>1, <1>8 DEF RecordChange, At, InHand, Holding, ScanType, Steps
    <2>2. scan.shape \in Shapes \cup {NoRow} /\ StoredHash \in Shapes \cup {NoRow}
      BY <1>1 DEF Parts, ScanType, StoredHash
    <2>3. change' \in ChangeType
      BY <1>8, <2>2, DifferenceType DEF RecordChange, ChangeType
    <2>4. Parts'
      BY <1>1, <1>2, <1>8, <2>1, <2>3 DEF RecordChange, Parts, Counted
    <2> QED
      BY <2>1, <2>4 DEF Typed
  <1>9. CASE UpsertContainer
    <2>1. scan' \in ScanType /\ InHand' /\ scan.shape \in Shapes
      BY <1>1, <1>9 DEF UpsertContainer, At, InHand, Holding, ScanType, Steps
    <2>2. Parts'
      BY <1>1, <1>2, <1>9, <2>1 DEF UpsertContainer, Parts, Counted
    <2> QED
      BY <2>1, <2>2 DEF Typed
  <1> QED
    BY <1>3, <1>4, <1>5, <1>6, <1>7, <1>8, <1>9

\* The steps of a scan that write column rows, and the verdicts before them.
LEMMA ScanWritesType ==
  ASSUME Typed, ReplaceColumns \/ Judge \/ RecordSensitivity \/ ForgetContainer
  PROVE  Typed'
  <1> USE TypeParts, TypePartsNext
  <1>1. Parts /\ InHand /\ scan \in ScanType /\ rows \in [Columns -> Row]
    BY DEF Typed, Parts
  <1>2. Elsewhere => UNCHANGED <<upstream, turns, notes, reads, crashes>>
    BY DEF Elsewhere, sourceVars
  <1>3. EmptyRow \in Row
    BY DEF EmptyRow, Row
  <1>4. CASE ReplaceColumns
    <2>1. scan.shape \in Shapes /\ scan' \in ScanType /\ InHand'
      BY <1>1, <1>4 DEF ReplaceColumns, At, InHand, Holding, ScanType, Steps
    <2>2. \A c \in Columns : Upserted(c) \in Row
      <3>1. \A c \in Columns : scan.shape[c].ordinal \in Nat /\ scan.shape[c].type \in Types
        BY <2>1, ColumnsAssumption
      <3> QED
        BY <1>1, <3>1 DEF Upserted, Row
    <2>3. rows' \in [Columns -> Row]
      BY <1>3, <1>4, <2>2 DEF ReplaceColumns
    <2>4. walk' \in WalkType /\ sample' \in SampleType /\ said' \in [Columns -> Said]
      <3>1. Forgotten(rows')
        BY <1>4 DEF ReplaceColumns
      <3> QED
        BY <1>1, <3>1, ForgottenType
    <2>5. UNCHANGED <<stored, change, scans>>
      BY <1>4 DEF ReplaceColumns
    <2>6. Parts'
      BY <1>1, <1>2, <1>4, <2>1, <2>3, <2>4, <2>5 DEF ReplaceColumns, Parts, Counted
    <2> QED
      BY <2>1, <2>6 DEF Typed
  <1>5. CASE Judge
    <2>1. scan' \in ScanType /\ InHand'
      <3>1. PICK telling \in SUBSET Unnamed(Present(scan.shape)) :
              scan' = [scan EXCEPT !.pc = "mark", !.levels = Judged(telling)]
        BY <1>5 DEF Judge
      <3>2. Judged(telling) \in [Columns -> Levels \cup {None}]
        BY JudgedType
      <3> QED
        BY <1>1, <1>5, <3>1, <3>2 DEF Judge, At, InHand, Holding, ScanType, Steps
    <2>2. Parts'
      BY <1>1, <1>2, <1>5, <2>1 DEF Judge, OnlyScan, Parts, Counted
    <2> QED
      BY <2>1, <2>2 DEF Typed
  <1>6. CASE RecordSensitivity
    <2>1. scan' \in ScanType /\ InHand'
      BY <1>6, LeaveType DEF RecordSensitivity
    <2>2. \A c \in Columns :
            [rows[c] EXCEPT !.level = scan.levels[c], !.levelBy = "detected"] \in Row
      <3>1. \A c \in Columns : scan.levels[c] \in Levels \cup {None} /\ "detected" \in Sources
        BY <1>1 DEF ScanType, Sources
      <3> QED
        BY <1>1, <3>1 DEF Row
    <2>3. rows' \in [Columns -> Row]
      BY <1>1, <1>6, <2>2 DEF RecordSensitivity
    <2>4. UNCHANGED <<stored, change, scans, walk, sample, said>>
      BY <1>6 DEF RecordSensitivity
    <2>5. Parts'
      BY <1>1, <1>2, <1>6, <2>1, <2>3, <2>4 DEF RecordSensitivity, Parts, Counted
    <2> QED
      BY <2>1, <2>5 DEF Typed
  <1>7. CASE ForgetContainer
    <2>1. scan' \in ScanType /\ InHand'
      BY <1>7, LeaveType DEF ForgetContainer
    <2>2. rows' \in [Columns -> Row] /\ change' \in ChangeType /\ stored' = NoRow
      BY <1>3, <1>7, DifferenceType DEF ForgetContainer, ChangeType
    <2>3. walk' \in WalkType /\ sample' \in SampleType /\ said' \in [Columns -> Said]
      <3>1. Forgotten(rows')
        BY <1>7 DEF ForgetContainer
      <3> QED
        BY <1>1, <3>1, ForgottenType
    <2>4. scans' = scans
      BY <1>7 DEF ForgetContainer
    <2>5. Parts'
      BY <1>1, <1>2, <1>7, <2>1, <2>2, <2>3, <2>4 DEF ForgetContainer, Parts, Counted
    <2> QED
      BY <2>1, <2>5 DEF Typed
  <1> QED
    BY <1>4, <1>5, <1>6, <1>7

\* What callers write.
LEMMA NotesType ==
  ASSUME Typed, NEW c \in Columns, NEW by \in Callers, Describe(c, by) \/ Mark(c, by)
  PROVE  Typed'
  <1> USE TypeParts, TypePartsNext
  <1>1. Parts /\ InHand /\ rows \in [Columns -> Row] /\ said \in [Columns -> Said]
        /\ sample \in SampleType /\ notes \in Nat
    BY DEF Typed, Parts, Counted
  <1>2. by \in Callers \cup {None} /\ by \in Sources \cup {None}
    BY DEF Sources
  <1>3. CASE Describe(c, by)
    <2>1. PICK text \in Texts \cup {None} :
            /\ rows' = [rows EXCEPT ![c].text = text, ![c].textBy = by]
            /\ said' = [said EXCEPT ![c].text = text, ![c].textBy = by]
      BY <1>3 DEF Describe
    <2>2. rows' \in [Columns -> Row]
      BY <1>1, <1>2, <2>1, ZenonT(60) DEF Row
    <2>3. said' \in [Columns -> Said]
      BY <1>1, <1>2, <2>1 DEF Said
    <2>4. notes' \in Nat /\ UNCHANGED <<upstream, turns, stored, change, scan, scans, reads,
                                       crashes, walk, sample>>
      <3>1. notes' = notes + 1 /\ UNCHANGED <<sourceVars, stored, change, scan, scans,
                                             reads, crashes, walk, sample>>
        BY <1>3 DEF Describe
      <3> QED
        BY <1>1, <3>1 DEF sourceVars
    <2> QED
      BY <1>1, <2>2, <2>3, <2>4 DEF Typed, Parts, Counted, InHand
  <1>4. CASE Mark(c, by)
    <2>1. PICK level \in Levels :
            /\ rows' = [rows EXCEPT ![c].level = level, ![c].levelBy = by]
            /\ said' = [said EXCEPT ![c].level = level, ![c].levelBy = by]
      BY <1>4 DEF Mark
    <2>2. rows' \in [Columns -> Row]
      BY <1>1, <1>2, <2>1, ZenonT(60) DEF Row
    <2>3. said' \in [Columns -> Said]
      BY <1>1, <1>2, <2>1 DEF Said
    <2>4. notes' \in Nat /\ UNCHANGED <<upstream, turns, stored, change, scan, scans, reads,
                                       crashes, walk>>
      <3>1. notes' = notes + 1 /\ UNCHANGED <<sourceVars, stored, change, scan, scans,
                                             reads, crashes, walk>>
        BY <1>4 DEF Mark
      <3> QED
        BY <1>1, <3>1 DEF sourceVars
    <2>5. sample' \in SampleType
      BY <1>1, <1>4 DEF Mark, SampleType
    <2> QED
      BY <1>1, <2>2, <2>3, <2>4, <2>5 DEF Typed, Parts, Counted, InHand
  <1> QED
    BY <1>3, <1>4

\* What clients read.
LEMMA ReadsType ==
  ASSUME Typed, BeginWalk \/ NextPage \/ LastPage \/ ReadSample \/ MaskSample
  PROVE  Typed'
  <1> USE TypeParts, TypePartsNext
  <1>1. Parts /\ InHand /\ walk \in WalkType /\ sample \in SampleType /\ reads \in Nat
        /\ rows \in [Columns -> Row]
    BY DEF Typed, Parts, Counted
  <1>2. \A page : Given(page) \in [Columns -> Nat]
    BY <1>1 DEF Given, WalkType
  <1>3. OnlyWalk => UNCHANGED <<upstream, turns, stored, rows, change, scan, scans, notes,
                                reads, crashes, sample, said>>
    BY DEF OnlyWalk, sourceVars
  <1>4. CASE BeginWalk
    <2>1. walk' \in WalkType
      BY <1>4 DEF BeginWalk, WalkType, Present
    <2>2. reads' \in Nat /\ UNCHANGED <<upstream, turns, stored, rows, change, scan, scans,
                                       notes, crashes, sample, said>>
      BY <1>1, <1>4 DEF BeginWalk, sourceVars
    <2> QED
      BY <1>1, <2>1, <2>2 DEF Typed, Parts, Counted, InHand
  <1>5. CASE NextPage
    <2>1. PICK last \in ColumnsPage(walk.cursor) :
            walk' = [walk EXCEPT !.cursor = rows[last].ordinal,
                                 !.got = Given(ColumnsPage(walk.cursor))]
      BY <1>5 DEF NextPage
    <2>2. rows[last].ordinal \in Nat
      BY <1>1 DEF ColumnsPage, After, Row
    <2>3. walk' \in WalkType
      BY <1>1, <1>2, <2>1, <2>2 DEF WalkType
    <2> QED
      BY <1>1, <1>3, <1>5, <2>3 DEF NextPage, Typed, Parts, Counted, InHand
  <1>6. CASE LastPage
    <2>1. walk' \in WalkType
      BY <1>1, <1>2, <1>6 DEF LastPage, WalkType
    <2> QED
      BY <1>1, <1>3, <1>6, <2>1 DEF LastPage, Typed, Parts, Counted, InHand
  <1>7. CASE ReadSample
    <2>1. sample' \in SampleType
      <3>1. PICK telling \in SUBSET Unnamed(Present(upstream)) : \E named \in BOOLEAN :
              sample' = [pc |-> "read", named |-> named, failed |-> FALSE,
                         read |-> Present(upstream), telling |-> telling,
                         mask |-> NoLevels, firm |-> Columns]
        BY <1>7 DEF ReadSample
      <3> QED
        BY <3>1 DEF SampleType, LevelMaps, NoLevels, Unnamed, Present
    <2>2. reads' \in Nat /\ UNCHANGED <<upstream, turns, stored, rows, change, scan, scans,
                                       notes, crashes, walk, said>>
      BY <1>1, <1>7 DEF ReadSample, sourceVars
    <2> QED
      BY <1>1, <2>1, <2>2 DEF Typed, Parts, Counted, InHand
  <1>8. CASE MaskSample
    <2>1. PICK failed \in BOOLEAN : \E known \in Known(sample.named, failed) :
            sample' = [sample EXCEPT !.pc = "answered", !.failed = failed,
                                     !.mask = Masked(known)]
      BY <1>8 DEF MaskSample
    <2>2. PICK known \in Known(sample.named, failed) :
            sample' = [sample EXCEPT !.pc = "answered", !.failed = failed,
                                     !.mask = Masked(known)]
      BY <2>1
    <2>3. sample' \in SampleType
      <3>1. known \in LevelMaps
        BY <1>1, <2>2, KnownType DEF Parts
      <3>2. Masked(known) \in LevelMaps
        BY <3>1, JudgedType DEF Masked, LevelMaps
      <3> HIDE DEF Masked
      <3> QED
        BY <1>1, <2>2, <3>2 DEF SampleType
    <2>4. UNCHANGED <<upstream, turns, stored, rows, change, scan, scans, notes, reads,
                      crashes, walk, said>>
      BY <1>8 DEF MaskSample, sourceVars
    <2> QED
      BY <1>1, <2>3, <2>4 DEF Typed, Parts, Counted, InHand
  <1> QED
    BY <1>4, <1>5, <1>6, <1>7, <1>8

\* The environment.
LEMMA EnvironmentType ==
  ASSUME Typed, ChangeSource \/ Crash
  PROVE  Typed'
  <1> USE TypeParts, TypePartsNext
  <1>1. Parts /\ InHand /\ sample \in SampleType /\ Counted
    BY DEF Typed, Parts
  <1>2. CASE ChangeSource
    <2>1. upstream' \in Shapes \cup {NoRow} /\ turns' \in Nat
      BY <1>1, <1>2 DEF ChangeSource, Counted
    <2> QED
      BY <1>1, <1>2, <2>1 DEF ChangeSource, Typed, Parts, Counted, InHand
  <1>3. CASE Crash
    <2>1. scan' \in ScanType /\ InHand'
      BY <1>3, LeaveType DEF Crash
    <2>2. sample' \in SampleType /\ crashes' \in Nat
      BY <1>1, <1>3 DEF Crash, SampleType, Counted
    <2>3. UNCHANGED <<upstream, turns, stored, rows, change, scans, notes, reads, walk, said>>
      BY <1>3 DEF Crash, sourceVars
    <2> QED
      BY <1>1, <2>1, <2>2, <2>3 DEF Typed, Parts, Counted
  <1> QED
    BY <1>2, <1>3

LEMMA InitTyped == Init => Typed
  <1> SUFFICES ASSUME Init PROVE Typed
    OBVIOUS
  <1>1. EmptyRow \in Row /\ Nothing \in Said /\ NoDiff \in Diff
        /\ NoLevels \in [Columns -> Levels \cup {None}]
    BY DEF EmptyRow, Row, Nothing, Said, NoDiff, Diff, NoLevels
  <1>2. Parts
    BY <1>1 DEF Init, Parts, Counted, ChangeType, ScanType, Steps, WalkType, SampleType, LevelMaps
  <1> QED
    BY <1>2, TypeParts DEF Init, Typed, InHand, Holding

\* Every step keeps both.
LEMMA TypedStep ==
  ASSUME Typed, [Next]_vars
  PROVE  Typed'
  <1>1. CASE Scan
    BY <1>1, ScanReadsType, ScanWritesType DEF Scan
  <1>2. CASE \E c \in Columns, by \in Callers : Describe(c, by) \/ Mark(c, by)
    BY <1>2, NotesType
  <1>3. CASE BeginWalk \/ NextPage \/ LastPage \/ ReadSample \/ MaskSample
    BY <1>3, ReadsType
  <1>4. CASE ChangeSource \/ Crash
    BY <1>4, EnvironmentType
  <1>5. CASE UNCHANGED vars
    <2>1. UNCHANGED <<upstream, turns, stored, rows, change, scan, scans, notes, reads,
                      crashes, walk, sample, said>>
      BY <1>5 DEF vars, sourceVars
    <2> QED
      BY <2>1, TypeParts, TypePartsNext DEF Typed, Parts, Counted, InHand
  <1> QED
    BY <1>1, <1>2, <1>3, <1>4, <1>5 DEF Next

\* The state keeps its types, and a scan that writes a container's shape holds
\* one it has read, whatever the source does and whoever writes in between.
THEOREM ColumnsTyped == Spec => [](TypeOK /\ InHand)
  <1>1. Typed /\ [Next]_vars => Typed'
    BY TypedStep
  <1>2. Typed => TypeOK /\ InHand
    BY DEF Typed
  <1> QED
    BY <1>1, <1>2, InitTyped, PTL DEF Spec

-----------------------------------------------------------------------------
(* What callers wrote *)

\* A level has an author: detection tells its own verdicts from a caller's by
\* that.
Signed ==
    \A c \in Columns : /\ said[c].level # None => said[c].levelBy \in Callers
                       /\ rows[c].levelBy # None => rows[c].level # None
Written == WrittenSurvives /\ Signed

\* Whatever else happens leaves the rows and what was written on them alone.
Writes == ReplaceColumns \/ RecordSensitivity \/ ForgetContainer
          \/ \E c \in Columns, by \in Callers : Describe(c, by) \/ Mark(c, by)

LEMMA RowsKept ==
  ASSUME [Next]_vars, ~Writes
  PROVE  UNCHANGED <<rows, said>>
  <1>1. CASE Scan
    BY <1>1 DEF Scan, Writes, Visit, ReadSchema, ReadFails, Compare, RecordChange,
                UpsertContainer, Judge, PassBy, OnlyScan
  <1>2. CASE BeginWalk \/ NextPage \/ LastPage \/ ReadSample \/ MaskSample
    BY <1>2 DEF BeginWalk, NextPage, LastPage, ReadSample, MaskSample, OnlyWalk
  <1>3. CASE ChangeSource \/ Crash
    BY <1>3 DEF ChangeSource, Crash
  <1>4. CASE UNCHANGED vars
    BY <1>4 DEF vars
  <1> QED
    BY <1>1, <1>2, <1>3, <1>4 DEF Next, Writes

LEMMA WrittenStep ==
  ASSUME Typed, Written, [Next]_vars
  PROVE  Written'
  <1>1. rows \in [Columns -> Row] /\ said \in [Columns -> Said]
    BY DEF Typed, TypeOK
  <1>2. CASE ReplaceColumns
    <2>1. \A c \in Columns : rows'[c] = IF c \in Present(scan.shape) THEN Upserted(c) ELSE EmptyRow
      BY <1>2 DEF ReplaceColumns
    <2>2. \A c \in Columns : c \in Present(scan.shape) =>
            /\ rows'[c].ordinal # 0
            /\ rows'[c].text = rows[c].text /\ rows'[c].textBy = rows[c].textBy
            /\ rows'[c].level = rows[c].level /\ rows'[c].levelBy = rows[c].levelBy
      BY <1>1, <2>1 DEF Upserted, Present, Row
    <2>3. \A c \in Columns : c \notin Present(scan.shape) =>
            rows'[c] = EmptyRow /\ rows'[c].ordinal = 0
      BY <2>1 DEF EmptyRow
    <2>4. \A c \in Columns : said'[c] = IF c \in Present(scan.shape) THEN said[c] ELSE Nothing
      BY <1>2, <2>2, <2>3 DEF ReplaceColumns, Forgotten
    <2>5. \A c \in Columns : c \in Present(scan.shape) =>
            /\ rows'[c].text = said'[c].text /\ rows'[c].textBy = said'[c].textBy
            /\ said'[c].level # None =>
                 rows'[c].level = said'[c].level /\ rows'[c].levelBy = said'[c].levelBy
            /\ said'[c].level # None => said'[c].levelBy \in Callers
            /\ rows'[c].levelBy # None => rows'[c].level # None
      BY <2>2, <2>4 DEF Written, WrittenSurvives, Signed
    <2> QED
      BY <2>3, <2>4, <2>5 DEF Written, WrittenSurvives, Signed, EmptyRow, Nothing
  <1>3. CASE RecordSensitivity
    <2>1. said' = said
      BY <1>3 DEF RecordSensitivity
    <2>2. \A c \in Columns :
            \/ rows'[c] = rows[c]
            \/ /\ MayJudge(c) /\ scan.levels[c] # None
               /\ rows'[c] = [rows[c] EXCEPT !.level = scan.levels[c], !.levelBy = "detected"]
      BY <1>3 DEF RecordSensitivity
    <2>3. \A c \in Columns : MayJudge(c) => said[c].level = None
      BY ColumnsAssumption DEF MayJudge, Written, WrittenSurvives, Signed, Sources
    <2>4. \A c \in Columns :
            \/ rows'[c] = rows[c]
            \/ /\ said[c].level = None
               /\ rows'[c].text = rows[c].text /\ rows'[c].textBy = rows[c].textBy
               /\ rows'[c].level # None
      <3> SUFFICES ASSUME NEW c \in Columns, rows'[c] # rows[c]
                   PROVE  /\ said[c].level = None
                          /\ rows'[c].text = rows[c].text /\ rows'[c].textBy = rows[c].textBy
                          /\ rows'[c].level # None
        OBVIOUS
      <3>1. /\ MayJudge(c) /\ scan.levels[c] # None
            /\ rows'[c] = [rows[c] EXCEPT !.level = scan.levels[c], !.levelBy = "detected"]
        BY <2>2
      <3>2. rows[c] \in Row
        BY <1>1
      <3>3. /\ rows'[c].text = rows[c].text /\ rows'[c].textBy = rows[c].textBy
            /\ rows'[c].level = scan.levels[c]
        BY <3>1, <3>2 DEF Row
      <3> QED
        BY <3>1, <3>3, <2>3
    <2> QED
      BY <2>1, <2>4 DEF Written, WrittenSurvives, Signed
  <1>4. CASE ForgetContainer
    <2>1. \A c \in Columns : rows'[c] = EmptyRow /\ rows'[c].ordinal = 0
      BY <1>4 DEF ForgetContainer, EmptyRow
    <2>2. \A c \in Columns : said'[c] = Nothing
      BY <1>4, <2>1 DEF ForgetContainer, Forgotten
    <2> QED
      BY <2>1, <2>2 DEF Written, WrittenSurvives, Signed, EmptyRow, Nothing
  <1>5. ASSUME NEW c \in Columns, NEW by \in Callers, Describe(c, by)
        PROVE  Written'
    <2>1. PICK text \in Texts \cup {None} :
            /\ rows' = [rows EXCEPT ![c].text = text, ![c].textBy = by]
            /\ said' = [said EXCEPT ![c].text = text, ![c].textBy = by]
      BY <1>5 DEF Describe
    <2>2. \A b \in Columns : /\ rows'[b].level = rows[b].level
                             /\ rows'[b].levelBy = rows[b].levelBy
                             /\ said'[b].level = said[b].level
                             /\ said'[b].levelBy = said[b].levelBy
                             /\ b # c => rows'[b] = rows[b] /\ said'[b] = said[b]
      BY <1>1, <2>1 DEF Row, Said
    <2>3. rows'[c].text = said'[c].text /\ rows'[c].textBy = said'[c].textBy
      BY <1>1, <2>1 DEF Row, Said
    <2> QED
      BY <2>2, <2>3 DEF Written, WrittenSurvives, Signed
  <1>6. ASSUME NEW c \in Columns, NEW by \in Callers, Mark(c, by)
        PROVE  Written'
    <2>1. PICK level \in Levels :
            /\ rows' = [rows EXCEPT ![c].level = level, ![c].levelBy = by]
            /\ said' = [said EXCEPT ![c].level = level, ![c].levelBy = by]
      BY <1>6 DEF Mark
    <2>2. \A b \in Columns : /\ rows'[b].text = rows[b].text
                             /\ rows'[b].textBy = rows[b].textBy
                             /\ said'[b].text = said[b].text
                             /\ said'[b].textBy = said[b].textBy
                             /\ b # c => rows'[b] = rows[b] /\ said'[b] = said[b]
      BY <1>1, <2>1 DEF Row, Said
    <2>3. /\ rows'[c].level = level /\ said'[c].level = level
          /\ rows'[c].levelBy = by /\ said'[c].levelBy = by
      BY <1>1, <2>1 DEF Row, Said
    <2>4. level # None
      BY ColumnsAssumption
    <2> QED
      BY <2>2, <2>3, <2>4 DEF Written, WrittenSurvives, Signed
  <1>7. CASE ~Writes
    BY <1>7, RowsKept DEF Written, WrittenSurvives, Signed
  <1> QED
    BY <1>2, <1>3, <1>4, <1>5, <1>6, <1>7 DEF Writes

LEMMA InitWritten == Init => Written
  BY DEF Init, Written, WrittenSurvives, Signed, EmptyRow, Nothing

\* Whatever scans, detection, failed reads and crashes come in between, a
\* column's row holds the last description and the last level callers gave it,
\* with their author, until the column goes: for any columns and any callers.
THEOREM WhatIsWrittenSurvives == Spec => []WrittenSurvives
  <1>1. Spec => []Typed
    BY ColumnsTyped DEF Typed
  <1>2. Typed /\ Written /\ [Next]_vars => Written'
    BY WrittenStep
  <1>3. Written => WrittenSurvives
    BY DEF Written
  <1> QED
    BY <1>1, <1>2, <1>3, InitWritten, PTL DEF Spec

\* A step leaves what callers wrote on a column and its claim to decide a
\* sample alone, or the column is marked, or gone: then it claims nothing.
LEMMA FirmStands ==
  ASSUME Typed, [Next]_vars, NEW c \in Columns, sample.pc = "answered",
         sample'.pc = "answered"
  PROVE  /\ sample'.read = sample.read /\ sample'.mask = sample.mask
         /\ sample'.named = sample.named /\ sample'.failed = sample.failed
         /\ c \in sample'.firm => c \in sample.firm /\ said'[c].level = said[c].level
  <1>1. sample \in SampleType /\ said \in [Columns -> Said]
    BY TypeParts DEF Typed, Parts
  <1>2. CASE ReplaceColumns \/ ForgetContainer
    <2>1. PICK new : Forgotten(new)
      BY <1>2 DEF ReplaceColumns, ForgetContainer
    <2>2. c \in sample'.firm => c \in sample.firm /\ said'[c] = said[c]
      BY <1>1, <2>1 DEF Forgotten, SampleType
    <2>3. /\ sample'.read = sample.read /\ sample'.mask = sample.mask
          /\ sample'.named = sample.named /\ sample'.failed = sample.failed
      BY <1>1, <2>1 DEF Forgotten, SampleType
    <2> QED
      BY <2>2, <2>3
  <1>3. ASSUME NEW b \in Columns, NEW by \in Callers, Describe(b, by)
        PROVE  /\ sample' = sample
               /\ said'[c].level = said[c].level
    BY <1>1, <1>3 DEF Describe, Said
  <1>4. ASSUME NEW b \in Columns, NEW by \in Callers, Mark(b, by)
        PROVE  /\ sample'.read = sample.read /\ sample'.mask = sample.mask
               /\ sample'.named = sample.named /\ sample'.failed = sample.failed
               /\ c \in sample'.firm => c \in sample.firm /\ said'[c].level = said[c].level
    BY <1>1, <1>4 DEF Mark, Said, SampleType
  <1>5. CASE RecordSensitivity
    BY <1>5 DEF RecordSensitivity
  <1>6. CASE ReadSample \/ MaskSample
    BY <1>6 DEF ReadSample, MaskSample
  <1>7. CASE Crash
    BY <1>1, <1>7 DEF Crash, SampleType
  <1>8. CASE ~Writes /\ ~ReadSample /\ ~MaskSample /\ ~Crash
    <2>1. said' = said
      BY <1>8, RowsKept
    <2>2. sample' = sample
      <3>1. CASE Scan
        BY <1>8, <3>1 DEF Scan, Writes, Visit, ReadSchema, ReadFails, Compare, RecordChange,
                          UpsertContainer, Judge, PassBy, OnlyScan
      <3>2. CASE BeginWalk \/ NextPage \/ LastPage \/ ChangeSource
        BY <3>2 DEF BeginWalk, NextPage, LastPage, OnlyWalk, ChangeSource
      <3>3. CASE UNCHANGED vars
        BY <3>3 DEF vars
      <3> QED
        BY <1>8, <3>1, <3>2, <3>3 DEF Next, Writes
    <2> QED
      BY <2>1, <2>2
  <1> QED
    BY <1>2, <1>3, <1>4, <1>5, <1>6, <1>7, <1>8 DEF Writes

\* Masking by what is on record: what a caller said is what is on record.
LEMMA MaskedAsSaid ==
  ASSUME Typed, Written, MaskSample
  PROVE  FoundMarksDecide'
  <1> SUFFICES ASSUME ~sample'.failed, Finds(sample'.named)
               PROVE  MarksHold'
    BY DEF FoundMarksDecide
  <1>1. sample \in SampleType /\ said' = said
    BY TypeParts DEF Typed, Parts, MaskSample
  <1>2. PICK failed \in BOOLEAN : \E known \in Known(sample.named, failed) :
          sample' = [sample EXCEPT !.pc = "answered", !.failed = failed,
                                   !.mask = Masked(known)]
    BY DEF MaskSample
  <1>3. /\ ~failed /\ sample'.named = sample.named /\ sample'.read = sample.read
        /\ Finds(sample.named)
    BY <1>1, <1>2 DEF SampleType
  <1>4. sample' = [sample EXCEPT !.pc = "answered", !.failed = failed,
                                 !.mask = Masked(OnRecord)]
    BY <1>2, <1>3 DEF Known
  <1>5. sample'.mask = Masked(OnRecord)
    BY <1>1, <1>4 DEF SampleType
  <1>6. \A c \in Columns : c \in sample.read /\ rows[c].level # None =>
          sample'.mask[c] = IF rows[c].level = "none" THEN None ELSE rows[c].level
    BY <1>5 DEF Masked, OnRecord
  <1>7. \A c \in Columns : said[c].level # None => rows[c].level = said[c].level
    BY DEF Written, WrittenSurvives
  <1>8. sample'.read \subseteq Columns
    BY <1>1, <1>3 DEF SampleType
  <1> QED
    BY <1>1, <1>3, <1>6, <1>7, <1>8 DEF MarksHold

\* Whatever the engine and the order of its databases: whenever the lookup of
\* get_sample ends, and is of the container's own rows, a level that a caller
\* gave decides how the sample masks the column, however many scans and other
\* calls lie between.
THEOREM MarksDecide == Spec => []FoundMarksDecide
  <1>1. Spec => [](Typed /\ Written)
    <2>1. Spec => []Typed
      BY ColumnsTyped DEF Typed
    <2>2. Typed /\ Written /\ [Next]_vars => Written'
      BY WrittenStep
    <2> QED
      BY <2>1, <2>2, InitWritten, PTL DEF Spec
  <1>2. Init => FoundMarksDecide
    BY DEF Init, FoundMarksDecide
  <1>3. Typed /\ Written /\ FoundMarksDecide /\ [Next]_vars => FoundMarksDecide'
    <2> SUFFICES ASSUME Typed, Written, FoundMarksDecide, [Next]_vars PROVE FoundMarksDecide'
      OBVIOUS
    <2>1. CASE MaskSample
      BY <2>1, MaskedAsSaid
    <2>2. CASE ~MaskSample /\ sample'.pc = "answered"
      <3>1. sample.pc = "answered"
        <4>1. sample \in SampleType
          BY TypeParts DEF Typed, Parts
        <4>2. CASE ReplaceColumns \/ ForgetContainer
          <5>1. PICK new : Forgotten(new)
            BY <4>2 DEF ReplaceColumns, ForgetContainer
          <5> QED
            BY <2>2, <4>1, <5>1 DEF Forgotten, SampleType
        <4>3. CASE ReadSample \/ Crash
          BY <2>2, <4>1, <4>3 DEF ReadSample, Crash, SampleType
        <4>4. CASE \E c \in Columns, by \in Callers : Describe(c, by) \/ Mark(c, by)
          BY <2>2, <4>1, <4>4 DEF Describe, Mark, SampleType
        <4>5. CASE Scan /\ ~ReplaceColumns /\ ~ForgetContainer
          BY <2>2, <4>5 DEF Scan, Visit, ReadSchema, ReadFails, Compare, RecordChange,
                            UpsertContainer, Judge, RecordSensitivity, PassBy, OnlyScan
        <4>6. CASE BeginWalk \/ NextPage \/ LastPage \/ ChangeSource
          BY <2>2, <4>6 DEF BeginWalk, NextPage, LastPage, OnlyWalk, ChangeSource
        <4>7. CASE UNCHANGED vars
          BY <2>2, <4>7 DEF vars
        <4> QED
          BY <2>2, <4>2, <4>3, <4>4, <4>5, <4>6, <4>7 DEF Next
      <3>2. sample'.read \subseteq Columns /\ sample'.firm \subseteq Columns
        <4>1. Typed'
          BY TypedStep
        <4> QED
          BY <4>1, TypePartsNext DEF Typed, Parts, SampleType
      <3> QED
        BY <2>2, <3>1, <3>2, FirmStands DEF FoundMarksDecide, MarksHold
    <2>3. CASE sample'.pc # "answered"
      BY <2>3 DEF FoundMarksDecide
    <2> QED
      BY <2>1, <2>2, <2>3
  <1> QED
    BY <1>1, <1>2, <1>3, PTL DEF Spec

-----------------------------------------------------------------------------
(* Pages of rows that are being rewritten *)

\* Of the columns that kept their place since the walk began, the client has
\* those up to its cursor, and none past it.
Got(c) == walk.got[c] = IF rows[c].ordinal <= walk.cursor THEN 1 ELSE 0
Walked ==
    /\ walk.pc = "off" => walk.steady = {}
    /\ \A c \in walk.steady :
          /\ rows[c].ordinal # 0
          /\ walk.pc = "on" => Got(c)
          /\ walk.pc = "over" => walk.got[c] = 1

\* A page is the rows up to its last one: none that comes before is left out.
LEMMA PageIsPrefix ==
  ASSUME NEW cursor, rows \in [Columns -> Row],
         NEW last \in ColumnsPage(cursor), NEW c \in After(cursor),
         rows[c].ordinal <= rows[last].ordinal
  PROVE  c \in ColumnsPage(cursor)
  <1> DEFINE Before(d) == {b \in After(cursor) : rows[b].ordinal < rows[d].ordinal}
  <1>1. \A d \in Columns : rows[d].ordinal \in Nat
    BY DEF Row
  <1>2. last \in Columns /\ c \in Columns /\ After(cursor) \subseteq Columns
    BY DEF ColumnsPage, After
  <1>3. Before(c) \subseteq Before(last)
    BY <1>1, <1>2
  <1>4. IsFiniteSet(Before(last))
    BY <1>2, ColumnsAssumption, FS_Subset
  <1>5. /\ Cardinality(Before(c)) \in Nat /\ Cardinality(Before(last)) \in Nat
        /\ Cardinality(Before(c)) <= Cardinality(Before(last))
    BY <1>3, <1>4, FS_Subset, FS_CardinalityType
  <1>6. Cardinality(Before(last)) < PageSize
    BY DEF ColumnsPage
  <1>7. Cardinality(Before(c)) < PageSize
    BY <1>5, <1>6, ColumnsAssumption
  <1> QED
    BY <1>7 DEF ColumnsPage

\* One more page.
LEMMA PageStep ==
  ASSUME Typed, Walked, NextPage \/ LastPage
  PROVE  Walked'
  <1> DEFINE page == ColumnsPage(walk.cursor)
  <1>1. walk \in WalkType /\ rows \in [Columns -> Row] /\ walk.cursor \in Nat
        /\ \A c \in Columns : rows[c].ordinal \in Nat
    BY TypeParts DEF Typed, Parts, WalkType, Row
  <1>2. rows' = rows /\ walk.pc = "on"
    BY DEF NextPage, LastPage, OnlyWalk
  <1>3. page \subseteq After(walk.cursor)
        /\ \A c \in Columns : c \in After(walk.cursor) <=> rows[c].ordinal > walk.cursor
    BY DEF ColumnsPage, After
  <1>4. \A c \in Columns : Given(page)[c] = IF c \in page THEN walk.got[c] + 1 ELSE walk.got[c]
    BY DEF Given
  <1>5. \A c \in walk.steady : c \in Columns /\ rows[c].ordinal # 0 /\ Got(c)
    BY <1>1, <1>2 DEF Walked, WalkType
  <1>6. CASE NextPage
    <2>1. PICK last \in page :
            /\ \A c \in page : rows[c].ordinal <= rows[last].ordinal
            /\ walk' = [walk EXCEPT !.cursor = rows[last].ordinal, !.got = Given(page)]
      BY <1>6 DEF NextPage
    <2>2. /\ walk'.pc = "on" /\ walk'.steady = walk.steady
          /\ walk'.cursor = rows[last].ordinal /\ walk'.got = Given(page)
      BY <1>1, <1>2, <2>1 DEF WalkType
    <2>3. last \in Columns /\ rows[last].ordinal > walk.cursor
      BY <1>3, <2>1 DEF After
    <2>4. \A c \in walk.steady : c \in page <=> /\ rows[c].ordinal > walk.cursor
                                                /\ rows[c].ordinal <= rows[last].ordinal
      BY <1>1, <1>3, <1>5, <2>1, PageIsPrefix
    <2>5. \A c \in walk.steady :
            Given(page)[c] = IF rows[c].ordinal <= rows[last].ordinal THEN 1 ELSE 0
      BY <1>1, <1>4, <1>5, <2>3, <2>4 DEF Got
    <2> QED
      BY <1>2, <1>5, <2>2, <2>5 DEF Walked, Got
  <1>7. CASE LastPage
    <2>1. /\ walk'.pc = "over" /\ walk'.steady = walk.steady /\ walk'.got = Given(page)
          /\ page = After(walk.cursor)
      BY <1>1, <1>7 DEF LastPage, WalkType
    <2>2. \A c \in walk.steady : Given(page)[c] = 1
      BY <1>1, <1>3, <1>4, <1>5, <2>1 DEF Got
    <2> QED
      BY <1>2, <1>5, <2>1, <2>2 DEF Walked
  <1> QED
    BY <1>6, <1>7

\* A column whose place changes is not one that kept it.
LEMMA SteadyStands ==
  ASSUME Typed, [Next]_vars, ~NextPage, ~LastPage, ~BeginWalk
  PROVE  /\ walk'.pc = walk.pc /\ walk'.cursor = walk.cursor /\ walk'.got = walk.got
         /\ walk'.steady \subseteq walk.steady
         /\ \A c \in walk'.steady : rows'[c].ordinal = rows[c].ordinal
  <1>1. walk \in WalkType /\ rows \in [Columns -> Row] /\ walk.steady \subseteq Columns
    BY TypeParts DEF Typed, Parts, WalkType
  <1>2. CASE ReplaceColumns \/ ForgetContainer
    <2>1. Forgotten(rows')
      BY <1>2 DEF ReplaceColumns, ForgetContainer
    <2> QED
      BY <1>1, <2>1 DEF Forgotten, WalkType
  <1>3. CASE RecordSensitivity
    <2>1. walk' = walk
      BY <1>3 DEF RecordSensitivity
    <2>2. \A c \in Columns :
            \/ rows'[c] = rows[c]
            \/ rows'[c] = [rows[c] EXCEPT !.level = scan.levels[c], !.levelBy = "detected"]
      BY <1>3 DEF RecordSensitivity
    <2>3. \A c \in Columns : rows'[c].ordinal = rows[c].ordinal
      BY <1>1, <2>2 DEF Row
    <2> QED
      BY <1>1, <2>1, <2>3
  <1>4. ASSUME NEW b \in Columns, NEW by \in Callers, Describe(b, by) \/ Mark(b, by)
        PROVE  walk' = walk /\ \A c \in Columns : rows'[c].ordinal = rows[c].ordinal
    <2>1. CASE Describe(b, by)
      <3>1. PICK text : rows' = [rows EXCEPT ![b].text = text, ![b].textBy = by]
        BY <2>1 DEF Describe
      <3> QED
        BY <1>1, <2>1, <3>1 DEF Describe, Row
    <2>2. CASE Mark(b, by)
      <3>1. PICK level : rows' = [rows EXCEPT ![b].level = level, ![b].levelBy = by]
        BY <2>2 DEF Mark
      <3> QED
        BY <1>1, <2>2, <3>1 DEF Mark, Row
    <2> QED
      BY <1>4, <2>1, <2>2
  <1>5. CASE ~Writes
    <2>1. rows' = rows
      BY <1>5, RowsKept
    <2>2. walk' = walk
      <3>1. CASE Scan
        BY <1>5, <3>1 DEF Scan, Writes, Visit, ReadSchema, ReadFails, Compare, RecordChange,
                          UpsertContainer, Judge, PassBy, OnlyScan
      <3>2. CASE ReadSample \/ MaskSample \/ ChangeSource \/ Crash
        BY <3>2 DEF ReadSample, MaskSample, ChangeSource, Crash
      <3>3. CASE UNCHANGED vars
        BY <3>3 DEF vars
      <3> QED
        BY <1>5, <3>1, <3>2, <3>3 DEF Next, Writes
    <2> QED
      BY <2>1, <2>2
  <1> QED
    BY <1>1, <1>2, <1>3, <1>4, <1>5 DEF Writes

LEMMA WalkedStep ==
  ASSUME Typed, Walked, [Next]_vars
  PROVE  Walked'
  <1>1. CASE NextPage \/ LastPage
    BY <1>1, PageStep
  <1>2. CASE BeginWalk
    <2>1. /\ walk' = [pc |-> "on", cursor |-> 0, got |-> [c \in Columns |-> 0],
                      steady |-> Present(rows)]
          /\ rows' = rows
      BY <1>2 DEF BeginWalk
    <2>2. \A c \in Present(rows) : c \in Columns /\ rows[c].ordinal \in Nat \ {0}
      BY TypeParts DEF Typed, Parts, Present, Row
    <2> QED
      BY <2>1, <2>2 DEF Walked, Got
  <1>3. CASE ~NextPage /\ ~LastPage /\ ~BeginWalk
    BY <1>3, SteadyStands DEF Walked, Got
  <1> QED
    BY <1>1, <1>2, <1>3

\* The pages of a container give a client every column that kept its place,
\* once: for any number of columns, any page size, and any scans, renumbered,
\* dropped and added columns between two pages.
THEOREM PagesAreExact == Spec => []PagesMissNothing
  <1>1. Spec => []Typed
    BY ColumnsTyped DEF Typed
  <1>2. Init => Walked
    BY DEF Init, Walked
  <1>3. Typed /\ Walked /\ [Next]_vars => Walked'
    BY WalkedStep
  <1>4. Typed /\ Walked => PagesMissNothing
    <2> SUFFICES ASSUME Typed, Walked PROVE PagesMissNothing
      OBVIOUS
    <2>1. walk \in WalkType
      BY TypeParts DEF Typed, Parts
    <2> QED
      BY <2>1 DEF Walked, Got, PagesMissNothing, WalkType
  <1> QED
    BY <1>1, <1>2, <1>3, <1>4, PTL DEF Spec

-----------------------------------------------------------------------------
(* Columns, hash and verdicts, without a crash *)

\* The columns on record are those of a shape.
Same(s) ==
    \A c \in Columns : /\ rows[c].ordinal # 0 <=> s[c].ordinal # 0
                       /\ rows[c].ordinal # 0 => rows[c].type = s[c].type

\* The hash vouches for the columns, but between the two transactions that
\* write them; and a scan that judges columns judges those on record.
Vouched ==
    /\ scan.pc \in {"columns", "judge", "mark"} => stored = scan.shape
    /\ stored \in Shapes /\ scan.pc # "columns" => Same(stored)

\* A name that tells has told, but between the writing of columns and of
\* verdicts, when the scan has the level in hand.
Told ==
    /\ scan.pc \notin {"judge", "mark"} =>
          \A c \in Present(rows) : NameLevel[c] # None => rows[c].level # None
    /\ scan.pc = "mark" =>
          \A c \in Present(scan.shape) : NameLevel[c] # None => scan.levels[c] # None

Uncrashed == crashes = 0 => Vouched /\ Told /\ DetailIsTheDifference

\* Steps that keep the shape of the rows, stored, the change and the scan.
LEMMA NotesKeepShapes ==
  ASSUME Typed, NEW b \in Columns, NEW by \in Callers, Describe(b, by) \/ Mark(b, by)
  PROVE  /\ UNCHANGED <<stored, change, scan, crashes>>
         /\ \A c \in Columns : /\ rows'[c].ordinal = rows[c].ordinal
                               /\ rows'[c].type = rows[c].type
                               /\ rows[c].level # None => rows'[c].level # None
  <1>1. rows \in [Columns -> Row]
    BY TypeParts DEF Typed, Parts
  <1>2. CASE Describe(b, by)
    <2>1. PICK text : rows' = [rows EXCEPT ![b].text = text, ![b].textBy = by]
      BY <1>2 DEF Describe
    <2>2. \A c \in Columns : /\ rows'[c].ordinal = rows[c].ordinal
                             /\ rows'[c].type = rows[c].type
                             /\ rows'[c].level = rows[c].level
      BY <1>1, <2>1 DEF Row
    <2> QED
      BY <1>2, <2>2 DEF Describe
  <1>3. CASE Mark(b, by)
    <2>1. PICK level \in Levels : rows' = [rows EXCEPT ![b].level = level, ![b].levelBy = by]
      BY <1>3 DEF Mark
    <2>2. \A c \in Columns : /\ rows'[c].ordinal = rows[c].ordinal
                             /\ rows'[c].type = rows[c].type
                             /\ rows'[c].level = IF c = b THEN level ELSE rows[c].level
      BY <1>1, <2>1 DEF Row
    <2>3. level # None
      BY ColumnsAssumption
    <2> QED
      BY <1>3, <2>2, <2>3 DEF Mark
  <1> QED
    BY <1>2, <1>3

\* What a scan records of a change, computed before it writes.
LEMMA RecordChangeStep ==
  ASSUME Typed, Vouched, Told, RecordChange
  PROVE  Vouched' /\ Told' /\ DetailIsTheDifference'
  <1>1. scan \in ScanType /\ stored \in Shapes \cup {NoRow, Unread} /\ scan.shape \in Shapes
    BY TypeParts DEF Typed, Parts, InHand, Holding, RecordChange, At
  <1>2. /\ scan.pc = "change" /\ scan'.pc = "upsert"
        /\ UNCHANGED <<rows, stored>>
    BY <1>1 DEF RecordChange, At, ScanType
  <1>3. /\ change'.old = StoredHash /\ change'.new = scan.shape
        /\ StoredHash # NoRow => change'.detail = Difference(rows, scan.shape)
    BY DEF RecordChange
  <1>4. StoredHash # NoRow => Difference(rows, scan.shape) = Difference(StoredHash, scan.shape)
    <2> SUFFICES ASSUME StoredHash # NoRow
                 PROVE  Difference(rows, scan.shape) = Difference(stored, scan.shape)
      BY DEF StoredHash
    <2>1. Same(stored)
      BY <1>1, <1>2 DEF Vouched, StoredHash
    <2>2. Present(rows) = Present(stored)
      BY <2>1 DEF Same, Present
    <2>3. \A c \in Present(rows) : rows[c].type = stored[c].type
      BY <2>1 DEF Same, Present
    <2> QED
      BY <2>2, <2>3 DEF Difference
  <1> QED
    BY <1>2, <1>3, <1>4 DEF Vouched, Same, Told, Present, DetailIsTheDifference

\* The columns are those of the hash written before them.
LEMMA ReplaceStep ==
  ASSUME Typed, Vouched, ReplaceColumns
  PROVE  Vouched' /\ Told'
  <1>1. scan \in ScanType /\ rows \in [Columns -> Row] /\ scan.shape \in Shapes
    BY TypeParts DEF Typed, Parts, InHand, Holding, ReplaceColumns, At
  <1>2. /\ scan.pc = "columns" /\ scan'.pc = "judge" /\ scan'.shape = scan.shape
        /\ stored' = stored /\ stored = scan.shape
    BY <1>1 DEF ReplaceColumns, At, ScanType, Vouched
  <1>3. \A c \in Columns : rows'[c] = IF c \in Present(scan.shape) THEN Upserted(c) ELSE EmptyRow
    BY DEF ReplaceColumns
  <1>4. \A c \in Columns : c \in Present(scan.shape) =>
          /\ rows'[c].ordinal = scan.shape[c].ordinal /\ scan.shape[c].ordinal # 0
          /\ rows'[c].type = scan.shape[c].type
    BY <1>1, <1>3 DEF Upserted, Present, Row
  <1>5. \A c \in Columns : c \notin Present(scan.shape) =>
          rows'[c].ordinal = 0 /\ scan.shape[c].ordinal = 0
    BY <1>3 DEF Present, EmptyRow
  <1> QED
    BY <1>2, <1>4, <1>5 DEF Vouched, Same, Told

\* Verdicts: what the scan may not overwrite has a level already.
LEMMA SensitivityStep ==
  ASSUME Typed, Signed, Vouched, Told, RecordSensitivity
  PROVE  Vouched' /\ Told'
  <1>1. scan \in ScanType /\ rows \in [Columns -> Row] /\ scan.shape \in Shapes
    BY TypeParts DEF Typed, Parts, InHand, Holding, RecordSensitivity, At
  <1>2. scan.pc = "mark" /\ scan'.pc = "away" /\ stored' = stored /\ stored = scan.shape
    BY <1>1 DEF RecordSensitivity, At, Leave, Vouched
  <1>3. \A c \in Columns : rows'[c] =
            IF scan.levels[c] # None /\ MayJudge(c)
            THEN [rows[c] EXCEPT !.level = scan.levels[c], !.levelBy = "detected"]
            ELSE rows[c]
    BY DEF RecordSensitivity
  <1>4. \A c \in Columns : /\ rows'[c].ordinal = rows[c].ordinal
                           /\ rows'[c].type = rows[c].type
    BY <1>1, <1>3 DEF Row
  <1>5. Same(stored)
    BY <1>1, <1>2 DEF Vouched
  <1>6. ASSUME NEW c \in Columns, rows'[c].ordinal # 0, NameLevel[c] # None
        PROVE  rows'[c].level # None
    <2>1. scan.levels[c] # None
      BY <1>2, <1>4, <1>5, <1>6 DEF Told, Same, Present
    <2>2. CASE MayJudge(c)
      <3>1. rows'[c] = [rows[c] EXCEPT !.level = scan.levels[c], !.levelBy = "detected"]
        BY <1>3, <2>1, <2>2
      <3>2. rows[c] \in Row
        BY <1>1
      <3>3. rows'[c].level = scan.levels[c]
        BY <3>1, <3>2 DEF Row
      <3> QED
        BY <2>1, <3>3
    <2>3. CASE ~MayJudge(c)
      <3>1. rows'[c] = rows[c] /\ rows[c].levelBy # None
        BY <1>3, <1>4, <1>6, <2>3 DEF MayJudge
      <3> QED
        BY <3>1 DEF Signed
    <2> QED
      BY <2>2, <2>3
  <1> QED
    BY <1>2, <1>4, <1>5, <1>6 DEF Vouched, Same, Told, Present

\* The other steps of a scan.
LEMMA OtherScanStep ==
  ASSUME Typed, Vouched, Told, DetailIsTheDifference,
         Visit \/ ReadSchema \/ ReadFails \/ Compare \/ UpsertContainer \/ Judge
           \/ PassBy \/ ForgetContainer
  PROVE  Vouched' /\ Told' /\ (crashes' = 0 => DetailIsTheDifference')
  <1>1. scan \in ScanType /\ NoRow \notin Shapes /\ Unread \notin Shapes
    BY TypeParts, ColumnsAssumption DEF Typed, Parts
  <1>2. CASE Visit \/ ReadSchema \/ PassBy
    <2>1. /\ scan'.pc \in {"read", "compare", "missed"}
          /\ scan.pc \in {"away", "read"}
          /\ UNCHANGED <<stored, rows, change, crashes>>
      BY <1>1, <1>2 DEF Visit, ReadSchema, PassBy, OnlyScan, Elsewhere, At, ScanType
    <2> QED
      BY <2>1 DEF Vouched, Same, Told, DetailIsTheDifference
  <1>3. CASE ReadFails
    BY <1>1, <1>3 DEF ReadFails, Leave, Elsewhere, At, Vouched, Told, Present,
                      DetailIsTheDifference
  <1>4. CASE Compare
    <2>1. /\ scan'.pc \in {"upsert", "away", "change"} /\ scan.pc = "compare"
          /\ UNCHANGED <<stored, rows, change, crashes>>
      BY <1>1, <1>4 DEF Compare, Leave, OnlyScan, Elsewhere, At, ScanType
    <2> QED
      BY <2>1 DEF Vouched, Same, Told, DetailIsTheDifference
  <1>5. CASE UpsertContainer
    <2>1. /\ scan'.pc = "columns" /\ scan'.shape = scan.shape /\ stored' = scan.shape
          /\ scan.pc = "upsert" /\ UNCHANGED <<rows, change, crashes>>
      BY <1>1, <1>5 DEF UpsertContainer, Elsewhere, At, ScanType
    <2> QED
      BY <2>1 DEF Vouched, Told, DetailIsTheDifference
  <1>6. CASE Judge
    <2>1. PICK telling : scan' = [scan EXCEPT !.pc = "mark", !.levels = Judged(telling)]
      BY <1>6 DEF Judge
    <2>2. /\ scan'.pc = "mark" /\ scan'.shape = scan.shape
          /\ scan'.levels = Judged(telling) /\ scan.pc = "judge"
          /\ UNCHANGED <<stored, rows, change, crashes>>
      BY <1>1, <1>6, <2>1 DEF Judge, OnlyScan, Elsewhere, At, ScanType
    <2>3. \A c \in Present(scan.shape) : NameLevel[c] # None => scan'.levels[c] # None
      BY <2>2 DEF Judged, Level, Present
    <2> QED
      BY <2>2, <2>3 DEF Vouched, Same, Told, DetailIsTheDifference
  <1>7. CASE ForgetContainer
    <2>1. /\ stored' = NoRow /\ scan'.pc = "away" /\ change'.old = NoRow
          /\ \A c \in Columns : rows'[c].ordinal = 0
      BY <1>7 DEF ForgetContainer, Leave, EmptyRow
    <2> QED
      BY <1>1, <2>1 DEF Vouched, Told, Present, DetailIsTheDifference
  <1> QED
    BY <1>2, <1>3, <1>4, <1>5, <1>6, <1>7

LEMMA UncrashedStep ==
  ASSUME Typed, Signed, Uncrashed, [Next]_vars
  PROVE  Uncrashed'
  <1> SUFFICES ASSUME crashes' = 0
               PROVE  Vouched' /\ Told' /\ DetailIsTheDifference'
    BY DEF Uncrashed
  <1>1. crashes \in Nat
    BY DEF Typed, TypeOK
  <1>2. CASE Crash
    BY <1>1, <1>2 DEF Crash
  <1>3. CASE RecordChange
    <2>1. crashes = 0
      BY <1>3 DEF RecordChange, Elsewhere
    <2> QED
      BY <1>3, <2>1, RecordChangeStep DEF Uncrashed
  <1>4. CASE ReplaceColumns
    <2>1. crashes = 0 /\ change' = change
      BY <1>4 DEF ReplaceColumns, Elsewhere
    <2>2. DetailIsTheDifference'
      BY <2>1 DEF Uncrashed, DetailIsTheDifference
    <2> QED
      BY <1>4, <2>1, <2>2, ReplaceStep DEF Uncrashed
  <1>5. CASE RecordSensitivity
    <2>1. crashes = 0 /\ change' = change
      BY <1>5 DEF RecordSensitivity, Elsewhere
    <2>2. DetailIsTheDifference'
      BY <2>1 DEF Uncrashed, DetailIsTheDifference
    <2> QED
      BY <1>5, <2>1, <2>2, SensitivityStep DEF Uncrashed
  <1>6. CASE Visit \/ ReadSchema \/ ReadFails \/ Compare \/ UpsertContainer \/ Judge
               \/ PassBy \/ ForgetContainer
    <2>1. crashes = 0
      BY <1>6 DEF Visit, ReadSchema, ReadFails, Compare, UpsertContainer, Judge, PassBy,
                  ForgetContainer, OnlyScan, Elsewhere
    <2> QED
      BY <1>6, <2>1, OtherScanStep DEF Uncrashed
  <1>7. ASSUME NEW b \in Columns, NEW by \in Callers, Describe(b, by) \/ Mark(b, by)
        PROVE  Vouched' /\ Told' /\ DetailIsTheDifference'
    <2>1. crashes = 0 /\ Vouched /\ Told /\ DetailIsTheDifference
      BY <1>7, NotesKeepShapes DEF Uncrashed
    <2>2. /\ UNCHANGED <<stored, change, scan, crashes>>
          /\ \A c \in Columns : /\ rows'[c].ordinal = rows[c].ordinal
                                /\ rows'[c].type = rows[c].type
                                /\ rows[c].level # None => rows'[c].level # None
      BY <1>7, NotesKeepShapes
    <2> QED
      BY <2>1, <2>2 DEF Vouched, Same, Told, Present, DetailIsTheDifference
  <1>8. CASE BeginWalk \/ NextPage \/ LastPage \/ ReadSample \/ MaskSample \/ ChangeSource
               \/ UNCHANGED vars
    <2>1. UNCHANGED <<stored, rows, change, scan, crashes>>
      BY <1>8 DEF BeginWalk, NextPage, LastPage, OnlyWalk, ReadSample, MaskSample,
                  ChangeSource, vars
    <2> QED
      BY <2>1 DEF Uncrashed, Vouched, Same, Told, Present, DetailIsTheDifference
  <1> QED
    BY <1>2, <1>3, <1>4, <1>5, <1>6, <1>7, <1>8 DEF Next, Scan

LEMMA InitUncrashed == Init => Uncrashed
  BY ColumnsAssumption DEF Init, Uncrashed, Vouched, Told, Present, EmptyRow,
                           DetailIsTheDifference

LEMMA UncrashedAlways == Spec => []Uncrashed
  <1>1. Spec => []Typed
    BY ColumnsTyped DEF Typed
  <1>2. Typed /\ Written /\ [Next]_vars => Written'
    BY WrittenStep
  <1>3. Typed /\ Written /\ Uncrashed /\ [Next]_vars => Uncrashed'
    BY UncrashedStep DEF Written
  <1> QED
    BY <1>1, <1>2, <1>3, InitWritten, InitUncrashed, PTL DEF Spec

\* In every history without a crash, a recorded change says what the two shapes
\* differ in, for any shapes, failed reads and forced scans.
THEOREM DetailsAreDifferences == Spec => []DetailIsTheDifference
  <1>1. Uncrashed => DetailIsTheDifference
    BY DEF Uncrashed, DetailIsTheDifference
  <1> QED
    BY <1>1, UncrashedAlways, PTL

\* And a column whose name gives it away has a level whenever no scan is at the
\* container, whatever rows the source gave or refused, and whoever marked it.
THEOREM NamesGetJudged == Spec => []NamesAreJudged
  <1>1. Uncrashed => NamesAreJudged
    BY DEF Uncrashed, Told, NamesAreJudged, At
  <1> QED
    BY <1>1, UncrashedAlways, PTL
=============================================================================

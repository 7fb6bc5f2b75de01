------------------------- MODULE RecordedCallsProofs -------------------------
(***************************************************************************)
(* For any threads, any number of files, any capacity and any accidents:    *)
(* the audit trail is a journal, and a closed remote adapter has no session *)
(* left open but late ones.  The trail and the adapter share only threads,  *)
(* so each has an invariant of its own.                                     *)
(***************************************************************************)
EXTENDS RecordedCalls, FiniteSetTheorems, WellFoundedInduction, TLAPS

----------------------------------------------------------------------------
(* The trail.                                                               *)

trailVars == <<file, writer, stage, index, written>>

\* What a step of the whole does to the trail.
TrailStep ==
    \/ \E w \in Threads : BeginEmit(w) \/ Rotate(w) \/ Append(w)
    \/ Interrupt
    \/ UNCHANGED trailVars

\* While files are shifted, the place the next one goes to is free.
TrailInv ==
    /\ written \in Nat
    /\ file \in [Numbers -> SUBSET (1 .. written)]
    /\ stage \in {"rest", "unlink", "shift", "append"}
    /\ stage \in {"unlink", "shift"} => Backups > 0
    /\ stage = "shift" => index \in 0 .. Backups - 1 /\ file[index + 1] = {}
    /\ FilesAreInOrder

LEMMA StepIsTrailStep == [Next]_vars => TrailStep
<1> SUFFICES ASSUME [Next]_vars PROVE TrailStep
  OBVIOUS
<1>1. CASE UNCHANGED vars
  <2>1. UNCHANGED auditVars
    BY <1>1 DEF vars
  <2>2. UNCHANGED trailVars
    BY <2>1 DEF auditVars, trailVars
  <2> QED
    BY <2>2 DEF TrailStep
<1>2. CASE UNCHANGED auditVars
  BY <1>2 DEF auditVars, trailVars, TrailStep
<1>3. ASSUME NEW t \in Threads, Work(t) PROVE TrailStep
  <2>1. CASE Step(t) /\ UNCHANGED auditVars
    BY <1>2, <2>1
  <2>2. CASE PingEnds(t)
    BY <1>2, <2>2 DEF PingEnds
  <2>3. CASE BeginRecord(t)
    BY <2>3 DEF BeginRecord, TrailStep
  <2>4. CASE RecordStep(t)
    BY <2>4 DEF RecordStep, TrailStep
  <2>5. CASE CallEnds(t)
    BY <2>5 DEF CallEnds, TrailStep
  <2> QED
    BY <1>3, <2>1, <2>2, <2>3, <2>4, <2>5 DEF Work
<1>4. CASE DiskRefuses
  BY <1>4 DEF DiskRefuses, TrailStep
<1>5. CASE Kill
  <2>1. Interrupt \/ UNCHANGED trailVars
    BY <1>5 DEF Kill, trailVars
  <2> QED
    BY <2>1 DEF TrailStep
<1>6. Next => \/ UNCHANGED auditVars \/ \E t \in Threads : Work(t)
              \/ DiskRefuses \/ Kill
  BY DEF Next
<1> QED
  BY <1>1, <1>2, <1>3, <1>4, <1>5, <1>6

LEMMA TrailInvInit == AuditInit => TrailInv
<1> SUFFICES ASSUME AuditInit PROVE TrailInv
  OBVIOUS
<1>1. written \in Nat /\ 0 \in Numbers
  BY AuditAssumption DEF AuditInit, Numbers
<1>2. file \in [Numbers -> SUBSET (1 .. written)]
  BY DEF AuditInit
<1>3. FilesAreInOrder
  BY AuditAssumption DEF AuditInit, FilesAreInOrder, Numbers
<1> QED
  BY <1>1, <1>2, <1>3 DEF AuditInit, TrailInv

LEMMA TrailInvKept == TrailInv /\ TrailStep => TrailInv'
<1> SUFFICES ASSUME TrailInv, TrailStep PROVE TrailInv'
  OBVIOUS
<1> USE AuditAssumption
<1>1. ASSUME NEW w \in Threads, BeginEmit(w) PROVE TrailInv'
  BY <1>1 DEF BeginEmit, Full, TrailInv, FilesAreInOrder, Numbers
<1>2. ASSUME NEW w \in Threads, Unlink(w) PROVE TrailInv'
  <2>1. Backups \in Numbers /\ index' = Backups - 1 /\ index' + 1 = Backups
    BY <1>2 DEF Unlink, Numbers
  <2>2. \A i \in Numbers : file'[i] = IF i = Backups THEN {} ELSE file[i]
    BY <1>2 DEF Unlink, TrailInv
  <2>3. file' \in [Numbers -> SUBSET (1 .. written)]
    BY <1>2 DEF Unlink, TrailInv
  <2>4. FilesAreInOrder'
    BY <2>2 DEF TrailInv, FilesAreInOrder, Numbers
  <2>5. Backups > 0 /\ stage' = "shift" /\ written' = written
    BY <1>2 DEF Unlink, TrailInv
  <2> QED
    BY <2>1, <2>2, <2>3, <2>4, <2>5 DEF TrailInv
<1>3. ASSUME NEW w \in Threads, Shift(w) PROVE TrailInv'
  <2>1. /\ index \in Numbers /\ index + 1 \in Numbers /\ index # index + 1
        /\ index - 1 \in 0 .. Backups - 1 /\ file[index + 1] = {}
    BY <1>3 DEF Shift, TrailInv, Numbers
  <2>2. \A i \in Numbers : file'[i] = IF i = index + 1 THEN file[index]
                                      ELSE IF i = index THEN {} ELSE file[i]
    BY <1>3, <2>1 DEF Shift, TrailInv
  <2>3. file' \in [Numbers -> SUBSET (1 .. written)]
    BY <1>3, <2>1 DEF Shift, TrailInv
  <2>4. FilesAreInOrder'
    BY <2>1, <2>2 DEF TrailInv, FilesAreInOrder, Numbers
  <2>5. stage' = "shift" /\ index' = index - 1 /\ written' = written
    BY <1>3 DEF Shift
  <2>6. index' + 1 = index
    BY <2>1, <2>5 DEF Numbers
  <2>7. file'[index' + 1] = {}
    BY <2>1, <2>2, <2>6
  <2> QED
    BY <1>3, <2>1, <2>3, <2>4, <2>5, <2>7 DEF Shift, TrailInv
<1>4. ASSUME NEW w \in Threads, MoveAside(w) PROVE TrailInv'
  <2>1. 0 \in Numbers /\ 1 \in Numbers /\ file[1] = {}
    BY <1>4 DEF MoveAside, TrailInv, Numbers
  <2>2. \A i \in Numbers : file'[i] = IF i = 1 THEN file[0]
                                      ELSE IF i = 0 THEN {} ELSE file[i]
    BY <1>4, <2>1 DEF MoveAside, TrailInv
  <2>3. file' \in [Numbers -> SUBSET (1 .. written)]
    BY <1>4, <2>1 DEF MoveAside, TrailInv
  <2>4. FilesAreInOrder'
    BY <2>1, <2>2 DEF TrailInv, FilesAreInOrder, Numbers
  <2> QED
    BY <1>4, <2>3, <2>4 DEF MoveAside, TrailInv
<1>5. ASSUME NEW w \in Threads, Append(w) PROVE TrailInv'
  <2>1. 0 \in Numbers /\ written' = written + 1 /\ written \in Nat
    BY <1>5 DEF Append, TrailInv, Numbers
  <2>2. \A i \in Numbers : file'[i] = IF i = 0 THEN file[0] \cup {written + 1} ELSE file[i]
    BY <1>5, <2>1 DEF Append, TrailInv
  <2>3. file' \in [Numbers -> SUBSET (1 .. written')]
    BY <1>5, <2>1, <2>2 DEF Append, TrailInv
  <2>4. \A i \in Numbers : \A r \in file[i] : r \in Nat /\ r < written + 1
    BY <2>1 DEF TrailInv
  <2>5. FilesAreInOrder'
    BY <2>1, <2>2, <2>4 DEF TrailInv, FilesAreInOrder, Numbers
  <2> QED
    BY <1>5, <2>1, <2>3, <2>5 DEF Append, TrailInv
<1>6. CASE Interrupt
  BY <1>6 DEF Interrupt, TrailInv, FilesAreInOrder
<1>7. CASE UNCHANGED trailVars
  BY <1>7 DEF trailVars, TrailInv, FilesAreInOrder
<1> QED
  BY <1>1, <1>2, <1>3, <1>4, <1>5, <1>6, <1>7 DEF TrailStep, Rotate

\* Every step of the trail is a step of the journal, or none to its reader.
LEMMA StepIsJournalStep ==
    TrailInv /\ TrailStep => [Trail!Record \/ Trail!Forget]_<<written + 1, Kept>>
<1> SUFFICES ASSUME TrailInv, TrailStep
             PROVE  [Trail!Record \/ Trail!Forget]_<<written + 1, Kept>>
  OBVIOUS
<1> USE AuditAssumption
<1>1. ASSUME UNCHANGED <<file, written>> PROVE UNCHANGED <<written + 1, Kept>>
  BY <1>1 DEF Kept
<1>2. ASSUME NEW w \in Threads, Unlink(w) PROVE Trail!Forget
  <2>1. Backups \in Numbers /\ written' = written
    BY <1>2 DEF Unlink, Numbers
  <2>2. \A i \in Numbers : file'[i] = IF i = Backups THEN {} ELSE file[i]
    BY <1>2 DEF Unlink, TrailInv
  <2>3. file[Backups] \in SUBSET Kept
    BY <2>1 DEF Kept
  <2>4. \A i \in Numbers \ {Backups} : i < Backups
    BY DEF Numbers
  <2>5. \A r \in file[Backups], s \in Kept \ file[Backups] : r < s
    BY <2>1, <2>4 DEF Kept, TrailInv, FilesAreInOrder
  <2>6. \A i \in Numbers \ {Backups} : file[i] \cap file[Backups] = {}
    <3> SUFFICES ASSUME NEW i \in Numbers \ {Backups}, NEW r \in file[i], r \in file[Backups]
                 PROVE  FALSE
      OBVIOUS
    <3>1. r < r
      BY <2>1, <2>4 DEF TrailInv, FilesAreInOrder
    <3>2. r \in Nat
      BY <2>1 DEF TrailInv
    <3> QED
      BY <3>1, <3>2
  <2>7. Kept' = Kept \ file[Backups]
    BY <2>1, <2>2, <2>6 DEF Kept
  <2> QED
    BY <2>1, <2>3, <2>5, <2>7 DEF Trail!Forget
<1>3. ASSUME NEW w \in Threads, Shift(w) PROVE UNCHANGED <<written + 1, Kept>>
  <2>1. index \in Numbers /\ index + 1 \in Numbers /\ file[index + 1] = {} /\ index # index + 1
    BY <1>3 DEF Shift, TrailInv, Numbers
  <2>2. \A i \in Numbers : file'[i] = IF i = index + 1 THEN file[index]
                                      ELSE IF i = index THEN {} ELSE file[i]
    BY <1>3, <2>1 DEF Shift, TrailInv
  <2>3. Kept' = Kept
    BY <2>1, <2>2 DEF Kept
  <2> QED
    BY <1>3, <2>3 DEF Shift
<1>4. ASSUME NEW w \in Threads, MoveAside(w) PROVE UNCHANGED <<written + 1, Kept>>
  <2>1. 0 \in Numbers /\ 1 \in Numbers /\ file[1] = {}
    BY <1>4 DEF MoveAside, TrailInv, Numbers
  <2>2. \A i \in Numbers : file'[i] = IF i = 1 THEN file[0]
                                      ELSE IF i = 0 THEN {} ELSE file[i]
    BY <1>4, <2>1 DEF MoveAside, TrailInv
  <2>3. Kept' = Kept
    BY <2>1, <2>2 DEF Kept
  <2> QED
    BY <1>4, <2>3 DEF MoveAside
<1>5. ASSUME NEW w \in Threads, Append(w) PROVE Trail!Record
  <2>1. 0 \in Numbers /\ written' = written + 1
    BY <1>5 DEF Append, Numbers
  <2>2. \A i \in Numbers : file'[i] = IF i = 0 THEN file[0] \cup {written + 1} ELSE file[i]
    BY <1>5, <2>1 DEF Append, TrailInv
  <2>3. Kept' = Kept \cup {written + 1}
    BY <2>1, <2>2 DEF Kept
  <2> QED
    BY <2>1, <2>3 DEF Trail!Record
<1>6. ASSUME NEW w \in Threads, BeginEmit(w) PROVE UNCHANGED <<file, written>>
  BY <1>6 DEF BeginEmit
<1>7. Interrupt \/ UNCHANGED trailVars => UNCHANGED <<file, written>>
  BY DEF Interrupt, trailVars
<1> QED
  BY <1>1, <1>2, <1>3, <1>4, <1>5, <1>6, <1>7 DEF TrailStep, Rotate

\* The numbered files of an audit trail, under rotation, kills and refusals of the
\* disk, implement the journal (audit.py _rotate_if_full, _emit): records are lost
\* from the old end only, and none is repeated or changed.
THEOREM TrailImplementsJournal == Spec => TrailIsAJournal
<1>1. Init => TrailInv
  BY TrailInvInit DEF Init
<1>2. TrailInv /\ [Next]_vars => TrailInv'
  BY StepIsTrailStep, TrailInvKept
<1>3. Init => Trail!Init
  <2> SUFFICES ASSUME Init PROVE Trail!Init
    OBVIOUS
  <2>1. written \in Nat /\ 0 \in Numbers
    BY AuditAssumption DEF Init, AuditInit, Numbers
  <2>2. Kept = 1 .. written
    BY <2>1 DEF Init, AuditInit, Kept
  <2> QED
    BY <2>1, <2>2 DEF Trail!Init
<1>4. TrailInv /\ [Next]_vars => [Trail!Record \/ Trail!Forget]_<<written + 1, Kept>>
  BY StepIsTrailStep, StepIsJournalStep
<1> QED
  BY <1>1, <1>2, <1>3, <1>4, PTL DEF Spec, TrailIsAJournal, Trail!Spec

----------------------------------------------------------------------------
(* How much of the trail is kept.                                           *)

\* Something has been given up.
Lost == ~(1 .. written \subseteq Kept)

\* The place that a rotation under way has emptied and is about to fill.
Passed(i) == stage = "shift" /\ i = index + 1

\* A number without a file, below a file or where a file was given up.
Gap(i) ==
    /\ file[i] = {} /\ ~Passed(i)
    /\ Lost \/ \E j \in Numbers : j > i /\ file[j] # {}

Gaps == {i \in 1 .. Backups : Gap(i)}

\* An interruption leaves one gap at most, and what was moved aside was full.
RetentionInv ==
    /\ interrupts \in Nat
    /\ Cardinality(Gaps) <= interrupts
    /\ \A i \in 1 .. Backups : file[i] # {} => Cardinality(file[i]) >= Capacity
    /\ stage \in {"unlink", "shift"} => file[0] # {} /\ Cardinality(file[0]) >= Capacity
    /\ writer = Nobody => stage = "rest"

LEMMA GapsAreFinite ==
    IsFiniteSet(1 .. Backups) /\ Cardinality(1 .. Backups) = Backups
  BY AuditAssumption, FS_Interval

LEMMA StepCounts == [Next]_vars => interrupts' = interrupts \/ interrupts' = interrupts + 1
<1> SUFFICES ASSUME [Next]_vars PROVE interrupts' = interrupts \/ interrupts' = interrupts + 1
  OBVIOUS
<1>1. CASE UNCHANGED vars
  <2>1. UNCHANGED auditVars
    BY <1>1 DEF vars
  <2> QED
    BY <2>1 DEF auditVars
<1>2. CASE UNCHANGED auditVars
  BY <1>2 DEF auditVars
<1>3. ASSUME NEW t \in Threads, Work(t) PROVE UNCHANGED interrupts
  BY <1>3
     DEF Work, PingEnds, BeginRecord, RecordStep, CallEnds, BeginEmit, Rotate, Unlink,
         Shift, MoveAside, Append, auditVars
<1>4. CASE DiskRefuses
  BY <1>4 DEF DiskRefuses, Interrupt
<1>5. CASE Kill
  BY <1>5 DEF Kill, Interrupt
<1>6. Next => \/ UNCHANGED auditVars \/ \E t \in Threads : Work(t)
              \/ DiskRefuses \/ Kill
  BY DEF Next
<1> QED
  BY <1>1, <1>2, <1>3, <1>4, <1>5, <1>6

LEMMA RetentionInvInit == AuditInit => RetentionInv
<1> SUFFICES ASSUME AuditInit PROVE RetentionInv
  OBVIOUS
<1> USE AuditAssumption
<1>1. 0 \in Numbers /\ 1 .. Backups \subseteq Numbers
  BY DEF Numbers
<1>2. \A i \in 1 .. Backups : file[i] = {}
  BY <1>1 DEF AuditInit
<1>3. 1 .. written \subseteq Kept
  BY <1>1 DEF AuditInit, Kept
<1>4. \A i \in 1 .. Backups, j \in Numbers : j > i => file[j] = {}
  BY <1>2 DEF Numbers
<1>5. Gaps = {}
  BY <1>3, <1>4 DEF Gaps, Gap, Lost
<1>6. Cardinality(Gaps) = 0
  BY <1>5, FS_EmptySet
<1> QED
  BY <1>2, <1>6 DEF AuditInit, RetentionInv

\* Fewer gaps are as good.
LEMMA FewerGaps ==
    ASSUME RetentionInv, Gaps' \subseteq Gaps, interrupts' \in Nat, interrupts' >= interrupts
    PROVE  Cardinality(Gaps') <= interrupts'
<1>1. Gaps \subseteq 1 .. Backups
  BY DEF Gaps
<1>2. IsFiniteSet(Gaps)
  BY <1>1, GapsAreFinite, FS_Subset
<1>3. /\ Cardinality(Gaps') <= Cardinality(Gaps)
      /\ Cardinality(Gaps') \in Nat /\ Cardinality(Gaps) \in Nat
  BY <1>2, FS_Subset, FS_CardinalityType
<1> QED
  BY <1>3 DEF RetentionInv

\* And one for one.
LEMMA GapMoves ==
    ASSUME RetentionInv, NEW old \in Gaps, NEW new, Gaps' \subseteq (Gaps \ {old}) \cup {new},
           interrupts' = interrupts
    PROVE  Cardinality(Gaps') <= interrupts'
<1>1. Gaps \subseteq 1 .. Backups
  BY DEF Gaps
<1>2. IsFiniteSet(Gaps)
  BY <1>1, GapsAreFinite, FS_Subset
<1> DEFINE T == (Gaps \ {old}) \cup {new}
<1>3. IsFiniteSet(Gaps \ {old}) /\ Cardinality(Gaps \ {old}) = Cardinality(Gaps) - 1
  BY <1>2, FS_RemoveElement
<1>4. IsFiniteSet(T) /\ Cardinality(T) <= Cardinality(Gaps \ {old}) + 1
  BY <1>3, FS_AddElement, FS_CardinalityType
<1>5. Cardinality(Gaps') <= Cardinality(T)
  BY <1>4, FS_Subset
<1>6. /\ Cardinality(Gaps') \in Nat /\ Cardinality(T) \in Nat
      /\ Cardinality(Gaps) \in Nat
  BY <1>2, <1>4, FS_Subset, FS_CardinalityType
<1> HIDE DEF T
<1> QED
  BY <1>3, <1>4, <1>5, <1>6 DEF RetentionInv

\* An interruption may leave one more.
LEMMA GapAdded ==
    ASSUME RetentionInv, NEW new, Gaps' \subseteq Gaps \cup {new}, interrupts' = interrupts + 1
    PROVE  Cardinality(Gaps') <= interrupts'
<1>1. Gaps \subseteq 1 .. Backups
  BY DEF Gaps
<1>2. IsFiniteSet(Gaps)
  BY <1>1, GapsAreFinite, FS_Subset
<1> DEFINE T == Gaps \cup {new}
<1>3. IsFiniteSet(T) /\ Cardinality(T) <= Cardinality(Gaps) + 1
  <2>1. Cardinality(Gaps) \in Nat
    BY <1>2, FS_CardinalityType
  <2>2. Cardinality(T) = IF new \in Gaps THEN Cardinality(Gaps) ELSE Cardinality(Gaps) + 1
    BY <1>2, FS_AddElement
  <2>3. IsFiniteSet(T)
    BY <1>2, FS_AddElement
  <2> HIDE DEF T
  <2> QED
    BY <2>1, <2>2, <2>3
<1>4. Cardinality(Gaps') <= Cardinality(T)
  BY <1>3, FS_Subset
<1>5. /\ Cardinality(Gaps') \in Nat /\ Cardinality(T) \in Nat
      /\ Cardinality(Gaps) \in Nat
  BY <1>2, <1>3, FS_Subset, FS_CardinalityType
<1> HIDE DEF T
<1> QED
  BY <1>3, <1>4, <1>5 DEF RetentionInv

LEMMA RetentionKept ==
    ASSUME TrailInv, TrailInv', RetentionInv, TrailStep,
           interrupts' = interrupts \/ interrupts' = interrupts + 1
    PROVE  RetentionInv'
<1> USE AuditAssumption, SameThreads
<1>0. /\ interrupts \in Nat /\ interrupts' \in Nat /\ interrupts' >= interrupts
      /\ 0 \in Numbers /\ 1 .. Backups \subseteq Numbers
  BY DEF RetentionInv, Numbers
<1>1. ASSUME NEW w \in Threads, BeginEmit(w) PROVE RetentionInv'
  <2>1. /\ UNCHANGED <<file, index, written, interrupts>>
        /\ stage' \in {"unlink", "append"} /\ writer' = w /\ writer = Nobody
    BY <1>1 DEF BeginEmit
  <2>2. stage' = "unlink" => file[0] # {} /\ Cardinality(file[0]) >= Capacity
    BY <1>1 DEF BeginEmit, Full
  <2>3. stage # "shift"
    BY <2>1 DEF RetentionInv
  <2>4. Gaps' \subseteq Gaps
    BY <2>1, <2>3 DEF Gaps, Gap, Passed, Lost, Kept
  <2>5. Cardinality(Gaps') <= interrupts'
    BY <1>0, <2>4, FewerGaps
  <2> QED
    BY <1>0, <2>1, <2>2, <2>5 DEF RetentionInv
<1>2. ASSUME NEW w \in Threads, Unlink(w) PROVE RetentionInv'
  <2>1. /\ Backups \in Numbers /\ index' + 1 = Backups
        /\ stage = "unlink" /\ stage' = "shift" /\ writer' = w
        /\ written' = written /\ interrupts' = interrupts
    BY <1>2 DEF Unlink, Numbers
  <2>2. \A i \in Numbers : file'[i] = IF i = Backups THEN {} ELSE file[i]
    BY <1>2 DEF Unlink, TrailInv
  <2>3. Lost' => Lost \/ file[Backups] # {}
    BY <2>1, <2>2 DEF Lost, Kept
  <2>4. ASSUME NEW i \in 1 .. Backups, Gap(i)' PROVE Gap(i)
    <3>1. i \in Numbers /\ i # Backups /\ i < Backups
      BY <1>0, <2>1, <2>4 DEF Gap, Passed
    <3>2. file[i] = {}
      BY <2>2, <2>4, <3>1 DEF Gap
    <3>3. CASE Lost'
      BY <2>1, <2>3, <3>1, <3>2, <3>3 DEF Gap, Passed
    <3>4. CASE ~Lost'
      <4>1. PICK j \in Numbers : j > i /\ file'[j] # {}
        BY <2>4, <3>4 DEF Gap, Numbers
      <4>2. file[j] # {}
        BY <2>2, <4>1
      <4> QED
        BY <2>1, <3>2, <4>1, <4>2 DEF Gap, Passed
    <3> QED
      BY <3>3, <3>4
  <2>5. Cardinality(Gaps') <= interrupts'
    <3>1. Gaps' \subseteq Gaps
      BY <2>4 DEF Gaps
    <3> QED
      BY <1>0, <3>1, FewerGaps
  <2>6. \A i \in 1 .. Backups : file'[i] # {} => Cardinality(file'[i]) >= Capacity
    BY <1>0, <2>2 DEF RetentionInv
  <2>7. file'[0] = file[0]
    BY <1>0, <2>1, <2>2 DEF TrailInv
  <2> QED
    BY <1>0, <2>1, <2>5, <2>6, <2>7 DEF RetentionInv
<1>3. ASSUME NEW w \in Threads, Shift(w) PROVE RetentionInv'
  <2>1. /\ index \in Numbers /\ index + 1 \in Numbers /\ index > 0 /\ index \in Nat
        /\ file[index + 1] = {} /\ index' + 1 = index /\ index' = index - 1
        /\ stage = "shift" /\ stage' = "shift" /\ writer' = w
        /\ written' = written /\ interrupts' = interrupts
    BY <1>3 DEF Shift, TrailInv, Numbers
  <2>2. \A i \in Numbers : file'[i] = IF i = index + 1 THEN file[index]
                                      ELSE IF i = index THEN {} ELSE file[i]
    BY <1>3, <2>1 DEF Shift, TrailInv
  <2>3. Lost' => Lost
    BY <2>1, <2>2 DEF Lost, Kept
  <2>4. \A i \in Numbers : Gap(i)' => i # index
    BY <2>1 DEF Gap, Passed
  <2>5. ASSUME NEW i \in 1 .. Backups, Gap(i)', i # index + 1 PROVE Gap(i)
    <3>1. i \in Numbers /\ i # index /\ file[i] = {} /\ i \in Nat
      BY <1>0, <2>2, <2>4, <2>5 DEF Gap
    <3>2. CASE Lost'
      BY <2>1, <2>3, <2>5, <3>1, <3>2 DEF Gap, Passed
    <3>3. CASE ~Lost'
      <4>1. PICK j \in Numbers : j > i /\ file'[j] # {}
        BY <2>5, <3>3 DEF Gap, Numbers
      <4>2. CASE j = index + 1
        <5>1. file[index] # {} /\ index > i
          BY <2>1, <2>2, <2>5, <3>1, <4>1, <4>2 DEF Numbers
        <5> QED
          BY <2>1, <2>5, <3>1, <5>1 DEF Gap, Passed
      <4>3. CASE j # index + 1
        <5>1. file[j] # {}
          BY <2>2, <4>1, <4>3
        <5> QED
          BY <2>5, <3>1, <4>1, <5>1 DEF Gap, Passed
      <4> QED
        BY <4>2, <4>3
    <3> QED
      BY <3>2, <3>3
  <2>6. Cardinality(Gaps') <= interrupts'
    <3>1. CASE index \in Gaps
      <4>1. Gaps' \subseteq (Gaps \ {index}) \cup {index + 1}
        BY <1>0, <2>4, <2>5 DEF Gaps
      <4> QED
        BY <2>1, <3>1, <4>1, GapMoves
    <3>2. CASE index \notin Gaps
      <4>0. PICK k \in Numbers : k = index + 1
        BY <2>1
      <4>1. ASSUME Gap(k)' PROVE FALSE
        <5>1. file[index] = {}
          BY <2>2, <4>0, <4>1 DEF Gap
        <5>2. Lost \/ \E j \in Numbers : j > index /\ file[j] # {}
          <6>1. CASE Lost'
            BY <2>3, <6>1
          <6>2. CASE ~Lost'
            <7>1. PICK j \in Numbers : j > k /\ file'[j] # {}
              BY <4>1, <6>2 DEF Gap, Numbers
            <7>2. j > index /\ file[j] # {}
              BY <2>1, <2>2, <4>0, <7>1 DEF Numbers
            <7> QED
              BY <7>2
          <6> QED
            BY <6>1, <6>2
        <5>3. index \in 1 .. Backups /\ index # index + 1
          BY <2>1 DEF Numbers
        <5> QED
          BY <3>2, <5>1, <5>2, <5>3 DEF Gaps, Gap, Passed
      <4>2. Gaps' \subseteq Gaps
        BY <2>5, <4>0, <4>1 DEF Gaps
      <4> QED
        BY <1>0, <4>2, FewerGaps
    <3> QED
      BY <3>1, <3>2
  <2>7. ASSUME NEW i \in 1 .. Backups, file'[i] # {} PROVE Cardinality(file'[i]) >= Capacity
    <3>1. index \in 1 .. Backups
      BY <2>1 DEF Numbers
    <3> QED
      BY <1>0, <2>2, <2>7, <3>1 DEF RetentionInv
  <2>8. file'[0] = file[0]
    BY <1>0, <2>1, <2>2
  <2> QED
    BY <1>0, <2>1, <2>6, <2>7, <2>8 DEF RetentionInv
<1>4. ASSUME NEW w \in Threads, MoveAside(w) PROVE RetentionInv'
  <2>1. /\ 1 \in Numbers /\ file[1] = {} /\ index = 0
        /\ stage = "shift" /\ stage' = "append" /\ writer' = w
        /\ written' = written /\ interrupts' = interrupts
    BY <1>4 DEF MoveAside, TrailInv, Numbers
  <2>2. \A i \in Numbers : file'[i] = IF i = 1 THEN file[0]
                                      ELSE IF i = 0 THEN {} ELSE file[i]
    BY <1>0, <1>4, <2>1 DEF MoveAside, TrailInv
  <2>3. Lost' => Lost
    BY <1>0, <2>1, <2>2 DEF Lost, Kept
  <2>4. file[0] # {} /\ Cardinality(file[0]) >= Capacity
    BY <2>1 DEF RetentionInv
  <2>5. ASSUME NEW i \in 1 .. Backups, Gap(i)' PROVE Gap(i)
    <3>1. i \in Numbers /\ i \in Nat /\ i # 0
      BY <1>0
    <3>2. i # 1 /\ file[i] = {}
      BY <2>2, <2>4, <2>5, <3>1 DEF Gap
    <3>3. ~Passed(i)
      BY <2>1, <3>2 DEF Passed
    <3>4. CASE Lost'
      BY <2>3, <3>2, <3>3, <3>4 DEF Gap
    <3>5. CASE ~Lost'
      <4>1. PICK j \in Numbers : j > i /\ file'[j] # {}
        BY <2>5, <3>5 DEF Gap, Numbers
      <4>2. j # 1 /\ j # 0
        BY <3>1, <3>2, <4>1 DEF Numbers
      <4>3. file[j] # {}
        BY <2>2, <4>1, <4>2
      <4> QED
        BY <3>2, <3>3, <4>1, <4>3 DEF Gap
    <3> QED
      BY <3>4, <3>5
  <2>6. Cardinality(Gaps') <= interrupts'
    <3>1. Gaps' \subseteq Gaps
      BY <2>5 DEF Gaps
    <3> QED
      BY <1>0, <3>1, FewerGaps
  <2>7. \A i \in 1 .. Backups : file'[i] # {} => Cardinality(file'[i]) >= Capacity
    <3> SUFFICES ASSUME NEW i \in 1 .. Backups, file'[i] # {}
                 PROVE  Cardinality(file'[i]) >= Capacity
      OBVIOUS
    <3>1. i \in Numbers /\ i # 0
      BY <1>0
    <3>2. file'[i] = IF i = 1 THEN file[0] ELSE file[i]
      BY <2>2, <3>1
    <3> QED
      BY <2>4, <3>2 DEF RetentionInv
  <2> QED
    BY <1>0, <2>1, <2>6, <2>7 DEF RetentionInv
<1>5. ASSUME NEW w \in Threads, Append(w) PROVE RetentionInv'
  <2>1. /\ written' = written + 1 /\ written \in Nat /\ interrupts' = interrupts
        /\ stage = "append" /\ stage' = "rest"
    BY <1>5 DEF Append, TrailInv
  <2>2. \A i \in Numbers : file'[i] = IF i = 0 THEN file[0] \cup {written + 1} ELSE file[i]
    BY <1>0, <1>5 DEF Append, TrailInv
  <2>3. ASSUME 1 .. written \subseteq Kept PROVE 1 .. written' \subseteq Kept'
    <3>1. Kept' = Kept \cup {written + 1}
      BY <1>0, <2>2 DEF Kept
    <3> QED
      BY <2>1, <2>3, <3>1
  <2>4. ASSUME NEW i \in 1 .. Backups, Gap(i)' PROVE Gap(i)
    <3>1. i \in Numbers /\ i \in Nat /\ i # 0 /\ \A j \in Numbers : j > i => j # 0
      BY <1>0 DEF Numbers
    <3>2. file'[i] = file[i] /\ \A j \in Numbers : j > i => file'[j] = file[j]
      BY <2>2, <3>1
    <3>3. Lost' => Lost
      BY <2>3 DEF Lost
    <3>4. ~Passed(i)
      BY <2>1 DEF Passed
    <3> QED
      BY <2>4, <3>2, <3>3, <3>4 DEF Gap, Numbers
  <2>5. Cardinality(Gaps') <= interrupts'
    <3>1. Gaps' \subseteq Gaps
      BY <2>4 DEF Gaps
    <3> QED
      BY <1>0, <3>1, FewerGaps
  <2>6. \A i \in 1 .. Backups : file'[i] = file[i]
    BY <1>0, <2>2
  <2> QED
    BY <1>0, <2>1, <2>5, <2>6 DEF RetentionInv
<1>6. CASE Interrupt
  <2>1. /\ UNCHANGED <<file, written>> /\ interrupts' = interrupts + 1
        /\ stage' = "rest"
    BY <1>6 DEF Interrupt
  <2>2. Gaps' \subseteq Gaps \cup {index + 1}
    BY <2>1 DEF Gaps, Gap, Passed, Lost, Kept
  <2>3. Cardinality(Gaps') <= interrupts'
    BY <2>1, <2>2, GapAdded
  <2> QED
    BY <1>0, <2>1, <2>3 DEF RetentionInv
<1>7. CASE UNCHANGED trailVars
  <2>1. UNCHANGED <<file, writer, stage, index, written>>
    BY <1>7 DEF trailVars
  <2>2. Gaps' \subseteq Gaps
    BY <2>1 DEF Gaps, Gap, Passed, Lost, Kept
  <2>3. Cardinality(Gaps') <= interrupts'
    BY <1>0, <2>2, FewerGaps
  <2> QED
    BY <1>0, <2>1, <2>3 DEF RetentionInv
<1> QED
  BY <1>1, <1>2, <1>3, <1>4, <1>5, <1>6, <1>7 DEF TrailStep, Rotate


\* Files that share no record and are full hold that many records together.
LEMMA FullFilesAddUp ==
    ASSUME NEW F, NEW I, IsFiniteSet(I), NEW c \in Nat,
           \A i \in I : IsFiniteSet(F[i]) /\ Cardinality(F[i]) >= c,
           \A i, j \in I : i # j => F[i] \cap F[j] = {}
    PROVE  Cardinality(UNION {F[i] : i \in I}) >= Cardinality(I) * c
<1> DEFINE All(J) == UNION {F[i] : i \in J}
           Enough(J) == IsFiniteSet(All(J)) /\ Cardinality(All(J)) >= Cardinality(J) * c
           short == {J \in SUBSET I : ~Enough(J)}
           O == StrictSubsetOrdering(I)
<1>1. IsWellFoundedOn(O, FiniteSubsetsOf(I)) /\ FiniteSubsetsOf(I) = SUBSET I
  BY FS_StrictSubsetOrderingWellFounded, FS_FiniteSubsetsOfFinite
<1>2. short \subseteq SUBSET I
  OBVIOUS
<1>3. ASSUME short # {} PROVE FALSE
  <2>1. PICK J \in short : \A K \in short : ~ (<<K, J>> \in O)
    <3> HIDE DEF short, O
    <3> QED
      BY <1>1, <1>2, <1>3, WFMin
  <2>2. J \in SUBSET I /\ ~Enough(J)
    OBVIOUS
  <2>3. J # {}
    <3> SUFFICES ASSUME J = {} PROVE FALSE
      OBVIOUS
    <3>1. All(J) = {}
      OBVIOUS
    <3>2. IsFiniteSet(All(J)) /\ Cardinality(All(J)) = 0 /\ Cardinality(J) = 0
      BY <3>1, FS_EmptySet
    <3> HIDE DEF All
    <3>3. 0 * c = 0
      OBVIOUS
    <3> QED
      BY <2>2, <3>2, <3>3
  <2>4. PICK x \in J : TRUE
    BY <2>3
  <2> DEFINE K == J \ {x}
  <2>5. Enough(K)
    <3>1. K \in SUBSET I /\ K \subseteq J /\ K # J
      BY <2>2, <2>4
    <3>2. <<K, J>> \in O
      BY <2>2, <3>1 DEF StrictSubsetOrdering
    <3> HIDE DEF K, Enough, O
    <3>3. K \notin short
      BY <2>1, <3>2
    <3> QED
      BY <3>1, <3>3
  <2>6. All(J) = All(K) \cup F[x] /\ All(K) \cap F[x] = {}
    <3>1. All(J) = All(K) \cup F[x]
      BY <2>4
    <3>2. All(K) \cap F[x] = {}
      BY <2>2, <2>4
    <3> QED
      BY <3>1, <3>2
  <2>7. IsFiniteSet(J) /\ Cardinality(J) \in Nat /\ Cardinality(K) = Cardinality(J) - 1
    BY <2>2, <2>4, FS_Subset, FS_CardinalityType, FS_RemoveElement
  <2>8. IsFiniteSet(F[x]) /\ Cardinality(F[x]) >= c /\ Cardinality(F[x]) \in Nat
    BY <2>2, <2>4, FS_CardinalityType
  <2>9. IsFiniteSet(All(K)) /\ Cardinality(All(K)) >= Cardinality(K) * c
        /\ Cardinality(All(K)) \in Nat
    <3>1. IsFiniteSet(All(K)) /\ Cardinality(All(K)) >= Cardinality(K) * c
      BY <2>5
    <3> HIDE DEF All, K
    <3> QED
      BY <3>1, FS_CardinalityType
  <2> HIDE DEF All, K
  <2>10. /\ IsFiniteSet(All(J))
         /\ Cardinality(All(J)) = Cardinality(All(K)) + Cardinality(F[x])
    <3>1. Cardinality(All(K) \cap F[x]) = 0
      BY <2>6, FS_EmptySet
    <3>2. /\ IsFiniteSet(All(K) \cup F[x])
          /\ Cardinality(All(K) \cup F[x])
               = Cardinality(All(K)) + Cardinality(F[x]) - Cardinality(All(K) \cap F[x])
      BY <2>8, <2>9, FS_Union
    <3> QED
      BY <2>6, <2>8, <2>9, <3>1, <3>2
  <2>11. Cardinality(J) * c = (Cardinality(J) - 1) * c + c
    <3>1. \A n \in Nat : n * c = (n - 1) * c + c
      OBVIOUS
    <3> QED
      BY <2>7, <3>1
  <2>12. Cardinality(All(J)) >= Cardinality(J) * c
    <3> DEFINE m == (Cardinality(J) - 1) * c
    <3>1. m \in Int
      BY <2>7
    <3>2. Cardinality(All(K)) >= m /\ Cardinality(J) * c = m + c
      BY <2>7, <2>9, <2>11
    <3> HIDE DEF m
    <3> QED
      BY <2>8, <2>9, <2>10, <3>1, <3>2
  <2> QED
    BY <2>2, <2>10, <2>12
<1>4. Enough(I)
  BY <1>3
<1> QED
  BY <1>4

\* With as many gaps as interruptions, the other numbers have full files.
LEMMA RetentionFollows == TrailInv /\ RetentionInv => RetentionHolds
<1> SUFFICES ASSUME TrailInv, RetentionInv, Backups > 0, interrupts <= Backups
             PROVE  Cardinality(Kept) >= LeastOf(written, (Backups - interrupts) * Capacity)
  BY DEF RetentionHolds
<1> USE AuditAssumption
<1> DEFINE need == (Backups - interrupts) * Capacity
<1>0. /\ written \in Nat /\ interrupts \in Nat /\ Backups - interrupts \in Nat
      /\ Kept \subseteq 1 .. written /\ 0 \in Numbers /\ 1 .. Backups \subseteq Numbers
  BY DEF TrailInv, RetentionInv, Kept, Numbers
<1>1. need \in Nat
  <2>1. \A a, b \in Nat : a * b \in Nat
    OBVIOUS
  <2> QED
    BY <1>0, <2>1
<1>2. IsFiniteSet(1 .. written) /\ Cardinality(1 .. written) = written
  BY <1>0, FS_Interval
<1>3. IsFiniteSet(Kept) /\ Cardinality(Kept) \in Nat
  BY <1>0, <1>2, FS_Subset, FS_CardinalityType
<1>4. CASE ~Lost
  <2>1. Kept = 1 .. written
    BY <1>0, <1>4 DEF Lost
  <2> QED
    BY <1>0, <1>1, <1>2, <2>1 DEF LeastOf
<1>5. CASE Lost
  <2> DEFINE empty == {i \in 1 .. Backups : file[i] = {}}
             full == IF stage = "shift" THEN ((1 .. Backups) \ empty) \cup {0}
                     ELSE (1 .. Backups) \ empty
  <2>1. /\ IsFiniteSet(Gaps) /\ Cardinality(Gaps) \in Nat /\ Cardinality(Gaps) <= interrupts
        /\ Gaps \subseteq 1 .. Backups
    <3>1. Gaps \subseteq 1 .. Backups
      BY DEF Gaps
    <3> QED
      BY <3>1, GapsAreFinite, FS_Subset, FS_CardinalityType DEF RetentionInv
  <2>2. IsFiniteSet(full) /\ Cardinality(full) \in Nat /\ Cardinality(full) >= Backups - interrupts
    <3>1. CASE stage = "shift"
      <4>1. empty = Gaps \cup {index + 1} /\ index + 1 \in 1 .. Backups
        BY <1>5, <3>1 DEF Gaps, Gap, Passed, TrailInv
      <4>2. /\ IsFiniteSet(empty) /\ Cardinality(empty) \in Nat
            /\ Cardinality(empty) <= Cardinality(Gaps) + 1
        <5>1. /\ IsFiniteSet(Gaps \cup {index + 1})
              /\ Cardinality(Gaps \cup {index + 1})
                   = IF index + 1 \in Gaps THEN Cardinality(Gaps) ELSE Cardinality(Gaps) + 1
          BY <2>1, FS_AddElement
        <5> HIDE DEF empty
        <5> QED
          BY <2>1, <4>1, <5>1, FS_CardinalityType
      <4>3. /\ IsFiniteSet((1 .. Backups) \ empty)
            /\ Cardinality((1 .. Backups) \ empty) = Backups - Cardinality(empty)
        <5>1. (1 .. Backups) \cap empty = empty
          OBVIOUS
        <5> HIDE DEF empty
        <5>2. /\ IsFiniteSet((1 .. Backups) \ empty)
              /\ Cardinality((1 .. Backups) \ empty)
                   = Cardinality(1 .. Backups) - Cardinality((1 .. Backups) \cap empty)
          BY GapsAreFinite, FS_Difference
        <5> QED
          BY <5>1, <5>2, GapsAreFinite
      <4>4. 0 \notin (1 .. Backups) \ empty
        OBVIOUS
      <4> HIDE DEF empty
      <4>5. /\ IsFiniteSet(((1 .. Backups) \ empty) \cup {0})
            /\ Cardinality(((1 .. Backups) \ empty) \cup {0}) = Backups - Cardinality(empty) + 1
        <5>1. Cardinality((1 .. Backups) \ empty) \in Nat
          BY <4>3, FS_CardinalityType
        <5> QED
          BY <4>3, <4>4, <5>1, FS_AddElement
      <4>6. full = ((1 .. Backups) \ empty) \cup {0}
        BY <3>1
      <4> HIDE DEF full
      <4> QED
        BY <1>0, <2>1, <4>2, <4>5, <4>6, FS_CardinalityType
    <3>2. CASE stage # "shift"
      <4>1. empty = Gaps
        BY <1>5, <3>2 DEF Gaps, Gap, Passed
      <4>2. full = (1 .. Backups) \ Gaps /\ (1 .. Backups) \cap Gaps = Gaps
        BY <2>1, <3>2, <4>1
      <4>3. /\ IsFiniteSet((1 .. Backups) \ Gaps)
            /\ Cardinality((1 .. Backups) \ Gaps) = Backups - Cardinality(Gaps)
        <5>1. /\ IsFiniteSet((1 .. Backups) \ Gaps)
              /\ Cardinality((1 .. Backups) \ Gaps)
                   = Cardinality(1 .. Backups) - Cardinality((1 .. Backups) \cap Gaps)
          BY GapsAreFinite, FS_Difference
        <5> QED
          BY <4>2, <5>1, GapsAreFinite
      <4> HIDE DEF full
      <4> QED
        BY <1>0, <2>1, <4>2, <4>3, FS_CardinalityType
    <3> QED
      BY <3>1, <3>2
  <2>3. full \subseteq Numbers
    BY <1>0
  <2>4. ASSUME NEW i \in full
        PROVE  IsFiniteSet(file[i]) /\ Cardinality(file[i]) >= Capacity
    <3>1. Cardinality(file[i]) >= Capacity
      BY <2>4 DEF RetentionInv
    <3>2. file[i] \subseteq 1 .. written
      BY <2>3, <2>4 DEF TrailInv
    <3> QED
      BY <1>2, <3>1, <3>2, FS_Subset
  <2>5. ASSUME NEW i \in full, NEW j \in full, i # j PROVE file[i] \cap file[j] = {}
    <3>0. i \in Numbers /\ j \in Numbers
      BY <2>3
    <3> SUFFICES ASSUME NEW r \in file[i], r \in file[j]
                 PROVE  FALSE
      OBVIOUS
    <3>1. r \in Nat
      BY <3>0 DEF TrailInv
    <3>2. i < j \/ j < i
      BY <2>5, <3>0 DEF Numbers
    <3>3. r < r
      BY <3>0, <3>2 DEF TrailInv, FilesAreInOrder
    <3> QED
      BY <3>1, <3>3
  <2> HIDE DEF full
  <2>6. Cardinality(UNION {file[i] : i \in full}) >= Cardinality(full) * Capacity
    BY <2>2, <2>4, <2>5, FullFilesAddUp
  <2>7. Cardinality(UNION {file[i] : i \in full}) <= Cardinality(Kept)
        /\ Cardinality(UNION {file[i] : i \in full}) \in Nat
    <3>1. UNION {file[i] : i \in full} \subseteq Kept
      BY <2>3 DEF Kept
    <3> QED
      BY <1>3, <3>1, FS_Subset, FS_CardinalityType
  <2>8. Cardinality(full) * Capacity >= need /\ Cardinality(full) * Capacity \in Nat
    <3>1. \A a, b, c \in Nat : a >= b => a * c >= b * c /\ a * c \in Nat
      OBVIOUS
    <3> QED
      BY <1>0, <2>2, <3>1
  <2> HIDE DEF need
  <2>9. Cardinality(Kept) >= need
    BY <1>1, <1>3, <2>6, <2>7, <2>8
  <2> QED
    BY <1>0, <1>1, <1>3, <2>9 DEF LeastOf, need
<1> QED
  BY <1>4, <1>5

\* Each interruption of a rotation or a write, by a kill or by the disk, costs the
\* trail at most the records of one file, for any number of files and any capacity
\* (audit.py _rotate_if_full, _emit).
THEOREM RetentionIsDeep == Spec => []RetentionHolds
<1>1. Init => TrailInv /\ RetentionInv
  BY TrailInvInit, RetentionInvInit DEF Init
<1>2. TrailInv /\ RetentionInv /\ [Next]_vars => (TrailInv /\ RetentionInv)'
  BY StepIsTrailStep, StepCounts, TrailInvKept, RetentionKept
<1>3. TrailInv /\ RetentionInv => RetentionHolds
  BY RetentionFollows
<1> QED
  BY <1>1, <1>2, <1>3, PTL DEF Spec

----------------------------------------------------------------------------
(* The adapter.                                                             *)

\* What the adapter is when the server starts.
Reset ==
    /\ pc = [t \in Users |-> "idle"]
    /\ closed = FALSE /\ connected = FALSE
    /\ lock = Unlocked /\ loop = "running"
    /\ sessions = 0 /\ adrift = 0 /\ late = 0

\* What a step of the whole does to the adapter.
AdapterStep ==
    \/ \E t \in Threads : Begin(t) \/ Step(t) \/ Return(t)
    \/ EnterLate \/ Close
    \/ UNCHANGED adapterVars
    \/ Reset'

\* The flag is raised exactly when closing begins, whoever connects or leaves
\* holds the lock, and a session that is not late is the one the flag counts.
AdapterInv ==
    /\ sessions \in Nat /\ late \in Nat /\ adrift \in Nat
    /\ closed \in BOOLEAN /\ connected \in BOOLEAN
    /\ pc \in [Users -> {"idle", "ensure", "wait", "connect", "submit", "answer", "ended",
                         "leave", "stop", "join", "failed", "done"}]
    /\ closed <=> pc[Closer] # "idle"
    /\ \A t \in Threads : pc[t] = "connect" => lock = t /\ ~connected
    /\ pc[Closer] = "leave" => lock = Closer /\ connected
    /\ connected => sessions > 0
    /\ sessions <= late + 1
    /\ ~connected => sessions <= late
    /\ pc[Closer] \in {"stop", "join", "done"} => sessions <= late

\* The trail is written by a thread that has the adapter, or by none.
WriterKnown == writer \in Threads \cup {Nobody}

LEMMA WriterKept == WriterKnown /\ [Next]_vars => WriterKnown'
BY StepIsTrailStep
   DEF TrailStep, trailVars, WriterKnown, BeginEmit, Rotate, Unlink, Shift, MoveAside,
       Append, Interrupt

LEMMA StepIsAdapterStep == WriterKnown /\ [Next]_vars => AdapterStep
<1> SUFFICES ASSUME WriterKnown, [Next]_vars PROVE AdapterStep
  OBVIOUS
<1>1. CASE UNCHANGED adapterVars
  BY <1>1 DEF AdapterStep
<1>2. CASE UNCHANGED vars
  BY <1>1, <1>2 DEF vars
<1>3. ASSUME NEW t \in Threads, Begin(t) \/ Step(t) \/ Return(t) PROVE AdapterStep
  BY <1>3 DEF AdapterStep
<1>4. CASE EnterLate \/ Close
  BY <1>4 DEF AdapterStep
<1>5. ASSUME NEW t \in Threads, Work(t) PROVE AdapterStep
  BY <1>1, <1>3, <1>5 DEF Work, PingEnds, BeginRecord, RecordStep, CallEnds
<1>6. CASE DiskRefuses
  <2>1. writer \in Threads /\ Return(writer)
    BY <1>6 DEF DiskRefuses, Interrupt, WriterKnown
  <2> QED
    BY <1>3, <2>1
<1>7. CASE Kill
  <2>1. Reset'
    BY <1>7 DEF Kill, Reset
  <2> QED
    BY <2>1 DEF AdapterStep
<1> QED
  BY <1>2, <1>3, <1>4, <1>5, <1>6, <1>7 DEF Next

LEMMA ResetIsSafe == Reset => AdapterInv
<1> SUFFICES ASSUME Reset PROVE AdapterInv
  OBVIOUS
<1>1. Closer \in Users /\ Threads \subseteq Users
  BY DEF Users
<1>2. \A t \in Users : pc[t] = "idle"
  BY DEF Reset
<1>3. pc \in [Users -> {"idle", "ensure", "wait", "connect", "submit", "answer", "ended",
                       "leave", "stop", "join", "failed", "done"}]
  BY DEF Reset
<1>4. /\ sessions = 0 /\ late = 0 /\ adrift = 0
      /\ closed = FALSE /\ connected = FALSE
  BY DEF Reset
<1>5. /\ sessions \in Nat /\ late \in Nat /\ adrift \in Nat
      /\ sessions <= late /\ sessions <= late + 1
  BY <1>4
<1>6. /\ closed \in BOOLEAN /\ connected \in BOOLEAN /\ ~closed /\ ~connected
  BY <1>4
<1>7. pc[Closer] = "idle" /\ \A t \in Threads : pc[t] # "connect"
  BY <1>1, <1>2
<1> QED
  BY <1>3, <1>5, <1>6, <1>7 DEF AdapterInv

LEMMA AdapterInvKept == AdapterInv /\ AdapterStep => AdapterInv'
<1> SUFFICES ASSUME AdapterInv, AdapterStep PROVE AdapterInv'
  OBVIOUS
<1> USE RemoteAssumption
<1>0. Closer \in Users /\ Threads \subseteq Users
  BY DEF Users
<1>1. ASSUME NEW t \in Threads, Begin(t) \/ Return(t) PROVE AdapterInv'
  BY <1>0, <1>1 DEF Begin, Return, Go, connection, AdapterInv
<1>2. ASSUME NEW t \in Threads, Ensure(t) \/ Submit(t) \/ Answer(t) \/ TimesOut(t)
      PROVE  AdapterInv'
  <2>1. \E p \in {"ensure", "wait", "submit", "answer", "ended"} : Go(t, p)
    BY <1>2 DEF Ensure, Submit, Answer, TimesOut, End, Go
  <2>2. UNCHANGED connection
    BY <1>2 DEF Ensure, Submit, Answer, TimesOut
  <2> QED
    BY <1>0, <2>1, <2>2 DEF Go, connection, AdapterInv
<1>3. ASSUME NEW t \in Threads, Lock(t) PROVE AdapterInv'
  <2>1. UNCHANGED <<closed, connected, sessions, adrift, late>> /\ lock = Unlocked
    BY <1>3 DEF Lock
  <2>2. CASE lock' = lock /\ (Go(t, "submit") \/ Go(t, "ended"))
    BY <1>0, <2>1, <2>2 DEF Go, AdapterInv
  <2>3. CASE ~connected /\ lock' = t /\ Go(t, "connect")
    BY <1>0, <2>1, <2>3 DEF Go, AdapterInv
  <2> QED
    BY <1>3, <2>2, <2>3 DEF Lock, End, Go
<1>4. ASSUME NEW t \in Threads, Connected(t) PROVE AdapterInv'
  <2>1. /\ pc[t] = "connect" /\ ~connected /\ lock = t
        /\ sessions' = sessions + 1 /\ connected' = TRUE
        /\ late' = IF closed THEN late + 1 ELSE late
        /\ UNCHANGED <<closed, adrift>>
    BY <1>4 DEF Connected, Entered, AdapterInv
  <2>2. pc' = [pc EXCEPT ![t] = "submit"]
    BY <1>4 DEF Connected, Go
  <2>3. pc' \in [Users -> {"idle", "ensure", "wait", "connect", "submit", "answer", "ended",
                          "leave", "stop", "join", "failed", "done"}]
    BY <1>0, <2>2 DEF AdapterInv
  <2>4. pc'[Closer] = pc[Closer] /\ pc[Closer] # "leave"
    BY <1>0, <2>1, <2>2 DEF AdapterInv
  <2>5. \A u \in Threads : pc'[u] # "connect"
    BY <1>0, <2>1, <2>2 DEF AdapterInv
  <2>6. /\ sessions' \in Nat /\ late' \in Nat /\ sessions' > 0
        /\ sessions' <= late' + 1
        /\ closed => (sessions <= late => sessions' <= late')
    BY <2>1 DEF AdapterInv
  <2> QED
    BY <2>1, <2>3, <2>4, <2>5, <2>6 DEF AdapterInv
<1>5. ASSUME NEW t \in Threads, ConnectFails(t) \/ ConnectTimesOut(t) PROVE AdapterInv'
  <2>1. /\ pc[t] = "connect" /\ lock = t
        /\ adrift' \in Nat /\ UNCHANGED <<closed, connected, sessions, late>>
    BY <1>5 DEF ConnectFails, ConnectTimesOut, AdapterInv
  <2>2. pc' = [pc EXCEPT ![t] = "ended"]
    BY <1>5 DEF ConnectFails, ConnectTimesOut, End
  <2>3. \A u \in Threads : pc'[u] # "connect"
    BY <1>0, <2>1, <2>2 DEF AdapterInv
  <2> QED
    BY <1>0, <2>1, <2>2, <2>3 DEF AdapterInv
<1>6. CASE EnterLate
  BY <1>6 DEF EnterLate, AdapterInv
<1>7. CASE BeginClose
  <2>1. /\ closed' = TRUE /\ lock = Unlocked /\ pc[Closer] = "idle"
        /\ UNCHANGED <<connected, sessions, adrift, late>>
    BY <1>7 DEF BeginClose
  <2>2. \A t \in Threads : pc[t] # "connect"
    BY <2>1 DEF AdapterInv
  <2>3. CASE connected /\ lock' = Closer /\ Go(Closer, "leave")
    BY <1>0, <2>1, <2>2, <2>3 DEF Go, AdapterInv
  <2>4. CASE ~connected /\ Go(Closer, "stop")
    BY <1>0, <2>1, <2>2, <2>4 DEF Go, AdapterInv
  <2> QED
    BY <1>7, <2>3, <2>4 DEF BeginClose
<1>8. CASE Leave
  <2>1. /\ pc[Closer] = "leave" /\ lock = Closer /\ connected /\ closed
        /\ sessions' = sessions - 1 /\ connected' = FALSE
        /\ UNCHANGED <<closed, adrift, late>>
    BY <1>8 DEF Leave, AdapterInv
  <2>2. \A t \in Threads : pc[t] # "connect"
    BY <2>1 DEF AdapterInv
  <2>3. pc' = [pc EXCEPT ![Closer] = "stop"]
    BY <1>8 DEF Leave, Go
  <2>4. sessions' \in Nat /\ sessions' <= late /\ sessions' <= late + 1
    BY <2>1 DEF AdapterInv
  <2>5. pc'[Closer] = "stop" /\ \A t \in Threads : pc'[t] # "connect"
    BY <1>0, <2>2, <2>3 DEF AdapterInv
  <2>6. pc' \in [Users -> {"idle", "ensure", "wait", "connect", "submit", "answer", "ended",
                          "leave", "stop", "join", "failed", "done"}]
    BY <1>0, <2>3 DEF AdapterInv
  <2> QED
    BY <2>1, <2>4, <2>5, <2>6 DEF AdapterInv
<1>9. CASE LeaveFails
  <2>1. \A t \in Threads : pc[t] # "connect"
    BY <1>9 DEF LeaveFails, AdapterInv
  <2> QED
    BY <1>0, <1>9, <2>1 DEF LeaveFails, Go, AdapterInv
<1>10. CASE StopLoop \/ CloseLoop
  BY <1>0, <1>10 DEF StopLoop, CloseLoop, Go, AdapterInv
<1>11. CASE UNCHANGED adapterVars
  BY <1>11 DEF adapterVars, AdapterInv
<1>12. CASE Reset'
  <2>1. Reset' => AdapterInv'
    BY ResetIsSafe, PTL
  <2> QED
    BY <1>12, <2>1
<1> QED
  BY <1>1, <1>2, <1>3, <1>4, <1>5, <1>6, <1>7, <1>8, <1>9, <1>10, <1>11, <1>12
     DEF AdapterStep, Step, Close

\* A closed adapter has left every session but those entered too late for it,
\* for any threads, through kills and restarts (remote_mcp.py _ensure, close).
THEOREM ClosedLeavesNothing == Spec => []OnlyLateEntriesStay
<1>1. Init => AdapterInv /\ WriterKnown
  BY ResetIsSafe DEF Init, AdapterInit, AuditInit, Reset, WriterKnown
<1>2. AdapterInv /\ WriterKnown /\ [Next]_vars => (AdapterInv /\ WriterKnown)'
  BY WriterKept, StepIsAdapterStep, AdapterInvKept
<1>3. AdapterInv => OnlyLateEntriesStay
  BY DEF AdapterInv, OnlyLateEntriesStay
<1> QED
  BY <1>1, <1>2, <1>3, PTL DEF Spec
=============================================================================

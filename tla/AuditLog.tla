------------------------------ MODULE AuditLog ------------------------------
(***************************************************************************)
(* The audit trail (service/audit.py): the file calls are recorded in, the *)
(* numbered files it is moved aside to once it is big enough, and what is  *)
(* left of them when a rotation or a write is interrupted.  A record is its *)
(* number, a file the set of records in it (none: there is no such file),  *)
(* and a file's size their count.                                          *)
(***************************************************************************)
EXTENDS Naturals, FiniteSets

CONSTANTS
    Writers,        \* threads that record a call
    Backups,        \* files kept beside the current one
    Capacity,       \* records after which a file is big enough
    Before,         \* how many the file may hold when the server starts
    MaxRecords,     \* bound on the records written
    MaxInterrupts,  \* bound on interruptions
    Nobody          \* no thread holds the lock

ASSUME AuditAssumption ==
    /\ Backups \in Nat /\ Capacity \in Nat /\ Before \subseteq Nat
    /\ MaxRecords \in Nat /\ MaxInterrupts \in Nat
    /\ Nobody \notin Writers

VARIABLES
    file,       \* file 0 is the current one, 1 the youngest moved aside
    writer,     \* the thread that holds the lock
    stage,      \* where it is
    index,      \* the file it moves next
    written,    \* records written so far
    interrupts  \* writes and rotations that were cut short

auditVars == <<file, writer, stage, index, written, interrupts>>

Numbers == 0 .. Backups

\* The directory is made if need be, and the file is what an earlier server left.
AuditInit ==
    /\ written \in Before
    /\ file = [i \in Numbers |-> IF i = 0 THEN 1 .. written ELSE {}]
    /\ writer = Nobody /\ stage = "rest" /\ index = 0
    /\ interrupts = 0

\* A file of nothing, or none to be kept, is never moved aside.
Full == /\ Capacity > 0 /\ Backups > 0
        /\ file[0] # {} /\ Cardinality(file[0]) >= Capacity

BeginEmit(w) ==
    /\ writer = Nobody /\ written < MaxRecords
    /\ writer' = w
    /\ stage' = IF Full THEN "unlink" ELSE "append"
    /\ UNCHANGED <<file, index, written, interrupts>>

Unlink(w) ==
    /\ writer = w /\ stage = "unlink"
    /\ file' = [file EXCEPT ![Backups] = {}]
    /\ index' = Backups - 1
    /\ stage' = "shift"
    /\ UNCHANGED <<writer, written, interrupts>>

\* The two ends of the move are swapped.
MutShift(w) ==
    /\ writer = w /\ stage = "shift" /\ index > 0
    /\ file' = IF file[index] = {} THEN file
               ELSE [file EXCEPT ![index] = file[index + 1], ![index + 1] = {}]
    /\ index' = index - 1
    /\ UNCHANGED <<writer, stage, written, interrupts>>

\* Oldest first.
Shift(w) ==
    /\ writer = w /\ stage = "shift" /\ index > 0
    /\ file' = IF file[index] = {} THEN file
               ELSE [file EXCEPT ![index + 1] = file[index], ![index] = {}]
    /\ index' = index - 1
    /\ UNCHANGED <<writer, stage, written, interrupts>>

MoveAside(w) ==
    /\ writer = w /\ stage = "shift" /\ index = 0
    /\ file' = [file EXCEPT ![1] = file[0], ![0] = {}]
    /\ stage' = "append"
    /\ UNCHANGED <<writer, index, written, interrupts>>

\* mutant: the file is opened to be written anew
MutAppend(w) ==
    /\ writer = w /\ stage = "append"
    /\ file' = [file EXCEPT ![0] = {written + 1}]
    /\ written' = written + 1
    /\ writer' = Nobody /\ stage' = "rest" /\ index' = 0
    /\ UNCHANGED interrupts

Append(w) ==
    /\ writer = w /\ stage = "append"
    /\ file' = [file EXCEPT ![0] = file[0] \cup {written + 1}]
    /\ written' = written + 1
    /\ writer' = Nobody /\ stage' = "rest" /\ index' = 0
    /\ UNCHANGED interrupts

\* The process is killed, or the disk refuses a step: nothing further is done,
\* what was moved stays where it is, and the lock is free.
Interrupt ==
    /\ writer # Nobody /\ interrupts < MaxInterrupts
    /\ interrupts' = interrupts + 1
    /\ writer' = Nobody /\ stage' = "rest" /\ index' = 0
    /\ UNCHANGED <<file, written>>

Rotate(w) == Unlink(w) \/ Shift(w) \/ MoveAside(w)

AuditNext ==
    \/ \E w \in Writers : BeginEmit(w) \/ Rotate(w) \/ Append(w)
    \/ Interrupt

AuditSpec == AuditInit /\ [][AuditNext]_auditVars

----------------------------------------------------------------------------
Kept == UNION {file[i] : i \in Numbers}

Trail == INSTANCE Journal WITH next <- written + 1, kept <- Kept

\* Whatever rotation does, and wherever it is interrupted, to a reader of all
\* the files the trail is a journal: nothing is dropped but from its old end,
\* nothing is repeated, moved or taken for another (audit.py _rotate_if_full:
\* "Oldest first, so nothing is overwritten before it has been shifted").
TrailIsAJournal == Trail!Spec

\* Read from the oldest file to the current one, the trail is in order, so the
\* numbers of the files say what to read first (audit.py _rotate_if_full).
FilesAreInOrder ==
    \A i, j \in Numbers : i < j => \A r \in file[i], s \in file[j] : s < r

\* What can be read is the newest part of what was written, without a hole.
UnbrokenRun == \A r \in Kept : r .. written \subseteq Kept

LeastOf(a, b) == IF a < b THEN a ELSE b

\* Nothing is lost while the retention is deep enough: each interruption costs
\* at most the records of one file (audit.py _rotate_if_full).
RetentionHolds ==
    Backups > 0 /\ interrupts <= Backups =>
        Cardinality(Kept) >= LeastOf(written, (Backups - interrupts) * Capacity)
=============================================================================

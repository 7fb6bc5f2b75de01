-------------------------- MODULE MCStagedColumns --------------------------
(* Values of StagedColumns's constants for TLC. *)
EXTENDS StagedColumns, TLC

CONSTANTS a, b, t1, t2

Cell(n, t) == [ordinal |-> n, type |-> t]

\* Two columns; swapped, one of them retyped; one dropped.
TwoColumns == a :> Cell(1, t1) @@ b :> Cell(2, t1)
Swapped    == a :> Cell(2, t2) @@ b :> Cell(1, t1)
OneColumn  == a :> Cell(0, t1) @@ b :> Cell(1, t1)
ThreeShapes == {TwoColumns, Swapped, OneColumn}

\* The name of a tells, the name of b does not.
OneTells == a :> "secret" @@ b :> None

\* In the database named first there is no container of the name, or one whose
\* columns were found harmless.
OneHarmless == {[c \in {a, b} |-> None], a :> "none" @@ b :> "none"}
=============================================================================

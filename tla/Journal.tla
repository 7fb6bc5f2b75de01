------------------------------ MODULE Journal ------------------------------
(* What an audit trail promises: records are only ever added at its end,    *)
(* and only ever given up from its beginning.                               *)
EXTENDS Naturals

VARIABLES
    next,   \* the number of the next record
    kept    \* numbers of the records that can still be read

Init == next \in Nat \ {0} /\ kept = 1 .. next - 1

Record ==
    /\ kept' = kept \cup {next}
    /\ next' = next + 1

\* Nothing that stays is older than anything that goes.
Forget ==
    \E gone \in SUBSET kept :
        /\ \A r \in gone, s \in kept \ gone : r < s
        /\ kept' = kept \ gone
        /\ next' = next

Spec == Init /\ [][Record \/ Forget]_<<next, kept>>
=============================================================================

------------------------- MODULE MCInventoryScan -------------------------
(* Values of InventoryScan's constants for TLC. *)
EXTENDS InventoryScan

CONSTANTS d1, d2, s1, s2

ResumeOnly == {[force |-> FALSE, resume |-> TRUE]}
FreshOnly  == {[force |-> FALSE, resume |-> FALSE]}
NoForce    == [force : {FALSE}, resume : BOOLEAN]
ResumeOrForce == {[force |-> FALSE, resume |-> TRUE], [force |-> TRUE, resume |-> FALSE]}
OneName    == 1 .. 1
TwoNames   == 1 .. 2
AllFaults  == {"borrow", "list", "read"}
=============================================================================

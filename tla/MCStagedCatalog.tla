-------------------------- MODULE MCStagedCatalog --------------------------
EXTENDS StagedCatalog

\* Two databases share a name, and one name may not be read.
TwoDatabases == {[db |-> 1, name |-> 1], [db |-> 1, name |-> 2],
                 [db |-> 2, name |-> 2], [db |-> 2, name |-> 3]}

=============================================================================

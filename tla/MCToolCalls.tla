----------------------------- MODULE MCToolCalls -----------------------------
\* Values of the constants of ToolCalls for TLC.
EXTENDS ToolCalls, TLC

CONSTANTS sales, crm, users, c1, scan

TwoNames == {<<sales, users>>, <<crm, users>>}
OnlySales == {[n \in TwoNames |-> IF n[1] = sales THEN Columns ELSE Absent]}
AskedNames == {users}
SomeTools == {"list_databases", "get_sample", "profile_column"}
=============================================================================

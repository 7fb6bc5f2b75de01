--------------------------- MODULE MCRecordedCalls ---------------------------
(* Values of RecordedCalls's constants for TLC.                             *)
EXTENDS RecordedCalls
=============================================================================

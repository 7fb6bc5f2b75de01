-------------------------- MODULE MCAdapterPool --------------------------
(* Values of AdapterPool's constants for TLC. *)
EXTENDS AdapterPool, TLC

Symmetry == Permutations(Callers) \cup Permutations(Keys)
FiveAdapters == 1 .. 5
FourAdapters == 1 .. 4
=============================================================================

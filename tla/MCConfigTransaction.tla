------------------------ MODULE MCConfigTransaction ------------------------
(* Small instances of ConfigTransaction for TLC.                             *)
EXTENDS ConfigTransaction, TLC

Symmetry == Permutations(Tx) \cup Permutations(Scope) \cup Permutations(Outside)
=============================================================================

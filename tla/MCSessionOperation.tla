------------------------ MODULE MCSessionOperation ------------------------
(* Small instances of SessionOperation for TLC.                            *)
EXTENDS SessionOperation, TLC

Symmetry == Permutations(Session) \cup Permutations(Op)
===========================================================================

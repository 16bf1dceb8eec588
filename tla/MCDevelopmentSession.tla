------------------------ MODULE MCDevelopmentSession ------------------------
(* Small instances of DevelopmentSession for TLC.                            *)
EXTENDS DevelopmentSession, TLC

Symmetry == Permutations(Session) \cup Permutations(Runtime)
              \cup Permutations(Profile)
=============================================================================

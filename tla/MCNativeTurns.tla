---------------------------- MODULE MCNativeTurns ----------------------------
(* A symmetry set for NativeTurns: prompts are only compared.                *)
EXTENDS NativeTurns, TLC

Symmetry == Permutations(Prompt)
=============================================================================

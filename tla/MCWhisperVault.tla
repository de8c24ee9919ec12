--------------------------- MODULE MCWhisperVault ---------------------------
(* Finite instances of WhisperVault: slots of the same set are alike.      *)
EXTENDS WhisperVault, TLC

Symmetry == Permutations(Whispers) \cup Permutations(Readers)
=============================================================================

--------------------------- MODULE MCGateIntents ---------------------------
(* Finite instances of GateIntents: slots of the same set are alike.       *)
EXTENDS GateIntents, TLC

Symmetry == Permutations(Intents) \cup Permutations(Requests)
              \cup Permutations(Hashes) \cup Permutations(Jtis)
              \cup Permutations(Grants) \cup Permutations(Bindings)
=============================================================================

------------------------- MODULE MCDurableStorage -------------------------
(* DurableStorage for TLC: the writers are interchangeable. *)
EXTENDS DurableStorage, TLC

Symmetry == Permutations(Writer)
=============================================================================

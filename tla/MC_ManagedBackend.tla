------------------------- MODULE MC_ManagedBackend --------------------------
(* ManagedBackend for TLC: fewer tasks than entries fit in memory, and one *)
(* more key than that.                                                     *)
EXTENDS ManagedBackend

Symmetric == Permutations(Tasks) \cup Permutations(Values)
=============================================================================

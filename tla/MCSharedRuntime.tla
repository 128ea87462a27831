--------------------------- MODULE MCSharedRuntime ---------------------------
(* Instances of SharedRuntime for TLC.                                      *)
EXTENDS SharedRuntime, TLC

Symmetry == Permutations(Loads) \cup Permutations(Workers) \cup Permutations(Starters)
=============================================================================

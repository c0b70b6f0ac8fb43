--------------------------- MODULE MCHistoryPages ---------------------------
(* HistoryPages on small instances: the bounds are set in the configurations. *)
EXTENDS HistoryPages

Symmetry == Permutations(Vessels)
=============================================================================

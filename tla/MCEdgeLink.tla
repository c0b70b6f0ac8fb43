----------------------------- MODULE MCEdgeLink -----------------------------
(* EdgeLink on a small instance: the bounds are set in the configurations. *)
EXTENDS EdgeLink
=============================================================================

---------------------------- MODULE MCSettings ----------------------------
(* Settings on small instances: the bounds are set in the configurations. *)
EXTENDS Settings
===========================================================================

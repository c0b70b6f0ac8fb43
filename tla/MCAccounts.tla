----------------------------- MODULE MCAccounts -----------------------------
(* Accounts on small instances: the bounds are set in the configurations. *)
EXTENDS Accounts, TLC

Symmetry == Permutations(Phones) \union Permutations(Requests)
=============================================================================

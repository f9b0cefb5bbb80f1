------------------------------- MODULE MCReload -------------------------------
(* Reload on small instances.                                              *)
EXTENDS Reload, TLC

Symmetry == Permutations(Requests) \union Permutations(Memberships)
=============================================================================

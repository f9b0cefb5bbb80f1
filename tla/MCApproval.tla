----------------------------- MODULE MCApproval -----------------------------
(* Approval on small instances. Requests, workers and links are model      *)
(* values; only ids are compared, so they are symmetric.                   *)
EXTENDS Approval, TLC

Symmetry == Permutations(Requests) \union Permutations(Workers) \union Permutations(Links)
=============================================================================

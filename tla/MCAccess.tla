------------------------------ MODULE MCAccess ------------------------------
(* Access on small instances; ids are only compared, so they are symmetric. *)
EXTENDS Access, TLC

Symmetry == Permutations(Grants) \union Permutations(Workers) \union Permutations(Streams)
=============================================================================

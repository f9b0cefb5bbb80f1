--------------------------- MODULE MCStdioSessions ---------------------------
(* StdioSessions on small instances.                                       *)
EXTENDS StdioSessions, TLC

Symmetry == Permutations(Requests)
=============================================================================

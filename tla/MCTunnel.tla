------------------------------- MODULE MCTunnel -------------------------------
(* Daemons after and beside one another, and people who switch the tunnel. *)
EXTENDS Tunnel, TLC

MCOwnUrls == {"https://mcp.example.com"}
MCSymmetry == Permutations(Daemons) \union Permutations(Requests) \union Permutations(Ports \ {FirstPort})
=============================================================================

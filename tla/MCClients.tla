------------------------------ MODULE MCClients ------------------------------
(* Clients on a small instance.                                             *)
EXTENDS Clients, TLC

\* A bound: clients of one kind in a run.  The two kinds share no row.
OneKind ==
    \/ allHits' = {}
    \/ /\ starts' = {} /\ changes' = 0
       /\ \A d \in Documents : published'[d] = Redirects
       /\ (Waiting' \cup grants' \cup DOMAIN codes') \subseteq Ids

Symmetry == Permutations(Ids) \cup Permutations(Sources) \cup Permutations(Handlers)
=============================================================================

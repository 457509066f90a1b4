----------------------------- MODULE MCGateway -----------------------------
(* Gateways whose sessions belong to one account. *)
EXTENDS Gateway, TLC

CONSTANTS k1, k2, a1
OneAccount == [k \in Keys |-> a1]

\* With egress at random the nodes are alike, as the requests are.
Alike == Permutations(Clients) \cup Permutations(Nodes)
=============================================================================

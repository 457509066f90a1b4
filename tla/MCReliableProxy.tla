--------------------------- MODULE MCReliableProxy ---------------------------
(* ReliableProxy for TLC: clients, scopes and routes are interchangeable. *)
EXTENDS ReliableProxy, TLC

Symmetry ==
  Permutations(Clients) \cup Permutations(Scopes)
    \cup Permutations(States) \cup Permutations(Routes)
=============================================================================

----------------------------- MODULE MCStateCore -----------------------------
(* StateCore for TLC: clients, models and copies are interchangeable. *)
EXTENDS StateCore, TLC

Symmetry == Permutations(Clients) \cup Permutations(Models) \cup Permutations(Copies)
=============================================================================

--------------------------- MODULE MCTerritories ---------------------------
(* Three nodes on two levels, two requests at a time.                       *)
EXTENDS Territories, TLC

Symmetry == Permutations(NodeIds) \cup Permutations(Requests)
=============================================================================

---------------------------- MODULE MCOrderStock ----------------------------
(* Two orders for one product held in two batches, one of them dated.      *)
EXTENDS OrderStock, TLC

CONSTANTS o1, o2, p, b1, b2, r1, r2

MCProductOf == [b \in Batches |-> p]
MCDemand    == [o \in Orders |-> [q \in Products |-> IF o = o1 THEN 2 ELSE 1]]
MCOpening   == [b \in Batches |-> IF b = b1 THEN 1 ELSE 2]
Symmetry    == Permutations(Requests)
NoEdits     == {}
Edits       == {[quantity |-> 1, block |-> None], [quantity |-> -1, block |-> TRUE],
                [quantity |-> 0, block |-> FALSE]}
=============================================================================

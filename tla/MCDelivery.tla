----------------------------- MODULE MCDelivery -----------------------------
(* One order of two products, one unit each; a return lists some of them.  *)
EXTENDS Delivery, TLC
CONSTANTS o1, p1, p2, d1, d2, t1, t2, r1, r2

MCQuantity == [o \in Orders |-> [p \in Products |-> 1]]
MCContents == {[p \in Products |-> 1]}

Symmetry == Permutations(Products) \cup Permutations(Records)
              \cup Permutations(Returns) \cup Permutations(Requests)
=============================================================================

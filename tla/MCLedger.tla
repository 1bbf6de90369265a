------------------------------ MODULE MCLedger ------------------------------
(* Two orders, one of them free, three payments, two requests at a time.   *)
EXTENDS Ledger, TLC
CONSTANTS p1, p2, p3, o1, o2, r1, r2

MCGrand  == [o \in Orders |-> IF o = o1 THEN 2 ELSE 0]
Symmetry == Permutations(Payments) \cup Permutations(Requests)
=============================================================================

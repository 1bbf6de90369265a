---------------------------- MODULE MCApprovals -----------------------------
(* One order, two requests for it, three handlers on their way.            *)
EXTENDS Approvals, TLC
CONSTANTS o1, a1, a2, r1, r2, r3

Symmetry == Permutations(ApprovalIds) \cup Permutations(Requests)
=============================================================================

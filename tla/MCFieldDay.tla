----------------------------- MODULE MCFieldDay -----------------------------
(* Two days, two outlets, one draft, two requests on their way.            *)
EXTENDS FieldDay, TLC
CONSTANTS s1, s2, v1, v2, l1, l2, o1, r1, r2

Symmetry == Permutations(SessionIds) \cup Permutations(VisitIds)
                \cup Permutations(Outlets) \cup Permutations(Requests)
=============================================================================

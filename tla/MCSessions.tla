----------------------------- MODULE MCSessions -----------------------------
(* One device, two logins, two requests on their way.                    *)
EXTENDS Sessions, TLC
CONSTANTS c1, s1, s2, k1, r1, r2

Symmetry == Permutations(Requests) \cup Permutations(SessionIds)
=============================================================================

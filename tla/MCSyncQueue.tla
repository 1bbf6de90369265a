---------------------------- MODULE MCSyncQueue ----------------------------
(* Up to two queued items on a device two users share, and two runs of     *)
(* triggerSync.  Users and runs are interchangeable; the symmetry is used  *)
(* by runs that check no liveness.                                         *)
EXTENDS SyncQueue, TLC
CONSTANTS u1, u2, k1, k2

Symmetry == Permutations(Users) \cup Permutations(Runs)
=============================================================================

------------------------------- MODULE Outbox -------------------------------
(***************************************************************************)
(* What an offline queue promises: work a user has asked for waits on the  *)
(* device until the server has carried it out or the user discards it.     *)
(***************************************************************************)
CONSTANT Items

VARIABLES
    asked,      \* items users have queued
    waiting,    \* items still on the device
    done,       \* items the server has carried out
    dropped     \* items a user has discarded

vars == <<asked, waiting, done, dropped>>

TypeOK == /\ asked \in SUBSET Items /\ waiting \in SUBSET Items
          /\ done \in SUBSET Items /\ dropped \in SUBSET Items

Init == asked \in SUBSET Items /\ waiting = asked /\ done = {} /\ dropped = {}

Ask(i) == /\ i \notin asked
          /\ asked' = asked \cup {i} /\ waiting' = waiting \cup {i}
          /\ UNCHANGED <<done, dropped>>

\* The server may still be at work on an item that is no longer waiting.
Do(i) == /\ i \in asked
         /\ done' = done \cup {i}
         /\ UNCHANGED <<asked, waiting, dropped>>

Leave(i) == /\ i \in waiting \cap done
            /\ waiting' = waiting \ {i}
            /\ UNCHANGED <<asked, done, dropped>>

Discard(S) == /\ S \subseteq waiting
              /\ waiting' = waiting \ S /\ dropped' = dropped \cup S
              /\ UNCHANGED <<asked, done>>

Next == \/ \E i \in Items : Ask(i) \/ Do(i) \/ Leave(i)
        \/ \E S \in SUBSET waiting : Discard(S)

Spec == Init /\ [][Next]_vars

\* Work that is no longer on the device was done or discarded.
NothingLost == asked \subseteq waiting \cup done \cup dropped
=============================================================================

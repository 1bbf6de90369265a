-------------------------------- MODULE Tree --------------------------------
(***************************************************************************)
(* A tree whose changes are atomic: a node is added under a node that is   *)
(* there and above it, is moved only to where that holds and never below   *)
(* itself, and is dropped only when nothing hangs from it.  The exceptions *)
(* are named: nodes that were relabelled, moved in a race, or contested by *)
(* a deletion and a placement.                                             *)
(***************************************************************************)
EXTENDS Integers

CONSTANTS Ids, Tiers, None

VARIABLES
    used, alive,                  \* ids that have named a node, and those that do
    parent, level,                \* of the nodes alive
    relabelled, raced, contested

shape == <<used, alive, parent, level>>
tree  == <<shape, relabelled, raced, contested>>

Init == /\ used = {} /\ alive = {}
        /\ parent = [n \in Ids |-> None] /\ level = [n \in Ids |-> 0]
        /\ relabelled = {} /\ raced = {} /\ contested = {}

\* Following parents from p leads to n, past no node moved in a race: they lie
\* in a set that only n's parent may leave.
Under(p, n) ==
    \E S \in SUBSET (alive \ raced) :
        n \in S /\ p \in S /\ \A y \in S \ {n} : parent[y] \in S

\* The place below p is there, and above a node at level l.
Place(p)    == p \in alive \cup contested \cup {None}
Above(p, l) == p \in alive \ relabelled => level[p] < l

Marks(S, n) == {S, S \cup {n}}

Add(n, l, p) ==
    /\ n \notin used
    /\ Place(p) /\ Above(p, l)
    /\ used' = used \cup {n} /\ alive' = alive \cup {n}
    /\ parent' = [parent EXCEPT ![n] = p] /\ level' = [level EXCEPT ![n] = l]
    /\ contested' \in Marks(contested, p)
    /\ UNCHANGED <<relabelled, raced>>

Move(n, p) ==
    /\ n \in alive
    /\ Place(p) /\ (n \notin relabelled' => Above(p, level[n]))
    /\ ~Under(p, n)
    /\ parent' = [parent EXCEPT ![n] = p]
    /\ raced' \in Marks(raced, n) /\ contested' \in Marks(contested, p)

Relabel(n, l) ==
    /\ n \in alive
    /\ level' = [level EXCEPT ![n] = l]
    /\ relabelled' = IF l = level[n] THEN relabelled ELSE relabelled \cup {n}

\* One update relabels a node, moves it, or does both.
Change(n) ==
    /\ \/ \E l \in Tiers : Relabel(n, l)
       \/ UNCHANGED <<level, relabelled>>
    /\ \/ \E p \in Ids \cup {None} : Move(n, p)
       \/ UNCHANGED <<parent, raced, contested>>
    /\ UNCHANGED <<used, alive>>

Drop(n) ==
    /\ n \in alive
    /\ n \in contested \/ \A m \in alive : parent[m] # n
    /\ alive' = alive \ {n}
    /\ parent' = [parent EXCEPT ![n] = None] /\ level' = [level EXCEPT ![n] = 0]
    /\ relabelled' = relabelled \ {n} /\ raced' = raced \ {n}
    /\ contested' \in Marks(contested, n)
    /\ UNCHANGED used

\* A deletion that finds its node gone may still be contested.
Miss(n) ==
    /\ n \in used \ alive
    /\ contested' \in Marks(contested, n)
    /\ UNCHANGED <<shape, relabelled, raced>>

Next == \E n \in Ids :
           \/ \E l \in Tiers, p \in Ids \cup {None} : Add(n, l, p)
           \/ Change(n) \/ Drop(n) \/ Miss(n)

Spec == Init /\ [][Next]_tree
=============================================================================

---------------------------- MODULE Territories ----------------------------
(***************************************************************************)
(* The territory tree of one organization: HierarchyService, whose nodes   *)
(* (Zone, Region, Area, Territory) administrators create, move, relabel    *)
(* and delete, and from which a manager's team is derived.                 *)
(*                                                                         *)
(* No handler runs in a transaction: each reads what its checks need, one  *)
(* document per await, and writes at the end.  A manager's territoryIds    *)
(* are any set of ids (they are only added to, and outlive a deletion), so *)
(* the property about teams speaks of every set.  Names, status and        *)
(* managers of nodes are left out.                                         *)
(***************************************************************************)
EXTENDS Integers, FiniteSets

CONSTANTS
    NodeIds,  \* ids a node can get; one is never used twice
    Depth,    \* number of levels: 4, Zone to Territory
    Rounds,   \* rounds of the search for descendants: 4
    Requests, \* requests that can be on their way at once
    MaxRelabelled, \* bound: nodes relabelled before another update names a level
    None, Gone, Same

ASSUME TreeAssumption ==
    /\ Depth \in Nat /\ Rounds \in Nat /\ MaxRelabelled \in Nat
    /\ Rounds >= Depth - 1
    /\ None \notin NodeIds /\ Same \notin NodeIds /\ Same # None
    /\ Same \notin Int

VARIABLES
    node,                         \* the collection: None, a document, or Gone
    req,
    relabelled, raced, contested  \* history, see the properties

vars == <<node, req, relabelled, raced, contested>>

-----------------------------------------------------------------------------
Levels  == 1..Depth
Parents == NodeIds \cup {None}
Nodes   == [level : Levels, parent : Parents]

\* The body of an update: Same for an absent key, None for a parentId of null.
\* A body that names neither changes nothing here.
Changes == [level : Levels \cup {Same}, parent : Parents \cup {Same}]
             \ [level : {Same}, parent : {Same}]
NewParents == {body \in Changes : body.parent \in NodeIds}

ASSUME DocumentAssumption == None \notin Nodes /\ Gone \notin Nodes /\ Gone # None

Idle      == [op |-> "idle"]
CreateReq == [op : {"create"}, doc : Nodes]
TargetReq == [op : {"target"}, id : NodeIds, body : NewParents, newLevel : Levels]
WalkReq   == [op : {"walk"}, id : NodeIds, body : NewParents, at : NodeIds]
UpdateReq == [op : {"update"}, id : NodeIds, body : Changes]
DeleteReq == [op : {"delete"}, id : NodeIds]
RequestStates == {Idle} \cup CreateReq \cup TargetReq \cup WalkReq \cup UpdateReq \cup DeleteReq

Exists(n) == node[n] \in Nodes

TypeOK ==
    /\ node \in [NodeIds -> Nodes \cup {None, Gone}]
    /\ req \in [Requests -> RequestStates]
    /\ relabelled \in SUBSET NodeIds /\ raced \in SUBSET NodeIds /\ contested \in SUBSET NodeIds

Init ==
    /\ node = [n \in NodeIds |-> None]
    /\ req = [r \in Requests |-> Idle]
    /\ relabelled = {} /\ raced = {} /\ contested = {}

Open(r, q) == req[r] = Idle /\ req' = [req EXCEPT ![r] = q]
Turn(r, q) == req' = [req EXCEPT ![r] = q]
Done(r)    == req' = [req EXCEPT ![r] = Idle]

\* The parent a request is about to write, if it is a node.
Naming(q) ==
    CASE q.op = "create" -> {q.doc.parent} \cap NodeIds
      [] q.op \in {"target", "walk", "update"} -> {q.body.parent} \cap NodeIds
      [] OTHER -> {}

\* Written while another request was about to write a parent.
Races(r) == \E q \in Requests \ {r} : Naming(req[q]) # {}

\* Deletions of p that have counted its children.
Deleting(p) == \E q \in Requests : req[q].op = "delete" /\ req[q].id = p

\* p gets a child while it is being deleted.
Contested(p) == IF Deleting(p) THEN contested \cup {p} ELSE contested

-----------------------------------------------------------------------------
(* createNode.                                                             *)

\* Fault: a node may stand under one of its own level.
NotAbove(level, p) == level >= node[p].level

Beneath(level, p) == level > node[p].level

CreateFind(r, level, p) ==
    /\ p # None => Exists(p) /\ Beneath(level, p)
    /\ Open(r, [op |-> "create", doc |-> [level |-> level, parent |-> p]])
    /\ UNCHANGED <<node, relabelled, raced, contested>>

CreateSave(r, n) ==
    /\ req[r].op = "create"
    /\ node[n] = None
    /\ node' = [node EXCEPT ![n] = req[r].doc]
    /\ contested' = Contested(req[r].doc.parent)
    /\ Done(r)
    /\ UNCHANGED <<relabelled, raced>>

-----------------------------------------------------------------------------
(* updateNode.                                                             *)

\* The checks are made only for a parent that differs from the one just read.
Moves(n, body) == body.parent \in NodeIds /\ body.parent # node[n].parent

UpdateFind(r, n, body) ==
    /\ body.level # Same => Cardinality(relabelled) < MaxRelabelled
    /\ Exists(n)
    /\ IF Moves(n, body)
         THEN Open(r, [op |-> "target", id |-> n, body |-> body,
                       newLevel |-> IF body.level = Same THEN node[n].level ELSE body.level])
         ELSE Open(r, [op |-> "update", id |-> n, body |-> body])
    /\ UNCHANGED <<node, relabelled, raced, contested>>

UpdateTarget(r) ==
    LET p == req[r].body.parent IN
    /\ req[r].op = "target"
    /\ IF Exists(p) /\ Beneath(req[r].newLevel, p)
         THEN Turn(r, [op |-> "walk", id |-> req[r].id, body |-> req[r].body, at |-> p])
         ELSE Done(r)
    /\ UNCHANGED <<node, relabelled, raced, contested>>

\* Fault: only the new parent itself is compared with the node.
WalksOneStep(r) ==
    /\ req[r].op = "walk"
    /\ IF req[r].at = req[r].id
         THEN Done(r)
         ELSE Turn(r, [op |-> "update", id |-> req[r].id, body |-> req[r].body])
    /\ UNCHANGED <<node, relabelled, raced, contested>>

\* One turn of the loop up from the new parent: the node itself ends the
\* request, a root or a missing document ends the loop.
Walk(r) ==
    /\ req[r].op = "walk"
    /\ LET at == req[r].at IN
       IF at = req[r].id THEN Done(r)
       ELSE IF Exists(at) /\ node[at].parent # None
         THEN Turn(r, [req[r] EXCEPT !.at = node[at].parent])
         ELSE Turn(r, [op |-> "update", id |-> req[r].id, body |-> req[r].body])
    /\ UNCHANGED <<node, relabelled, raced, contested>>

Patched(doc, body) ==
    [level  |-> IF body.level = Same THEN doc.level ELSE body.level,
     parent |-> IF body.parent = Same THEN doc.parent ELSE body.parent]

\* Fault: the update inserts a document that is not there.
Upserts(r) ==
    /\ req[r].op = "update"
    /\ node' = [node EXCEPT ![req[r].id] = IF @ = Gone THEN req[r].body ELSE Patched(@, req[r].body)]
    /\ Done(r)
    /\ UNCHANGED <<relabelled, raced, contested>>

\* findOneAndUpdate: a node deleted meanwhile is not brought back.
UpdateSave(r) ==
    LET n == req[r].id  body == req[r].body IN
    /\ req[r].op = "update"
    /\ IF Exists(n)
         THEN /\ node' = [node EXCEPT ![n] = Patched(@, body)]
              /\ relabelled' = IF body.level \in {Same, node[n].level} THEN relabelled ELSE relabelled \cup {n}
              /\ raced' = IF body.parent # Same /\ Races(r) THEN raced \cup {n} ELSE raced
              /\ contested' = Contested(body.parent)
         ELSE UNCHANGED <<node, relabelled, raced, contested>>
    /\ Done(r)

-----------------------------------------------------------------------------
(* deleteNode.                                                             *)

\* Fault: the count misses the children (as a cast of parentId would).
CountsNone(r, n) ==
    /\ node[n] # None
    /\ Open(r, [op |-> "delete", id |-> n])
    /\ UNCHANGED <<node, relabelled, raced, contested>>

Childless(n) == \A m \in NodeIds : Exists(m) => node[m].parent # n

DeleteFind(r, n) ==
    /\ node[n] # None /\ Childless(n)
    /\ Open(r, [op |-> "delete", id |-> n])
    /\ UNCHANGED <<node, relabelled, raced, contested>>

DeleteSave(r) ==
    LET n == req[r].id IN
    /\ req[r].op = "delete"
    /\ node' = [node EXCEPT ![n] = Gone]
    /\ contested' = IF \E q \in Requests : n \in Naming(req[q]) THEN contested \cup {n} ELSE contested
    /\ relabelled' = relabelled \ {n} /\ raced' = raced \ {n}
    /\ Done(r)

\* The process dies, or a database call fails, between two steps.
Abandon(r) ==
    /\ req[r] # Idle
    /\ Done(r)
    /\ UNCHANGED <<node, relabelled, raced, contested>>

Next == \E r \in Requests :
    \/ \E level \in Levels, p \in Parents : CreateFind(r, level, p)
    \/ \E n \in NodeIds : CreateSave(r, n) \/ DeleteFind(r, n)
    \/ \E n \in NodeIds, body \in Changes : UpdateFind(r, n, body)
    \/ UpdateTarget(r) \/ Walk(r) \/ UpdateSave(r) \/ DeleteSave(r) \/ Abandon(r)

Spec == Init /\ [][Next]_vars

-----------------------------------------------------------------------------
(* getDescendantTerritoryIds: the ids given, and the children of the last  *)
(* round's finds, for a fixed number of rounds.  The code awaits a find a  *)
(* round; here all rounds read one state, so a node that is moved up while *)
(* a search is under way, past the round that would have met it, is beyond *)
(* this operator: it says what a search finds when no move overlaps it.    *)

Found(ids) ==
    LET currentIds[k \in 0..Rounds] ==
            IF k = 0 THEN ids
            ELSE {n \in NodeIds : Exists(n) /\ node[n].parent \in currentIds[k - 1]}
    IN  UNION {currentIds[k] : k \in 0..Rounds}

\* Following parents from a node ends at a root or at a missing document (no
\* set of nodes has all its parents within itself), whatever levels were
\* changed, as long as no two requests set parents at the same time.  The
\* check in updateNode loops for ever on a cycle.
Forest ==
    \A S \in (SUBSET {n \in NodeIds \ raced : Exists(n)}) \ {{}} :
        \E n \in S : node[n].parent \notin S

\* A node's parent exists, unless the parent was deleted while a request was
\* putting a child under it: the count in deleteNode and the look for the
\* parent in createNode and updateNode cannot see each other's writes.
ParentsExist ==
    \A n \in NodeIds :
        Exists(n) /\ node[n].parent \notin contested \cup {None} => Exists(node[n].parent)

\* The rounds of getDescendantTerritoryIds, read in one state, reach a manager's
\* whole team below any set of nodes, moved or not, raced or not, unless an
\* update changed a level, which is compared neither with the parent nor with
\* the children.
TeamIsWhole ==
    \A ids \in SUBSET NodeIds :
        LET found == Found(ids) IN
        found \cap relabelled = {} =>
            \A n \in NodeIds \ relabelled :
                Exists(n) /\ node[n].parent \in found => n \in found

-----------------------------------------------------------------------------
(* What makes them inductive.  `Placing(q, p)`: a request past the look    *)
(* for p that will make p a parent.                                        *)

Placing(q, p) ==
    \/ q.op = "create" /\ q.doc.parent = p
    \/ q.op \in {"walk", "update"} /\ q.body.parent = p

\* What is named as a parent, or is about to be changed, has existed.
IdsUsed ==
    /\ \A n \in NodeIds : Exists(n) /\ node[n].parent # None => node[node[n].parent] # None
    /\ \A r \in Requests, p \in NodeIds : Placing(req[r], p) => node[p] # None
    /\ \A r \in Requests :
           req[r].op \in {"target", "walk", "update", "delete"} => node[req[r].id] # None

\* A node is no longer relabelled or raced once it is gone.
MarksAlive == \A n \in relabelled \cup raced : Exists(n)

\* The sets that would be cycles if x came under p: existing nodes, x and p
\* among them and none raced, that hold the parents of all but x.
Loops(x, p) ==
    {S \in SUBSET {n \in NodeIds \ raced : Exists(n)} :
        x \in S /\ p \in S /\ \A y \in S \ {x} : node[y].parent \in S}

\* A walk is still inside any such set, and one that has ended found none.
WalksSearch ==
    \A r \in Requests : req[r].op \in {"walk", "update"} /\ req[r].body.parent \in NodeIds =>
        \A S \in Loops(req[r].id, req[r].body.parent) : req[r].op = "walk" /\ req[r].at \in S

\* Unless contested, what is being deleted has no child and what is about to
\* be a parent is there.
DeletesChildless ==
    \A r \in Requests : req[r].op = "delete" /\ req[r].id \notin contested => Childless(req[r].id)

PlacesUnderNodes ==
    \A r \in Requests, p \in NodeIds \ contested : Placing(req[r], p) => Exists(p)

\* Levels descend along the tree, and will after the pending writes.
Below(level, p) == Exists(p) /\ p \notin relabelled => level > node[p].level

LevelsDescend ==
    \A n \in NodeIds \ relabelled :
        Exists(n) /\ node[n].parent # None => Below(node[n].level, node[n].parent)

RequestsDescend ==
    \A r \in Requests :
        /\ req[r].op = "create" /\ req[r].doc.parent # None =>
               Below(req[r].doc.level, req[r].doc.parent)
        /\ req[r].op \in {"target", "walk", "update"} =>
               LET n == req[r].id  body == req[r].body IN
               n \notin relabelled /\ Exists(n) /\ body.level \in {Same, node[n].level} =>
                   /\ req[r].op = "target" => req[r].newLevel = node[n].level
                   /\ req[r].op # "target" /\ body.parent \in NodeIds =>
                          Below(node[n].level, body.parent)

\* Nothing but a root is on the top level, whether or not its parent is there.
ChildrenBelowTop ==
    \A n \in NodeIds \ relabelled : Exists(n) /\ node[n].parent # None => node[n].level > 1

RequestsBelowTop ==
    \A r \in Requests :
        /\ req[r].op = "create" /\ req[r].doc.parent # None => req[r].doc.level > 1
        /\ \A n \in NodeIds \ relabelled :
               /\ req[r].op \in {"walk", "update"} /\ req[r].body.parent \in NodeIds
               /\ n = req[r].id /\ Exists(n) /\ req[r].body.level \in {Same, node[n].level}
               => node[n].level > 1

TerritoriesInv ==
    /\ TypeOK /\ IdsUsed /\ MarksAlive
    /\ Forest /\ WalksSearch
    /\ ParentsExist /\ DeletesChildless /\ PlacesUnderNodes
    /\ LevelsDescend /\ RequestsDescend
    /\ ChildrenBelowTop /\ RequestsBelowTop

-----------------------------------------------------------------------------
(* The tree as if every handler were atomic.                               *)

used   == {n \in NodeIds : node[n] # None}
alive  == {n \in NodeIds : Exists(n)}
parent == [n \in NodeIds |-> IF Exists(n) THEN node[n].parent ELSE None]
level  == [n \in NodeIds |-> IF Exists(n) THEN node[n].level ELSE 0]

Atomic == INSTANCE Tree WITH Ids <- NodeIds, Tiers <- Levels

\* What a handler checked, several reads ago, still holds when it writes: the
\* parent is there and above the node, is not below the node that is moved
\* there, and the node that is deleted has no child; save for the nodes that
\* were relabelled, moved in a race or contested.
ImplementsTree == Atomic!Spec
=============================================================================

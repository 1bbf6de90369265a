------------------------- MODULE Territories_proof -------------------------
(***************************************************************************)
(* Type correctness of Territories; that the nodes form a forest, that     *)
(* parents exist, that the rounds of the search reach every descendant and *)
(* that Territories implements Tree, for every set of nodes and requests   *)
(* and any number of levels and rounds.                                    *)
(***************************************************************************)
EXTENDS Territories, WellFoundedInduction, TLAPS

\* What a request is follows from its op.
LEMMA KindOfRequest ==
  ASSUME NEW q \in RequestStates
  PROVE  /\ q.op = "create" => q \in CreateReq
         /\ q.op = "target" => q \in TargetReq
         /\ q.op = "walk" => q \in WalkReq
         /\ q.op = "update" => q \in UpdateReq
         /\ q.op = "delete" => q \in DeleteReq
         /\ q = Idle <=> q.op = "idle"
BY DEF RequestStates, Idle, CreateReq, TargetReq, WalkReq, UpdateReq, DeleteReq

\* A request that changes is one of the requests, and becomes one.
LEMMA RequestTurns ==
  ASSUME TypeOK, NEW r, NEW q \in RequestStates, Turn(r, q)
  PROVE  /\ req' \in [Requests -> RequestStates]
         /\ \A t \in Requests : t # r => req'[t] = req[t]
         /\ r \in Requests => req'[r] = q
BY DEF TypeOK, Turn

\* What a request without an end in sight names is well formed.
LEMMA RequestFields ==
  ASSUME TypeOK, NEW r \in Requests
  PROVE  /\ req[r] \in RequestStates
         /\ req[r].op = "create" => req[r].doc \in Nodes
         /\ req[r].op \in {"target", "walk", "update"} =>
                /\ req[r].id \in NodeIds /\ req[r].body \in Changes
                /\ req[r].body.level \in Levels \cup {Same}
                /\ req[r].body.parent \in NodeIds \cup {None, Same}
         /\ req[r].op = "target" => req[r].newLevel \in Levels
         /\ req[r].op \in {"target", "walk"} =>
                req[r].body \in NewParents /\ req[r].body.parent \in NodeIds
         /\ req[r].op = "walk" => req[r].at \in NodeIds
         /\ req[r].op = "delete" => req[r].id \in NodeIds
<1>1. req[r] \in RequestStates
  BY DEF TypeOK
<1>2. QED
  BY <1>1, KindOfRequest
     DEF CreateReq, TargetReq, WalkReq, UpdateReq, DeleteReq, Changes, NewParents, Parents

\* A document that exists has a level and a parent, and is neither None nor Gone.
LEMMA NodeFields ==
  ASSUME NEW n, Exists(n)
  PROVE  /\ node[n].level \in Levels /\ node[n].parent \in NodeIds \cup {None}
         /\ node[n] = [level |-> node[n].level, parent |-> node[n].parent]
         /\ node[n] # None /\ node[n] # Gone
BY DocumentAssumption DEF Exists, Nodes, Parents

LEMMA PatchedFields ==
  ASSUME NEW doc \in Nodes, NEW body \in Changes
  PROVE  /\ Patched(doc, body) \in Nodes
         /\ Patched(doc, body).level = IF body.level = Same THEN doc.level ELSE body.level
         /\ Patched(doc, body).parent = IF body.parent = Same THEN doc.parent ELSE body.parent
BY DEF Patched, Nodes, Changes

\* Deletions are of nodes.
LEMMA DeletingNode ==
  ASSUME TypeOK, NEW p
  PROVE  /\ Deleting(p) => p \in NodeIds
         /\ Contested(p) \in SUBSET NodeIds /\ contested \subseteq Contested(p)
         /\ Deleting(p) => p \in Contested(p)
<1>1. Deleting(p) => p \in NodeIds
  BY RequestFields DEF Deleting
<1>2. QED
  BY <1>1 DEF Contested, TypeOK

-----------------------------------------------------------------------------
(* What the steps that write do.                                           *)

LEMMA CreateSaves ==
  ASSUME TypeOK, NEW r \in Requests, NEW n \in NodeIds, CreateSave(r, n)
  PROVE  /\ node[n] = None /\ ~Exists(n)
         /\ node' = [node EXCEPT ![n] = req[r].doc] /\ req[r].doc \in Nodes
         /\ \A m \in NodeIds \ {n} : node'[m] = node[m] /\ (Exists(m)' <=> Exists(m))
         /\ node'[n] = req[r].doc /\ Exists(n)'
         /\ req[r].op = "create" /\ Placing(req[r], req[r].doc.parent)
         /\ req' = [req EXCEPT ![r] = Idle] /\ req'[r] = Idle
         /\ contested' = Contested(req[r].doc.parent)
         /\ relabelled' = relabelled /\ raced' = raced
<1>1. /\ req[r].op = "create" /\ node[n] = None /\ node' = [node EXCEPT ![n] = req[r].doc]
      /\ req' = [req EXCEPT ![r] = Idle] /\ contested' = Contested(req[r].doc.parent)
      /\ relabelled' = relabelled /\ raced' = raced
  BY DEF CreateSave, Done
<1>2. req[r].doc \in Nodes
  BY <1>1, RequestFields
<1>3. node \in [NodeIds -> Nodes \cup {None, Gone}] /\ req \in [Requests -> RequestStates]
  BY DEF TypeOK
<1>4. node'[n] = req[r].doc /\ (\A m \in NodeIds \ {n} : node'[m] = node[m]) /\ req'[r] = Idle
  BY <1>1, <1>3
<1>5. QED
  BY <1>1, <1>2, <1>4, DocumentAssumption DEF Exists, Placing

\* An update of a node that is there.
LEMMA UpdateSaves ==
  ASSUME TypeOK, NEW r \in Requests, UpdateSave(r), Exists(req[r].id)
  PROVE  LET n == req[r].id  body == req[r].body IN
         /\ req[r].op = "update" /\ n \in NodeIds /\ body \in Changes
         /\ node' = [node EXCEPT ![n] = Patched(node[n], body)]
         /\ \A m \in NodeIds : Exists(m)' <=> Exists(m)
         /\ \A m \in NodeIds \ {n} : node'[m] = node[m]
         /\ node'[n].level = IF body.level = Same THEN node[n].level ELSE body.level
         /\ node'[n].parent = IF body.parent = Same THEN node[n].parent ELSE body.parent
         /\ node'[n] \in Nodes
         /\ body.level \notin {Same, node[n].level} => n \in relabelled'
         /\ body.parent # Same /\ Races(r) => n \in raced'
         /\ relabelled \subseteq relabelled' /\ relabelled' \subseteq relabelled \cup {n}
         /\ raced \subseteq raced' /\ raced' \subseteq raced \cup {n}
         /\ contested' = Contested(body.parent)
         /\ req' = [req EXCEPT ![r] = Idle] /\ req'[r] = Idle
<1> DEFINE n == req[r].id  body == req[r].body
<1>1. /\ req[r].op = "update" /\ node' = [node EXCEPT ![n] = Patched(node[n], body)]
      /\ relabelled' = IF body.level \in {Same, node[n].level} THEN relabelled ELSE relabelled \cup {n}
      /\ raced' = IF body.parent # Same /\ Races(r) THEN raced \cup {n} ELSE raced
      /\ contested' = Contested(body.parent)
      /\ req' = [req EXCEPT ![r] = Idle]
  BY DEF UpdateSave, Done
<1>2. n \in NodeIds /\ body \in Changes
  BY <1>1, RequestFields
<1>3. node \in [NodeIds -> Nodes \cup {None, Gone}] /\ req \in [Requests -> RequestStates]
  BY DEF TypeOK
<1>4. node'[n] = Patched(node[n], body) /\ \A m \in NodeIds \ {n} : node'[m] = node[m]
  BY <1>1, <1>2, <1>3
<1>5. node[n] \in Nodes
  BY DEF Exists
<1>6. /\ node'[n] \in Nodes
      /\ node'[n].level = IF body.level = Same THEN node[n].level ELSE body.level
      /\ node'[n].parent = IF body.parent = Same THEN node[n].parent ELSE body.parent
  BY <1>2, <1>4, <1>5, PatchedFields
<1>7. \A m \in NodeIds : Exists(m)' <=> Exists(m)
  BY <1>4, <1>5, <1>6 DEF Exists
<1>8. req'[r] = Idle
  BY <1>1, <1>3
<1>9. QED
  BY <1>1, <1>2, <1>4, <1>6, <1>7, <1>8

LEMMA DeleteSaves ==
  ASSUME TypeOK, NEW r \in Requests, DeleteSave(r)
  PROVE  LET n == req[r].id IN
         /\ req[r].op = "delete" /\ n \in NodeIds
         /\ node' = [node EXCEPT ![n] = Gone] /\ node'[n] = Gone /\ node'[n] \notin Nodes
         /\ \A m \in NodeIds \ {n} : node'[m] = node[m] /\ (Exists(m)' <=> Exists(m))
         /\ relabelled' = relabelled \ {n} /\ raced' = raced \ {n}
         /\ contested \subseteq contested' /\ contested' \subseteq contested \cup {n}
         /\ (\E q \in Requests : n \in Naming(req[q])) => n \in contested'
         /\ req' = [req EXCEPT ![r] = Idle] /\ req'[r] = Idle
<1> DEFINE n == req[r].id
<1>1. /\ req[r].op = "delete" /\ node' = [node EXCEPT ![n] = Gone]
      /\ contested' = IF \E q \in Requests : n \in Naming(req[q]) THEN contested \cup {n} ELSE contested
      /\ relabelled' = relabelled \ {n} /\ raced' = raced \ {n}
      /\ req' = [req EXCEPT ![r] = Idle]
  BY DEF DeleteSave, Done
<1>2. n \in NodeIds
  BY <1>1, RequestFields
<1>3. node \in [NodeIds -> Nodes \cup {None, Gone}] /\ req \in [Requests -> RequestStates]
  BY DEF TypeOK
<1>4. node'[n] = Gone /\ req'[r] = Idle /\ \A m \in NodeIds \ {n} : node'[m] = node[m]
  BY <1>1, <1>2, <1>3
<1>5. QED
  BY <1>1, <1>2, <1>4, DocumentAssumption DEF Exists

-----------------------------------------------------------------------------
(* Types.                                                                  *)

\* Every step keeps documents and requests well formed.
LEMMA TypeStep ==
  ASSUME TypeOK, [Next]_vars
  PROVE  TypeOK'
<1>0. /\ node \in [NodeIds -> Nodes \cup {None, Gone}] /\ req \in [Requests -> RequestStates]
      /\ relabelled \in SUBSET NodeIds /\ raced \in SUBSET NodeIds
      /\ contested \in SUBSET NodeIds /\ Idle \in RequestStates
  BY DEF TypeOK, RequestStates
<1>1. ASSUME NEW r \in Requests, NEW q \in RequestStates, Turn(r, q),
             UNCHANGED <<node, relabelled, raced, contested>>
      PROVE  TypeOK'
  BY <1>0, <1>1, RequestTurns DEF TypeOK
<1>2. ASSUME NEW r \in Requests, NEW l \in Levels, NEW p \in Parents, CreateFind(r, l, p)
      PROVE  TypeOK'
  <2>1. [op |-> "create", doc |-> [level |-> l, parent |-> p]] \in RequestStates
    BY DEF RequestStates, CreateReq, Nodes
  <2>2. QED
    BY <1>1, <1>2, <2>1 DEF CreateFind, Open, Turn
<1>3. ASSUME NEW r \in Requests, NEW n \in NodeIds, CreateSave(r, n) PROVE TypeOK'
  BY <1>0, <1>3, CreateSaves, DeletingNode DEF TypeOK
<1>4. ASSUME NEW r \in Requests, NEW n \in NodeIds, DeleteFind(r, n) PROVE TypeOK'
  <2>1. [op |-> "delete", id |-> n] \in RequestStates
    BY DEF RequestStates, DeleteReq
  <2>2. QED
    BY <1>1, <1>4, <2>1 DEF DeleteFind, Open, Turn
<1>5. ASSUME NEW r \in Requests, NEW n \in NodeIds, NEW body \in Changes, UpdateFind(r, n, body)
      PROVE  TypeOK'
  <2> DEFINE l == IF body.level = Same THEN node[n].level ELSE body.level
             target == [op |-> "target", id |-> n, body |-> body, newLevel |-> l]
             update == [op |-> "update", id |-> n, body |-> body]
  <2>1. l \in Levels
    BY <1>5, NodeFields DEF UpdateFind, Changes
  <2>2. Moves(n, body) => target \in RequestStates
    BY <2>1 DEF RequestStates, TargetReq, Moves, NewParents
  <2>3. update \in RequestStates
    BY DEF RequestStates, UpdateReq
  <2>4. (Turn(r, target) /\ Moves(n, body)) \/ Turn(r, update)
    BY <1>5 DEF UpdateFind, Open, Turn
  <2>5. QED
    BY <1>1, <1>5, <2>2, <2>3, <2>4 DEF UpdateFind
<1>6. ASSUME NEW r \in Requests, UpdateTarget(r) PROVE TypeOK'
  <2> DEFINE p == req[r].body.parent
             walk == [op |-> "walk", id |-> req[r].id, body |-> req[r].body, at |-> p]
  <2>1. CASE Exists(p) /\ Beneath(req[r].newLevel, p)
    <3>1. p \in NodeIds
      BY <1>6, RequestFields DEF UpdateTarget
    <3>2. walk \in RequestStates
      BY <1>6, <3>1, RequestFields DEF UpdateTarget, RequestStates, WalkReq
    <3>3. QED
      BY <1>1, <1>6, <2>1, <3>2 DEF UpdateTarget
  <2>2. CASE ~(Exists(p) /\ Beneath(req[r].newLevel, p))
    BY <1>0, <1>1, <1>6, <2>2 DEF UpdateTarget, Done, Turn
  <2>3. QED
    BY <2>1, <2>2
<1>7. ASSUME NEW r \in Requests, Walk(r) PROVE TypeOK'
  <2> DEFINE at == req[r].at
             next == [req[r] EXCEPT !.at = node[at].parent]
             update == [op |-> "update", id |-> req[r].id, body |-> req[r].body]
  <2>1. req[r] \in WalkReq
    BY <1>0, <1>7, KindOfRequest DEF Walk
  <2>2. Exists(at) /\ node[at].parent # None => next \in RequestStates
    BY <2>1, NodeFields DEF WalkReq, RequestStates
  <2>3. update \in RequestStates
    BY <2>1 DEF WalkReq, UpdateReq, NewParents, RequestStates
  <2>4. \/ Turn(r, Idle)
        \/ Turn(r, next) /\ Exists(at) /\ node[at].parent # None
        \/ Turn(r, update)
    BY <1>7 DEF Walk, Done, Turn
  <2>5. QED
    BY <1>0, <1>1, <1>7, <2>2, <2>3, <2>4 DEF Walk
<1>8. ASSUME NEW r \in Requests, UpdateSave(r) PROVE TypeOK'
  <2>1. CASE Exists(req[r].id)
    <3>1. node' \in [NodeIds -> Nodes \cup {None, Gone}]
      BY <1>0, <1>8, <2>1, UpdateSaves
    <3>2. contested' \in SUBSET NodeIds
      BY <1>8, <2>1, UpdateSaves, DeletingNode
    <3>3. relabelled' \in SUBSET NodeIds /\ raced' \in SUBSET NodeIds /\ req' \in [Requests -> RequestStates]
      BY <1>0, <1>8, <2>1, UpdateSaves
    <3>4. QED
      BY <3>1, <3>2, <3>3 DEF TypeOK
  <2>2. CASE ~Exists(req[r].id)
    BY <1>0, <1>1, <1>8, <2>2 DEF UpdateSave, Done, Turn
  <2>3. QED
    BY <2>1, <2>2
<1>9. ASSUME NEW r \in Requests, DeleteSave(r) PROVE TypeOK'
  BY <1>0, <1>9, DeleteSaves DEF TypeOK
<1>10. ASSUME NEW r \in Requests, Abandon(r) PROVE TypeOK'
  BY <1>0, <1>1, <1>10 DEF Abandon, Done, Turn
<1>11. CASE UNCHANGED vars
  BY <1>11 DEF vars, TypeOK
<1>12. QED
  BY <1>2, <1>3, <1>4, <1>5, <1>6, <1>7, <1>8, <1>9, <1>10, <1>11 DEF Next

-----------------------------------------------------------------------------
(* The steps that write nothing: what a request has seen when it becomes   *)
(* what it becomes.                                                        *)

SeesParent(q) ==
    /\ q.op = "create" /\ q.doc \in Nodes
    /\ q.doc.parent # None => Exists(q.doc.parent) /\ q.doc.level > node[q.doc.parent].level

SeesChildless(q) == q.op = "delete" /\ q.id \in NodeIds /\ node[q.id] # None /\ Childless(q.id)

SeesNode(q) ==
    /\ q.id \in NodeIds /\ Exists(q.id) /\ q.body \in Changes
    /\ \/ /\ q.op = "target"
          /\ q.newLevel = IF q.body.level = Same THEN node[q.id].level ELSE q.body.level
       \/ q.op = "update" /\ ~Moves(q.id, q.body)

SeesTarget(old, q) ==
    /\ old.op = "target" /\ q.op = "walk" /\ q.id = old.id /\ q.body = old.body
    /\ q.at = q.body.parent
    /\ Exists(q.body.parent) /\ old.newLevel > node[q.body.parent].level

SeesAncestor(old, q) ==
    /\ old.op = "walk" /\ q.id = old.id /\ q.body = old.body /\ old.at # old.id
    /\ \/ /\ q.op = "walk" /\ Exists(old.at) /\ node[old.at].parent # None
          /\ q.at = node[old.at].parent
       \/ q.op = "update" /\ ~(Exists(old.at) /\ node[old.at].parent # None)

Looks(r) ==
    /\ UNCHANGED <<node, relabelled, raced, contested>>
    /\ \A t \in Requests : t # r => req'[t] = req[t]
    /\ \/ req'[r] = Idle
       \/ SeesParent(req'[r]) \/ SeesChildless(req'[r]) \/ SeesNode(req'[r])
       \/ SeesTarget(req[r], req'[r]) \/ SeesAncestor(req[r], req'[r])

\* Every step looks, writes or stutters.
LEMMA Steps ==
  ASSUME TypeOK, [Next]_vars
  PROVE  \/ UNCHANGED vars
         \/ \E r \in Requests :
                \/ Looks(r)
                \/ \E n \in NodeIds : CreateSave(r, n)
                \/ UpdateSave(r) /\ Exists(req[r].id)
                \/ DeleteSave(r)
<1>0. req \in [Requests -> RequestStates]
  BY DEF TypeOK
<1>1. ASSUME NEW r \in Requests, NEW q, req' = [req EXCEPT ![r] = q]
      PROVE  req'[r] = q /\ \A t \in Requests : t # r => req'[t] = req[t]
  BY <1>0, <1>1
<1>2. ASSUME NEW r \in Requests, NEW l \in Levels, NEW p \in Parents, CreateFind(r, l, p)
      PROVE  Looks(r)
  <2> DEFINE q == [op |-> "create", doc |-> [level |-> l, parent |-> p]]
  <2>1. req'[r] = q /\ \A t \in Requests : t # r => req'[t] = req[t]
    BY <1>1, <1>2 DEF CreateFind, Open
  <2>2. SeesParent(q)
    BY <1>2 DEF CreateFind, SeesParent, Nodes, Beneath
  <2>3. QED
    BY <1>2, <2>1, <2>2 DEF CreateFind, Looks
<1>3. ASSUME NEW r \in Requests, NEW n \in NodeIds, DeleteFind(r, n) PROVE Looks(r)
  <2> DEFINE q == [op |-> "delete", id |-> n]
  <2>1. req'[r] = q /\ \A t \in Requests : t # r => req'[t] = req[t]
    BY <1>1, <1>3 DEF DeleteFind, Open
  <2>2. SeesChildless(q)
    BY <1>3 DEF DeleteFind, SeesChildless
  <2>3. QED
    BY <1>3, <2>1, <2>2 DEF DeleteFind, Looks
<1>4. ASSUME NEW r \in Requests, NEW n \in NodeIds, NEW body \in Changes, UpdateFind(r, n, body)
      PROVE  Looks(r)
  <2> DEFINE l == IF body.level = Same THEN node[n].level ELSE body.level
             target == [op |-> "target", id |-> n, body |-> body, newLevel |-> l]
             update == [op |-> "update", id |-> n, body |-> body]
  <2>1. \/ req' = [req EXCEPT ![r] = target]
        \/ req' = [req EXCEPT ![r] = update] /\ ~Moves(n, body)
    BY <1>4 DEF UpdateFind, Open
  <2>2. Exists(n)
    BY <1>4 DEF UpdateFind
  <2>3. SeesNode(target) /\ (~Moves(n, body) => SeesNode(update))
    BY <2>2 DEF SeesNode
  <2>4. QED
    BY <1>1, <1>4, <2>1, <2>3 DEF UpdateFind, Looks
<1>5. ASSUME NEW r \in Requests, UpdateTarget(r) PROVE Looks(r)
  <2> DEFINE p    == req[r].body.parent
             walk == [op |-> "walk", id |-> req[r].id, body |-> req[r].body, at |-> p]
  <2>1. \/ req' = [req EXCEPT ![r] = Idle]
        \/ req' = [req EXCEPT ![r] = walk] /\ Exists(p) /\ req[r].newLevel > node[p].level
    BY <1>5 DEF UpdateTarget, Turn, Done, Beneath
  <2>2. Exists(p) /\ req[r].newLevel > node[p].level => SeesTarget(req[r], walk)
    BY <1>5 DEF UpdateTarget, SeesTarget
  <2>3. QED
    BY <1>1, <1>5, <2>1, <2>2 DEF UpdateTarget, Looks
<1>6. ASSUME NEW r \in Requests, Walk(r) PROVE Looks(r)
  <2> DEFINE at     == req[r].at
             next   == [req[r] EXCEPT !.at = node[at].parent]
             update == [op |-> "update", id |-> req[r].id, body |-> req[r].body]
  <2>1. req[r] \in WalkReq
    BY <1>0, <1>6, KindOfRequest DEF Walk
  <2>2. /\ next.op = "walk" /\ next.id = req[r].id /\ next.body = req[r].body
        /\ next.at = node[at].parent
    BY <2>1 DEF WalkReq
  <2>3. \/ req' = [req EXCEPT ![r] = Idle]
        \/ /\ req' = [req EXCEPT ![r] = next]
           /\ at # req[r].id /\ Exists(at) /\ node[at].parent # None
        \/ /\ req' = [req EXCEPT ![r] = update]
           /\ at # req[r].id /\ ~(Exists(at) /\ node[at].parent # None)
    BY <1>6 DEF Walk, Done, Turn
  <2>4. req[r].op = "walk"
    BY <1>6 DEF Walk
  <2>5. /\ at # req[r].id /\ Exists(at) /\ node[at].parent # None => SeesAncestor(req[r], next)
        /\ at # req[r].id /\ ~(Exists(at) /\ node[at].parent # None) => SeesAncestor(req[r], update)
    BY <2>2, <2>4 DEF SeesAncestor
  <2>6. QED
    BY <1>1, <1>6, <2>3, <2>5 DEF Walk, Looks
<1>7. ASSUME NEW r \in Requests, UpdateSave(r), ~Exists(req[r].id) PROVE Looks(r)
  BY <1>1, <1>7 DEF UpdateSave, Done, Looks
<1>8. ASSUME NEW r \in Requests, Abandon(r) PROVE Looks(r)
  BY <1>1, <1>8 DEF Abandon, Done, Looks
<1>9. QED
  BY <1>2, <1>3, <1>4, <1>5, <1>6, <1>7, <1>8 DEF Next

-----------------------------------------------------------------------------
(* Ids in use.                                                             *)

LEMMA IdsStep ==
  ASSUME TypeOK, IdsUsed, [Next]_vars
  PROVE  IdsUsed'
<1> USE TreeAssumption
<1>1. ASSUME NEW r \in Requests, Looks(r) PROVE IdsUsed'
  <2>1. node' = node /\ \A n \in NodeIds : Exists(n)' <=> Exists(n)
    BY <1>1 DEF Looks, Exists
  <2>2. ASSUME NEW p \in NodeIds, Placing(req'[r], p) PROVE node[p] # None
    <3>1. CASE SeesParent(req'[r])
      BY <2>2, <3>1, NodeFields DEF SeesParent, Placing
    <3>2. CASE SeesNode(req'[r])
      <4>1. node[req'[r].id].parent = p
        BY <2>2, <3>2 DEF SeesNode, Placing, Moves
      <4>2. QED
        BY <3>2, <4>1 DEF SeesNode, IdsUsed
    <3>3. CASE SeesTarget(req[r], req'[r])
      BY <2>2, <3>3, NodeFields DEF SeesTarget, Placing
    <3>4. CASE SeesAncestor(req[r], req'[r])
      BY <2>2, <3>4 DEF SeesAncestor, Placing, IdsUsed
    <3>5. QED
      BY <1>1, <2>2, <3>1, <3>2, <3>3, <3>4 DEF Looks, SeesChildless, Placing, Idle
  <2>3. ASSUME req'[r].op \in {"target", "walk", "update", "delete"} PROVE node[req'[r].id] # None
    <3>1. CASE SeesNode(req'[r])
      BY <3>1, NodeFields DEF SeesNode
    <3>2. CASE SeesTarget(req[r], req'[r]) \/ SeesAncestor(req[r], req'[r])
      BY <3>2 DEF SeesTarget, SeesAncestor, IdsUsed
    <3>3. QED
      BY <1>1, <2>3, <3>1, <3>2 DEF Looks, SeesParent, SeesChildless, Idle
  <2>4. \A t \in Requests : t # r => req'[t] = req[t]
    BY <1>1 DEF Looks
  <2>5. /\ \A t \in Requests, p \in NodeIds : Placing(req'[t], p) => node[p] # None
        /\ \A t \in Requests :
               req'[t].op \in {"target", "walk", "update", "delete"} => node[req'[t].id] # None
    BY <2>2, <2>3, <2>4 DEF IdsUsed
  <2>6. QED
    BY <2>1, <2>5 DEF IdsUsed, Placing
<1>2. ASSUME NEW r \in Requests, NEW d \in NodeIds,
             node' = [node EXCEPT ![d] = node'[d]], node'[d] # None,
             Exists(d)' => node'[d].parent \in {None} \cup {p \in NodeIds : node[p] # None},
             \A m \in NodeIds \ {d} : Exists(m)' <=> Exists(m),
             req' = [req EXCEPT ![r] = Idle]
      PROVE  IdsUsed'
  <2>1. node \in [NodeIds -> Nodes \cup {None, Gone}] /\ req \in [Requests -> RequestStates]
    BY DEF TypeOK
  <2>2. \A m \in NodeIds : (m # d => node'[m] = node[m]) /\ (node[m] # None => node'[m] # None)
    BY <1>2, <2>1
  <2>3. \A t \in Requests : req'[t] = req[t] \/ req'[t] = Idle
    BY <1>2, <2>1
  <2>4. ASSUME NEW m \in NodeIds, Exists(m)', node'[m].parent # None
        PROVE  node'[node'[m].parent] # None
    <3>1. CASE m = d
      BY <1>2, <2>2, <2>4, <3>1
    <3>2. CASE m # d
      <4>1. node[node[m].parent] # None /\ node[m].parent \in NodeIds
        BY <1>2, <2>2, <2>4, <3>2, NodeFields DEF IdsUsed
      <4>2. QED
        BY <2>2, <3>2, <4>1
    <3>3. QED
      BY <3>1, <3>2
  <2>5. /\ \A t \in Requests, p \in NodeIds : Placing(req'[t], p) => node'[p] # None
        /\ \A t \in Requests : req'[t].op \in {"target", "walk", "update", "delete"} =>
               req'[t].id \in NodeIds /\ node'[req'[t].id] # None
    BY <2>2, <2>3, RequestFields DEF IdsUsed, Placing, Idle
  <2>6. QED
    BY <2>4, <2>5 DEF IdsUsed, Placing
<1>3. ASSUME NEW r \in Requests, NEW n \in NodeIds, CreateSave(r, n) PROVE IdsUsed'
  <2>1. req[r].doc.parent \in {None} \cup {p \in NodeIds : node[p] # None}
    BY <1>3, CreateSaves DEF IdsUsed, Nodes, Parents
  <2>2. QED
    BY <1>2, <1>3, <2>1, CreateSaves, DocumentAssumption
<1>4. ASSUME NEW r \in Requests, UpdateSave(r), Exists(req[r].id) PROVE IdsUsed'
  <2> DEFINE n == req[r].id  body == req[r].body
  <2>1. /\ n \in NodeIds /\ node' = [node EXCEPT ![n] = Patched(node[n], body)]
        /\ node'[n].parent = IF body.parent = Same THEN node[n].parent ELSE body.parent
        /\ node'[n] \in Nodes /\ req[r].op = "update" /\ req' = [req EXCEPT ![r] = Idle]
        /\ \A m \in NodeIds : Exists(m)' <=> Exists(m)
    BY <1>4, UpdateSaves
  <2>2. node[n].parent \in {None} \cup {p \in NodeIds : node[p] # None}
    BY <1>4, <2>1, NodeFields DEF IdsUsed
  <2>3. body.parent \in {None, Same} \cup {p \in NodeIds : node[p] # None}
    BY <2>1, RequestFields DEF IdsUsed, Placing
  <2>4. node' = [node EXCEPT ![n] = node'[n]]
    BY <2>1 DEF TypeOK
  <2>5. /\ node'[n].parent \in {None} \cup {p \in NodeIds : node[p] # None}
        /\ node'[n] # None
    BY <2>1, <2>2, <2>3, DocumentAssumption
  <2> HIDE DEF n, body
  <2>6. IdsUsed'
    BY <1>2, <2>1, <2>4, <2>5
  <2>7. QED
    BY <2>6
<1>5. ASSUME NEW r \in Requests, DeleteSave(r) PROVE IdsUsed'
  <2> DEFINE n == req[r].id
  <2>1. /\ n \in NodeIds /\ node' = [node EXCEPT ![n] = Gone] /\ node'[n] = Gone
        /\ node'[n] \notin Nodes /\ req' = [req EXCEPT ![r] = Idle]
        /\ \A m \in NodeIds \ {n} : Exists(m)' <=> Exists(m)
    BY <1>5, DeleteSaves
  <2>2. ASSUME NEW d \in NodeIds, d = n PROVE IdsUsed'
    BY <1>2, <2>1, <2>2, DocumentAssumption DEF Exists
  <2>3. QED
    BY <2>1, <2>2
<1>6. CASE UNCHANGED vars
  BY <1>6 DEF vars, IdsUsed, Placing, Exists
<1>7. QED
  BY <1>1, <1>3, <1>4, <1>5, <1>6, Steps

LEMMA MarksStep ==
  ASSUME TypeOK, MarksAlive, [Next]_vars
  PROVE  MarksAlive'
<1>1. CASE UNCHANGED <<node, relabelled, raced, contested>>
  BY <1>1 DEF MarksAlive, Exists
<1>2. ASSUME NEW r \in Requests, NEW n \in NodeIds, CreateSave(r, n) PROVE MarksAlive'
  <2>1. /\ Exists(n)' /\ \A m \in NodeIds \ {n} : Exists(m)' <=> Exists(m)
        /\ relabelled' = relabelled /\ raced' = raced
    BY <1>2, CreateSaves
  <2>2. QED
    BY <2>1 DEF MarksAlive, TypeOK
<1>3. ASSUME NEW r \in Requests, UpdateSave(r), Exists(req[r].id) PROVE MarksAlive'
  <2>1. req[r].id \in NodeIds /\ \A m \in NodeIds : Exists(m)' <=> Exists(m)
    BY <1>3, UpdateSaves
  <2>2. /\ relabelled' \subseteq relabelled \cup {req[r].id}
        /\ raced' \subseteq raced \cup {req[r].id}
    BY <1>3 DEF UpdateSave
  <2>3. QED
    BY <1>3, <2>1, <2>2 DEF MarksAlive, TypeOK
<1>4. ASSUME NEW r \in Requests, DeleteSave(r) PROVE MarksAlive'
  <2>1. /\ \A m \in NodeIds \ {req[r].id} : Exists(m)' <=> Exists(m)
        /\ relabelled' = relabelled \ {req[r].id} /\ raced' = raced \ {req[r].id}
    BY <1>4, DeleteSaves
  <2>2. QED
    BY <2>1 DEF MarksAlive, TypeOK
<1>5. QED
  BY <1>1, <1>2, <1>3, <1>4, Steps DEF Looks, vars

-----------------------------------------------------------------------------
(* The forest.  A write of another request leaves no new loop for one that *)
(* is about to place x under p: what it places itself is raced.            *)

LEMMA LoopsWereThere ==
  ASSUME TypeOK, IdsUsed, NEW x \in NodeIds, NEW p \in NodeIds,
         node[x] # None, node[p] # None,
         NEW t \in Requests, Naming(req[t]) # {},
         NEW r \in Requests, r # t,
         \/ \E n \in NodeIds : CreateSave(r, n)
         \/ UpdateSave(r) /\ Exists(req[r].id)
         \/ DeleteSave(r),
         NEW S \in Loops(x, p)'
  PROVE  \E R \in Loops(x, p) : R \subseteq S
<1>0. /\ S \subseteq NodeIds /\ x \in S /\ p \in S
      /\ \A y \in S : Exists(y)' /\ y \notin raced'
      /\ \A y \in S \ {x} : node'[y].parent \in S
  BY DEF Loops
<1>1. ASSUME NEW n \in NodeIds, CreateSave(r, n) PROVE \E R \in Loops(x, p) : R \subseteq S
  <2> DEFINE R == S \ {n}
  <2>1. /\ node[n] = None /\ raced' = raced
        /\ \A m \in NodeIds \ {n} : node'[m] = node[m] /\ (Exists(m)' <=> Exists(m))
    BY <1>1, CreateSaves
  <2>2. x \in R /\ p \in R /\ R \subseteq NodeIds
    BY <1>0, <2>1
  <2>3. \A y \in R : Exists(y) /\ y \notin raced
    BY <1>0, <2>1
  <2>4. ASSUME NEW y \in R \ {x} PROVE node[y].parent \in R
    <3>1. node[y].parent \in S
      BY <1>0, <2>1
    <3>2. node[y].parent # None /\ node[node[y].parent] # None
      BY <1>0, <2>3, <3>1, TreeAssumption DEF IdsUsed
    <3>3. QED
      BY <2>1, <3>1, <3>2
  <2>5. R \in Loops(x, p)
    BY <2>2, <2>3, <2>4 DEF Loops
  <2>6. QED
    BY <2>5
<1>2. CASE UpdateSave(r) /\ Exists(req[r].id)
  <2> DEFINE n == req[r].id  body == req[r].body
  <2>1. /\ n \in NodeIds
        /\ \A m \in NodeIds : Exists(m)' <=> Exists(m)
        /\ \A m \in NodeIds \ {n} : node'[m] = node[m]
        /\ node'[n].parent = IF body.parent = Same THEN node[n].parent ELSE body.parent
        /\ body.parent # Same /\ Races(r) => n \in raced'
        /\ raced \subseteq raced'
    BY <1>2, UpdateSaves
  <2>2. Races(r)
    BY DEF Races
  <2>3. \A y \in S : node'[y].parent = node[y].parent
    BY <1>0, <2>1, <2>2
  <2>4. S \in Loops(x, p)
    BY <1>0, <2>1, <2>3 DEF Loops
  <2>5. QED
    BY <2>4
<1>3. CASE DeleteSave(r)
  <2> DEFINE n == req[r].id
  <2>1. /\ n \in NodeIds /\ node'[n] \notin Nodes /\ raced' = raced \ {n}
        /\ \A m \in NodeIds \ {n} : node'[m] = node[m] /\ (Exists(m)' <=> Exists(m))
    BY <1>3, DeleteSaves
  <2>2. n \notin S
    BY <1>0, <2>1 DEF Exists
  <2>3. S \in Loops(x, p)
    BY <1>0, <2>1, <2>2 DEF Loops
  <2>4. QED
    BY <2>3
<1>4. QED
  BY <1>1, <1>2, <1>3

\* A walk moves up inside every loop, and so can end only where there is none.
LEMMA WalkStep ==
  ASSUME TypeOK, IdsUsed, Forest, WalksSearch, [Next]_vars
  PROVE  WalksSearch'
<1> DEFINE Searching(q, S) == q.op = "walk" /\ q.at \in S
<1>1. ASSUME NEW r \in Requests, Looks(r) PROVE WalksSearch'
  <2>1. /\ node' = node /\ raced' = raced /\ \A n \in NodeIds : Exists(n)' <=> Exists(n)
        /\ \A t \in Requests : t # r => req'[t] = req[t]
    BY <1>1 DEF Looks, Exists
  <2>2. \A x, p : Loops(x, p)' = Loops(x, p)
    BY <2>1 DEF Loops
  <2>3. ASSUME req'[r].op \in {"walk", "update"}, req'[r].body.parent \in NodeIds,
               NEW S \in Loops(req'[r].id, req'[r].body.parent)
        PROVE  req'[r].op = "walk" /\ req'[r].at \in S
    <3> DEFINE x == req'[r].id  p == req'[r].body.parent
    <3>0. /\ S \subseteq NodeIds /\ x \in S /\ p \in S
          /\ \A y \in S : Exists(y) /\ y \notin raced
          /\ \A y \in S \ {x} : node[y].parent \in S
      BY <2>3 DEF Loops
    <3>1. CASE SeesNode(req'[r])
      <4>1. node[x].parent = p
        BY <2>3, <3>1 DEF SeesNode, Moves
      <4>2. S \in (SUBSET {n \in NodeIds \ raced : Exists(n)}) \ {{}} /\ \A y \in S : node[y].parent \in S
        BY <3>0, <4>1
      <4>3. QED
        BY <4>2 DEF Forest
    <3>2. CASE SeesTarget(req[r], req'[r])
      BY <3>0, <3>2 DEF SeesTarget
    <3>3. CASE SeesAncestor(req[r], req'[r])
      <4>1. req[r].op = "walk" /\ req[r].id = x /\ req[r].body.parent = p /\ req[r].at # x
        BY <3>3 DEF SeesAncestor
      <4>2. req[r].at \in S
        BY <2>3, <4>1 DEF WalksSearch
      <4>3. Exists(req[r].at) /\ node[req[r].at].parent \in S
        BY <3>0, <4>1, <4>2
      <4>4. node[req[r].at].parent # None
        BY <3>0, <4>3, TreeAssumption
      <4>5. QED
        BY <3>3, <4>3, <4>4 DEF SeesAncestor
    <3>4. QED
      BY <1>1, <2>3, <3>1, <3>2, <3>3 DEF Looks, SeesParent, SeesChildless, Idle
  <2>4. QED
    BY <2>1, <2>2, <2>3 DEF WalksSearch
<1>2. ASSUME NEW r \in Requests,
             \/ \E n \in NodeIds : CreateSave(r, n)
             \/ UpdateSave(r) /\ Exists(req[r].id)
             \/ DeleteSave(r)
      PROVE  WalksSearch'
  <2>1. req' = [req EXCEPT ![r] = Idle]
    BY <1>2, CreateSaves, UpdateSaves, DeleteSaves
  <2>2. req'[r] = Idle /\ \A t \in Requests : t # r => req'[t] = req[t]
    BY <2>1 DEF TypeOK
  <2>3. ASSUME NEW t \in Requests, req'[t].op \in {"walk", "update"}, req'[t].body.parent \in NodeIds,
               NEW S \in Loops(req[t].id, req[t].body.parent)'
        PROVE  req'[t].op = "walk" /\ req'[t].at \in S
    <3>1. t # r /\ req'[t] = req[t]
      BY <2>2, <2>3 DEF Idle
    <3>2. /\ req[t].id \in NodeIds /\ req[t].body.parent \in NodeIds
          /\ node[req[t].id] # None /\ node[req[t].body.parent] # None
      BY <2>3, <3>1, RequestFields DEF IdsUsed, Placing
    <3>3. Naming(req[t]) # {}
      BY <2>3, <3>1 DEF Naming
    <3>4. ASSUME NEW x \in NodeIds, NEW p \in NodeIds, x = req[t].id, p = req[t].body.parent
          PROVE  req'[t].op = "walk" /\ req'[t].at \in S
      <4>1. S \in Loops(x, p)'
        BY <2>3, <3>1, <3>4
      <4>2. PICK R \in Loops(x, p) : R \subseteq S
        BY <1>2, <3>1, <3>2, <3>3, <3>4, <4>1, LoopsWereThere
      <4>3. QED
        BY <2>3, <3>1, <3>4, <4>2 DEF WalksSearch
    <3>5. QED
      BY <3>2, <3>4
  <2>4. \A t \in Requests : req'[t].op \in {"walk", "update"} => req'[t].id = req[t].id /\ req'[t].body = req[t].body
    BY <2>2 DEF Idle
  <2>5. QED
    BY <2>3, <2>4 DEF WalksSearch
<1>3. CASE UNCHANGED vars
  BY <1>3 DEF vars, WalksSearch, Loops, Exists
<1>4. QED
  BY <1>1, <1>2, <1>3, Steps

LEMMA ForestStep ==
  ASSUME TypeOK, IdsUsed, Forest, WalksSearch, [Next]_vars
  PROVE  Forest'
<1>1. SUFFICES ASSUME NEW S, S \subseteq NodeIds, S # {},
                      \A y \in S : Exists(y)' /\ y \notin raced' /\ node'[y].parent \in S
               PROVE  FALSE
  BY DEF Forest
<1>2. ASSUME NEW R, R \subseteq S, R # {},
             \A y \in R : Exists(y) /\ y \notin raced /\ node[y].parent \in R
      PROVE  FALSE
  <2>1. R \in (SUBSET {n \in NodeIds \ raced : Exists(n)}) \ {{}}
    BY <1>1, <1>2
  <2>2. QED
    BY <1>2, <2>1 DEF Forest
<1>3. ASSUME NEW r \in Requests, Looks(r) PROVE FALSE
  BY <1>1, <1>2, <1>3 DEF Looks, Exists
<1>4. ASSUME NEW r \in Requests, NEW n \in NodeIds, CreateSave(r, n) PROVE FALSE
  <2> DEFINE R == S \ {n}
  <2>1. /\ node[n] = None /\ raced' = raced /\ node'[n] = req[r].doc /\ Exists(n)'
        /\ Placing(req[r], req[r].doc.parent)
        /\ \A m \in NodeIds \ {n} : node'[m] = node[m] /\ (Exists(m)' <=> Exists(m))
    BY <1>4, CreateSaves
  <2>2. ASSUME NEW y \in R PROVE Exists(y) /\ y \notin raced /\ node[y].parent \in R
    <3>1. node[y].parent \in S /\ Exists(y)
      BY <1>1, <2>1, <2>2
    <3>2. node[y].parent # None /\ node[node[y].parent] # None
      BY <1>1, <3>1, TreeAssumption DEF IdsUsed
    <3>3. QED
      BY <1>1, <2>1, <2>2, <3>1, <3>2
  <2>3. R # {}
    <3>1. CASE n \in S
      <4>1. req[r].doc.parent \in S
        BY <1>1, <2>1, <3>1
      <4>2. node[req[r].doc.parent] # None
        BY <1>1, <2>1, <4>1 DEF IdsUsed
      <4>3. QED
        BY <2>1, <4>1, <4>2
    <3>2. QED
      BY <1>1, <3>1
  <2>4. QED
    BY <1>2, <2>2, <2>3
<1>5. ASSUME NEW r \in Requests, UpdateSave(r), Exists(req[r].id) PROVE FALSE
  <2> DEFINE n == req[r].id  body == req[r].body
  <2>1. /\ n \in NodeIds /\ req[r].op = "update"
        /\ \A m \in NodeIds : Exists(m)' <=> Exists(m)
        /\ \A m \in NodeIds \ {n} : node'[m] = node[m]
        /\ node'[n].parent = IF body.parent = Same THEN node[n].parent ELSE body.parent
        /\ raced \subseteq raced'
    BY <1>5, UpdateSaves
  <2>2. CASE n \in S /\ body.parent # Same
    <3>1. body.parent \in S
      BY <1>1, <2>1, <2>2
    <3>2. S \in Loops(n, body.parent)
      BY <1>1, <2>1, <2>2, <3>1 DEF Loops
    <3>3. req[r].op = "walk"
      BY <1>1, <2>1, <3>1, <3>2 DEF WalksSearch
    <3>4. QED
      BY <2>1, <3>3
  <2>3. CASE ~(n \in S /\ body.parent # Same)
    <3>1. \A y \in S : Exists(y) /\ y \notin raced /\ node[y].parent \in S
      BY <1>1, <2>1, <2>3
    <3>2. QED
      BY <1>1, <1>2, <3>1
  <2>4. QED
    BY <2>2, <2>3
<1>6. ASSUME NEW r \in Requests, DeleteSave(r) PROVE FALSE
  <2> DEFINE n == req[r].id
  <2>1. /\ n \in NodeIds /\ node'[n] \notin Nodes /\ raced' = raced \ {n}
        /\ \A m \in NodeIds \ {n} : node'[m] = node[m] /\ (Exists(m)' <=> Exists(m))
    BY <1>6, DeleteSaves
  <2>2. n \notin S
    BY <1>1, <2>1 DEF Exists
  <2>3. \A y \in S : Exists(y) /\ y \notin raced /\ node[y].parent \in S
    BY <1>1, <2>1, <2>2
  <2>4. QED
    BY <1>1, <1>2, <2>3
<1>7. CASE UNCHANGED vars
  BY <1>1, <1>2, <1>7 DEF vars, Exists
<1>8. QED
  BY <1>3, <1>4, <1>5, <1>6, <1>7, Steps

-----------------------------------------------------------------------------
(* Parents.                                                                *)

LEMMA DeletesStep ==
  ASSUME TypeOK, DeletesChildless, [Next]_vars
  PROVE  DeletesChildless'
<1>1. ASSUME NEW r \in Requests, Looks(r) PROVE DeletesChildless'
  <2>1. /\ node' = node /\ contested' = contested /\ \A n : Childless(n)' <=> Childless(n)
        /\ \A t \in Requests : t # r => req'[t] = req[t]
    BY <1>1 DEF Looks, Childless, Exists
  <2>2. req'[r].op = "delete" => Childless(req'[r].id)
    BY <1>1 DEF Looks, SeesParent, SeesChildless, SeesNode, SeesTarget, SeesAncestor, Idle
  <2>3. QED
    BY <2>1, <2>2 DEF DeletesChildless
<1>2. ASSUME NEW r \in Requests, NEW d \in NodeIds,
             \A m \in NodeIds \ {d} : node'[m] = node[m] /\ (Exists(m)' <=> Exists(m)),
             Exists(d)' => \/ Exists(d) /\ node'[d].parent = node[d].parent
                           \/ contested' = Contested(node'[d].parent),
             contested \subseteq contested', req' = [req EXCEPT ![r] = Idle]
      PROVE  DeletesChildless'
  <2>1. ASSUME NEW t \in Requests, req'[t].op = "delete", req'[t].id \notin contested',
               NEW m \in NodeIds, Exists(m)', node'[m].parent = req'[t].id
        PROVE  FALSE
    <3>1. req'[t] = req[t]
      BY <1>2, <2>1 DEF TypeOK, Idle
    <3>2. Childless(req[t].id)
      BY <1>2, <2>1, <3>1 DEF DeletesChildless
    <3>3. Deleting(req[t].id) => req[t].id \in Contested(req[t].id)
      BY DeletingNode
    <3>4. QED
      BY <1>2, <2>1, <3>1, <3>2, <3>3 DEF Childless, Deleting
  <2>2. QED
    BY <2>1 DEF DeletesChildless, Childless
<1>3. ASSUME NEW r \in Requests, NEW n \in NodeIds, CreateSave(r, n) PROVE DeletesChildless'
  BY <1>2, <1>3, CreateSaves, DeletingNode
<1>4. ASSUME NEW r \in Requests, UpdateSave(r), Exists(req[r].id) PROVE DeletesChildless'
  <2> DEFINE n == req[r].id  body == req[r].body
  <2>1. /\ n \in NodeIds /\ req' = [req EXCEPT ![r] = Idle]
        /\ \A m \in NodeIds : Exists(m)' <=> Exists(m)
        /\ \A m \in NodeIds \ {n} : node'[m] = node[m]
        /\ node'[n].parent = IF body.parent = Same THEN node[n].parent ELSE body.parent
        /\ contested' = Contested(body.parent)
    BY <1>4, UpdateSaves
  <2>2. contested \subseteq contested'
    BY <2>1, DeletingNode
  <2> HIDE DEF n, body
  <2>3. ASSUME NEW d \in NodeIds, d = n PROVE DeletesChildless'
    BY <1>2, <2>1, <2>2, <2>3
  <2>4. QED
    BY <2>1, <2>3
<1>5. ASSUME NEW r \in Requests, DeleteSave(r) PROVE DeletesChildless'
  <2> DEFINE n == req[r].id
  <2>1. /\ n \in NodeIds /\ req' = [req EXCEPT ![r] = Idle] /\ node'[n] \notin Nodes
        /\ \A m \in NodeIds \ {n} : node'[m] = node[m] /\ (Exists(m)' <=> Exists(m))
        /\ contested \subseteq contested'
    BY <1>5, DeleteSaves
  <2> HIDE DEF n
  <2>2. ASSUME NEW d \in NodeIds, d = n PROVE DeletesChildless'
    BY <1>2, <2>1, <2>2 DEF Exists
  <2>3. QED
    BY <2>1, <2>2
<1>6. CASE UNCHANGED vars
  BY <1>6 DEF vars, DeletesChildless, Childless, Exists
<1>7. QED
  BY <1>1, <1>3, <1>4, <1>5, <1>6, Steps

LEMMA PlacesStep ==
  ASSUME TypeOK, ParentsExist, PlacesUnderNodes, [Next]_vars
  PROVE  PlacesUnderNodes'
<1> USE TreeAssumption
<1>1. ASSUME NEW r \in Requests, Looks(r) PROVE PlacesUnderNodes'
  <2>1. /\ node' = node /\ contested' = contested /\ \A n \in NodeIds : Exists(n)' <=> Exists(n)
        /\ \A t \in Requests : t # r => req'[t] = req[t]
    BY <1>1 DEF Looks, Exists
  <2>2. ASSUME NEW p \in NodeIds \ contested, Placing(req'[r], p) PROVE Exists(p)
    <3>1. CASE SeesParent(req'[r])
      BY <2>2, <3>1 DEF SeesParent, Placing
    <3>2. CASE SeesNode(req'[r])
      <4>1. req'[r].id \in NodeIds /\ Exists(req'[r].id) /\ node[req'[r].id].parent = p
        BY <2>2, <3>2 DEF SeesNode, Placing, Moves
      <4>2. QED
        BY <4>1 DEF ParentsExist
    <3>3. CASE SeesTarget(req[r], req'[r])
      BY <2>2, <3>3 DEF SeesTarget, Placing
    <3>4. CASE SeesAncestor(req[r], req'[r])
      BY <2>2, <3>4 DEF SeesAncestor, Placing, PlacesUnderNodes
    <3>5. QED
      BY <1>1, <2>2, <3>1, <3>2, <3>3, <3>4 DEF Looks, SeesChildless, Placing, Idle
  <2>3. QED
    BY <2>1, <2>2 DEF PlacesUnderNodes, Placing
<1>2. ASSUME NEW r \in Requests, req' = [req EXCEPT ![r] = Idle], contested \subseteq contested',
             NEW t \in Requests, NEW p \in NodeIds \ contested', Placing(req'[t], p)
      PROVE  t # r /\ Placing(req[t], p) /\ Exists(p)
  BY <1>2 DEF PlacesUnderNodes, TypeOK, Placing, Idle
<1>3. ASSUME NEW r \in Requests, NEW n \in NodeIds, CreateSave(r, n) PROVE PlacesUnderNodes'
  <2>1. /\ req' = [req EXCEPT ![r] = Idle] /\ contested \subseteq contested' /\ Exists(n)'
        /\ \A m \in NodeIds \ {n} : Exists(m)' <=> Exists(m)
    BY <1>3, CreateSaves, DeletingNode
  <2>2. QED
    BY <1>2, <2>1 DEF PlacesUnderNodes, Placing
<1>4. ASSUME NEW r \in Requests, UpdateSave(r), Exists(req[r].id) PROVE PlacesUnderNodes'
  <2>1. /\ req' = [req EXCEPT ![r] = Idle] /\ contested \subseteq contested'
        /\ \A m \in NodeIds : Exists(m)' <=> Exists(m)
    BY <1>4, UpdateSaves, DeletingNode
  <2>2. QED
    BY <1>2, <2>1 DEF PlacesUnderNodes, Placing
<1>5. ASSUME NEW r \in Requests, DeleteSave(r) PROVE PlacesUnderNodes'
  <2> DEFINE n == req[r].id
  <2>1. /\ req' = [req EXCEPT ![r] = Idle] /\ contested \subseteq contested'
        /\ n \in NodeIds /\ \A m \in NodeIds \ {n} : Exists(m)' <=> Exists(m)
        /\ (\E q \in Requests : n \in Naming(req[q])) => n \in contested'
    BY <1>5, DeleteSaves
  <2>2. ASSUME NEW t \in Requests, NEW p \in NodeIds \ contested', Placing(req'[t], p)
        PROVE  Exists(p)'
    <3>1. Placing(req[t], p) /\ Exists(p)
      BY <1>2, <2>1, <2>2
    <3>2. p \in Naming(req[t])
      BY <3>1 DEF Placing, Naming
    <3>3. p # n
      BY <2>1, <2>2, <3>2
    <3>4. QED
      BY <2>1, <3>1, <3>3
  <2>3. QED
    BY <2>2 DEF PlacesUnderNodes, Placing
<1>6. CASE UNCHANGED vars
  BY <1>6 DEF vars, PlacesUnderNodes, Placing, Exists
<1>7. QED
  BY <1>1, <1>3, <1>4, <1>5, <1>6, Steps

LEMMA ParentsStep ==
  ASSUME TypeOK, IdsUsed, ParentsExist, DeletesChildless, PlacesUnderNodes, [Next]_vars
  PROVE  ParentsExist'
<1>1. SUFFICES ASSUME NEW m \in NodeIds, node'[m] \in Nodes, node'[m].parent \notin contested' \cup {None}
               PROVE  node'[node'[m].parent] \in Nodes
  BY DEF ParentsExist, Exists
<1>2. contested \subseteq contested' /\ Exists(m) /\ node'[m].parent = node[m].parent =>
          node'[m].parent \in NodeIds /\ Exists(node'[m].parent)
  BY <1>1, NodeFields DEF ParentsExist
<1>3. ASSUME NEW r \in Requests, Looks(r) PROVE node'[node'[m].parent] \in Nodes
  BY <1>1, <1>2, <1>3 DEF Looks, Exists
<1>4. ASSUME NEW r \in Requests, NEW n \in NodeIds, CreateSave(r, n) PROVE node'[node'[m].parent] \in Nodes
  <2>1. /\ node'[n] = req[r].doc /\ Exists(n)' /\ req[r].doc \in Nodes
        /\ \A k \in NodeIds \ {n} : node'[k] = node[k] /\ (Exists(k)' <=> Exists(k))
        /\ Placing(req[r], req[r].doc.parent) /\ contested \subseteq contested'
    BY <1>4, CreateSaves, DeletingNode
  <2>2. CASE m = n
    <3>1. req[r].doc.parent \in NodeIds \ contested
      BY <1>1, <2>1, <2>2 DEF Nodes, Parents
    <3>2. Exists(req[r].doc.parent)
      BY <2>1, <3>1 DEF PlacesUnderNodes
    <3>3. QED
      BY <2>1, <2>2, <3>1, <3>2 DEF Exists
  <2>3. CASE m # n
    BY <1>1, <1>2, <2>1, <2>3 DEF Exists
  <2>4. QED
    BY <2>2, <2>3
<1>5. ASSUME NEW r \in Requests, UpdateSave(r), Exists(req[r].id) PROVE node'[node'[m].parent] \in Nodes
  <2> DEFINE n == req[r].id  body == req[r].body
  <2>1. /\ n \in NodeIds /\ req[r].op = "update"
        /\ \A k \in NodeIds : Exists(k)' <=> Exists(k)
        /\ \A k \in NodeIds \ {n} : node'[k] = node[k]
        /\ node'[n].parent = IF body.parent = Same THEN node[n].parent ELSE body.parent
        /\ contested \subseteq contested'
    BY <1>5, UpdateSaves, DeletingNode
  <2>2. CASE m = n /\ body.parent # Same
    <3>1. body.parent \in NodeIds \ contested
      BY <1>1, <2>1, <2>2, RequestFields
    <3>2. Exists(body.parent)
      BY <2>1, <3>1 DEF PlacesUnderNodes, Placing
    <3>3. QED
      BY <2>1, <2>2, <3>1, <3>2 DEF Exists
  <2>3. CASE ~(m = n /\ body.parent # Same)
    BY <1>1, <1>2, <2>1, <2>3 DEF Exists
  <2>4. QED
    BY <2>2, <2>3
<1>6. ASSUME NEW r \in Requests, DeleteSave(r) PROVE node'[node'[m].parent] \in Nodes
  <2> DEFINE n == req[r].id
  <2>1. /\ n \in NodeIds /\ req[r].op = "delete" /\ node'[n] \notin Nodes
        /\ \A k \in NodeIds \ {n} : node'[k] = node[k] /\ (Exists(k)' <=> Exists(k))
        /\ contested \subseteq contested' /\ contested' \subseteq contested \cup {n}
    BY <1>6, DeleteSaves
  <2>2. m # n /\ Exists(m) /\ node'[m].parent = node[m].parent
    BY <1>1, <2>1 DEF Exists
  <2>3. node[m].parent # n
    BY <1>1, <2>1, <2>2 DEF DeletesChildless, Childless
  <2>4. QED
    BY <1>2, <2>1, <2>2, <2>3 DEF Exists
<1>7. CASE UNCHANGED vars
  BY <1>1, <1>2, <1>7 DEF vars, Exists
<1>8. QED
  BY <1>3, <1>4, <1>5, <1>6, <1>7, Steps

-----------------------------------------------------------------------------
(* Levels.                                                                 *)

\* A node that was there and is not relabelled has the level it had.
LEMMA LevelsKept ==
  ASSUME TypeOK, NEW r \in Requests,
         \/ \E n \in NodeIds : CreateSave(r, n)
         \/ UpdateSave(r) /\ Exists(req[r].id)
         \/ DeleteSave(r),
         NEW m \in NodeIds, node[m] # None, Exists(m)', m \notin relabelled'
  PROVE  Exists(m) /\ m \notin relabelled /\ node'[m].level = node[m].level
<1>1. ASSUME NEW n \in NodeIds, CreateSave(r, n)
      PROVE  Exists(m) /\ m \notin relabelled /\ node'[m].level = node[m].level
  BY <1>1, CreateSaves
<1>2. CASE UpdateSave(r) /\ Exists(req[r].id)
  <2>1. LET n == req[r].id  body == req[r].body IN
        /\ \A k \in NodeIds : Exists(k)' <=> Exists(k)
        /\ \A k \in NodeIds \ {n} : node'[k] = node[k]
        /\ node'[n].level = IF body.level = Same THEN node[n].level ELSE body.level
        /\ body.level \notin {Same, node[n].level} => n \in relabelled'
        /\ relabelled \subseteq relabelled'
    BY <1>2, UpdateSaves
  <2>2. QED
    BY <2>1
<1>3. CASE DeleteSave(r)
  <2> DEFINE n == req[r].id
  <2>1. /\ node'[n] \notin Nodes /\ relabelled' = relabelled \ {n}
        /\ \A k \in NodeIds \ {n} : node'[k] = node[k] /\ (Exists(k)' <=> Exists(k))
    BY <1>3, DeleteSaves
  <2>2. m # n
    BY <2>1 DEF Exists
  <2>3. QED
    BY <2>1, <2>2
<1>4. QED
  BY <1>1, <1>2, <1>3

LEMMA LevelsStep ==
  ASSUME TypeOK, IdsUsed, LevelsDescend, RequestsDescend, [Next]_vars
  PROVE  LevelsDescend'
<1>1. SUFFICES ASSUME NEW m \in NodeIds \ relabelled', Exists(m)', NEW p \in NodeIds \ relabelled',
                      p = node'[m].parent, Exists(p)'
               PROVE  node'[m].level > node'[p].level
  <2>1. ASSUME NEW m \in NodeIds \ relabelled', Exists(m)', node'[m].parent # None,
               node'[node'[m].parent] \in Nodes, node'[m].parent \notin relabelled'
        PROVE  node'[m].level > node'[node'[m].parent].level
    <3>1. node'[m].parent \in NodeIds
      BY <2>1 DEF Exists, Nodes, Parents
    <3>2. QED
      BY <1>1, <2>1, <3>1 DEF Exists
  <2>2. QED
    BY <2>1 DEF LevelsDescend, Below, Exists
<1>2. Exists(m) /\ m \notin relabelled /\ node[m].parent = p /\ Exists(p) /\ p \notin relabelled =>
          node[m].level > node[p].level
  BY TreeAssumption DEF LevelsDescend, Below
<1>3. ASSUME NEW r \in Requests, Looks(r) PROVE node'[m].level > node'[p].level
  BY <1>1, <1>2, <1>3 DEF Looks, Exists
<1>4. ASSUME NEW r \in Requests, NEW n \in NodeIds, CreateSave(r, n)
      PROVE  node'[m].level > node'[p].level
  <2>1. /\ node[n] = None /\ node'[n] = req[r].doc /\ req[r].op = "create"
        /\ Placing(req[r], req[r].doc.parent)
        /\ \A k \in NodeIds \ {n} : node'[k] = node[k] /\ (Exists(k)' <=> Exists(k))
    BY <1>4, CreateSaves
  <2>2. node[p] # None
    <3>1. CASE m = n
      BY <1>1, <2>1, <3>1 DEF IdsUsed
    <3>2. CASE m # n
      BY <1>1, <2>1, <3>2, TreeAssumption DEF IdsUsed
    <3>3. QED
      BY <3>1, <3>2
  <2>3. Exists(p) /\ p \notin relabelled /\ node'[p].level = node[p].level
    BY <1>1, <1>4, <2>2, LevelsKept
  <2>4. CASE m = n
    BY <1>1, <2>1, <2>3, <2>4, TreeAssumption DEF RequestsDescend, Below
  <2>5. CASE m # n
    <3>1. node[m] # None
      BY <1>1, <2>1, <2>5, NodeFields
    <3>2. Exists(m) /\ m \notin relabelled /\ node'[m].level = node[m].level
      BY <1>1, <1>4, <3>1, LevelsKept
    <3>3. QED
      BY <1>1, <1>2, <2>1, <2>3, <2>5, <3>2
  <2>6. QED
    BY <2>4, <2>5
<1>5. ASSUME NEW r \in Requests, UpdateSave(r), Exists(req[r].id)
      PROVE  node'[m].level > node'[p].level
  <2> DEFINE n == req[r].id  body == req[r].body
  <2>1. /\ req[r].op = "update"
        /\ \A k \in NodeIds : Exists(k)' <=> Exists(k)
        /\ \A k \in NodeIds \ {n} : node'[k] = node[k]
        /\ node'[n].parent = IF body.parent = Same THEN node[n].parent ELSE body.parent
        /\ body.level \notin {Same, node[n].level} => n \in relabelled'
    BY <1>5, UpdateSaves
  <2>2. node[m] # None /\ node[p] # None
    BY <1>1, <2>1, NodeFields
  <2>3. /\ Exists(m) /\ m \notin relabelled /\ node'[m].level = node[m].level
        /\ Exists(p) /\ p \notin relabelled /\ node'[p].level = node[p].level
    BY <1>1, <1>5, <2>2, LevelsKept
  <2>4. CASE m = n /\ body.parent # Same
    <3>1. body.parent = p /\ body.level \in {Same, node[n].level}
      BY <1>1, <2>1, <2>4
    <3>2. Below(node[n].level, p)
      BY <1>5, <2>1, <2>3, <2>4, <3>1 DEF RequestsDescend
    <3>3. QED
      BY <2>3, <2>4, <3>2 DEF Below
  <2>5. CASE ~(m = n /\ body.parent # Same)
    BY <1>1, <1>2, <2>1, <2>3, <2>5
  <2>6. QED
    BY <2>4, <2>5
<1>6. ASSUME NEW r \in Requests, DeleteSave(r) PROVE node'[m].level > node'[p].level
  <2> DEFINE n == req[r].id
  <2>1. /\ node'[n] \notin Nodes
        /\ \A k \in NodeIds \ {n} : node'[k] = node[k] /\ (Exists(k)' <=> Exists(k))
    BY <1>6, DeleteSaves
  <2>2. m # n /\ p # n /\ node[m] # None /\ node[p] # None
    BY <1>1, <2>1, NodeFields DEF Exists
  <2>3. QED
    BY <1>1, <1>2, <1>6, <2>1, <2>2, LevelsKept
<1>7. CASE UNCHANGED vars
  BY <1>1, <1>2, <1>7 DEF vars, Exists
<1>8. QED
  BY <1>3, <1>4, <1>5, <1>6, <1>7, Steps

LEMMA RequestsStep ==
  ASSUME TypeOK, IdsUsed, LevelsDescend, RequestsDescend, [Next]_vars
  PROVE  RequestsDescend'
<1> DEFINE Creates(t) ==
             req'[t].op = "create" =>
                 \A p \in NodeIds \ relabelled' :
                     req'[t].doc.parent = p /\ Exists(p)' => req'[t].doc.level > node'[p].level
           Keeps(t, n) ==
             /\ req'[t].op \in {"target", "walk", "update"} /\ n = req'[t].id
             /\ n \notin relabelled' /\ Exists(n)' /\ req'[t].body.level \in {Same, node'[n].level}
           Targets(t, n) == req'[t].op = "target" => req'[t].newLevel = node'[n].level
           Places(t, n) ==
             req'[t].op \in {"walk", "update"} =>
                 \A p \in NodeIds \ relabelled' :
                     req'[t].body.parent = p /\ Exists(p)' => node'[n].level > node'[p].level
<1>1. SUFFICES ASSUME NEW t \in Requests
               PROVE  /\ Creates(t)
                      /\ \A n \in NodeIds : Keeps(t, n) => Targets(t, n) /\ Places(t, n)
  <2>1. TypeOK'
    BY TypeStep
  <2>2. ASSUME NEW t \in Requests, req'[t].op = "create", req'[t].doc.parent # None
        PROVE  /\ node'[req'[t].doc.parent] \in Nodes /\ req'[t].doc.parent \notin relabelled' =>
                      req'[t].doc.level > node'[req'[t].doc.parent].level
    <3>1. req'[t].doc.parent \in NodeIds
      BY <2>1, <2>2, KindOfRequest DEF TypeOK, CreateReq, Nodes, Parents
    <3>2. QED
      BY <1>1, <2>2, <3>1 DEF Exists
  <2>3. ASSUME NEW t \in Requests, req'[t].op \in {"target", "walk", "update"},
               req'[t].id \notin relabelled', node'[req'[t].id] \in Nodes,
               req'[t].body.level \in {Same, node'[req'[t].id].level}
        PROVE  /\ req'[t].op = "target" => req'[t].newLevel = node'[req'[t].id].level
               /\ req'[t].op # "target" /\ req'[t].body.parent \in NodeIds =>
                     (node'[req'[t].body.parent] \in Nodes /\ req'[t].body.parent \notin relabelled' =>
                          node'[req'[t].id].level > node'[req'[t].body.parent].level)
    <3>1. req'[t].id \in NodeIds
      BY <2>1, <2>3, KindOfRequest DEF TypeOK, TargetReq, WalkReq, UpdateReq
    <3>2. PICK n \in NodeIds : n = req'[t].id
      BY <3>1
    <3>3. Keeps(t, n)
      BY <2>3, <3>2 DEF Exists
    <3>4. Targets(t, n) /\ Places(t, n)
      BY <1>1, <3>3
    <3>5. QED
      BY <2>3, <3>2, <3>4 DEF Exists
  <2>4. QED
    BY <2>2, <2>3 DEF RequestsDescend, Below, Exists
<1>2. ASSUME NEW r \in Requests, Looks(r)
      PROVE  /\ Creates(t)
             /\ \A n \in NodeIds : Keeps(t, n) => Targets(t, n) /\ Places(t, n)
  <2>1. /\ node' = node /\ relabelled' = relabelled /\ \A n \in NodeIds : Exists(n)' <=> Exists(n)
        /\ t # r => req'[t] = req[t]
    BY <1>2 DEF Looks, Exists
  <2>2. ASSUME NEW n \in NodeIds, Keeps(t, n),
               \/ req'[t].op = req[t].op
               \/ req'[t].op = "update" /\ req[t].op = "walk",
               req'[t].id = req[t].id, req'[t].body = req[t].body,
               req'[t].op = "target" => req'[t].newLevel = req[t].newLevel
        PROVE  Targets(t, n) /\ Places(t, n)
    <3>1. /\ req[t].op \in {"target", "walk", "update"} /\ n = req[t].id
          /\ n \notin relabelled /\ Exists(n) /\ req[t].body.level \in {Same, node[n].level}
      BY <2>1, <2>2
    <3>2. /\ req[t].op = "target" => req[t].newLevel = node[n].level
          /\ req[t].op # "target" /\ req[t].body.parent \in NodeIds =>
                 Below(node[n].level, req[t].body.parent)
      BY <3>1 DEF RequestsDescend
    <3>3. QED
      BY <2>1, <2>2, <3>2 DEF Below
  <2>3. CASE t # r
    BY <2>1, <2>2, <2>3, TreeAssumption DEF RequestsDescend, Below
  <2>4. CASE t = r
    <3>1. Creates(t)
      <4>1. CASE SeesParent(req'[t])
        BY <2>1, <4>1, TreeAssumption DEF SeesParent
      <4>2. CASE ~SeesParent(req'[t])
        <5>1. req'[t].op # "create"
          BY <1>2, <2>4, <4>2
             DEF Looks, SeesChildless, SeesNode, SeesTarget, SeesAncestor, Idle
        <5>2. QED
          BY <5>1
      <4>3. QED
        BY <4>1, <4>2
    <3>2. ASSUME NEW n \in NodeIds, Keeps(t, n) PROVE Targets(t, n) /\ Places(t, n)
      <4>1. CASE SeesNode(req'[t])
        <5>1. Targets(t, n)
          BY <2>1, <3>2, <4>1 DEF SeesNode
        <5>2. ASSUME NEW p \in NodeIds \ relabelled, req'[t].op = "update",
                     req'[t].body.parent = p, Exists(p)
              PROVE  node[n].level > node[p].level
          <6>1. node[n].parent = p
            BY <3>2, <4>1, <5>2 DEF SeesNode, Moves
          <6>2. QED
            BY <2>1, <3>2, <5>2, <6>1, TreeAssumption DEF LevelsDescend, Below
        <5>3. QED
          BY <2>1, <4>1, <5>1, <5>2 DEF SeesNode
      <4>2. CASE SeesTarget(req[t], req'[t])
        <5>1. req[t].newLevel = node[n].level
          BY <2>1, <3>2, <4>2 DEF SeesTarget, RequestsDescend
        <5>2. QED
          BY <2>1, <4>2, <5>1 DEF SeesTarget
      <4>3. CASE SeesAncestor(req[t], req'[t])
        BY <2>2, <3>2, <4>3 DEF SeesAncestor
      <4>4. QED
        BY <1>2, <2>4, <3>2, <4>1, <4>2, <4>3 DEF Looks, SeesParent, SeesChildless, Idle
    <3>3. QED
      BY <3>1, <3>2
  <2>5. QED
    BY <2>3, <2>4
<1>3. ASSUME NEW r \in Requests,
             \/ \E n \in NodeIds : CreateSave(r, n)
             \/ UpdateSave(r) /\ Exists(req[r].id)
             \/ DeleteSave(r)
      PROVE  /\ Creates(t)
             /\ \A n \in NodeIds : Keeps(t, n) => Targets(t, n) /\ Places(t, n)
  <2>1. req' = [req EXCEPT ![r] = Idle]
    BY <1>3, CreateSaves, UpdateSaves, DeleteSaves
  <2>2. req'[t] = req[t] \/ req'[t].op = "idle"
    BY <2>1 DEF TypeOK, Idle
  <2>3. CASE req'[t] = req[t]
    <3>1. ASSUME NEW p \in NodeIds \ relabelled', Placing(req[t], p), Exists(p)'
          PROVE  Exists(p) /\ p \notin relabelled /\ node'[p].level = node[p].level
      BY <1>3, <3>1, LevelsKept DEF IdsUsed
    <3>2. Creates(t)
      BY <2>3, <3>1, TreeAssumption DEF Placing, RequestsDescend, Below
    <3>3. ASSUME NEW n \in NodeIds, Keeps(t, n) PROVE Targets(t, n) /\ Places(t, n)
      <4>1. node[n] # None
        BY <2>3, <3>3 DEF IdsUsed
      <4>2. Exists(n) /\ n \notin relabelled /\ node'[n].level = node[n].level
        BY <1>3, <3>3, <4>1, LevelsKept
      <4>3. /\ req[t].op = "target" => req[t].newLevel = node[n].level
            /\ req[t].op # "target" /\ req[t].body.parent \in NodeIds =>
                   Below(node[n].level, req[t].body.parent)
        BY <2>3, <3>3, <4>2 DEF RequestsDescend
      <4>4. QED
        BY <2>3, <3>1, <4>2, <4>3 DEF Placing, Below
    <3>4. QED
      BY <3>2, <3>3
  <2>4. QED
    BY <2>2, <2>3
<1>4. CASE UNCHANGED vars
  <2>1. /\ node' = node /\ relabelled' = relabelled /\ req' = req
        /\ \A n \in NodeIds : Exists(n)' <=> Exists(n)
    BY <1>4 DEF vars, Exists
  <2>2. QED
    BY <2>1, TreeAssumption DEF RequestsDescend, Below
<1>5. QED
  BY <1>2, <1>3, <1>4, Steps

LEMMA BelowTopStep ==
  ASSUME TypeOK, IdsUsed, ChildrenBelowTop, RequestsBelowTop, [Next]_vars
  PROVE  ChildrenBelowTop'
<1>1. SUFFICES ASSUME NEW m \in NodeIds \ relabelled', Exists(m)', node'[m].parent # None
               PROVE  node'[m].level > 1
  BY DEF ChildrenBelowTop, Exists
<1>2. Exists(m) /\ m \notin relabelled /\ node[m].parent # None => node[m].level > 1
  BY DEF ChildrenBelowTop
<1>3. ASSUME NEW r \in Requests, Looks(r) PROVE node'[m].level > 1
  BY <1>1, <1>2, <1>3 DEF Looks, Exists
<1>4. ASSUME NEW r \in Requests, NEW n \in NodeIds, CreateSave(r, n) PROVE node'[m].level > 1
  <2>1. /\ node[n] = None /\ node'[n] = req[r].doc /\ req[r].op = "create"
        /\ \A k \in NodeIds \ {n} : node'[k] = node[k] /\ (Exists(k)' <=> Exists(k))
        /\ relabelled' = relabelled
    BY <1>4, CreateSaves DEF CreateSave
  <2>2. CASE m = n
    BY <1>1, <2>1, <2>2 DEF RequestsBelowTop
  <2>3. CASE m # n
    BY <1>1, <1>2, <2>1, <2>3
  <2>4. QED
    BY <2>2, <2>3
<1>5. ASSUME NEW r \in Requests, UpdateSave(r), Exists(req[r].id) PROVE node'[m].level > 1
  <2> DEFINE n == req[r].id  body == req[r].body
  <2>1. /\ n \in NodeIds /\ body \in Changes /\ req[r].op = "update"
        /\ \A k \in NodeIds : Exists(k)' <=> Exists(k)
        /\ \A k \in NodeIds \ {n} : node'[k] = node[k]
        /\ node'[n].parent = IF body.parent = Same THEN node[n].parent ELSE body.parent
        /\ body.level \notin {Same, node[n].level} => n \in relabelled'
    BY <1>5, UpdateSaves, RequestFields
  <2>2. node[m] # None
    BY <1>1, <2>1, NodeFields
  <2>3. Exists(m) /\ m \notin relabelled /\ node'[m].level = node[m].level
    BY <1>1, <1>5, <2>2, LevelsKept
  <2>4. CASE m = n /\ body.parent # Same
    <3>1. body.parent \in NodeIds /\ body.level \in {Same, node[n].level}
      BY <1>1, <2>1, <2>4 DEF Changes, Parents
    <3>2. QED
      BY <2>1, <2>3, <2>4, <3>1 DEF RequestsBelowTop
  <2>5. CASE ~(m = n /\ body.parent # Same)
    BY <1>1, <1>2, <2>1, <2>3, <2>5
  <2>6. QED
    BY <2>4, <2>5
<1>6. ASSUME NEW r \in Requests, DeleteSave(r) PROVE node'[m].level > 1
  <2> DEFINE n == req[r].id
  <2>1. /\ node'[n] \notin Nodes /\ relabelled' = relabelled \ {n}
        /\ \A k \in NodeIds \ {n} : node'[k] = node[k] /\ (Exists(k)' <=> Exists(k))
    BY <1>6, DeleteSaves
  <2>2. m # n
    BY <1>1, <2>1 DEF Exists
  <2>3. QED
    BY <1>1, <1>2, <2>1, <2>2
<1>7. CASE UNCHANGED vars
  BY <1>1, <1>2, <1>7 DEF vars, Exists
<1>8. QED
  BY <1>3, <1>4, <1>5, <1>6, <1>7, Steps

LEMMA RequestsBelowTopStep ==
  ASSUME TypeOK, IdsUsed, RequestsDescend, ChildrenBelowTop, RequestsBelowTop, [Next]_vars
  PROVE  RequestsBelowTop'
<1> DEFINE Creates(t) ==
             req'[t].op = "create" /\ req'[t].doc.parent # None => req'[t].doc.level > 1
           Keeps(t, n) ==
             /\ req'[t].op \in {"walk", "update"} /\ req'[t].body.parent \in NodeIds
             /\ n = req'[t].id /\ n \notin relabelled' /\ Exists(n)'
             /\ req'[t].body.level \in {Same, node'[n].level}
<1>1. SUFFICES ASSUME NEW t \in Requests
               PROVE  /\ Creates(t)
                      /\ \A n \in NodeIds : Keeps(t, n) => node'[n].level > 1
  BY DEF RequestsBelowTop, Exists
<1>2. ASSUME NEW r \in Requests, Looks(r)
      PROVE  /\ Creates(t)
             /\ \A n \in NodeIds : Keeps(t, n) => node'[n].level > 1
  <2>1. /\ node' = node /\ relabelled' = relabelled /\ \A n \in NodeIds : Exists(n)' <=> Exists(n)
        /\ t # r => req'[t] = req[t]
    BY <1>2 DEF Looks, Exists
  <2>2. CASE t # r
    BY <2>1, <2>2 DEF RequestsBelowTop
  <2>3. CASE t = r
    <3>1. Creates(t)
      <4>1. CASE SeesParent(req'[t])
        <5>1. req'[t].doc \in Nodes
          BY <4>1 DEF SeesParent
        <5>2. req'[t].doc.parent # None => node[req'[t].doc.parent].level \in Levels
          BY <4>1, NodeFields DEF SeesParent
        <5>3. QED
          BY <4>1, <5>1, <5>2, TreeAssumption DEF SeesParent, Levels, Nodes
      <4>2. CASE ~SeesParent(req'[t])
        <5>1. req'[t].op # "create"
          BY <1>2, <2>3, <4>2
             DEF Looks, SeesChildless, SeesNode, SeesTarget, SeesAncestor, Idle
        <5>2. QED
          BY <5>1
      <4>3. QED
        BY <4>1, <4>2
    <3>2. ASSUME NEW n \in NodeIds, Keeps(t, n) PROVE node'[n].level > 1
      <4>1. CASE SeesNode(req'[t])
        <5>1. node[n].parent # None
          BY <3>2, <4>1, TreeAssumption DEF SeesNode, Moves
        <5>2. QED
          BY <2>1, <3>2, <5>1 DEF ChildrenBelowTop
      <4>2. CASE SeesTarget(req[t], req'[t])
        <5>1. req[t].newLevel = node[n].level
          BY <2>1, <3>2, <4>2 DEF SeesTarget, RequestsDescend
        <5>2. node[req'[t].body.parent].level \in Levels /\ node[n].level \in Levels
          BY <2>1, <3>2, <4>2, NodeFields DEF SeesTarget
        <5>3. QED
          BY <2>1, <4>2, <5>1, <5>2, TreeAssumption DEF SeesTarget, Levels
      <4>3. CASE SeesAncestor(req[t], req'[t])
        BY <2>1, <3>2, <4>3 DEF SeesAncestor, RequestsBelowTop
      <4>4. QED
        BY <1>2, <2>3, <3>2, <4>1, <4>2, <4>3 DEF Looks, SeesParent, SeesChildless, Idle
    <3>3. QED
      BY <3>1, <3>2
  <2>4. QED
    BY <2>2, <2>3
<1>3. ASSUME NEW r \in Requests,
             \/ \E n \in NodeIds : CreateSave(r, n)
             \/ UpdateSave(r) /\ Exists(req[r].id)
             \/ DeleteSave(r)
      PROVE  /\ Creates(t)
             /\ \A n \in NodeIds : Keeps(t, n) => node'[n].level > 1
  <2>1. req' = [req EXCEPT ![r] = Idle]
    BY <1>3, CreateSaves, UpdateSaves, DeleteSaves
  <2>2. req'[t] = req[t] \/ req'[t].op = "idle"
    BY <2>1 DEF TypeOK, Idle
  <2>3. CASE req'[t] = req[t]
    <3>1. Creates(t)
      BY <2>3 DEF RequestsBelowTop
    <3>2. ASSUME NEW n \in NodeIds, Keeps(t, n) PROVE node'[n].level > 1
      <4>1. node[n] # None
        BY <2>3, <3>2 DEF IdsUsed
      <4>2. Exists(n) /\ n \notin relabelled /\ node'[n].level = node[n].level
        BY <1>3, <3>2, <4>1, LevelsKept
      <4>3. QED
        BY <2>3, <3>2, <4>2 DEF RequestsBelowTop
    <3>3. QED
      BY <3>1, <3>2
  <2>4. QED
    BY <2>2, <2>3
<1>4. CASE UNCHANGED vars
  <2>1. /\ node' = node /\ relabelled' = relabelled /\ req' = req
        /\ \A n \in NodeIds : Exists(n)' <=> Exists(n)
    BY <1>4 DEF vars, Exists
  <2>2. QED
    BY <2>1 DEF RequestsBelowTop
<1>5. QED
  BY <1>2, <1>3, <1>4, Steps

-----------------------------------------------------------------------------
(* What the search for descendants finds, round by round.                  *)

LEMMA LeastNumber ==
  ASSUME NEW T, T \subseteq Nat, T # {}
  PROVE  \E x \in T : \A y \in T : x <= y
<1>1. PICK x \in T : \A y \in T : <<y, x>> \notin OpToRel(<, Nat)
  BY NatLessThanWellFounded, WFMin
<1>2. ASSUME NEW y \in T PROVE x <= y
  <2>1. <<y, x>> \in Nat \X Nat
    OBVIOUS
  <2>2. ~(y < x)
    BY <1>1, <2>1 DEF OpToRel
  <2>3. QED
    BY <2>2
<1>3. QED
  BY <1>2

Kids(S) == {n \in NodeIds : Exists(n) /\ node[n].parent \in S}

\* The finds of m rounds.
IsSearch(f, ids, m) == f = [k \in 0..m |-> IF k = 0 THEN ids ELSE Kids(f[k - 1])]

LEMMA SearchExists ==
  ASSUME NEW ids
  PROVE  \A m \in Nat : \E f : IsSearch(f, ids, m)
<1> DEFINE T == {m \in Nat : ~\E f : IsSearch(f, ids, m)}
<1>1. SUFFICES ASSUME T # {} PROVE FALSE
  OBVIOUS
<1>2. PICK m \in T : \A k \in T : m <= k
  <2> HIDE DEF T
  <2>1. T \subseteq Nat
    BY DEF T
  <2>2. QED
    BY <1>1, <2>1, LeastNumber
<1>3. CASE m = 0
  <2> DEFINE f == [k \in 0..0 |-> ids]
  <2>1. IsSearch(f, ids, 0)
    BY DEF IsSearch
  <2>2. QED
    BY <1>3, <2>1
<1>4. CASE m # 0
  <2>1. m - 1 \in Nat /\ m - 1 \notin T
    BY <1>2, <1>4
  <2>2. PICK g : IsSearch(g, ids, m - 1)
    BY <2>1
  <2> DEFINE f == [k \in 0..m |-> IF k = 0 THEN ids ELSE Kids(g[k - 1])]
  <2>3. ASSUME NEW k \in 0..m, k # 0 PROVE g[k - 1] = f[k - 1]
    <3>1. k - 1 \in 0..(m - 1) /\ k - 1 \in 0..m
      BY <1>2, <2>3
    <3>2. QED
      BY <2>2, <3>1 DEF IsSearch
  <2>4. f = [k \in 0..m |-> IF k = 0 THEN ids ELSE Kids(f[k - 1])]
    <3> DEFINE h == [k \in 0..m |-> IF k = 0 THEN ids ELSE Kids(f[k - 1])]
    <3>1. \A k \in 0..m : f[k] = h[k]
      BY <2>3
    <3>2. f = h
      BY <3>1
    <3>3. QED
      BY <3>2
  <2>5. IsSearch(f, ids, m)
    BY <2>4 DEF IsSearch
  <2>6. QED
    BY <1>2, <2>5
<1>5. QED
  BY <1>3, <1>4

\* Found is the union of the rounds of a search.
LEMMA FoundByRounds ==
  ASSUME NEW ids
  PROVE  \E f : /\ f[0] = ids
                /\ \A k \in 0..Rounds : k # 0 => f[k] = Kids(f[k - 1])
                /\ Found(ids) = UNION {f[k] : k \in 0..Rounds}
<1> DEFINE currentIds == CHOOSE f : f = [k \in 0..Rounds |->
                             IF k = 0 THEN ids
                             ELSE {n \in NodeIds : Exists(n) /\ node[n].parent \in f[k - 1]}]
<1>1. Found(ids) = UNION {currentIds[k] : k \in 0..Rounds}
  BY DEF Found
<1>2. \E f : f = [k \in 0..Rounds |->
                    IF k = 0 THEN ids
                    ELSE {n \in NodeIds : Exists(n) /\ node[n].parent \in f[k - 1]}]
  <2>1. PICK g : IsSearch(g, ids, Rounds)
    BY SearchExists, TreeAssumption
  <2>2. g = [k \in 0..Rounds |->
               IF k = 0 THEN ids
               ELSE {n \in NodeIds : Exists(n) /\ node[n].parent \in g[k - 1]}]
    BY <2>1 DEF IsSearch, Kids
  <2>3. QED
    BY <2>2
<1>3. currentIds = [k \in 0..Rounds |->
                      IF k = 0 THEN ids
                      ELSE {n \in NodeIds : Exists(n) /\ node[n].parent \in currentIds[k - 1]}]
  BY <1>2
<1> HIDE DEF currentIds
<1>4. /\ currentIds[0] = ids
      /\ \A k \in 0..Rounds : k # 0 => currentIds[k] = Kids(currentIds[k - 1])
  BY <1>3, TreeAssumption DEF Kids
<1>5. QED
  BY <1>1, <1>4

\* What the k-th round finds is on a level below k.
LEMMA RoundsDescend ==
  ASSUME TypeOK, LevelsDescend, ChildrenBelowTop, NEW f, f[0] \subseteq NodeIds,
         \A k \in 0..Rounds : f[k] \cap relabelled = {},
         \A k \in 0..Rounds : k # 0 => f[k] = Kids(f[k - 1])
  PROVE  \A k \in 0..Rounds : k # 0 => \A x \in f[k] : node[x].level > k
<1> DEFINE T == {k \in 1..Rounds : \E x \in f[k] : ~(node[x].level > k)}
<1>1. SUFFICES ASSUME T # {} PROVE FALSE
  BY TreeAssumption
<1>2. PICK k \in T : \A j \in T : k <= j
  <2> HIDE DEF T
  <2>1. T \subseteq Nat
    BY TreeAssumption DEF T
  <2>2. QED
    BY <1>1, <2>1, LeastNumber
<1>3. PICK x \in f[k] : ~(node[x].level > k)
  OBVIOUS
<1>4. k \in 1..Rounds /\ k \in 0..Rounds /\ k # 0 /\ k \in Int
  BY TreeAssumption
<1>5. /\ x \in NodeIds \ relabelled /\ Exists(x) /\ node[x].parent \in f[k - 1]
  BY <1>4 DEF Kids
<1>6. node[x].level \in Levels
  BY <1>5, NodeFields
<1>7. CASE k = 1
  <2>1. node[x].parent # None
    BY <1>5, <1>7, TreeAssumption
  <2>2. QED
    BY <1>3, <1>5, <1>7, <2>1 DEF ChildrenBelowTop
<1>8. CASE k # 1
  <2> DEFINE y == node[x].parent
  <2>1. k - 1 \in 1..Rounds /\ k - 1 \in 0..Rounds /\ k - 1 # 0 /\ ~(k <= k - 1)
    BY <1>4, <1>8, TreeAssumption
  <2>2. y \in NodeIds \ relabelled /\ Exists(y)
    BY <1>5, <2>1 DEF Kids
  <2>3. node[y].level > k - 1
    BY <1>2, <1>5, <2>1
  <2>4. node[x].level > node[y].level
    BY <1>5, <2>2, TreeAssumption DEF LevelsDescend, Below
  <2>5. node[y].level \in Levels
    BY <2>2, NodeFields
  <2>6. QED
    BY <1>3, <1>4, <1>6, <2>3, <2>4, <2>5, TreeAssumption DEF Levels
<1>9. QED
  BY <1>7, <1>8

LEMMA DescentFindsTeam ==
  ASSUME TypeOK, LevelsDescend, ChildrenBelowTop
  PROVE  TeamIsWhole
<1>1. SUFFICES ASSUME NEW ids \in SUBSET NodeIds, Found(ids) \cap relabelled = {},
                      NEW n \in NodeIds \ relabelled, Exists(n), node[n].parent \in Found(ids)
               PROVE  n \in Found(ids)
  BY DEF TeamIsWhole
<1>2. PICK f : /\ f[0] = ids
               /\ \A k \in 0..Rounds : k # 0 => f[k] = Kids(f[k - 1])
               /\ Found(ids) = UNION {f[k] : k \in 0..Rounds}
  BY FoundByRounds
<1> DEFINE p == node[n].parent
<1>3. PICK k \in 0..Rounds : p \in f[k]
  BY <1>1, <1>2
<1>4. \A j \in 0..Rounds : f[j] \cap relabelled = {}
  BY <1>1, <1>2
<1>5. CASE k < Rounds
  <2>1. k + 1 \in 0..Rounds /\ k + 1 # 0 /\ (k + 1) - 1 = k
    BY <1>5, TreeAssumption
  <2>2. n \in f[k + 1]
    BY <1>1, <1>2, <1>3, <2>1 DEF Kids
  <2>3. QED
    BY <1>2, <2>1, <2>2
<1>6. CASE k = Rounds
  <2>1. node[n].level \in Levels
    BY <1>1, NodeFields
  <2>2. CASE k = 0
    <3>1. p # None
      BY <1>2, <1>3, <2>2, TreeAssumption
    <3>2. node[n].level > 1
      BY <1>1, <3>1 DEF ChildrenBelowTop
    <3>3. QED
      BY <1>6, <2>1, <2>2, <3>2, TreeAssumption DEF Levels
  <2>3. CASE k # 0
    <3>1. node[p].level > k
      BY <1>2, <1>3, <1>4, <2>3, RoundsDescend
    <3>2. p \in NodeIds \ relabelled /\ Exists(p)
      BY <1>2, <1>3, <1>4, <2>3 DEF Kids
    <3>3. node[n].level > node[p].level
      BY <1>1, <3>2, TreeAssumption DEF LevelsDescend, Below
    <3>4. node[p].level \in Levels
      BY <3>2, NodeFields
    <3>5. QED
      BY <1>6, <2>1, <3>1, <3>3, <3>4, TreeAssumption DEF Levels
  <2>4. QED
    BY <2>2, <2>3
<1>7. QED
  BY <1>5, <1>6, TreeAssumption

-----------------------------------------------------------------------------
(* The invariant, and what follows from it.                                *)

LEMMA InitCorrect == Init => TerritoriesInv
<1> SUFFICES ASSUME Init PROVE TerritoriesInv
  OBVIOUS
<1>1. /\ \A n \in NodeIds : ~Exists(n)
      /\ \A r \in Requests : req[r].op = "idle"
  BY DocumentAssumption DEF Init, Exists, Idle
<1>2. TypeOK
  BY DEF Init, TypeOK, RequestStates
<1>3. Forest /\ ParentsExist /\ LevelsDescend /\ ChildrenBelowTop
  BY <1>1 DEF Forest, ParentsExist, LevelsDescend, ChildrenBelowTop
<1>4. IdsUsed /\ MarksAlive /\ PlacesUnderNodes
  BY <1>1 DEF Init, IdsUsed, MarksAlive, PlacesUnderNodes, Placing
<1>5. WalksSearch /\ DeletesChildless
  BY <1>1 DEF WalksSearch, DeletesChildless
<1>6. RequestsDescend /\ RequestsBelowTop
  BY <1>1 DEF RequestsDescend, RequestsBelowTop
<1>7. QED
  BY <1>2, <1>3, <1>4, <1>5, <1>6 DEF TerritoriesInv

LEMMA StepCorrect == TerritoriesInv /\ [Next]_vars => TerritoriesInv'
BY TypeStep, IdsStep, MarksStep, WalkStep, ForestStep, DeletesStep, PlacesStep, ParentsStep,
   LevelsStep, RequestsStep, BelowTopStep, RequestsBelowTopStep
   DEF TerritoriesInv

LEMMA InvHolds == Spec => []TerritoriesInv
BY InitCorrect, StepCorrect, PTL DEF Spec

\* Documents and requests keep their types (createNode, updateNode,
\* deleteNode, whatever their interleaving).
THEOREM TypeCorrect == Spec => []TypeOK
<1>1. TerritoriesInv => TypeOK
  BY DEF TerritoriesInv
<1>2. QED
  BY <1>1, InvHolds, PTL

\* However many requests move nodes, a set of nodes that were not moved while
\* another request was setting a parent is never closed under its parents:
\* the loop in updateNode ends on it.
THEOREM StaysForest == Spec => []Forest
<1>1. TerritoriesInv => Forest
  BY DEF TerritoriesInv
<1>2. QED
  BY <1>1, InvHolds, PTL

\* A parent is missing only where its deletion overlapped a request that was
\* putting a child under it.
THEOREM ParentsStay == Spec => []ParentsExist
<1>1. TerritoriesInv => ParentsExist
  BY DEF TerritoriesInv
<1>2. QED
  BY <1>1, InvHolds, PTL

\* With one round less than there are levels the search finds everything
\* below what it is given, for every set of nodes, as long as no update has
\* changed a level.
THEOREM TeamWhole == Spec => []TeamIsWhole
<1>1. TerritoriesInv => TeamIsWhole
  BY DescentFindsTeam DEF TerritoriesInv
<1>2. QED
  BY <1>1, InvHolds, PTL

-----------------------------------------------------------------------------
(* The refinement of the atomic tree.                                      *)

\* Writing a document changes one node of the tree.
LEMMA OneNodeWritten ==
  ASSUME TypeOK, NEW n \in NodeIds, NEW doc \in Nodes, node' = [node EXCEPT ![n] = doc]
  PROVE  /\ used' = used \cup {n} /\ alive' = alive \cup {n}
         /\ parent' = [parent EXCEPT ![n] = doc.parent]
         /\ level' = [level EXCEPT ![n] = doc.level]
<1>1. node'[n] = doc /\ \A m \in NodeIds \ {n} : node'[m] = node[m]
  BY DEF TypeOK
<1>2. doc # None /\ Exists(n)' /\ \A m \in NodeIds \ {n} : Exists(m)' <=> Exists(m)
  BY <1>1, DocumentAssumption DEF Exists
<1>3. used' = used \cup {n} /\ alive' = alive \cup {n}
  BY <1>1, <1>2 DEF used, alive
<1>4. ASSUME NEW m \in NodeIds
      PROVE  /\ (IF Exists(m)' THEN node'[m].parent ELSE None) =
                    IF m = n THEN doc.parent ELSE IF Exists(m) THEN node[m].parent ELSE None
             /\ (IF Exists(m)' THEN node'[m].level ELSE 0) =
                    IF m = n THEN doc.level ELSE IF Exists(m) THEN node[m].level ELSE 0
  BY <1>1, <1>2
<1>5. parent' = [parent EXCEPT ![n] = doc.parent]
  BY <1>4 DEF parent
<1>6. level' = [level EXCEPT ![n] = doc.level]
  BY <1>4 DEF level
<1>7. QED
  BY <1>3, <1>5, <1>6

LEMMA AddsNode ==
  ASSUME TerritoriesInv, NEW r \in Requests, NEW n \in NodeIds, CreateSave(r, n)
  PROVE  Atomic!Next
<1> DEFINE doc == req[r].doc
<1>1. /\ TypeOK /\ PlacesUnderNodes /\ RequestsDescend
  BY DEF TerritoriesInv
<1>2. /\ node[n] = None /\ node' = [node EXCEPT ![n] = doc] /\ doc \in Nodes
      /\ req[r].op = "create" /\ Placing(req[r], doc.parent)
      /\ contested' = Contested(doc.parent) /\ relabelled' = relabelled /\ raced' = raced
  BY <1>1, CreateSaves
<1>3. doc.level \in Levels /\ doc.parent \in NodeIds \cup {None}
  BY <1>2 DEF Nodes, Parents
<1>4. n \notin used
  BY <1>2 DEF used
<1>5. Atomic!Place(doc.parent)
  BY <1>1, <1>2, <1>3 DEF PlacesUnderNodes, Atomic!Place, alive
<1>6. Atomic!Above(doc.parent, doc.level)
  <2>1. ASSUME doc.parent \in alive \ relabelled PROVE level[doc.parent] < doc.level
    <3>1. doc.parent \in NodeIds /\ Exists(doc.parent) /\ doc.parent # None
      BY <2>1, TreeAssumption DEF alive
    <3>2. doc.level > node[doc.parent].level
      BY <1>1, <1>2, <2>1, <3>1 DEF RequestsDescend, Below
    <3>3. level[doc.parent] = node[doc.parent].level /\ node[doc.parent].level \in Levels
      BY <3>1, NodeFields DEF level
    <3>4. QED
      BY <1>3, <3>2, <3>3, TreeAssumption DEF Levels
  <2>2. QED
    BY <2>1 DEF Atomic!Above
<1>7. contested' \in Atomic!Marks(contested, doc.parent)
  BY <1>2 DEF Contested, Atomic!Marks
<1>8. /\ used' = used \cup {n} /\ alive' = alive \cup {n}
      /\ parent' = [parent EXCEPT ![n] = doc.parent] /\ level' = [level EXCEPT ![n] = doc.level]
  BY <1>1, <1>2, OneNodeWritten
<1>9. Atomic!Add(n, doc.level, doc.parent)
  BY <1>2, <1>4, <1>5, <1>6, <1>7, <1>8 DEF Atomic!Add
<1>10. QED
  BY <1>3, <1>9 DEF Atomic!Next

LEMMA ChangesNode ==
  ASSUME TerritoriesInv, NEW r \in Requests, UpdateSave(r), Exists(req[r].id)
  PROVE  Atomic!Next
<1> DEFINE n == req[r].id  body == req[r].body
           l == Patched(node[n], body).level  p == Patched(node[n], body).parent
<1>1. /\ TypeOK /\ PlacesUnderNodes /\ RequestsDescend /\ WalksSearch
  BY DEF TerritoriesInv
<1>2. /\ req[r].op = "update" /\ n \in NodeIds /\ body \in Changes
      /\ node' = [node EXCEPT ![n] = Patched(node[n], body)]
      /\ contested' = Contested(body.parent)
  BY <1>1, UpdateSaves
<1>3. /\ relabelled' = IF body.level \in {Same, node[n].level} THEN relabelled ELSE relabelled \cup {n}
      /\ raced' = IF body.parent # Same /\ Races(r) THEN raced \cup {n} ELSE raced
  BY DEF UpdateSave
<1>4. body.level \in Levels \cup {Same} /\ body.parent \in NodeIds \cup {None, Same}
  BY <1>1, <1>2, RequestFields
<1>5. node[n] \in Nodes /\ n \in alive /\ parent[n] = node[n].parent /\ level[n] = node[n].level
      /\ node[n].level \in Levels
  BY <1>2, NodeFields DEF Exists, alive, parent, level
<1>6. /\ Patched(node[n], body) \in Nodes
      /\ l = IF body.level = Same THEN node[n].level ELSE body.level
      /\ p = IF body.parent = Same THEN node[n].parent ELSE body.parent
  BY <1>2, <1>5, PatchedFields
<1>7. /\ used' = used \cup {n} /\ alive' = alive \cup {n}
      /\ parent' = [parent EXCEPT ![n] = p] /\ level' = [level EXCEPT ![n] = l]
  BY <1>1, <1>2, <1>6, OneNodeWritten
<1>8. used' = used /\ alive' = alive
  BY <1>2, <1>5, <1>7, NodeFields DEF used, alive
<1>9. \/ \E k \in Levels : Atomic!Relabel(n, k)
      \/ UNCHANGED <<level, relabelled>>
  <2>1. CASE body.level = Same
    <3>1. level' = level
      BY <1>5, <1>6, <1>7, <2>1 DEF level
    <3>2. QED
      BY <1>3, <2>1, <3>1
  <2>2. CASE body.level # Same
    <3>1. l = body.level /\ l \in Levels
      BY <1>4, <1>6, <2>2
    <3>2. Atomic!Relabel(n, l)
      BY <1>3, <1>5, <1>7, <2>2, <3>1 DEF Atomic!Relabel
    <3>3. QED
      BY <3>1, <3>2
  <2>3. QED
    BY <2>1, <2>2
<1>10. CASE body.parent = Same
  <2>1. parent' = parent
    BY <1>5, <1>6, <1>7, <1>10 DEF parent
  <2>2. contested' = contested
    BY <1>1, <1>2, <1>10, DeletingNode, TreeAssumption DEF Contested
  <2>3. raced' = raced
    BY <1>3, <1>10
  <2>4. Atomic!Change(n)
    BY <1>8, <1>9, <2>1, <2>2, <2>3 DEF Atomic!Change
  <2>5. QED
    BY <1>2, <2>4 DEF Atomic!Next
<1>11. CASE body.parent # Same
  <2>1. p = body.parent /\ p \in NodeIds \cup {None}
    BY <1>4, <1>6, <1>11
  <2>2. Atomic!Place(p)
    <3>1. CASE p \in NodeIds
      <4>1. Placing(req[r], p)
        BY <1>2, <2>1 DEF Placing
      <4>2. QED
        BY <1>1, <3>1, <4>1 DEF PlacesUnderNodes, Atomic!Place, alive
    <3>2. CASE p = None
      BY <3>2 DEF Atomic!Place
    <3>3. QED
      BY <2>1, <3>1, <3>2
  <2>3. ASSUME n \notin relabelled' PROVE Atomic!Above(p, level[n])
    <3>1. n \notin relabelled /\ body.level \in {Same, node[n].level}
      BY <1>3, <2>3
    <3>2. ASSUME p \in alive \ relabelled PROVE level[p] < level[n]
      <4>1. p \in NodeIds /\ Exists(p)
        BY <3>2 DEF alive
      <4>2. node[n].level > node[p].level
        BY <1>1, <1>2, <2>1, <3>1, <3>2, <4>1 DEF RequestsDescend, Below
      <4>3. level[p] = node[p].level /\ node[p].level \in Levels
        BY <4>1, NodeFields DEF level
      <4>4. QED
        BY <1>5, <4>2, <4>3, TreeAssumption DEF Levels
    <3>3. QED
      BY <3>2 DEF Atomic!Above
  <2>4. ~Atomic!Under(p, n)
    <3>1. SUFFICES ASSUME NEW S \in SUBSET (alive \ raced), n \in S, p \in S,
                          \A y \in S \ {n} : parent[y] \in S
                   PROVE  FALSE
      BY DEF Atomic!Under
    <3>2. S \in SUBSET {m \in NodeIds \ raced : Exists(m)} /\ p \in NodeIds
      BY <3>1 DEF alive
    <3>3. \A y \in S \ {n} : node[y].parent \in S
      BY <3>1, <3>2 DEF parent
    <3>4. S \in Loops(n, p)
      BY <3>1, <3>2, <3>3 DEF Loops
    <3>5. QED
      BY <1>1, <1>2, <2>1, <3>2, <3>4 DEF WalksSearch
  <2>5. raced' \in Atomic!Marks(raced, n) /\ contested' \in Atomic!Marks(contested, p)
    BY <1>2, <1>3, <2>1 DEF Contested, Atomic!Marks
  <2>6. Atomic!Move(n, p)
    BY <1>5, <1>7, <2>2, <2>3, <2>4, <2>5 DEF Atomic!Move
  <2>7. Atomic!Change(n)
    BY <1>8, <1>9, <2>1, <2>6 DEF Atomic!Change
  <2>8. QED
    BY <1>2, <2>7 DEF Atomic!Next
<1>12. QED
  BY <1>10, <1>11

LEMMA DropsNode ==
  ASSUME TerritoriesInv, NEW r \in Requests, DeleteSave(r)
  PROVE  Atomic!Next
<1> DEFINE n == req[r].id
<1>1. TypeOK /\ IdsUsed /\ MarksAlive /\ DeletesChildless
  BY DEF TerritoriesInv
<1>2. /\ req[r].op = "delete" /\ n \in NodeIds
      /\ node'[n] = Gone /\ node'[n] \notin Nodes
      /\ \A m \in NodeIds \ {n} : node'[m] = node[m] /\ (Exists(m)' <=> Exists(m))
      /\ relabelled' = relabelled \ {n} /\ raced' = raced \ {n}
  BY <1>1, DeleteSaves
<1>3. contested' \in Atomic!Marks(contested, n)
  BY DEF DeleteSave, Atomic!Marks
<1>4. /\ alive' = alive \ {n}
      /\ parent' = [parent EXCEPT ![n] = None] /\ level' = [level EXCEPT ![n] = 0]
  BY <1>2 DEF alive, parent, level, Exists
<1>5. CASE n \in alive
  <2>1. used' = used
    <3>1. node[n] # None
      BY <1>2, <1>5, NodeFields DEF alive
    <3>2. QED
      BY <1>2, <3>1, DocumentAssumption DEF used
  <2>2. n \in contested \/ \A m \in alive : parent[m] # n
    BY <1>1, <1>2 DEF DeletesChildless, Childless, alive, parent
  <2>3. Atomic!Drop(n)
    BY <1>2, <1>3, <1>4, <1>5, <2>1, <2>2 DEF Atomic!Drop
  <2>4. QED
    BY <1>2, <2>3 DEF Atomic!Next
<1>6. CASE n \notin alive
  <2>1. node[n] # None
    BY <1>1, <1>2 DEF IdsUsed
  <2>2. used' = used /\ n \in used
    BY <1>2, <2>1, DocumentAssumption DEF used
  <2>3. /\ alive' = alive
        /\ parent' = parent /\ level' = level
    BY <1>2, <1>4, <1>6 DEF parent, level, alive
  <2>4. n \notin relabelled /\ n \notin raced
    BY <1>1, <1>2, <1>6 DEF MarksAlive, alive
  <2>5. relabelled' = relabelled /\ raced' = raced
    BY <1>2, <2>4
  <2>6. Atomic!Miss(n)
    BY <1>3, <1>6, <2>2, <2>3, <2>5 DEF Atomic!Miss, Atomic!shape
  <2>7. QED
    BY <1>2, <2>6 DEF Atomic!Next
<1>7. QED
  BY <1>5, <1>6

\* Every step of the requests is one step of the atomic tree, or none.
LEMMA TreeStep == TerritoriesInv /\ [Next]_vars => [Atomic!Next]_(Atomic!tree)
<1> SUFFICES ASSUME TerritoriesInv, [Next]_vars
             PROVE  Atomic!Next \/ UNCHANGED Atomic!tree
  OBVIOUS
<1>1. CASE UNCHANGED <<node, relabelled, raced, contested>>
  BY <1>1 DEF used, alive, parent, level, Exists, Atomic!tree, Atomic!shape
<1>2. ASSUME NEW r \in Requests, NEW n \in NodeIds, CreateSave(r, n) PROVE Atomic!Next
  BY <1>2, AddsNode
<1>3. ASSUME NEW r \in Requests, UpdateSave(r), Exists(req[r].id) PROVE Atomic!Next
  BY <1>3, ChangesNode
<1>4. ASSUME NEW r \in Requests, DeleteSave(r) PROVE Atomic!Next
  BY <1>4, DropsNode
<1>5. TypeOK
  BY DEF TerritoriesInv
<1>6. QED
  BY <1>1, <1>2, <1>3, <1>4, <1>5, Steps DEF Looks, vars

\* Before the first request there is no node.
LEMMA TreeOpens == Init => Atomic!Init
<1> SUFFICES ASSUME Init PROVE Atomic!Init
  OBVIOUS
<1>1. \A n \in NodeIds : node[n] = None /\ ~Exists(n)
  BY DocumentAssumption DEF Init, Exists
<1>2. QED
  BY <1>1 DEF Init, Atomic!Init, used, alive, parent, level

\* Requests whose reads and writes interleave change the tree as if each
\* handler were one step: the checks of createNode, updateNode and deleteNode
\* still hold at their write, but for nodes relabelled, moved in a race, or
\* contested by a deletion and a placement.
THEOREM TreeImplemented == Spec => ImplementsTree
BY TreeOpens, TreeStep, InvHolds, PTL DEF Spec, ImplementsTree, Atomic!Spec
=============================================================================

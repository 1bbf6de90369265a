-------------------------- MODULE Approvals_proof ---------------------------
(***************************************************************************)
(* Type correctness of Approvals; that a waiting order has a request, that *)
(* its requests decide it once, that a direct approval settles them and    *)
(* that the workflow keeps to the life of an order, for every set of       *)
(* orders, requests for approval and handlers.                             *)
(***************************************************************************)
EXTENDS Approvals, TLAPS

USE DEF history

\* What a handler is follows from its op.
LEMMA KindOfRequest ==
  ASSUME NEW q \in RequestStates
  PROVE  /\ q.op = "commit" => q \in CommitReq
         /\ q.op \in {"decide", "submit", "reject", "record"} => q \in DecideReq
         /\ q.op = "settle" => q \in SettleReq
         /\ q.op = "status" => q \in StatusReq
BY DEF RequestStates, Idle, CommitReq, DecideReq, SettleReq, StatusReq

\* A new request for approval.
LEMMA RaisedIs ==
  ASSUME NEW o \in Orders, NEW own \in BOOLEAN
  PROVE  /\ Raised(o, own) \in Records /\ Raised(o, own) # None
         /\ Raised(o, own).order = o /\ Raised(o, own).status = "Pending"
BY NoneAssumption DEF Raised, Records

\* What recording a decision does to a request for approval.
LEMMA RecordedIs ==
  ASSUME NEW doc \in Records, NEW d \in Decisions \cup {"Pending"}
  PROVE  /\ Recorded(doc, d) \in Records /\ Recorded(doc, d) # None
         /\ Recorded(doc, d).order = doc.order
         /\ Recorded(doc, d).status = d
         /\ \A o \in Orders : Recorded(doc, d) # Raised(o, TRUE)
<1>1. doc # None
  BY NoneAssumption
<1>2. Recorded(doc, d) = [doc EXCEPT !.status = d, !.own = doc.own /\ d # "Pending"]
  BY <1>1 DEF Recorded
<1>3. (doc.own /\ d # "Pending") \in BOOLEAN
  OBVIOUS
<1> DEFINE own == doc.own /\ d # "Pending"
<1>4. own \in BOOLEAN /\ (d = "Pending" => own = FALSE)
  BY Zenon
<1>5. Recorded(doc, d) = [doc EXCEPT !.status = d, !.own = own]
  BY <1>2
<1> HIDE DEF own
<1>6. Recorded(doc, d) = [order |-> doc.order, status |-> d, own |-> own]
  BY <1>5 DEF Records
<1>7. Recorded(doc, d) \in Records
  BY <1>4, <1>6 DEF Records
<1>8. Recorded(doc, d).order = doc.order /\ Recorded(doc, d).status = d /\ Recorded(doc, d).own = own
  BY <1>6
<1>9. ASSUME NEW o \in Orders PROVE Recorded(doc, d) # Raised(o, TRUE)
  BY <1>4, <1>8 DEF Raised
<1>10. QED
  BY <1>7, <1>8, <1>9, NoneAssumption

\* What settling does to a request for approval.
LEMMA SettledIs ==
  ASSUME TypeOK, NEW o \in Orders, SettleAll(o), NEW a \in ApprovalIds
  PROVE  /\ ~PendingFor(a, o) => approval'[a] = approval[a]
         /\ PendingFor(a, o) => /\ approval'[a] \in Records /\ approval'[a] # None
                                /\ approval'[a].order = o /\ approval'[a].status = "Approved"
<1>1. ~PendingFor(a, o) => approval'[a] = approval[a]
  BY DEF SettleAll
<1>2. ASSUME PendingFor(a, o) PROVE approval[a] \in Records /\ approval[a].order = o
  BY <1>2, RaisedIs DEF PendingFor
<1>3. PendingFor(a, o) => approval'[a] = [approval[a] EXCEPT !.status = "Approved"]
  BY DEF SettleAll
<1>4. ASSUME PendingFor(a, o)
      PROVE  approval'[a] \in Records /\ approval'[a].order = o /\ approval'[a].status = "Approved"
  BY <1>2, <1>3, <1>4 DEF Records, Decisions
<1>5. QED
  BY <1>1, <1>4, NoneAssumption

\* Every step keeps orders, requests for approval and handlers well formed.
LEMMA TypeStep ==
  ASSUME TypeOK, [Next]_vars
  PROVE  TypeOK'
<1> USE DEF Open, Done, Turn
<1>0. /\ order \in [Orders -> Statuses \cup {None}]
      /\ approval \in [ApprovalIds -> Records \cup {None}]
      /\ req \in [Requests -> RequestStates]
      /\ acted \in [Orders -> 0..2]
      /\ loose \in SUBSET Orders /\ contested \in SUBSET Orders
      /\ signed \in SUBSET Orders /\ lost \in SUBSET Orders
  BY DEF TypeOK
<1>i. Idle \in RequestStates
  BY DEF RequestStates
<1>1. ASSUME NEW r \in Requests, CreateCommit(r) PROVE TypeOK'
  <2>1. req[r].order \in Orders
    BY <1>0, <1>1, KindOfRequest DEF CreateCommit, CommitReq
  <2>2. QED
    BY <1>0, <1>i, <1>1, <2>1 DEF CreateCommit, TypeOK, Statuses
<1>2. ASSUME NEW r \in Requests, DecideAct(r) PROVE TypeOK'
  <2>1. req[r] \in DecideReq
    BY <1>0, <1>2, KindOfRequest DEF DecideAct
  <2>2. [req[r] EXCEPT !.op = IF req[r].decision = "Approved" THEN "submit" ELSE "reject"] \in RequestStates
    BY <2>1 DEF RequestStates, DecideReq
  <2>3. QED
    BY <1>0, <1>2, <2>2 DEF DecideAct, TypeOK
<1>3. ASSUME NEW r \in Requests, DecideSkip(r) PROVE TypeOK'
  <2>1. req[r] \in DecideReq
    BY <1>0, <1>3, KindOfRequest DEF DecideSkip
  <2>2. [req[r] EXCEPT !.op = "record"] \in RequestStates /\ req[r].order \in Orders
    BY <2>1 DEF RequestStates, DecideReq
  <2>3. loose' \in SUBSET Orders
    BY <1>0, <1>3, <2>2 DEF DecideSkip
  <2>4. QED
    BY <1>0, <1>3, <2>2, <2>3 DEF DecideSkip, TypeOK
<1>4. ASSUME NEW r \in Requests, DecideSubmit(r) \/ DecideReject(r) PROVE TypeOK'
  <2>1. req[r] \in DecideReq
    BY <1>0, <1>4, KindOfRequest DEF DecideSubmit, DecideReject
  <2>2. [req[r] EXCEPT !.op = "record"] \in RequestStates /\ req[r].order \in Orders
    BY <2>1 DEF RequestStates, DecideReq
  <2>3. order' \in [Orders -> Statuses \cup {None}]
    BY <1>0, <1>4, <2>2 DEF DecideSubmit, DecideReject, Statuses
  <2>4. acted' \in [Orders -> 0..2]
    BY <1>0, <1>4, <2>2 DEF DecideSubmit, DecideReject, Acted
  <2>5. QED
    BY <1>0, <1>4, <2>2, <2>3, <2>4 DEF DecideSubmit, DecideReject, TypeOK
<1>5. ASSUME NEW r \in Requests, DecideRecord(r) PROVE TypeOK'
  <2>1. req[r] \in DecideReq
    BY <1>0, <1>5, KindOfRequest DEF DecideRecord
  <2>2. req[r].id \in ApprovalIds /\ req[r].decision \in Decisions \cup {"Pending"}
    BY <2>1 DEF DecideReq
  <2>3. Recorded(approval[req[r].id], req[r].decision) \in Records \cup {None}
    <3>1. CASE approval[req[r].id] = None
      BY <3>1 DEF Recorded
    <3>2. CASE approval[req[r].id] \in Records
      BY <2>2, <3>2, RecordedIs
    <3>3. QED
      BY <1>0, <2>2, <3>1, <3>2
  <2>4. approval' \in [ApprovalIds -> Records \cup {None}]
    BY <1>0, <1>5, <2>3 DEF DecideRecord
  <2>5. QED
    BY <1>0, <1>i, <1>5, <2>4 DEF DecideRecord, TypeOK
<1>6. ASSUME NEW r \in Requests, Settle(r) PROVE TypeOK'
  <2>1. req[r].order \in Orders
    BY <1>0, <1>6, KindOfRequest DEF Settle, SettleReq
  <2>2. \A a \in ApprovalIds : approval'[a] \in Records \cup {None}
    BY <1>0, <1>6, <2>1, SettledIs DEF Settle
  <2>3. approval' \in [ApprovalIds -> Records \cup {None}]
    BY <1>6, <2>2 DEF Settle, SettleAll
  <2>4. QED
    BY <1>0, <1>i, <1>6, <2>3 DEF Settle, TypeOK
<1>7. ASSUME NEW r \in Requests, StatusWrite(r) PROVE TypeOK'
  <2>1. req[r].order \in Orders /\ req[r].to \in Statuses
    BY <1>0, <1>7, KindOfRequest DEF StatusWrite, StatusReq
  <2>2. loose' \in SUBSET Orders /\ order' \in [Orders -> Statuses \cup {None}]
    BY <1>0, <1>7, <2>1 DEF StatusWrite
  <2>3. QED
    BY <1>0, <1>i, <1>7, <2>2 DEF StatusWrite, TypeOK
<1>8. ASSUME NEW r \in Requests, Abandon(r) PROVE TypeOK'
  <2>1. req[r].op = "settle" => req[r].order \in Orders
    BY <1>0, KindOfRequest DEF SettleReq
  <2>2. lost' \in SUBSET Orders
    BY <1>0, <1>8, <2>1 DEF Abandon
  <2>3. QED
    BY <1>0, <1>i, <1>8, <2>2 DEF Abandon, TypeOK
<1>9. ASSUME NEW r \in Requests, NEW o \in Orders, NEW a \in ApprovalIds, CreateRaise(r, o, a) PROVE TypeOK'
  <2>1. [op |-> "commit", order |-> o] \in RequestStates
    BY DEF RequestStates, CommitReq
  <2>2. approval' \in [ApprovalIds -> Records \cup {None}]
    BY <1>0, <1>9, RaisedIs DEF CreateRaise
  <2>3. QED
    BY <1>0, <1>9, <2>1, <2>2 DEF CreateRaise, TypeOK
<1>10. ASSUME NEW r \in Requests, NEW a \in ApprovalIds, NEW d \in Decisions \cup {"Pending"}, DecideFind(r, a, d)
       PROVE  TypeOK'
  <2> DEFINE o == approval[a].order
  <2> DEFINE acts == approval[a].status = "Pending" /\ d # "Pending"
  <2>1. o \in Orders
    BY <1>0, <1>10 DEF DecideFind, Records
  <2>2. req' = [req EXCEPT ![r] = [op |-> IF acts THEN "decide" ELSE "record",
                                  id |-> a, order |-> o, decision |-> d]]
        /\ contested' \in {contested, contested \cup {o}}
    BY <1>10 DEF DecideFind, Find
  <2>3. [op |-> IF acts THEN "decide" ELSE "record", id |-> a, order |-> o, decision |-> d] \in RequestStates
    BY <2>1 DEF RequestStates, DecideReq
  <2>4. req' \in [Requests -> RequestStates] /\ contested' \in SUBSET Orders
    BY <1>0, <2>1, <2>2, <2>3
  <2>5. QED
    BY <1>0, <1>10, <2>4 DEF DecideFind, TypeOK
<1>11. ASSUME NEW r \in Requests, NEW o \in Orders, ApproveOrder(r, o) PROVE TypeOK'
  <2>1. [op |-> "settle", order |-> o] \in RequestStates
    BY DEF RequestStates, SettleReq
  <2>2. order' \in [Orders -> Statuses \cup {None}] /\ signed' \in SUBSET Orders
    BY <1>0, <1>11 DEF ApproveOrder, Statuses
  <2>3. QED
    BY <1>0, <1>11, <2>1, <2>2 DEF ApproveOrder, TypeOK
<1>12. ASSUME NEW r \in Requests, NEW o \in Orders, NEW to \in Statuses, StatusRead(r, o, to) PROVE TypeOK'
  <2>1. [op |-> "status", order |-> o, to |-> to] \in RequestStates
    BY DEF RequestStates, StatusReq
  <2>2. QED
    BY <1>0, <1>12, <2>1 DEF StatusRead, TypeOK
<1>13. ASSUME NEW o \in Orders, CreatePlain(o) \/ AcceptOrder(o) \/ (\E to \in Closed : CloseOrder(o, to))
       PROVE  TypeOK'
  <2>1. order' \in [Orders -> Statuses \cup {None}]
    BY <1>0, <1>13 DEF CreatePlain, AcceptOrder, CloseOrder, Closed, Statuses
  <2>2. UNCHANGED <<approval, req, history>>
    BY <1>13 DEF CreatePlain, AcceptOrder, CloseOrder
  <2>3. QED
    BY <1>0, <2>1, <2>2 DEF TypeOK
<1>14. ASSUME NEW a \in ApprovalIds, DeleteApproval(a) PROVE TypeOK'
  <2>1. approval[a].order \in Orders
    BY <1>0, <1>14 DEF DeleteApproval, Records
  <2>2. QED
    BY <1>0, <1>14, <2>1 DEF DeleteApproval, TypeOK
<1>15. ASSUME NEW a \in ApprovalIds, NEW o \in Orders, RaiseApproval(a, o) PROVE TypeOK'
  <2>1. approval' \in [ApprovalIds -> Records \cup {None}]
    BY <1>0, <1>15, RaisedIs DEF RaiseApproval
  <2>2. QED
    BY <1>0, <1>15, <2>1 DEF RaiseApproval, TypeOK
<1>16. CASE UNCHANGED vars
  BY <1>0, <1>16 DEF vars, TypeOK
<1>17. QED
  BY <1>1, <1>2, <1>3, <1>4, <1>5, <1>6, <1>7, <1>8, <1>9, <1>10, <1>11, <1>12, <1>13, <1>14,
     <1>15, <1>16 DEF Next

\* What a step does to a request for approval: it leaves it alone, removes it,
\* records a decision, settles it, or saves one with an id nobody names.
LEMMA DocStep ==
  ASSUME TypeOK, OneOrderEach, [Next]_vars, NEW a \in ApprovalIds
  PROVE  \/ approval'[a] = approval[a]
         \/ /\ approval[a] # None /\ approval'[a] = None
            /\ loose' = loose \cup {approval[a].order}
         \/ \E r \in Requests :
               /\ req[r].op = "record" /\ approval[a] # None
               /\ approval[a].order = req[r].order
               /\ approval'[a] = Recorded(approval[a], req[r].decision)
         \/ \E r \in Requests :
               /\ Settle(r) /\ PendingFor(a, req[r].order)
               /\ approval'[a] # None /\ approval'[a].order = req[r].order
               /\ approval'[a].status = "Approved"
         \/ /\ Fresh(a) /\ req' \in [Requests -> RequestStates]
            /\ \E o \in Orders : \/ approval'[a] = Raised(o, FALSE) /\ req' = req
                                 \/ /\ approval'[a] = Raised(o, TRUE) /\ order[o] = None
                                    /\ \E r \in Requests : req' = [req EXCEPT ![r] = [op |-> "commit", order |-> o]]
<1>0. /\ approval \in [ApprovalIds -> Records \cup {None}]
      /\ req \in [Requests -> RequestStates]
      /\ req' \in [Requests -> RequestStates]
  BY TypeStep DEF TypeOK
<1>1. CASE UNCHANGED approval
  BY <1>1
<1>2. ASSUME NEW r \in Requests, DecideRecord(r) PROVE approval'[a] = approval[a]
         \/ /\ req[r].op = "record" /\ approval[a] # None
            /\ approval[a].order = req[r].order
            /\ approval'[a] = Recorded(approval[a], req[r].decision)
  <2>1. CASE a # req[r].id
    BY <1>0, <1>2, <2>1 DEF DecideRecord
  <2>2. CASE a = req[r].id /\ approval[a] = None
    BY <1>0, <1>2, <2>2 DEF DecideRecord, Recorded
  <2>3. CASE a = req[r].id /\ approval[a] # None
    BY <1>0, <1>2, <2>3 DEF DecideRecord, OneOrderEach
  <2>4. QED
    BY <2>1, <2>2, <2>3
<1>3. ASSUME NEW r \in Requests, Settle(r) PROVE approval'[a] = approval[a]
         \/ /\ PendingFor(a, req[r].order)
            /\ approval'[a] # None /\ approval'[a].order = req[r].order
            /\ approval'[a].status = "Approved"
  <2>1. req[r].order \in Orders
    BY <1>0, <1>3, KindOfRequest DEF Settle, SettleReq
  <2>2. QED
    BY <1>3, <2>1, SettledIs DEF Settle
<1>4. ASSUME NEW b \in ApprovalIds, DeleteApproval(b) PROVE approval'[a] = approval[a]
         \/ /\ approval[a] # None /\ approval'[a] = None
            /\ loose' = loose \cup {approval[a].order}
  BY <1>0, <1>4 DEF DeleteApproval
<1>5. ASSUME NEW r \in Requests, NEW o \in Orders, NEW b \in ApprovalIds, CreateRaise(r, o, b)
      PROVE  approval'[a] = approval[a]
         \/ /\ Fresh(a) /\ approval'[a] = Raised(o, TRUE) /\ order[o] = None
            /\ req' = [req EXCEPT ![r] = [op |-> "commit", order |-> o]]
  BY <1>0, <1>5 DEF CreateRaise, Open
<1>6. ASSUME NEW b \in ApprovalIds, NEW o \in Orders, RaiseApproval(b, o)
      PROVE  approval'[a] = approval[a]
         \/ (Fresh(a) /\ approval'[a] = Raised(o, FALSE) /\ req' = req)
  <2>1. approval' = [approval EXCEPT ![b] = Raised(o, FALSE)] /\ Fresh(b) /\ req' = req
    BY <1>6 DEF RaiseApproval
  <2>2. CASE a = b
    <3>1. approval'[a] = Raised(o, FALSE)
      BY <1>0, <2>1, <2>2
    <3>2. QED
      BY <2>1, <2>2, <3>1, Zenon
  <2>3. CASE a # b
    BY <1>0, <2>1, <2>3
  <2>4. QED
    BY <2>2, <2>3
<1>7. \/ UNCHANGED approval
      \/ \E r \in Requests : DecideRecord(r) \/ Settle(r)
      \/ \E b \in ApprovalIds : DeleteApproval(b)
      \/ \E r \in Requests, o \in Orders, b \in ApprovalIds : CreateRaise(r, o, b)
      \/ \E b \in ApprovalIds, o \in Orders : RaiseApproval(b, o)
  <2>1. \A r \in Requests : CreateCommit(r) \/ DecideAct(r) \/ DecideSkip(r) \/ DecideSubmit(r)
           \/ DecideReject(r) \/ StatusWrite(r) \/ Abandon(r) => UNCHANGED approval
    BY DEF CreateCommit, DecideAct, DecideSkip, DecideSubmit, DecideReject, StatusWrite, Abandon
  <2>2. \A r \in Requests, b \in ApprovalIds, d \in Decisions \cup {"Pending"} :
           DecideFind(r, b, d) => UNCHANGED approval
    BY DEF DecideFind
  <2>3. \A r \in Requests, o \in Orders : ApproveOrder(r, o) => UNCHANGED approval
    BY DEF ApproveOrder
  <2>4. \A r \in Requests, o \in Orders, to \in Statuses : StatusRead(r, o, to) => UNCHANGED approval
    BY DEF StatusRead
  <2>5. \A o \in Orders : CreatePlain(o) \/ AcceptOrder(o) \/ (\E to \in Closed : CloseOrder(o, to))
           => UNCHANGED approval
    BY DEF CreatePlain, AcceptOrder, CloseOrder
  <2>6. CASE UNCHANGED vars
    BY <2>6 DEF vars
  <2>7. CASE Next
    BY <2>1, <2>2, <2>3, <2>4, <2>5, <2>7, Zenon DEF Next
  <2>8. QED
    BY <2>6, <2>7
<1>8. CASE \E r \in Requests : DecideRecord(r) \/ Settle(r)
  BY <1>2, <1>3, <1>8
<1>9. CASE \E r \in Requests, o \in Orders, b \in ApprovalIds : CreateRaise(r, o, b)
  BY <1>0, <1>5, <1>9
<1>10. CASE \E b \in ApprovalIds, o \in Orders : RaiseApproval(b, o)
  BY <1>0, <1>6, <1>10
<1>11. QED
  BY <1>1, <1>4, <1>7, <1>8, <1>9, <1>10

\* A request for approval stays with the order it was raised for.
LEMMA OneOrderStep ==
  ASSUME TypeOK, OneOrderEach, [Next]_vars
  PROVE  OneOrderEach'
<1> USE DEF Open, Done, Turn
<1>0. /\ approval \in [ApprovalIds -> Records \cup {None}]
      /\ req \in [Requests -> RequestStates] /\ req' \in [Requests -> RequestStates]
  BY TypeStep DEF TypeOK
<1> DEFINE Names(q) == q.op \in {"decide", "submit", "reject", "record"}
<1> SUFFICES ASSUME NEW r \in Requests, Names(req'[r]), approval'[req'[r].id] # None
             PROVE  approval'[req'[r].id].order = req'[r].order
  BY DEF OneOrderEach
<1> DEFINE a == req'[r].id
<1>1. a \in ApprovalIds
  BY <1>0, KindOfRequest DEF DecideReq
<1>2. ASSUME Names(req[r]), req[r].id = a, req[r].order = req'[r].order
      PROVE  approval'[a].order = req'[r].order
  <2>1. ~Fresh(a)
    BY <1>2 DEF Fresh
  <2>2. approval[a] # None => approval[a].order = req[r].order
    BY <1>2 DEF OneOrderEach
  <2>3. ASSUME NEW q \in Requests, req[q].op = "record", approval[a] # None
        PROVE  Recorded(approval[a], req[q].decision).order = approval[a].order
    <3>1. req[q].decision \in Decisions \cup {"Pending"}
      BY <1>0, <2>3, KindOfRequest DEF DecideReq
    <3>2. QED
      BY <1>0, <1>1, <2>3, <3>1, RecordedIs
  <2>4. ASSUME NEW q \in Requests, Settle(q), PendingFor(a, req[q].order)
        PROVE  approval[a].order = req[q].order /\ approval[a] # None
    <3>1. req[q].order \in Orders
      BY <1>0, <2>4, KindOfRequest DEF Settle, SettleReq
    <3>2. QED
      BY <2>4, <3>1, RaisedIs DEF PendingFor
  <2> HIDE DEF a, Names
  <2>5. ASSUME NEW q \in Requests, req[q].op = "record", approval[a] # None,
               approval'[a] = Recorded(approval[a], req[q].decision)
        PROVE  approval'[a].order = req'[r].order
    BY <1>2, <2>2, <2>3, <2>5
  <2>6. ASSUME NEW q \in Requests, Settle(q), PendingFor(a, req[q].order), approval'[a].order = req[q].order
        PROVE  approval'[a].order = req'[r].order
    BY <1>2, <2>2, <2>4, <2>6
  <2>7. approval'[a] # None
    BY DEF a
  <2>8. QED
    BY <1>1, <1>2, <2>1, <2>2, <2>5, <2>6, <2>7, DocStep
<1>3. ASSUME NEW q \in Requests, NEW b \in ApprovalIds, NEW d \in Decisions \cup {"Pending"},
             DecideFind(q, b, d), q = r
      PROVE  approval'[a].order = req'[r].order
  <2>1. req'[r].id = b /\ req'[r].order = approval[b].order /\ approval' = approval
    BY <1>0, <1>3 DEF DecideFind, Find
  <2>2. QED
    BY <2>1
<1>4. \/ Names(req[r]) /\ req[r].id = a /\ req[r].order = req'[r].order
      \/ \E b \in ApprovalIds, d \in Decisions \cup {"Pending"} : DecideFind(r, b, d)
  <2>1. CASE req'[r] = req[r]
    BY <2>1
  <2>2. ASSUME NEW q \in Requests, CreateCommit(q) \/ DecideRecord(q) \/ Settle(q) \/ StatusWrite(q) \/ Abandon(q)
        PROVE  req'[r] = req[r]
    <3>1. req' = [req EXCEPT ![q] = Idle]
      BY <2>2 DEF CreateCommit, DecideRecord, Settle, StatusWrite, Abandon
    <3>2. q # r
      BY <1>0, <3>1 DEF Idle
    <3>3. QED
      BY <1>0, <3>1, <3>2
  <2>3. ASSUME NEW q \in Requests, DecideAct(q) \/ DecideSkip(q) \/ DecideSubmit(q) \/ DecideReject(q)
        PROVE  Names(req[r]) /\ req[r].id = a /\ req[r].order = req'[r].order
    <3>1. CASE q # r
      BY <1>0, <2>3, <3>1 DEF DecideAct, DecideSkip, DecideSubmit, DecideReject
    <3>2. CASE q = r
      <4>1. req[r] \in DecideReq /\ Names(req[r])
        BY <1>0, <2>3, <3>2, KindOfRequest DEF DecideAct, DecideSkip, DecideSubmit, DecideReject
      <4>2. \E op \in {"submit", "reject", "record"} : req'[r] = [req[r] EXCEPT !.op = op]
        BY <1>0, <2>3, <3>2 DEF DecideAct, DecideSkip, DecideSubmit, DecideReject
      <4>3. QED
        BY <4>1, <4>2 DEF DecideReq
    <3>3. QED
      BY <3>1, <3>2
  <2>4. ASSUME NEW q \in Requests, NEW o \in Orders, NEW b \in ApprovalIds, CreateRaise(q, o, b)
        PROVE  req'[r] = req[r]
    BY <1>0, <2>4 DEF CreateRaise
  <2>5. ASSUME NEW q \in Requests, NEW b \in ApprovalIds, NEW d \in Decisions \cup {"Pending"}, DecideFind(q, b, d)
        PROVE  req'[r] = req[r] \/ q = r
    BY <1>0, <2>5 DEF DecideFind, Find
  <2>6. ASSUME NEW q \in Requests, NEW o \in Orders, ApproveOrder(q, o) \/ (\E to \in Statuses : StatusRead(q, o, to))
        PROVE  req'[r] = req[r]
    BY <1>0, <2>6 DEF ApproveOrder, StatusRead
  <2>7. ASSUME \/ \E o \in Orders : CreatePlain(o) \/ AcceptOrder(o) \/ (\E to \in Closed : CloseOrder(o, to))
               \/ \E b \in ApprovalIds : DeleteApproval(b) \/ (\E o \in Orders : RaiseApproval(b, o))
               \/ UNCHANGED vars
        PROVE  req'[r] = req[r]
    BY <2>7 DEF CreatePlain, AcceptOrder, CloseOrder, DeleteApproval, RaiseApproval, vars
  <2>8. CASE UNCHANGED vars
    BY <2>1, <2>7, <2>8
  <2>9. CASE Next
    BY <2>1, <2>2, <2>3, <2>4, <2>5, <2>6, <2>7, <2>9 DEF Next
  <2>10. QED
    BY <2>8, <2>9
<1>5. QED
  BY <1>2, <1>3, <1>4

\* What a step does to a handler: it leaves it alone, ends it, takes it one
\* await further or starts it.
LEMMA HandlerStep ==
  ASSUME TypeOK, [Next]_vars, NEW r \in Requests
  PROVE  \/ req'[r] = req[r]
         \/ req'[r] = Idle
         \/ /\ DecideAct(r) \/ DecideSkip(r) \/ DecideSubmit(r) \/ DecideReject(r)
            /\ \E op \in {"submit", "reject", "record"} : req'[r] = [req[r] EXCEPT !.op = op]
         \/ \E b \in ApprovalIds, d \in Decisions \cup {"Pending"} : DecideFind(r, b, d)
         \/ \E o \in Orders, b \in ApprovalIds : CreateRaise(r, o, b) /\ req'[r] = [op |-> "commit", order |-> o]
         \/ \E o \in Orders : ApproveOrder(r, o) /\ req'[r] = [op |-> "settle", order |-> o]
         \/ \E o \in Orders, to \in Statuses :
               StatusRead(r, o, to) /\ req'[r] = [op |-> "status", order |-> o, to |-> to]
<1> USE DEF Open, Done, Turn
<1>0. req \in [Requests -> RequestStates]
  BY DEF TypeOK
<1>1. ASSUME NEW q \in Requests, CreateCommit(q) \/ DecideRecord(q) \/ Settle(q) \/ StatusWrite(q) \/ Abandon(q)
      PROVE  req'[r] = req[r] \/ req'[r] = Idle
  <2>1. req' = [req EXCEPT ![q] = Idle]
    BY <1>1 DEF CreateCommit, DecideRecord, Settle, StatusWrite, Abandon
  <2>2. QED
    BY <1>0, <2>1
<1>2. ASSUME NEW q \in Requests, DecideAct(q) \/ DecideSkip(q) \/ DecideSubmit(q) \/ DecideReject(q)
      PROVE  \/ req'[r] = req[r]
             \/ /\ DecideAct(r) \/ DecideSkip(r) \/ DecideSubmit(r) \/ DecideReject(r)
                /\ \E op \in {"submit", "reject", "record"} : req'[r] = [req[r] EXCEPT !.op = op]
  <2>1. \E op \in {"submit", "reject", "record"} : req' = [req EXCEPT ![q] = [req[q] EXCEPT !.op = op]]
    BY <1>2 DEF DecideAct, DecideSkip, DecideSubmit, DecideReject
  <2>2. CASE q # r
    BY <1>0, <2>1, <2>2
  <2>3. CASE q = r
    <3>1. \E op \in {"submit", "reject", "record"} : req'[r] = [req[r] EXCEPT !.op = op]
      BY <1>0, <2>1, <2>3
    <3>2. QED
      BY <1>2, <2>3, <3>1
  <2>4. QED
    BY <2>2, <2>3
<1>3. ASSUME NEW q \in Requests, NEW o \in Orders, NEW b \in ApprovalIds, CreateRaise(q, o, b)
      PROVE  req'[r] = req[r] \/ (CreateRaise(r, o, b) /\ req'[r] = [op |-> "commit", order |-> o])
  <2>1. CASE q # r
    BY <1>0, <1>3, <2>1 DEF CreateRaise
  <2>2. CASE q = r
    <3>1. req'[r] = [op |-> "commit", order |-> o]
      BY <1>0, <1>3, <2>2 DEF CreateRaise
    <3>2. QED
      BY <1>3, <2>2, <3>1
  <2>3. QED
    BY <2>1, <2>2
<1>4. ASSUME NEW q \in Requests, NEW b \in ApprovalIds, NEW d \in Decisions \cup {"Pending"}, DecideFind(q, b, d)
      PROVE  req'[r] = req[r] \/ DecideFind(r, b, d)
  <2>1. CASE q # r
    BY <1>0, <1>4, <2>1 DEF DecideFind, Find
  <2>2. QED
    BY <1>4, <2>1
<1>5. ASSUME NEW q \in Requests, NEW o \in Orders, ApproveOrder(q, o)
      PROVE  req'[r] = req[r] \/ (ApproveOrder(r, o) /\ req'[r] = [op |-> "settle", order |-> o])
  <2>1. CASE q # r
    BY <1>0, <1>5, <2>1 DEF ApproveOrder
  <2>2. CASE q = r
    <3>1. req'[r] = [op |-> "settle", order |-> o]
      BY <1>0, <1>5, <2>2 DEF ApproveOrder
    <3>2. QED
      BY <1>5, <2>2, <3>1
  <2>3. QED
    BY <2>1, <2>2
<1>6. ASSUME NEW q \in Requests, NEW o \in Orders, NEW to \in Statuses, StatusRead(q, o, to)
      PROVE  req'[r] = req[r] \/ (StatusRead(r, o, to) /\ req'[r] = [op |-> "status", order |-> o, to |-> to])
  <2>1. CASE q # r
    BY <1>0, <1>6, <2>1 DEF StatusRead
  <2>2. CASE q = r
    <3>1. req'[r] = [op |-> "status", order |-> o, to |-> to]
      BY <1>0, <1>6, <2>2 DEF StatusRead
    <3>2. QED
      BY <1>6, <2>2, <3>1
  <2>3. QED
    BY <2>1, <2>2
<1>7. ASSUME \/ \E o \in Orders : CreatePlain(o) \/ AcceptOrder(o) \/ (\E to \in Closed : CloseOrder(o, to))
             \/ \E b \in ApprovalIds : DeleteApproval(b) \/ (\E o \in Orders : RaiseApproval(b, o))
             \/ UNCHANGED vars
      PROVE  req'[r] = req[r]
  BY <1>7 DEF CreatePlain, AcceptOrder, CloseOrder, DeleteApproval, RaiseApproval, vars
<1>8. CASE UNCHANGED vars
  BY <1>7, <1>8
<1>9. CASE Next
  <2>1. CASE \E q \in Requests, o \in Orders, b \in ApprovalIds : CreateRaise(q, o, b)
    BY <1>3, <2>1
  <2>2. CASE \E q \in Requests, b \in ApprovalIds, d \in Decisions \cup {"Pending"} : DecideFind(q, b, d)
    BY <1>4, <2>2
  <2>3. CASE \E q \in Requests, o \in Orders : ApproveOrder(q, o)
    BY <1>5, <2>3
  <2>4. CASE \E q \in Requests, o \in Orders, to \in Statuses : StatusRead(q, o, to)
    BY <1>6, <2>4
  <2>5. CASE \E q \in Requests : CreateCommit(q) \/ DecideRecord(q) \/ Settle(q) \/ StatusWrite(q) \/ Abandon(q)
    BY <1>1, <2>5
  <2>6. CASE \E q \in Requests : DecideAct(q) \/ DecideSkip(q) \/ DecideSubmit(q) \/ DecideReject(q)
    BY <1>2, <2>6
  <2>7. QED
    BY <1>7, <1>9, <2>1, <2>2, <2>3, <2>4, <2>5, <2>6, Zenon DEF Next
<1>10. QED
  BY <1>8, <1>9

\* An order is awaited, or still to come, only if it was so before the step
\* or if its creation commits, unless it is put back.
LEMMA OrderStep ==
  ASSUME TypeOK, [Next]_vars, NEW o \in Orders,
         o \notin loose', order'[o] \in {None, "Pending_Approval"}
  PROVE  \/ order'[o] = order[o]
         \/ \E r \in Requests : req[r].op = "commit" /\ req[r].order = o /\ order'[o] = "Pending_Approval"
<1>0. order \in [Orders -> Statuses \cup {None}] /\ req \in [Requests -> RequestStates]
  BY DEF TypeOK
<1>n. None \notin Statuses
  BY NoneAssumption
<1>1. ASSUME NEW q \in Requests, CreateCommit(q) PROVE order'[o] = order[o]
         \/ (req[q].op = "commit" /\ req[q].order = o /\ order'[o] = "Pending_Approval")
  BY <1>0, <1>1 DEF CreateCommit
<1>2. ASSUME NEW q \in Requests, DecideSubmit(q) \/ DecideReject(q) PROVE order'[o] = order[o]
  BY <1>0, <1>n, <1>2 DEF DecideSubmit, DecideReject, Statuses
<1>3. ASSUME NEW q \in Requests, StatusWrite(q) PROVE order'[o] = order[o]
  <2>1. req[q].to \in Statuses
    BY <1>0, <1>3, KindOfRequest DEF StatusWrite, StatusReq
  <2>2. QED
    BY <1>0, <1>n, <1>3, <2>1 DEF StatusWrite
<1>4. ASSUME NEW q \in Requests, NEW p \in Orders, ApproveOrder(q, p) PROVE order'[o] = order[o]
  BY <1>0, <1>n, <1>4 DEF ApproveOrder, Statuses
<1>5. ASSUME NEW p \in Orders, CreatePlain(p) \/ AcceptOrder(p) \/ (\E to \in Closed : CloseOrder(p, to))
      PROVE  order'[o] = order[o]
  BY <1>0, <1>n, <1>5 DEF CreatePlain, AcceptOrder, CloseOrder, Closed, Statuses
<1>6. ASSUME \/ \E q \in Requests : DecideAct(q) \/ DecideSkip(q) \/ DecideRecord(q) \/ Settle(q) \/ Abandon(q)
             \/ \E q \in Requests, p \in Orders, b \in ApprovalIds : CreateRaise(q, p, b)
             \/ \E q \in Requests, b \in ApprovalIds, d \in Decisions \cup {"Pending"} : DecideFind(q, b, d)
             \/ \E q \in Requests, p \in Orders, to \in Statuses : StatusRead(q, p, to)
             \/ \E b \in ApprovalIds : DeleteApproval(b) \/ (\E p \in Orders : RaiseApproval(b, p))
             \/ UNCHANGED vars
      PROVE  order'[o] = order[o]
  BY <1>6 DEF DecideAct, DecideSkip, DecideRecord, Settle, Abandon, CreateRaise, DecideFind, StatusRead,
     DeleteApproval, RaiseApproval, vars
<1>7. CASE UNCHANGED vars
  BY <1>6, <1>7
<1>8. CASE Next
  <2>1. CASE \E q \in Requests : CreateCommit(q)
    BY <1>1, <2>1
  <2>2. CASE \E q \in Requests : DecideSubmit(q) \/ DecideReject(q) \/ StatusWrite(q)
    BY <1>2, <1>3, <2>2
  <2>3. CASE \E q \in Requests, p \in Orders : ApproveOrder(q, p)
    BY <1>4, <2>3
  <2>4. QED
    BY <1>5, <1>6, <1>8, <2>1, <2>2, <2>3, Zenon DEF Next
<1>9. QED
  BY <1>7, <1>8

\* The histories only grow, and a committed order stays.
LEMMA HistoryStep ==
  ASSUME TypeOK, [Next]_vars
  PROVE  /\ loose \subseteq loose' /\ contested \subseteq contested' /\ lost \subseteq lost'
         /\ \A o \in Orders : order[o] # None => order'[o] # None
<1>0. order \in [Orders -> Statuses \cup {None}] /\ req \in [Requests -> RequestStates]
  BY DEF TypeOK
<1>n. None \notin Statuses
  BY NoneAssumption
<1>1. ASSUME NEW q \in Requests, NEW p \in Orders, NEW s \in Statuses, order' = [order EXCEPT ![p] = s]
      PROVE  \A o \in Orders : order[o] # None => order'[o] # None
  BY <1>0, <1>n, <1>1
<1>2. ASSUME NEW q \in Requests,
             CreateCommit(q) \/ DecideSubmit(q) \/ DecideReject(q) \/ StatusWrite(q)
      PROVE  \E p \in Orders, s \in Statuses : order' = [order EXCEPT ![p] = s]
  <2>1. req[q] \in CommitReq \cup DecideReq \cup StatusReq
    BY <1>0, <1>2, KindOfRequest DEF CreateCommit, DecideSubmit, DecideReject, StatusWrite
  <2>2. req[q].order \in Orders
    BY <2>1 DEF CommitReq, DecideReq, StatusReq
  <2>3. StatusWrite(q) => req[q].to \in Statuses
    BY <1>0, KindOfRequest DEF StatusWrite, StatusReq
  <2>4. QED
    BY <1>2, <2>2, <2>3 DEF CreateCommit, DecideSubmit, DecideReject, StatusWrite, Statuses
<1>3. ASSUME NEW p \in Orders,
             \/ \E q \in Requests : ApproveOrder(q, p)
             \/ CreatePlain(p) \/ AcceptOrder(p) \/ (\E to \in Closed : CloseOrder(p, to))
      PROVE  \E s \in Statuses : order' = [order EXCEPT ![p] = s]
  BY <1>3 DEF ApproveOrder, CreatePlain, AcceptOrder, CloseOrder, Closed, Statuses
<1>4. ASSUME \/ \E q \in Requests : DecideAct(q) \/ DecideSkip(q) \/ DecideRecord(q) \/ Settle(q) \/ Abandon(q)
             \/ \E q \in Requests, p \in Orders, b \in ApprovalIds : CreateRaise(q, p, b)
             \/ \E q \in Requests, b \in ApprovalIds, d \in Decisions \cup {"Pending"} : DecideFind(q, b, d)
             \/ \E q \in Requests, p \in Orders, to \in Statuses : StatusRead(q, p, to)
             \/ \E b \in ApprovalIds : DeleteApproval(b) \/ (\E p \in Orders : RaiseApproval(b, p))
             \/ UNCHANGED vars
      PROVE  order' = order
  BY <1>4 DEF DecideAct, DecideSkip, DecideRecord, Settle, Abandon, CreateRaise, DecideFind, StatusRead,
     DeleteApproval, RaiseApproval, vars
<1>5. \A o \in Orders : order[o] # None => order'[o] # None
  <2>1. CASE UNCHANGED vars
    BY <1>4, <2>1
  <2>2. CASE Next
    <3>1. CASE order' = order
      BY <3>1
    <3>2. CASE \E p \in Orders, s \in Statuses : order' = [order EXCEPT ![p] = s]
      BY <1>0, <1>n, <3>2
    <3>3. QED
      BY <1>2, <1>3, <1>4, <2>2, <3>1, <3>2, Zenon DEF Next
  <2>3. QED
    BY <2>1, <2>2
<1>6. loose \subseteq loose' /\ contested \subseteq contested' /\ lost \subseteq lost'
  <2> DEFINE Grow == loose \subseteq loose' /\ contested \subseteq contested' /\ lost \subseteq lost'
  <2>1. \A r \in Requests : CreateCommit(r) \/ DecideAct(r) \/ DecideSkip(r) \/ DecideSubmit(r) \/ DecideReject(r)
           \/ DecideRecord(r) \/ Settle(r) \/ StatusWrite(r) \/ Abandon(r) => Grow
    BY DEF CreateCommit, DecideAct, DecideSkip, DecideSubmit, DecideReject, DecideRecord, Settle, StatusWrite, Abandon
  <2>2. \A r \in Requests, o \in Orders, a \in ApprovalIds : CreateRaise(r, o, a) => Grow
    BY DEF CreateRaise
  <2>3. \A r \in Requests, a \in ApprovalIds, d \in Decisions \cup {"Pending"} : DecideFind(r, a, d) => Grow
    BY DEF DecideFind, Find
  <2>4. \A r \in Requests, o \in Orders : ApproveOrder(r, o) => Grow
    BY DEF ApproveOrder
  <2>5. \A r \in Requests, o \in Orders, to \in Statuses : StatusRead(r, o, to) => Grow
    BY DEF StatusRead
  <2>6. \A o \in Orders : CreatePlain(o) \/ AcceptOrder(o) \/ (\E to \in Closed : CloseOrder(o, to)) => Grow
    BY DEF CreatePlain, AcceptOrder, CloseOrder
  <2>7. \A a \in ApprovalIds : DeleteApproval(a) \/ (\E o \in Orders : RaiseApproval(a, o)) => Grow
    BY DEF DeleteApproval, RaiseApproval
  <2>8. UNCHANGED vars => Grow
    BY DEF vars
  <2> HIDE DEF Grow
  <2>9. Grow
    BY <2>1, <2>2, <2>3, <2>4, <2>5, <2>6, <2>7, <2>8, Zenon DEF Next
  <2>10. QED
    BY <2>9 DEF Grow
<1>7. QED
  BY <1>5, <1>6

\* What is about to be recorded of an order, or settled, was about to be so
\* before the step, unless the step takes the order out of its wait.
LEMMA UndecidedStep ==
  ASSUME TypeOK, OneOrderEach, Undecided, CommitsFollow, [Next]_vars
  PROVE  Undecided'
<1> USE DEF Open, Done, Turn
<1>0. /\ order \in [Orders -> Statuses \cup {None}] /\ req \in [Requests -> RequestStates]
      /\ approval \in [ApprovalIds -> Records \cup {None}]
  BY DEF TypeOK
<1>n. None \notin Statuses
  BY NoneAssumption
<1> SUFFICES ASSUME NEW o \in Orders, o \notin loose', order'[o] \in {None, "Pending_Approval"}
             PROVE  /\ \A a \in ApprovalIds : approval'[a] # None /\ approval'[a].order = o
                                             => approval'[a].status = "Pending"
                    /\ \A r \in Requests : req'[r].op = "record" /\ req'[r].order = o => req'[r].decision = "Pending"
                    /\ \A r \in Requests : req'[r].op = "settle" => req'[r].order # o
  BY DEF Undecided
<1>1. o \notin loose /\ order[o] \in {None, "Pending_Approval"}
  BY OrderStep, HistoryStep DEF CommitsFollow
<1>2. /\ \A a \in ApprovalIds : approval[a] # None /\ approval[a].order = o => approval[a].status = "Pending"
      /\ \A r \in Requests : req[r].op = "record" /\ req[r].order = o => req[r].decision = "Pending"
      /\ \A r \in Requests : req[r].op = "settle" => req[r].order # o
  BY <1>1 DEF Undecided
<1>3. ASSUME NEW a \in ApprovalIds, approval'[a] # None, approval'[a].order = o
      PROVE  approval'[a].status = "Pending"
  <2>1. CASE approval'[a] = approval[a]
    BY <1>2, <1>3, <2>1
  <2>2. ASSUME NEW r \in Requests, req[r].op = "record", approval[a] # None, approval[a].order = req[r].order,
               approval'[a] = Recorded(approval[a], req[r].decision)
        PROVE  approval'[a].status = "Pending"
    <3>1. req[r].decision \in Decisions \cup {"Pending"} /\ approval[a] \in Records
      BY <1>0, <2>2, KindOfRequest DEF DecideReq
    <3>2. /\ Recorded(approval[a], req[r].decision).order = approval[a].order
          /\ Recorded(approval[a], req[r].decision).status = req[r].decision
      BY <3>1, RecordedIs
    <3>3. QED
      BY <1>2, <1>3, <2>2, <3>2
  <2>3. ASSUME NEW r \in Requests, Settle(r), approval'[a].order = req[r].order
        PROVE  FALSE
    BY <1>2, <1>3, <2>3 DEF Settle
  <2>4. ASSUME NEW p \in Orders, NEW own \in BOOLEAN, approval'[a] = Raised(p, own)
        PROVE  approval'[a].status = "Pending"
    BY <2>4, RaisedIs
  <2>5. QED
    BY <1>3, <2>1, <2>2, <2>3, <2>4, DocStep
<1>4. ASSUME NEW r \in Requests, req'[r].op = "record", req'[r].order = o
      PROVE  req'[r].decision = "Pending"
  <2>1. CASE req'[r] = req[r]
    BY <1>2, <1>4, <2>1
  <2>2. CASE /\ DecideAct(r) \/ DecideSkip(r) \/ DecideSubmit(r) \/ DecideReject(r)
             /\ \E op \in {"submit", "reject", "record"} : req'[r] = [req[r] EXCEPT !.op = op]
    <3>1. req[r] \in DecideReq
      BY <1>0, <2>2, KindOfRequest DEF DecideAct, DecideSkip, DecideSubmit, DecideReject
    <3>2. req[r].order = o
      BY <1>4, <2>2, <3>1 DEF DecideReq
    <3>3. CASE DecideAct(r)
      BY <1>0, <1>4, <3>1, <3>3 DEF DecideAct, DecideReq
    <3>4. CASE DecideSkip(r)
      BY <1>0, <1>1, <3>2, <3>4 DEF DecideSkip
    <3>5. CASE DecideSubmit(r) \/ DecideReject(r)
      BY <1>0, <1>n, <3>2, <3>5 DEF DecideSubmit, DecideReject, Statuses
    <3>6. QED
      BY <2>2, <3>3, <3>4, <3>5
  <2>3. ASSUME NEW a \in ApprovalIds, NEW d \in Decisions \cup {"Pending"}, DecideFind(r, a, d)
        PROVE  req'[r].decision = "Pending"
    <3>1. approval[a] # None
      BY <2>3 DEF DecideFind
    <3>2. req'[r] = [op |-> IF approval[a].status = "Pending" /\ d # "Pending" THEN "decide" ELSE "record",
                     id |-> a, order |-> approval[a].order, decision |-> d]
      BY <1>0, <2>3 DEF DecideFind, Find
    <3>3. QED
      BY <1>2, <1>4, <3>1, <3>2
  <2>4. /\ req'[r] # Idle
        /\ \A p \in Orders : req'[r] # [op |-> "commit", order |-> p]
        /\ \A p \in Orders, to \in Statuses : req'[r] # [op |-> "status", order |-> p, to |-> to]
    BY <1>4 DEF Idle
  <2>5. \A p \in Orders : req'[r] # [op |-> "settle", order |-> p]
    BY <1>4
  <2>6. QED
    BY <1>4, <2>1, <2>2, <2>3, <2>4, <2>5, HandlerStep, Zenon
<1>5. ASSUME NEW r \in Requests, req'[r].op = "settle", req'[r].order = o
      PROVE  FALSE
  <2>1. CASE req'[r] = req[r]
    BY <1>2, <1>5, <2>1
  <2>2. ASSUME NEW p \in Orders, ApproveOrder(r, p), req'[r] = [op |-> "settle", order |-> p]
        PROVE  FALSE
    BY <1>0, <1>n, <1>5, <2>2 DEF ApproveOrder, Statuses
  <2>3. CASE /\ DecideAct(r) \/ DecideSkip(r) \/ DecideSubmit(r) \/ DecideReject(r)
             /\ \E op \in {"submit", "reject", "record"} : req'[r] = [req[r] EXCEPT !.op = op]
    <3>1. req[r] \in DecideReq
      BY <1>0, <2>3, KindOfRequest DEF DecideAct, DecideSkip, DecideSubmit, DecideReject
    <3>2. QED
      BY <1>5, <2>3, <3>1 DEF DecideReq
  <2>4. ASSUME NEW a \in ApprovalIds, NEW d \in Decisions \cup {"Pending"}, DecideFind(r, a, d)
        PROVE  FALSE
    BY <1>0, <1>5, <2>4 DEF DecideFind, Find
  <2>5. /\ req'[r] # Idle
        /\ \A p \in Orders : req'[r] # [op |-> "commit", order |-> p]
        /\ \A p \in Orders, to \in Statuses : req'[r] # [op |-> "status", order |-> p, to |-> to]
    BY <1>5 DEF Idle
  <2>6. QED
    BY <1>5, <2>1, <2>2, <2>3, <2>4, <2>5, HandlerStep, Zenon
<1>6. QED
  BY <1>3, <1>4, <1>5

\* How a handler comes to do what it does after a step.
LEMMA HandlerBecomes ==
  ASSUME TypeOK, [Next]_vars, NEW r \in Requests, req'[r] # req[r]
  PROVE  /\ req'[r].op = "commit" =>
               \E o \in Orders, b \in ApprovalIds : CreateRaise(r, o, b) /\ req'[r].order = o
         /\ req'[r].op = "status" =>
               \E o \in Orders, to \in Statuses : StatusRead(r, o, to) /\ req'[r].order = o
         /\ req'[r].op \in {"submit", "reject"} => DecideAct(r) /\ req'[r].order = req[r].order
         /\ req'[r].op = "decide" =>
               \E b \in ApprovalIds, d \in Decisions \cup {"Pending"} :
                  /\ DecideFind(r, b, d) /\ req'[r].order = approval[b].order
                  /\ approval[b].status = "Pending" /\ d # "Pending"
<1>0. req \in [Requests -> RequestStates]
  BY DEF TypeOK
<1>1. CASE req'[r] = Idle
  BY <1>1 DEF Idle
<1>2. ASSUME NEW op \in {"submit", "reject", "record"}, req'[r] = [req[r] EXCEPT !.op = op],
             DecideAct(r) \/ DecideSkip(r) \/ DecideSubmit(r) \/ DecideReject(r)
      PROVE  /\ req'[r].op \in {"submit", "reject", "record"}
             /\ req'[r].op \in {"submit", "reject"} => DecideAct(r) /\ req'[r].order = req[r].order
  <2>1. req[r] \in DecideReq
    BY <1>0, <1>2, KindOfRequest DEF DecideAct, DecideSkip, DecideSubmit, DecideReject
  <2>2. req'[r].op = op /\ req'[r].order = req[r].order
    BY <1>2, <2>1 DEF DecideReq
  <2>3. CASE DecideAct(r)
    BY <2>2, <2>3
  <2>4. CASE DecideSkip(r) \/ DecideSubmit(r) \/ DecideReject(r)
    <3>1. req' = [req EXCEPT ![r] = [req[r] EXCEPT !.op = "record"]]
      BY <2>4 DEF DecideSkip, DecideSubmit, DecideReject, Turn
    <3>2. req'[r].op = "record"
      BY <1>0, <2>1, <3>1 DEF DecideReq
    <3>3. QED
      BY <3>2
  <2>5. QED
    BY <1>2, <2>3, <2>4
<1>3. ASSUME NEW b \in ApprovalIds, NEW d \in Decisions \cup {"Pending"}, DecideFind(r, b, d)
      PROVE  /\ req'[r].op \in {"decide", "record"} /\ req'[r].order = approval[b].order
             /\ req'[r].op = "decide" => approval[b].status = "Pending" /\ d # "Pending"
  <2>1. req' = [req EXCEPT ![r] = [op |-> IF approval[b].status = "Pending" /\ d # "Pending" THEN "decide" ELSE "record",
                                   id |-> b, order |-> approval[b].order, decision |-> d]]
    BY <1>3 DEF DecideFind, Find, Open
  <2>2. req'[r] = [op |-> IF approval[b].status = "Pending" /\ d # "Pending" THEN "decide" ELSE "record",
                   id |-> b, order |-> approval[b].order, decision |-> d]
    BY <1>0, <2>1
  <2>3. QED
    BY <2>2
<1>4. ASSUME NEW o \in Orders, NEW b \in ApprovalIds, CreateRaise(r, o, b), req'[r] = [op |-> "commit", order |-> o]
      PROVE  req'[r].op = "commit" /\ req'[r].order = o
  BY <1>4
<1>5. ASSUME NEW o \in Orders, req'[r] = [op |-> "settle", order |-> o]
      PROVE  req'[r].op = "settle"
  BY <1>5
<1>6. ASSUME NEW o \in Orders, NEW to \in Statuses, req'[r] = [op |-> "status", order |-> o, to |-> to]
      PROVE  req'[r].op = "status" /\ req'[r].order = o
  BY <1>6
<1>7. CASE \E op \in {"submit", "reject", "record"} :
             /\ req'[r] = [req[r] EXCEPT !.op = op]
             /\ DecideAct(r) \/ DecideSkip(r) \/ DecideSubmit(r) \/ DecideReject(r)
  BY <1>2, <1>7
<1>8. CASE \E b \in ApprovalIds, d \in Decisions \cup {"Pending"} : DecideFind(r, b, d)
  BY <1>3, <1>8
<1>9. CASE \E o \in Orders, b \in ApprovalIds : CreateRaise(r, o, b) /\ req'[r] = [op |-> "commit", order |-> o]
  BY <1>4, <1>9
<1>10. CASE \E o \in Orders : req'[r] = [op |-> "settle", order |-> o]
  BY <1>5, <1>10
<1>11. CASE \E o \in Orders, to \in Statuses :
              StatusRead(r, o, to) /\ req'[r] = [op |-> "status", order |-> o, to |-> to]
  BY <1>6, <1>11
<1>12. QED
  BY <1>1, <1>7, <1>8, <1>9, <1>10, <1>11, HandlerStep, Zenon

\* A request for approval that shows an order stays pending until somebody
\* decides about the order.
LEMMA PendingStays ==
  ASSUME TypeOK, OneOrderEach, Undecided, [Next]_vars, NEW o \in Orders, NEW a \in ApprovalIds,
         o \notin loose', order[o] \in {None, "Pending_Approval"}, PendingFor(a, o)
  PROVE  PendingFor(a, o)'
<1>0. req \in [Requests -> RequestStates] /\ approval[a] \in Records \cup {None}
  BY DEF TypeOK
<1>1. approval[a] \in Records /\ approval[a] # None /\ approval[a].order = o /\ approval[a].status = "Pending"
  BY RaisedIs DEF PendingFor
<1>2. o \notin loose
  BY HistoryStep
<1>3. /\ \A r \in Requests : req[r].op = "record" /\ req[r].order = o => req[r].decision = "Pending"
      /\ \A r \in Requests : req[r].op = "settle" => req[r].order # o
  BY <1>2 DEF Undecided
<1>4. ASSUME NEW r \in Requests, req[r].op = "record", approval[a].order = req[r].order,
             approval'[a] = Recorded(approval[a], req[r].decision)
      PROVE  approval'[a] = Raised(o, FALSE)
  <2>1. req[r].decision = "Pending"
    BY <1>1, <1>3, <1>4
  <2>2. approval'[a] = [approval[a] EXCEPT !.status = "Pending", !.own = FALSE]
    <3>1. (approval[a].own /\ "Pending" # "Pending") = FALSE
      BY Zenon
    <3>2. Recorded(approval[a], "Pending")
            = [approval[a] EXCEPT !.status = "Pending", !.own = approval[a].own /\ "Pending" # "Pending"]
      BY <1>1 DEF Recorded
    <3>3. QED
      BY <1>4, <2>1, <3>1, <3>2
  <2>3. QED
    BY <1>1, <2>2 DEF Raised, Records
<1>5. ASSUME NEW r \in Requests, Settle(r), PendingFor(a, req[r].order), approval'[a].order = req[r].order
      PROVE  FALSE
  <2>1. req[r].order \in Orders
    BY <1>0, <1>5, KindOfRequest DEF Settle, SettleReq, TypeOK
  <2>2. approval[a].order = req[r].order
    BY <1>5, <2>1, RaisedIs DEF PendingFor
  <2>3. QED
    BY <1>1, <1>3, <1>5, <2>2 DEF Settle
<1>6. ~Fresh(a)
  BY <1>1 DEF Fresh
<1>7. CASE approval'[a] = approval[a]
  BY <1>7 DEF PendingFor
<1>8. approval'[a] = Raised(o, FALSE) => PendingFor(a, o)'
  BY DEF PendingFor
<1>9. QED
  BY <1>1, <1>4, <1>5, <1>6, <1>7, <1>8, DocStep

\* Only the commit of its creation brings an order about while a creation is
\* on its way to that commit.
LEMMA OrderComes ==
  ASSUME TypeOK, OrdersExist, [Next]_vars, NEW o \in Orders, order[o] = None, order'[o] # None
  PROVE  \/ \E r \in Requests : CreateCommit(r) /\ req[r].order = o
         \/ \A r \in Requests : req[r].op = "commit" => req[r].order # o
<1>0. order \in [Orders -> Statuses \cup {None}] /\ req \in [Requests -> RequestStates]
  BY DEF TypeOK
<1>n. None \notin Statuses
  BY NoneAssumption
<1>1. ASSUME NEW q \in Requests, CreateCommit(q) PROVE req[q].order = o
  BY <1>0, <1>1 DEF CreateCommit
<1>2. ASSUME NEW q \in Requests, DecideSubmit(q) \/ DecideReject(q) \/ StatusWrite(q) PROVE FALSE
  <2>1. order[req[q].order] # None
    BY <1>2 DEF OrdersExist, DecideSubmit, DecideReject, StatusWrite
  <2>2. order'[o] = order[o]
    BY <1>0, <1>2, <2>1 DEF DecideSubmit, DecideReject, StatusWrite
  <2>3. QED
    BY <2>2
<1>3. ASSUME NEW q \in Requests, NEW p \in Orders, ApproveOrder(q, p) PROVE FALSE
  BY <1>0, <1>n, <1>3 DEF ApproveOrder, Statuses
<1>4. ASSUME NEW p \in Orders, AcceptOrder(p) \/ (\E to \in Closed : CloseOrder(p, to)) PROVE FALSE
  <2>1. order[p] # None
    BY <1>0, <1>n, <1>4 DEF AcceptOrder, CloseOrder, MayReject, Statuses
  <2>2. order'[o] = order[o]
    BY <1>0, <1>4, <2>1 DEF AcceptOrder, CloseOrder
  <2>3. QED
    BY <2>2
<1>5. ASSUME NEW p \in Orders, CreatePlain(p)
      PROVE  \A r \in Requests : req[r].op = "commit" => req[r].order # o
  <2>1. p = o
    BY <1>0, <1>5 DEF CreatePlain
  <2>2. QED
    BY <1>5, <2>1 DEF CreatePlain
<1>6. ASSUME \/ \E q \in Requests : DecideAct(q) \/ DecideSkip(q) \/ DecideRecord(q) \/ Settle(q) \/ Abandon(q)
             \/ \E q \in Requests, p \in Orders, b \in ApprovalIds : CreateRaise(q, p, b)
             \/ \E q \in Requests, b \in ApprovalIds, d \in Decisions \cup {"Pending"} : DecideFind(q, b, d)
             \/ \E q \in Requests, p \in Orders, to \in Statuses : StatusRead(q, p, to)
             \/ \E b \in ApprovalIds : DeleteApproval(b) \/ (\E p \in Orders : RaiseApproval(b, p))
             \/ UNCHANGED vars
      PROVE  FALSE
  BY <1>6 DEF DecideAct, DecideSkip, DecideRecord, Settle, Abandon, CreateRaise, DecideFind, StatusRead,
     DeleteApproval, RaiseApproval, vars
<1>7. CASE Next
  BY <1>1, <1>2, <1>3, <1>4, <1>5, <1>6, <1>7, Zenon DEF Next
<1>8. QED
  BY <1>6, <1>7

\* A creation on its way to its commit finds its order still to come, and its
\* request still open.
LEMMA CommitsStep ==
  ASSUME TypeOK, OneOrderEach, Undecided, CommitsFollow, OrdersExist, [Next]_vars
  PROVE  CommitsFollow'
<1>0. /\ order \in [Orders -> Statuses \cup {None}] /\ req \in [Requests -> RequestStates]
      /\ req' \in [Requests -> RequestStates] /\ approval \in [ApprovalIds -> Records \cup {None}]
  BY TypeStep DEF TypeOK
<1> DEFINE Shown(o) == \E a \in ApprovalIds, own \in BOOLEAN : approval'[a] = Raised(o, own)
<1>1. ASSUME NEW r \in Requests, NEW o \in Orders, NEW b \in ApprovalIds, CreateRaise(r, o, b)
      PROVE  /\ order'[o] = None /\ Shown(o)
             /\ \A q \in Requests : q # r => req'[q] = req[q]
             /\ \A q \in Requests : req[q].op = "commit" => req[q].order # o
  <2>1. approval'[b] = Raised(o, TRUE)
    BY <1>0, <1>1 DEF CreateRaise
  <2>2. Shown(o)
    BY <2>1
  <2>3. QED
    BY <1>0, <1>1, <2>2 DEF CreateRaise, Open
<1>2. ASSUME NEW r \in Requests, NEW o \in Orders, req'[r].op = "commit", req'[r] = req[r], req[r].order = o
      PROVE  order'[o] = None /\ (o \notin loose' => Shown(o))
  <2>1. order[o] = None
    BY <1>2 DEF CommitsFollow
  <2>2. ASSUME NEW q \in Requests, CreateCommit(q), req[q].order = o PROVE FALSE
    <3>1. q = r
      BY <1>2, <2>2 DEF CreateCommit, CommitsFollow
    <3>2. req'[q] = Idle
      BY <1>0, <2>2 DEF CreateCommit, Done
    <3>3. QED
      BY <1>2, <3>1, <3>2 DEF Idle
  <2>3. order'[o] = None
    BY <1>2, <2>1, <2>2, OrderComes
  <2>4. ASSUME o \notin loose' PROVE Shown(o)
    <3>1. PICK a \in ApprovalIds : PendingFor(a, o)
      BY <1>2, <2>4, HistoryStep DEF CommitsFollow
    <3>2. PendingFor(a, o)'
      BY <2>1, <2>4, <3>1, PendingStays
    <3>3. QED
      BY <3>2 DEF PendingFor
  <2>5. QED
    BY <2>3, <2>4
<1>3. ASSUME NEW r \in Requests, NEW o \in Orders, req'[r].op = "commit", req'[r].order = o
      PROVE  order'[o] = None /\ (o \notin loose' => Shown(o))
  <2>1. CASE req'[r] = req[r]
    <3>1. req[r].order = o
      BY <1>3, <2>1
    <3>2. QED
      BY <1>2, <1>3, <2>1, <3>1
  <2>2. CASE req'[r] # req[r]
    <3>1. PICK b \in ApprovalIds : CreateRaise(r, o, b)
      BY <1>3, <2>2, HandlerBecomes
    <3>2. QED
      BY <1>1, <3>1
  <2>3. QED
    BY <2>1, <2>2
<1>4. ASSUME NEW q \in Requests, NEW r \in Requests, req'[q].op = "commit", req'[r].op = "commit",
             req'[q].order = req'[r].order
      PROVE  q = r
  <2>1. CASE req'[q] = req[q] /\ req'[r] = req[r]
    BY <1>4, <2>1 DEF CommitsFollow
  <2>2. CASE req'[q] # req[q]
    <3>1. PICK o \in Orders, b \in ApprovalIds : CreateRaise(q, o, b) /\ req'[q].order = o
      BY <1>4, <2>2, HandlerBecomes
    <3>2. QED
      BY <1>1, <1>4, <3>1
  <2>3. CASE req'[r] # req[r]
    <3>1. PICK o \in Orders, b \in ApprovalIds : CreateRaise(r, o, b) /\ req'[r].order = o
      BY <1>4, <2>3, HandlerBecomes
    <3>2. QED
      BY <1>1, <1>4, <3>1
  <2>4. QED
    BY <2>1, <2>2, <2>3
<1> HIDE DEF Shown
<1>5. ASSUME NEW r \in Requests, req'[r].op = "commit"
      PROVE  order'[req'[r].order] = None /\ (req'[r].order \notin loose' => Shown(req'[r].order))
  <2>1. req'[r].order \in Orders
    BY <1>0, <1>5, KindOfRequest DEF CommitReq
  <2>2. QED
    BY <1>3, <1>5, <2>1
<1>6. QED
  BY <1>4, <1>5 DEF CommitsFollow, PendingFor, Shown

\* An order that waits for a manager has a pending request that shows it.
LEMMA WaitsStep ==
  ASSUME TypeOK, OneOrderEach, Undecided, CommitsFollow, WaitsOnRequest, [Next]_vars
  PROVE  WaitsOnRequest'
<1> SUFFICES ASSUME NEW o \in Orders, o \notin loose', order'[o] = "Pending_Approval"
             PROVE  \E a \in ApprovalIds : PendingFor(a, o)'
  BY DEF WaitsOnRequest, PendingFor
<1>1. o \notin loose
  BY HistoryStep
<1>2. CASE order[o] = "Pending_Approval"
  <2>1. \E a \in ApprovalIds : PendingFor(a, o)
    BY <1>1, <1>2 DEF WaitsOnRequest
  <2>2. QED
    BY <1>2, <2>1, PendingStays
<1>3. CASE order[o] # "Pending_Approval"
  <2>1. PICK r \in Requests : req[r].op = "commit" /\ req[r].order = o
    BY <1>3, OrderStep
  <2>2. order[o] = None /\ (\E a \in ApprovalIds : PendingFor(a, o))
    BY <1>1, <2>1 DEF CommitsFollow
  <2>3. QED
    BY <2>2, PendingStays
<1>4. QED
  BY <1>2, <1>3

\* An order that a manager approved, and one that a handler is about to
\* change, is there.
LEMMA OrdersStay ==
  ASSUME TypeOK, OrdersExist, [Next]_vars
  PROVE  OrdersExist'
<1>0. /\ order \in [Orders -> Statuses \cup {None}] /\ req \in [Requests -> RequestStates]
      /\ signed \in SUBSET Orders /\ signed' \in SUBSET Orders
  BY TypeStep DEF TypeOK
<1>n. None \notin Statuses
  BY NoneAssumption
<1>1. ASSUME NEW o \in signed' PROVE order'[o] # None
  <2>1. CASE o \in signed
    BY <1>0, <2>1, HistoryStep DEF OrdersExist
  <2>2. CASE o \notin signed
    <3>1. \E r \in Requests, p \in Orders : ApproveOrder(r, p)
      BY <1>1, <2>2 DEF Next, CreateCommit, DecideAct, DecideSkip, DecideSubmit, DecideReject, DecideRecord, Settle,
         StatusWrite, Abandon, CreateRaise, DecideFind, StatusRead, CreatePlain, AcceptOrder, CloseOrder,
         DeleteApproval, RaiseApproval, vars
    <3>2. QED
      BY <1>0, <1>n, <1>1, <2>2, <3>1 DEF ApproveOrder, Statuses
  <2>3. QED
    BY <2>1, <2>2
<1>2. ASSUME NEW r \in Requests, req'[r].op \in {"submit", "reject", "status"}
      PROVE  order'[req'[r].order] # None
  <2>1. CASE req'[r] = req[r]
    <3>1. req[r].order \in Orders
      BY <1>0, <1>2, <2>1, KindOfRequest DEF DecideReq, StatusReq
    <3>2. QED
      BY <1>2, <2>1, <3>1, HistoryStep DEF OrdersExist
  <2>2. CASE req'[r] # req[r] /\ req'[r].op = "status"
    <3>1. PICK o \in Orders, to \in Statuses : StatusRead(r, o, to) /\ req'[r].order = o
      BY <2>2, HandlerBecomes
    <3>2. order[o] # None
      BY <1>0, <1>n, <3>1 DEF StatusRead, MayBecome, Statuses
    <3>3. QED
      BY <3>1, <3>2, HistoryStep
  <2>3. CASE req'[r] # req[r] /\ req'[r].op \in {"submit", "reject"}
    <3>1. DecideAct(r) /\ req'[r].order = req[r].order
      BY <2>3, HandlerBecomes
    <3>2. order[req[r].order] # None
      BY <1>n, <3>1 DEF DecideAct, Statuses
    <3>3. req[r].order \in Orders
      BY <1>0, <3>1, KindOfRequest DEF DecideAct, DecideReq
    <3>4. QED
      BY <3>1, <3>2, <3>3, HistoryStep
  <2>4. QED
    BY <1>2, <2>1, <2>2, <2>3
<1>3. QED
  BY <1>1, <1>2 DEF OrdersExist

\* Who changes how often an order was acted upon.
LEMMA ActedStep ==
  ASSUME TypeOK, [Next]_vars, NEW o \in Orders
  PROVE  \/ acted'[o] = acted[o]
         \/ \E r \in Requests :
               /\ req[r].op \in {"submit", "reject"} /\ req[r].order = o /\ req'[r].op = "record"
               /\ acted'[o] = IF acted[o] = 2 THEN 2 ELSE acted[o] + 1
               /\ order'[o] \in {"Submitted", "Rejected"}
<1>0. /\ order \in [Orders -> Statuses \cup {None}] /\ req \in [Requests -> RequestStates]
      /\ acted \in [Orders -> 0..2]
  BY DEF TypeOK
<1>1. ASSUME NEW r \in Requests, DecideSubmit(r) \/ DecideReject(r)
      PROVE  \/ acted'[o] = acted[o]
             \/ /\ req[r].op \in {"submit", "reject"} /\ req[r].order = o /\ req'[r].op = "record"
                /\ acted'[o] = IF acted[o] = 2 THEN 2 ELSE acted[o] + 1
                /\ order'[o] \in {"Submitted", "Rejected"}
  <2>1. CASE req[r].order # o
    BY <1>0, <1>1, <2>1 DEF DecideSubmit, DecideReject, Acted
  <2>2. CASE req[r].order = o
    <3>1. req[r] \in DecideReq
      BY <1>0, <1>1, KindOfRequest DEF DecideSubmit, DecideReject
    <3>2. req'[r].op = "record"
      BY <1>0, <1>1, <3>1 DEF DecideSubmit, DecideReject, Turn, DecideReq
    <3>3. acted'[o] = IF acted[o] = 2 THEN 2 ELSE acted[o] + 1
      BY <1>0, <1>1, <2>2 DEF DecideSubmit, DecideReject, Acted
    <3>4. order'[o] \in {"Submitted", "Rejected"}
      BY <1>0, <1>1, <2>2 DEF DecideSubmit, DecideReject
    <3>5. QED
      BY <1>1, <2>2, <3>2, <3>3, <3>4 DEF DecideSubmit, DecideReject
  <2>3. QED
    BY <2>1, <2>2
<1>2. ASSUME \/ \E q \in Requests : \/ CreateCommit(q) \/ DecideAct(q) \/ DecideSkip(q) \/ DecideRecord(q)
                                    \/ Settle(q) \/ StatusWrite(q) \/ Abandon(q)
             \/ \E q \in Requests, p \in Orders, b \in ApprovalIds : CreateRaise(q, p, b)
             \/ \E q \in Requests, b \in ApprovalIds, d \in Decisions \cup {"Pending"} : DecideFind(q, b, d)
             \/ \E q \in Requests, p \in Orders : ApproveOrder(q, p)
             \/ \E q \in Requests, p \in Orders, to \in Statuses : StatusRead(q, p, to)
             \/ \E p \in Orders : CreatePlain(p) \/ AcceptOrder(p) \/ (\E to \in Closed : CloseOrder(p, to))
             \/ \E b \in ApprovalIds : DeleteApproval(b) \/ (\E p \in Orders : RaiseApproval(b, p))
             \/ UNCHANGED vars
      PROVE  acted' = acted
  BY <1>2 DEF CreateCommit, DecideAct, DecideSkip, DecideRecord, Settle, StatusWrite, Abandon, CreateRaise,
     DecideFind, Find, ApproveOrder, StatusRead, CreatePlain, AcceptOrder, CloseOrder, DeleteApproval,
     RaiseApproval, vars
<1>3. CASE \E r \in Requests : DecideSubmit(r) \/ DecideReject(r)
  BY <1>1, <1>3
<1>4. CASE acted' = acted
  BY <1>4
<1>5. CASE UNCHANGED vars
  BY <1>2, <1>4, <1>5
<1>6. CASE Next
  BY <1>2, <1>3, <1>4, <1>6, Zenon DEF Next
<1>7. QED
  BY <1>5, <1>6

\* Decisions that do not overlap act on an order once, and then nobody is
\* left to act.
LEMMA ActsStep ==
  ASSUME TypeOK, OneOrderEach, CommitsFollow, ActsAlone, OrdersExist, [Next]_vars
  PROVE  ActsAlone'
<1>0. /\ order \in [Orders -> Statuses \cup {None}] /\ req \in [Requests -> RequestStates]
      /\ req' \in [Requests -> RequestStates] /\ acted \in [Orders -> 0..2]
  BY TypeStep DEF TypeOK
<1> SUFFICES ASSUME NEW o \in Orders, o \notin contested'
             PROVE  /\ \A q, r \in Requests : Deciding(q, o)' /\ Deciding(r, o)' => q = r
                    /\ o \notin loose' /\ acted'[o] >= 1 =>
                          /\ order'[o] \notin {None, "Pending_Approval"}
                          /\ \A r \in Requests : ~Acting(r, o)'
  BY DEF ActsAlone, Deciding, Acting
<1>1. o \notin contested
  BY HistoryStep
<1>2. /\ \A q, r \in Requests : Deciding(q, o) /\ Deciding(r, o) => q = r
      /\ o \notin loose /\ acted[o] >= 1 =>
            /\ order[o] \notin {None, "Pending_Approval"}
            /\ \A r \in Requests : ~Acting(r, o)
  BY <1>1 DEF ActsAlone
<1>3. ASSUME NEW r \in Requests, Deciding(r, o)', ~Deciding(r, o)
      PROVE  \A q \in Requests : ~Deciding(q, o) /\ (q # r => req'[q] = req[q])
  <2>1. req'[r] # req[r]
    BY <1>3 DEF Deciding
  <2>2. CASE req'[r].op = "decide"
    <3>1. PICK b \in ApprovalIds, d \in Decisions \cup {"Pending"} :
                  /\ DecideFind(r, b, d) /\ req'[r].order = approval[b].order
                  /\ approval[b].status = "Pending" /\ d # "Pending"
      BY <2>1, <2>2, HandlerBecomes
    <3>2. approval[b].order = o
      BY <1>3, <3>1 DEF Deciding
    <3>3. contested' = IF \E q \in Requests : Deciding(q, o) THEN contested \cup {o} ELSE contested
      BY <3>1, <3>2 DEF DecideFind, Find
    <3>4. \A q \in Requests : ~Deciding(q, o)
      BY <3>3
    <3>5. \A q \in Requests : q # r => req'[q] = req[q]
      BY <1>0, <3>1 DEF DecideFind, Find, Open
    <3>6. QED
      BY <3>4, <3>5
  <2>3. CASE req'[r].op \in {"submit", "reject"}
    <3>1. DecideAct(r) /\ req'[r].order = req[r].order
      BY <2>1, <2>3, HandlerBecomes
    <3>2. QED
      BY <1>3, <3>1 DEF Deciding, DecideAct
  <2>4. QED
    BY <1>3, <2>2, <2>3 DEF Deciding
<1>4. ASSUME NEW q \in Requests, NEW r \in Requests, Deciding(q, o)', Deciding(r, o)'
      PROVE  q = r
  <2>1. CASE Deciding(q, o) /\ Deciding(r, o)
    BY <1>2, <2>1
  <2>2. CASE ~Deciding(r, o)
    <3>1. q # r => ~Deciding(q, o) /\ req'[q] = req[q]
      BY <1>3, <1>4, <2>2
    <3>2. QED
      BY <1>4, <3>1 DEF Deciding
  <2>3. CASE ~Deciding(q, o)
    <3>1. q # r => ~Deciding(r, o) /\ req'[r] = req[r]
      BY <1>3, <1>4, <2>3
    <3>2. QED
      BY <1>4, <3>1 DEF Deciding
  <2>4. QED
    BY <2>1, <2>2, <2>3
<1>5. ASSUME o \notin loose', acted'[o] >= 1
      PROVE  /\ order'[o] \notin {None, "Pending_Approval"}
             /\ \A r \in Requests : ~Acting(r, o)'
  <2>1. o \notin loose
    BY <1>5, HistoryStep
  <2>2. CASE acted'[o] = acted[o]
    <3>1. /\ order[o] \notin {None, "Pending_Approval"}
          /\ \A r \in Requests : ~Acting(r, o)
      BY <1>2, <1>5, <2>1, <2>2
    <3>2. order'[o] \notin {None, "Pending_Approval"}
      <4>1. ASSUME order'[o] \in {None, "Pending_Approval"} PROVE FALSE
        <5>1. PICK r \in Requests : req[r].op = "commit" /\ req[r].order = o
          BY <1>5, <3>1, <4>1, OrderStep
        <5>2. QED
          BY <3>1, <5>1 DEF CommitsFollow
      <4>2. QED
        BY <4>1
    <3>3. ASSUME NEW r \in Requests, Acting(r, o)' PROVE FALSE
      <4>1. req'[r] # req[r]
        BY <3>1, <3>3 DEF Acting
      <4>2. DecideAct(r) /\ req[r].order = o
        BY <3>3, <4>1, HandlerBecomes DEF Acting
      <4>3. QED
        BY <3>1, <4>2 DEF DecideAct
    <3>4. QED
      BY <3>2, <3>3
  <2>3. ASSUME NEW r \in Requests,
               req[r].op \in {"submit", "reject"}, req[r].order = o, req'[r].op = "record",
               order'[o] \in {"Submitted", "Rejected"}
        PROVE  /\ order'[o] \notin {None, "Pending_Approval"}
               /\ \A q \in Requests : ~Acting(q, o)'
    <3>1. order'[o] \notin {None, "Pending_Approval"}
      BY <2>3, NoneAssumption DEF Statuses
    <3>2. ASSUME NEW q \in Requests, Acting(q, o)' PROVE FALSE
      <4>1. Deciding(q, o)' /\ Deciding(r, o)
        BY <2>3, <3>2 DEF Acting, Deciding
      <4>2. q # r
        BY <2>3, <3>2 DEF Acting
      <4>3. CASE Deciding(q, o)
        BY <1>2, <4>1, <4>2, <4>3
      <4>4. CASE ~Deciding(q, o)
        BY <1>3, <4>1, <4>4
      <4>5. QED
        BY <4>3, <4>4
    <3>3. QED
      BY <3>1, <3>2
  <2>4. QED
    BY <2>2, <2>3, ActedStep
<1>6. QED
  BY <1>4, <1>5

\* The decisions on the requests of one order change it once.
LEMMA OnceStep ==
  ASSUME TypeOK, ActsAlone, DecidedOnce, [Next]_vars
  PROVE  DecidedOnce'
<1> SUFFICES ASSUME NEW o \in Orders, o \notin loose', o \notin contested'
             PROVE  acted'[o] <= 1
  BY DEF DecidedOnce
<1>0. acted[o] \in 0..2
  BY DEF TypeOK
<1>1. o \notin loose /\ o \notin contested
  BY HistoryStep
<1>2. CASE acted'[o] = acted[o]
  BY <1>1, <1>2 DEF DecidedOnce
<1>3. ASSUME NEW r \in Requests, req[r].op \in {"submit", "reject"}, req[r].order = o,
             acted'[o] = IF acted[o] = 2 THEN 2 ELSE acted[o] + 1
      PROVE  acted'[o] <= 1
  <2>1. Acting(r, o)
    BY <1>3 DEF Acting
  <2>2. ~(acted[o] >= 1)
    BY <1>1, <2>1 DEF ActsAlone
  <2>3. QED
    BY <1>0, <1>3, <2>2
<1>4. QED
  BY <1>2, <1>3, ActedStep

\* A recorded decision makes no request that still stands as its order raised it.
LEMMA RecordedRaisesNothing ==
  ASSUME NEW doc \in Records, NEW d \in Decisions \cup {"Pending"}, NEW o \in Orders
  PROVE  Recorded(doc, d) # Raised(o, TRUE)
BY RecordedIs, Zenon

\* A direct approval settles what the creation of its order raised.
LEMMA SettlesStep ==
  ASSUME TypeOK, OneOrderEach, OrdersExist, DirectApprovalSettles, [Next]_vars
  PROVE  DirectApprovalSettles'
<1>0. /\ order \in [Orders -> Statuses \cup {None}] /\ req \in [Requests -> RequestStates]
      /\ signed \in SUBSET Orders /\ signed' \in SUBSET Orders
      /\ approval \in [ApprovalIds -> Records \cup {None}]
  BY TypeStep DEF TypeOK
<1> SUFFICES ASSUME NEW o \in Orders, o \in signed', o \notin lost',
                    ~\E r \in Requests : req'[r].op = "settle" /\ req'[r].order = o
             PROVE  \A a \in ApprovalIds : approval'[a] # Raised(o, TRUE)
  BY <1>0 DEF DirectApprovalSettles
<1>1. o \in signed
  <2>1. CASE UNCHANGED signed
    BY <2>1
  <2>2. CASE \E r \in Requests, p \in Orders : ApproveOrder(r, p)
    <3>1. PICK r \in Requests, p \in Orders : ApproveOrder(r, p)
      BY <2>2
    <3>2. req'[r] = [op |-> "settle", order |-> p] /\ signed' = signed \cup {p}
      BY <1>0, <3>1 DEF ApproveOrder, Open
    <3>3. p # o
      BY <3>2
    <3>4. QED
      BY <3>2, <3>3
  <2>3. QED
    BY <2>1, <2>2 DEF Next, CreateCommit, DecideAct, DecideSkip, DecideSubmit, DecideReject, DecideRecord, Settle,
       StatusWrite, Abandon, CreateRaise, DecideFind, StatusRead, CreatePlain, AcceptOrder, CloseOrder,
       DeleteApproval, RaiseApproval, vars
<1>2. o \notin lost /\ order[o] # None
  BY <1>1, HistoryStep DEF OrdersExist
<1>3. ASSUME NEW a \in ApprovalIds, approval[a] # Raised(o, TRUE)
      PROVE  approval'[a] # Raised(o, TRUE)
  <2>1. Raised(o, TRUE) # None /\ Raised(o, TRUE).order = o /\ Raised(o, TRUE).status = "Pending"
    BY RaisedIs
  <2>2. ASSUME NEW r \in Requests, req[r].op = "record", approval[a] # None
        PROVE  Recorded(approval[a], req[r].decision) # Raised(o, TRUE)
    <3> DEFINE doc == approval[a]
               d == req[r].decision
    <3>1. d \in Decisions \cup {"Pending"} /\ doc \in Records
      BY <1>0, <2>2, KindOfRequest DEF DecideReq
    <3> HIDE DEF doc, d
    <3>2. Recorded(doc, d) # Raised(o, TRUE)
      BY <3>1, RecordedRaisesNothing, Zenon
    <3>3. QED
      BY <3>2 DEF doc, d
  <2>3. \A p \in Orders : Raised(p, FALSE) # Raised(o, TRUE)
    <3>1. \A p \in Orders : Raised(p, FALSE).own = FALSE /\ Raised(o, TRUE).own = TRUE
      BY DEF Raised
    <3>2. QED
      BY <3>1
  <2>4. \A p \in Orders : order[p] = None => Raised(p, TRUE) # Raised(o, TRUE)
    <3>1. \A p \in Orders : Raised(p, TRUE).order = p
      BY RaisedIs
    <3>2. QED
      BY <1>2, <3>1
  <2>5. CASE approval'[a] = None \/ approval'[a].status = "Approved" \/ approval'[a] = approval[a]
    BY <1>3, <2>1, <2>5
  <2>6. CASE \E r \in Requests :
               /\ req[r].op = "record" /\ approval[a] # None
               /\ approval'[a] = Recorded(approval[a], req[r].decision)
    BY <2>2, <2>6
  <2>7. CASE \E p \in Orders : \/ approval'[a] = Raised(p, FALSE)
                               \/ approval'[a] = Raised(p, TRUE) /\ order[p] = None
    BY <2>3, <2>4, <2>7
  <2>8. QED
    BY <2>5, <2>6, <2>7, DocStep, Zenon
<1>4. CASE \A a \in ApprovalIds : approval[a] # Raised(o, TRUE)
  BY <1>3, <1>4
<1>5. ASSUME NEW r \in Requests, req[r].op = "settle", req[r].order = o
      PROVE  \A a \in ApprovalIds : approval'[a] # Raised(o, TRUE)
  <2>1. CASE Settle(r)
    <3>1. ASSUME NEW a \in ApprovalIds, approval'[a] = Raised(o, TRUE) PROVE FALSE
      <4>1. approval[a] = Raised(o, TRUE)
        BY <1>3, <3>1
      <4>2. PendingFor(a, o)
        BY <4>1 DEF PendingFor
      <4>3. approval'[a].status = "Approved"
        BY <1>5, <2>1, <4>2, SettledIs DEF Settle
      <4>4. QED
        BY <3>1, <4>3, RaisedIs
    <3>2. QED
      BY <3>1
  <2>2. CASE Abandon(r)
    BY <1>5, <2>2 DEF Abandon
  <2>3. ASSUME ~Settle(r), ~Abandon(r) PROVE req'[r] = req[r]
    <3>1. ASSUME NEW q \in Requests, CreateCommit(q) \/ DecideRecord(q) \/ StatusWrite(q)
                 \/ ((Settle(q) \/ Abandon(q)) /\ q # r)
          PROVE  req'[r] = req[r]
      <4>1. q # r /\ req' = [req EXCEPT ![q] = Idle]
        BY <1>5, <3>1 DEF CreateCommit, DecideRecord, StatusWrite, Settle, Abandon, Done
      <4>2. QED
        BY <1>0, <4>1
    <3>2. ASSUME NEW q \in Requests, DecideAct(q) \/ DecideSkip(q) \/ DecideSubmit(q) \/ DecideReject(q)
          PROVE  req'[r] = req[r]
      <4>1. q # r
        BY <1>5, <3>2 DEF DecideAct, DecideSkip, DecideSubmit, DecideReject
      <4>2. QED
        BY <1>0, <3>2, <4>1 DEF DecideAct, DecideSkip, DecideSubmit, DecideReject, Turn
    <3>3. ASSUME NEW q \in Requests,
                 \/ \E p \in Orders, b \in ApprovalIds : CreateRaise(q, p, b)
                 \/ \E b \in ApprovalIds, d \in Decisions \cup {"Pending"} : DecideFind(q, b, d)
                 \/ \E p \in Orders : ApproveOrder(q, p)
                 \/ \E p \in Orders, to \in Statuses : StatusRead(q, p, to)
          PROVE  req'[r] = req[r]
      <4>1. req[q] = Idle /\ (\A p \in Requests : p # q => req'[p] = req[p])
        BY <1>0, <3>3 DEF CreateRaise, DecideFind, Find, ApproveOrder, StatusRead, Open
      <4>2. q # r
        BY <1>5, <4>1 DEF Idle
      <4>3. QED
        BY <4>1, <4>2
    <3>4. ASSUME \/ \E p \in Orders : CreatePlain(p) \/ AcceptOrder(p) \/ (\E to \in Closed : CloseOrder(p, to))
                 \/ \E b \in ApprovalIds : DeleteApproval(b) \/ (\E p \in Orders : RaiseApproval(b, p))
                 \/ UNCHANGED vars
          PROVE  req'[r] = req[r]
      BY <3>4 DEF CreatePlain, AcceptOrder, CloseOrder, DeleteApproval, RaiseApproval, vars
    <3>5. CASE UNCHANGED vars
      BY <3>4, <3>5
    <3>6. CASE Next
      <4>1. CASE \E q \in Requests : \/ CreateCommit(q) \/ DecideRecord(q) \/ StatusWrite(q)
                                     \/ Settle(q) \/ Abandon(q)
        BY <2>3, <3>1, <4>1
      <4>2. CASE \E q \in Requests : DecideAct(q) \/ DecideSkip(q) \/ DecideSubmit(q) \/ DecideReject(q)
        BY <3>2, <4>2
      <4>3. CASE \E q \in Requests :
                   \/ \E p \in Orders, b \in ApprovalIds : CreateRaise(q, p, b)
                   \/ \E b \in ApprovalIds, d \in Decisions \cup {"Pending"} : DecideFind(q, b, d)
                   \/ \E p \in Orders : ApproveOrder(q, p)
                   \/ \E p \in Orders, to \in Statuses : StatusRead(q, p, to)
        BY <3>3, <4>3
      <4>4. QED
        BY <3>4, <3>6, <4>1, <4>2, <4>3, Zenon DEF Next
    <3>7. QED
      BY <3>5, <3>6
  <2>4. QED
    BY <1>5, <2>1, <2>2, <2>3
<1>6. QED
  BY <1>1, <1>2, <1>4, <1>5 DEF DirectApprovalSettles

\* The first state satisfies the invariant.
LEMMA InitCorrect == Init => ApprovalsInv
<1> SUFFICES ASSUME Init PROVE ApprovalsInv
  OBVIOUS
<1>1. TypeOK
  BY DEF Init, TypeOK, RequestStates
<1>2. OneOrderEach /\ Undecided /\ WaitsOnRequest /\ OrdersExist /\ DirectApprovalSettles
  BY NoneAssumption DEF Init, Idle, OneOrderEach, Undecided, WaitsOnRequest, OrdersExist, DirectApprovalSettles, Statuses
<1>3. CommitsFollow /\ ActsAlone /\ DecidedOnce
  BY DEF Init, Idle, CommitsFollow, ActsAlone, DecidedOnce, Deciding
<1>4. QED
  BY <1>1, <1>2, <1>3 DEF ApprovalsInv

\* Every step keeps the invariant.
LEMMA StepCorrect == ApprovalsInv /\ [Next]_vars => ApprovalsInv'
BY TypeStep, OneOrderStep, UndecidedStep, CommitsStep, WaitsStep, OrdersStay, ActsStep, OnceStep, SettlesStep
   DEF ApprovalsInv

-----------------------------------------------------------------------------
\* Orders, requests for approval and handlers stay well formed.
THEOREM TypeCorrect == Spec => []TypeOK
<1>1. ApprovalsInv => TypeOK
  BY DEF ApprovalsInv
<1>2. QED
  BY InitCorrect, StepCorrect, <1>1, PTL DEF Spec

\* OrdersService.create, updateApproval and approveOrder leave an order that
\* waits for a manager with a pending request that shows it.
THEOREM WaitsForDecision == Spec => []WaitsOnRequest
<1>1. ApprovalsInv => WaitsOnRequest
  BY DEF ApprovalsInv
<1>2. QED
  BY InitCorrect, StepCorrect, <1>1, PTL DEF Spec

\* However many requests for approval name an order, updateApproval changes
\* the order once, as long as no two decisions of it overlap.
THEOREM ActsOnce == Spec => []DecidedOnce
<1>1. ApprovalsInv => DecidedOnce
  BY DEF ApprovalsInv
<1>2. QED
  BY InitCorrect, StepCorrect, <1>1, PTL DEF Spec

\* approveOrder leaves no request of the order's creation open, once what it
\* does after its commit is through.
THEOREM Settles == Spec => []DirectApprovalSettles
<1>1. ApprovalsInv => DirectApprovalSettles
  BY DEF ApprovalsInv
<1>2. QED
  BY InitCorrect, StepCorrect, <1>1, PTL DEF Spec

-----------------------------------------------------------------------------
\* Where an order is in its life, status by status.
LEMMA PhaseIs ==
  ASSUME NEW o \in Orders, order[o] \in Statuses \cup {None}
  PROVE  /\ order[o] = None => phase[o] = "new"
         /\ order[o] \in {"Pending_Approval", "Submitted"} <=> phase[o] = "open"
         /\ order[o] = "Approved" => phase[o] = "accepted"
         /\ order[o] \in Closed => phase[o] = order[o]
BY NoneAssumption DEF phase, Statuses, Closed

LEMMA PhaseIsNext ==
  ASSUME NEW o \in Orders, order'[o] \in Statuses \cup {None}
  PROVE  /\ order'[o] = None => phase'[o] = "new"
         /\ order'[o] \in {"Pending_Approval", "Submitted"} => phase'[o] = "open"
         /\ order'[o] = "Approved" => phase'[o] = "accepted"
         /\ order'[o] \in Closed => phase'[o] = order'[o]
BY NoneAssumption DEF phase, Statuses, Closed

\* A step that writes one order moves one phase.
LEMMA OnePhaseMoves ==
  ASSUME TypeOK, NEW o \in Orders, NEW x, order' = [order EXCEPT ![o] = x]
  PROVE  order'[o] = x /\ phase' = [phase EXCEPT ![o] = phase'[o]]
<1>1. order'[o] = x /\ \A p \in Orders \ {o} : order'[p] = order[p]
  BY DEF TypeOK
<1>2. \A p \in Orders \ {o} : phase'[p] = phase[p]
  BY <1>1 DEF phase
<1>3. phase = [p \in Orders |-> phase[p]] /\ phase' = [p \in Orders |-> phase'[p]]
  BY DEF phase
<1>4. QED
  BY <1>1, <1>2, <1>3

\* An order that is open stays so, is accepted or is closed.
LEMMA OpenGoes ==
  ASSUME TypeOK, NEW o \in Orders, NEW x \in Statuses, order' = [order EXCEPT ![o] = x],
         phase[o] = "open"
  PROVE  Life!Next \/ UNCHANGED phase
<1>1. order'[o] = x /\ phase' = [phase EXCEPT ![o] = phase'[o]]
  BY OnePhaseMoves
<1>2. CASE x \in {"Pending_Approval", "Submitted"}
  <2>1. phase'[o] = phase[o]
    BY <1>1, <1>2, PhaseIsNext
  <2>2. QED
    BY <1>1, <2>1 DEF phase
<1>3. CASE x = "Approved"
  <2>1. phase'[o] = "accepted"
    BY <1>1, <1>3, PhaseIsNext
  <2>2. QED
    BY <1>1, <2>1 DEF Life!Next, Life!Accept, Life!Goes
<1>4. CASE x \in Closed
  <2>1. phase'[o] = x /\ x \in Life!Closings
    BY <1>1, <1>4, PhaseIsNext DEF Closed, Life!Closings
  <2>2. QED
    BY <1>1, <2>1 DEF Life!Next, Life!Close, Life!Goes
<1>5. QED
  BY <1>2, <1>3, <1>4 DEF Statuses, Closed

\* An order enters its life open.
LEMMA NewOpens ==
  ASSUME TypeOK, NEW o \in Orders, NEW x \in {"Pending_Approval", "Submitted"},
         order' = [order EXCEPT ![o] = x], order[o] = None
  PROVE  Life!Next
<1>1. order'[o] = x /\ phase' = [phase EXCEPT ![o] = phase'[o]]
  BY OnePhaseMoves
<1>2. phase[o] = "new" /\ phase'[o] = "open"
  BY <1>1, PhaseIs, PhaseIsNext DEF Statuses
<1>3. QED
  BY <1>1, <1>2 DEF Life!Next, Life!Enter, Life!Goes

\* Every handler of the workflow moves an order on, unless it saves late.
LEMMA LifeStep ==
  ASSUME ApprovalsInv, [Next]_vars
  PROVE  (\E r \in Requests : SavesLate(r)) \/ Life!Next \/ UNCHANGED phase
<1>0. TypeOK /\ CommitsFollow /\ OrdersExist
  BY DEF ApprovalsInv
<1>t. order \in [Orders -> Statuses \cup {None}] /\ req \in [Requests -> RequestStates]
  BY <1>0 DEF TypeOK
<1>u. CASE UNCHANGED order
  BY <1>u DEF phase
<1>1. ASSUME NEW r \in Requests, CreateCommit(r) PROVE Life!Next
  <2>1. req[r].order \in Orders
    BY <1>t, <1>1, KindOfRequest DEF CreateCommit, CommitReq
  <2>2. order[req[r].order] = None /\ order' = [order EXCEPT ![req[r].order] = "Pending_Approval"]
    BY <1>0, <1>1 DEF CreateCommit, CommitsFollow
  <2>3. QED
    BY <1>0, <2>1, <2>2, NewOpens
<1>2. ASSUME NEW r \in Requests, DecideSubmit(r) \/ StatusWrite(r)
      PROVE  SavesLate(r) \/ Life!Next \/ UNCHANGED phase
  <2>1. req[r].order \in Orders
    BY <1>t, <1>2, KindOfRequest DEF DecideSubmit, StatusWrite, DecideReq, StatusReq
  <2>2. PICK x \in Statuses : order' = [order EXCEPT ![req[r].order] = x]
    BY <1>t, <1>2, KindOfRequest DEF DecideSubmit, StatusWrite, StatusReq, Statuses
  <2>3. CASE phase[req[r].order] = "open"
    BY <1>0, <2>1, <2>2, <2>3, OpenGoes
  <2>4. CASE phase[req[r].order] # "open"
    BY <1>2, <2>4 DEF SavesLate
  <2>5. QED
    BY <2>3, <2>4
<1>3. ASSUME NEW r \in Requests, DecideReject(r) PROVE Life!Next \/ UNCHANGED phase
  <2>1. req[r].order \in Orders
    BY <1>t, <1>3, KindOfRequest DEF DecideReject, DecideReq
  <2>2. phase[req[r].order] = "open"
    BY <1>t, <1>3, <2>1, PhaseIs DEF DecideReject, MayReject
  <2>3. order' = [order EXCEPT ![req[r].order] = "Rejected"] /\ "Rejected" \in Statuses
    BY <1>3 DEF DecideReject, Statuses
  <2>4. QED
    BY <1>0, <2>1, <2>2, <2>3, OpenGoes
<1>4. ASSUME NEW o \in Orders, (\E r \in Requests : ApproveOrder(r, o)) \/ AcceptOrder(o)
      PROVE  Life!Next \/ UNCHANGED phase
  <2>1. phase[o] = "open"
    BY <1>t, <1>4, PhaseIs DEF ApproveOrder, AcceptOrder
  <2>2. order' = [order EXCEPT ![o] = "Approved"] /\ "Approved" \in Statuses
    BY <1>4 DEF ApproveOrder, AcceptOrder, Statuses
  <2>3. QED
    BY <1>0, <2>1, <2>2, OpenGoes
<1>5. ASSUME NEW o \in Orders, CreatePlain(o) PROVE Life!Next
  BY <1>0, <1>5, NewOpens DEF CreatePlain
<1>6. ASSUME NEW o \in Orders, NEW to \in Closed, CloseOrder(o, to)
      PROVE  Life!Next \/ UNCHANGED phase
  <2>1. order' = [order EXCEPT ![o] = to] /\ to \in Statuses
    BY <1>6 DEF CloseOrder, Closed, Statuses
  <2>2. CASE phase[o] = "open"
    BY <1>0, <2>1, <2>2, OpenGoes
  <2>3. CASE phase[o] # "open"
    <3>1. order[o] \notin {"Pending_Approval", "Submitted"} \cup Closed \cup {None}
      BY <1>t, <1>6, <2>3, PhaseIs DEF CloseOrder, MayReject
    <3>2. phase[o] = "accepted"
      BY <1>t, <3>1, PhaseIs DEF Statuses, Closed
    <3>3. phase'[o] = to /\ phase' = [phase EXCEPT ![o] = to]
      BY <1>0, <2>1, OnePhaseMoves, PhaseIsNext
    <3>4. to \in Life!Closings
      BY DEF Closed, Life!Closings
    <3>5. QED
      BY <3>2, <3>3, <3>4 DEF Life!Next, Life!Close, Life!Goes
  <2>4. QED
    BY <2>2, <2>3
<1>7. ASSUME NEW q \in Requests,
             \/ DecideAct(q) \/ DecideSkip(q) \/ DecideRecord(q) \/ Settle(q) \/ Abandon(q)
             \/ \E p \in Orders, b \in ApprovalIds : CreateRaise(q, p, b)
             \/ \E b \in ApprovalIds, d \in Decisions \cup {"Pending"} : DecideFind(q, b, d)
             \/ \E p \in Orders, to \in Statuses : StatusRead(q, p, to)
      PROVE  UNCHANGED order
  BY <1>7 DEF DecideAct, DecideSkip, DecideRecord, Settle, Abandon, CreateRaise, DecideFind, StatusRead
<1>8. ASSUME NEW b \in ApprovalIds, DeleteApproval(b) \/ (\E p \in Orders : RaiseApproval(b, p))
      PROVE  UNCHANGED order
  BY <1>8 DEF DeleteApproval, RaiseApproval
<1>9. CASE UNCHANGED vars
  BY <1>u, <1>9 DEF vars
<1>10. CASE Next
  <2>1. CASE \E q \in Requests :
           \/ CreateCommit(q) \/ DecideAct(q) \/ DecideSkip(q) \/ DecideSubmit(q)
           \/ DecideReject(q) \/ DecideRecord(q) \/ Settle(q) \/ StatusWrite(q) \/ Abandon(q)
    BY <1>u, <1>1, <1>2, <1>3, <1>7, <2>1
  <2>2. CASE \E q \in Requests :
           \/ \E o \in Orders, a \in ApprovalIds : CreateRaise(q, o, a)
           \/ \E a \in ApprovalIds, d \in Decisions \cup {"Pending"} : DecideFind(q, a, d)
           \/ \E o \in Orders : ApproveOrder(q, o)
           \/ \E o \in Orders, to \in Statuses : StatusRead(q, o, to)
    BY <1>u, <1>4, <1>7, <2>2
  <2>3. CASE \E o \in Orders :
           CreatePlain(o) \/ AcceptOrder(o) \/ \E to \in Closed : CloseOrder(o, to)
    BY <1>4, <1>5, <1>6, <2>3
  <2>4. CASE \E a \in ApprovalIds : DeleteApproval(a) \/ \E o \in Orders : RaiseApproval(a, o)
    BY <1>u, <1>8, <2>4
  <2>5. QED
    BY <1>10, <2>1, <2>2, <2>3, <2>4 DEF Next
<1>11. QED
  BY <1>9, <1>10

\* The workflow's handlers keep to OrderLife: only the two saves outside a
\* transaction, over an order that has left, step out of it.
THEOREM KeptToLife == Spec => KeepsToLife
<1>1. ApprovalsInv /\ [Next]_vars => [(\E r \in Requests : SavesLate(r)) \/ Life!Next]_phase
  BY LifeStep
<1>2. QED
  BY <1>1, InitCorrect, StepCorrect, PTL DEF Spec, KeepsToLife

=============================================================================

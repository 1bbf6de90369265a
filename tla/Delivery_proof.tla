--------------------------- MODULE Delivery_proof ---------------------------
(***************************************************************************)
(* Type correctness of Delivery; that deliveries follow shipments, orders  *)
(* are confirmed once, order, delivery and return agree, goods are back    *)
(* when a return says so, returns move only forward, and the order keeps   *)
(* to OrderLife: for every set of orders, documents and requests.          *)
(***************************************************************************)
EXTENDS Delivery, TLAPS

USE DEF documents

\* What is one transaction on an order alone.
Moves(o) == Approve(o) \/ RejectOrder(o) \/ CancelOrder(o) \/ DirectDispatch(o)

\* What a request is follows from its op.
LEMMA KindOfRequest ==
  ASSUME NEW q \in RequestStates
  PROVE  /\ q.op = "dispatch" => q \in DispatchReq
         /\ q.op = "confirm" => q \in ConfirmReq
         /\ q.op = "status" => q \in StatusReq
         /\ q.op = "return" => q \in ReturnReq
         /\ q.op \in {"edit", "remove"} => q \in ChangeReq
BY DEF RequestStates, Idle, DispatchReq, ConfirmReq, StatusReq, ReturnReq, ChangeReq

\* A request that ends leaves the others as they are.
LEMMA DoneKeeps ==
  ASSUME TypeOK, NEW r \in Requests, Done(r)
  PROVE  /\ req' \in [Requests -> RequestStates]
         /\ \A s \in Requests : req'[s] = req[s] \/ req'[s].op = "idle"
BY DEF Done, TypeOK, RequestStates, Idle

\* So does one that begins.
LEMMA OpenKeeps ==
  ASSUME TypeOK, NEW r \in Requests, NEW q \in RequestStates, Open(r, q)
  PROVE  /\ req' \in [Requests -> RequestStates]
         /\ req'[r] = q
         /\ \A s \in Requests : req'[s] = req[s] \/ s = r
BY DEF Open, TypeOK

\* Confirming writes one record and its order, and opens at most one return.
LEMMA ConfirmWrites ==
  ASSUME TypeOK, RequestsExist, NEW r \in Requests, Confirm(r),
         Confirmable(rec[req[r].rec].order, req[r].rec)
  PROVE  \E d \in Records, to \in Finished :
           /\ rec[d] \in DispatchRecords /\ rec[d].order \in Orders
           /\ order[rec[d].order] = "Dispatched"
           /\ rec' = [rec EXCEPT ![d].status = to]
           /\ order' = [order EXCEPT ![rec[d].order] = to]
           /\ \/ to = "Delivered" /\ UNCHANGED ret
              \/ to = "Partial_Delivery" /\ \E t \in Returns, items \in [Products -> Nat] :
                    /\ ret[t] = None
                    /\ ret' = [ret EXCEPT ![t] =
                          [opened |-> rec[d].order, status |-> "Submitted",
                           items |-> items, priced |-> FALSE]]
<1> DEFINE d == req[r].rec
<1> DEFINE o == rec[d].order
<1>1. d \in Records /\ rec[d] # None
  BY KindOfRequest DEF Confirm, ConfirmReq, TypeOK, RequestsExist
<1>2. rec[d] \in DispatchRecords /\ o \in Orders
  BY <1>1 DEF TypeOK, DispatchRecords
<1>3. PICK delivered, damaged \in [Products -> 0..MaxCount], to \in Finished :
         /\ rec' = [rec EXCEPT ![d].status = to]
         /\ order' = [order EXCEPT ![o] = to]
         /\ \/ to = "Delivered" /\ UNCHANGED ret
            \/ to = "Partial_Delivery" /\ AutoReturn(o, Back(o, delivered, damaged))
  BY DEF Confirm, Finished
<1>4. Back(o, delivered, damaged) \in [Products -> Nat]
  <2>1. ASSUME NEW p \in Products
        PROVE  Positive(Quantity[o][p] - delivered[p] - damaged[p]) + damaged[p] \in Nat
    <3>1. Quantity[o][p] \in Nat /\ delivered[p] \in Nat /\ damaged[p] \in Nat
      BY <1>2, DeliveryAssumption
    <3>2. \A n \in Int : Positive(n) \in Nat
      BY DEF Positive
    <3>3. Quantity[o][p] - delivered[p] - damaged[p] \in Int
      BY <3>1
    <3>4. QED
      BY <3>1, <3>2, <3>3
  <2>2. QED
    BY <2>1 DEF Back
<1>5. QED
  BY <1>1, <1>2, <1>3, <1>4 DEF AutoReturn, Confirmable

\* The return a confirmation opens belongs to its order and to no other.
LEMMA ReturnOpened ==
  ASSUME TypeOK, NEW o \in Orders, NEW t \in Returns, NEW items \in [Products -> Nat],
         ret[t] = None,
         ret' = [ret EXCEPT ![t] = [opened |-> o, status |-> "Submitted",
                                    items |-> items, priced |-> FALSE]]
  PROVE  /\ OpenedFor(o)' = OpenedFor(o) \cup {t}
         /\ \A p \in Orders \ {o} : OpenedFor(p)' = OpenedFor(p)
<1> DEFINE x == [opened |-> o, status |-> "Submitted", items |-> items, priced |-> FALSE]
<1>1. x \in ReturnOrders /\ x.opened = o
  BY DEF ReturnOrders, ReturnStatuses
<1>2. ret' = [ret EXCEPT ![t] = x]
  OBVIOUS
<1> HIDE DEF x
<1>3. ret'[t] = x /\ x # None /\ \A u \in Returns : u # t => ret'[u] = ret[u]
  BY <1>1, <1>2, NoneAssumption DEF TypeOK
<1>4. ASSUME NEW p \in Orders, NEW u \in Returns
      PROVE  u \in OpenedFor(p)' <=> u \in OpenedFor(p) \/ (p = o /\ u = t)
  BY <1>1, <1>3 DEF OpenedFor
<1>5. ASSUME NEW p \in Orders
      PROVE  OpenedFor(p) \subseteq Returns /\ OpenedFor(p)' \subseteq Returns
  BY DEF OpenedFor
<1>6. QED
  BY <1>4, <1>5

-----------------------------------------------------------------------------
\* In every reachable state the variables have their types and each request
\* acts on documents that exist.
THEOREM TypeCorrect == Spec => [](TypeOK /\ RequestsExist)
<1>1. Init => TypeOK /\ RequestsExist
  <2> SUFFICES ASSUME Init PROVE TypeOK /\ RequestsExist
    OBVIOUS
  <2>1. TypeOK
    <3>1. order \in [Orders -> Statuses] /\ req \in [Requests -> RequestStates]
      BY DEF Init, Statuses, RequestStates
    <3>2. rec \in [Records -> DispatchRecords \cup {None}]
      BY DEF Init
    <3>3. ret \in [Returns -> ReturnOrders \cup {None}]
      BY DEF Init
    <3>4. restocked \in [Returns -> [Products -> Nat]] /\ stale \in BOOLEAN
      BY DEF Init
    <3>5. faults \in 0..MaxFaults /\ takenBack \in SUBSET Orders
      BY DeliveryAssumption DEF Init
    <3>6. QED
      BY <3>1, <3>2, <3>3, <3>4, <3>5 DEF TypeOK
  <2>2. \A r \in Requests : req[r].op = "idle"
    BY DEF Init, Idle
  <2>3. QED
    BY <2>1, <2>2 DEF RequestsExist
<1>2. TypeOK /\ RequestsExist /\ [Next]_vars => TypeOK' /\ RequestsExist'
  <2> SUFFICES ASSUME TypeOK, RequestsExist, [Next]_vars PROVE TypeOK' /\ RequestsExist'
    OBVIOUS
  <2>a. ASSUME UNCHANGED <<rec, ret>>, UNCHANGED req PROVE RequestsExist'
    BY <2>a DEF RequestsExist
  <2>b. ASSUME NEW r \in Requests, Done(r),
               \A d \in Records : rec[d] # None => rec'[d] # None,
               \A t \in Returns : ret[t] # None => ret'[t] # None
        PROVE  RequestsExist'
    <3> SUFFICES ASSUME NEW s \in Requests
                 PROVE /\ req'[s].op = "confirm" => rec'[req'[s].rec] # None
                       /\ req'[s].op \in {"return", "edit", "remove"} => ret'[req'[s].ret] # None
      BY DEF RequestsExist
    <3>1. CASE req'[s].op = "idle"
      BY <3>1
    <3>2. CASE req'[s] = req[s]
      <4>1. req[s] \in RequestStates
        BY DEF TypeOK
      <4>2. req[s].op = "confirm" => req[s].rec \in Records
        BY <4>1, KindOfRequest DEF ConfirmReq
      <4>3. req[s].op \in {"return", "edit", "remove"} => req[s].ret \in Returns
        BY <4>1, KindOfRequest DEF ReturnReq, ChangeReq
      <4>4. QED
        BY <2>b, <3>2, <4>2, <4>3 DEF RequestsExist
    <3>3. QED
      BY <2>b, <3>1, <3>2, DoneKeeps
  <2>1. ASSUME NEW r \in Requests, NEW o \in Orders, DispatchFind(r, o)
        PROVE  TypeOK' /\ RequestsExist'
    <3>1. [op |-> "dispatch", order |-> o, was |-> order[o], phase |-> "look"] \in RequestStates
      BY DEF RequestStates, DispatchReq, TypeOK
    <3>2. QED
      BY <2>1, <3>1, OpenKeeps DEF DispatchFind, TypeOK, RequestsExist
  <2>2. ASSUME NEW r \in Requests, DispatchLook(r) PROVE TypeOK' /\ RequestsExist'
    <3>1. req[r] \in DispatchReq
      BY <2>2, KindOfRequest DEF DispatchLook, TypeOK
    <3>2. CASE Done(r)
      BY <2>2, <2>b, <3>2, DoneKeeps DEF DispatchLook, TypeOK
    <3>3. CASE \E ph \in {"save", "deduct"} : req' = [req EXCEPT ![r].phase = ph]
      BY <2>2, <3>1, <3>3 DEF DispatchLook, TypeOK, RequestsExist, RequestStates, DispatchReq
    <3>4. QED
      BY <2>2, <3>2, <3>3 DEF DispatchLook
  <2>3. ASSUME NEW r \in Requests, DispatchDeduct(r) PROVE TypeOK' /\ RequestsExist'
    <3>1. req[r] \in DispatchReq
      BY <2>3, KindOfRequest DEF DispatchDeduct, TypeOK
    <3>2. CASE Done(r) /\ UNCHANGED order
      BY <2>3, <2>b, <3>2, DoneKeeps DEF DispatchDeduct, TypeOK
    <3>3. CASE /\ order' = [order EXCEPT ![req[r].order] = "Dispatched"]
               /\ req' = [req EXCEPT ![r].phase = "save"]
      BY <2>3, <3>1, <3>3
         DEF DispatchDeduct, TypeOK, RequestsExist, RequestStates, DispatchReq, Statuses, Shipped
    <3>4. QED
      BY <2>3, <3>2, <3>3 DEF DispatchDeduct
  <2>4. ASSUME NEW r \in Requests, DispatchSave(r) PROVE TypeOK' /\ RequestsExist'
    <3>1. req[r].order \in Orders
      <4>1. req[r] \in DispatchReq
        BY <2>4, KindOfRequest DEF DispatchSave, TypeOK
      <4>2. QED
        BY <4>1 DEF DispatchReq
    <3>2. PICK d \in Records :
             rec' = [rec EXCEPT ![d] = [order |-> req[r].order, status |-> "In Transit"]]
      BY <2>4 DEF DispatchSave
    <3>3. [order |-> req[r].order, status |-> "In Transit"] \in DispatchRecords
      BY <3>1 DEF DispatchRecords
    <3>4. TypeOK'
      BY <2>4, <3>2, <3>3, DoneKeeps DEF DispatchSave, TypeOK
    <3>5. \A e \in Records : rec[e] # None => rec'[e] # None
      BY <3>2, <3>3, NoneAssumption DEF TypeOK
    <3>6. QED
      BY <2>4, <2>b, <3>4, <3>5 DEF DispatchSave
  <2>5. ASSUME NEW r \in Requests, NEW d \in Records, ConfirmRead(r, d)
        PROVE  TypeOK' /\ RequestsExist'
    <3>1. PICK q \in ConfirmReq :
             q.rec = d /\ Open(r, q) /\ UNCHANGED <<documents, stale, takenBack, faults>>
      BY <2>5 DEF ConfirmRead, ConfirmReq
    <3>2. q \in RequestStates /\ q.op = "confirm"
      BY <3>1 DEF RequestStates, ConfirmReq
    <3>3. TypeOK'
      BY <3>1, <3>2, OpenKeeps DEF TypeOK
    <3>4. \A s \in Requests : req'[s] = req[s] \/ req'[s] = q
      BY <3>1, <3>2, OpenKeeps
    <3>5. rec[d] # None
      BY <2>5 DEF ConfirmRead
    <3>6. QED
      BY <3>1, <3>2, <3>3, <3>4, <3>5 DEF RequestsExist
  <2>6. ASSUME NEW r \in Requests, Confirm(r) PROVE TypeOK' /\ RequestsExist'
    <3>1. Done(r) /\ UNCHANGED <<restocked, stale, takenBack, faults>>
      BY <2>6 DEF Confirm
    <3>2. CASE Confirmable(rec[req[r].rec].order, req[r].rec)
      <4>1. PICK d \in Records, to \in Finished :
               /\ rec[d] \in DispatchRecords /\ rec[d].order \in Orders
               /\ rec' = [rec EXCEPT ![d].status = to]
               /\ order' = [order EXCEPT ![rec[d].order] = to]
               /\ \/ UNCHANGED ret
                  \/ \E t \in Returns, items \in [Products -> Nat] :
                        ret' = [ret EXCEPT ![t] =
                          [opened |-> rec[d].order, status |-> "Submitted",
                           items |-> items, priced |-> FALSE]]
        BY <2>6, <3>2, ConfirmWrites
      <4>2. [rec[d] EXCEPT !.status = to] \in DispatchRecords
        BY <4>1 DEF DispatchRecords
      <4>3. /\ rec' \in [Records -> DispatchRecords \cup {None}]
            /\ \A e \in Records : rec[e] # None => rec'[e] # None
        BY <4>1, <4>2, NoneAssumption DEF TypeOK
      <4>4. order' \in [Orders -> Statuses]
        BY <4>1 DEF TypeOK, Statuses, Shipped
      <4>5. /\ ret' \in [Returns -> ReturnOrders \cup {None}]
            /\ \A t \in Returns : ret[t] # None => ret'[t] # None
        <5>1. CASE UNCHANGED ret
          BY <5>1 DEF TypeOK
        <5>2. CASE \E t \in Returns, items \in [Products -> Nat] :
                      ret' = [ret EXCEPT ![t] =
                        [opened |-> rec[d].order, status |-> "Submitted",
                         items |-> items, priced |-> FALSE]]
          <6>1. PICK t \in Returns, x \in ReturnOrders : ret' = [ret EXCEPT ![t] = x]
            BY <4>1, <5>2 DEF ReturnOrders, ReturnStatuses
          <6>2. QED
            BY <6>1, NoneAssumption DEF TypeOK
        <5>3. QED
          BY <4>1, <5>1, <5>2
      <4>6. QED
        BY <3>1, <4>3, <4>4, <4>5, <2>b, DoneKeeps DEF TypeOK
    <3>3. CASE UNCHANGED <<order, rec, ret>>
      BY <3>1, <3>3, <2>b, DoneKeeps DEF TypeOK
    <3>4. QED
      BY <2>6, <3>2, <3>3 DEF Confirm
  <2>7. ASSUME NEW o \in Orders, Moves(o)
        PROVE  TypeOK' /\ RequestsExist'
    BY <2>7, <2>a DEF Moves, Approve, RejectOrder, CancelOrder, DirectDispatch, TypeOK, Statuses, Shipped
  <2>8. ASSUME NEW r \in Requests, NEW o \in Orders, NEW to \in Saved, StatusRead(r, o, to)
        PROVE  TypeOK' /\ RequestsExist'
    <3>1. [op |-> "status", order |-> o, was |-> order[o], to |-> to] \in RequestStates
      BY DEF RequestStates, StatusReq, TypeOK
    <3>2. QED
      BY <2>8, <3>1, OpenKeeps DEF StatusRead, TypeOK, RequestsExist
  <2>9. ASSUME NEW r \in Requests, StatusWrite(r) PROVE TypeOK' /\ RequestsExist'
    <3>1. req[r] \in StatusReq
      BY <2>9, KindOfRequest DEF StatusWrite, TypeOK
    <3>2. TypeOK'
      BY <2>9, <3>1, DoneKeeps DEF StatusWrite, Save, StatusReq, Saved, TypeOK, Statuses, Shipped
    <3>3. QED
      BY <2>9, <2>b, <3>2 DEF StatusWrite
  <2>10. ASSUME NEW t \in Returns, CreateReturn(t)
         PROVE  TypeOK' /\ RequestsExist'
    <3>1. PICK s \in {"Draft", "Submitted"}, items \in Contents, priced \in BOOLEAN :
             ret' = [ret EXCEPT ![t] = [opened |-> None, status |-> s,
                                        items |-> items, priced |-> priced]]
      BY <2>10 DEF CreateReturn
    <3>2. [opened |-> None, status |-> s, items |-> items, priced |-> priced]
             \in ReturnOrders
      BY DeliveryAssumption DEF ReturnOrders, ReturnStatuses
    <3>3. /\ TypeOK'
          /\ \A u \in Returns : ret[u] # None => ret'[u] # None
      BY <2>10, <3>1, <3>2, NoneAssumption DEF CreateReturn, TypeOK
    <3>4. QED
      BY <2>10, <3>3 DEF CreateReturn, RequestsExist, TypeOK, RequestStates, ReturnReq, ChangeReq
  <2>11. ASSUME NEW r \in Requests, NEW t \in Returns, NEW to \in ReturnStatuses,
                ReturnRead(r, t, to)
         PROVE  TypeOK' /\ RequestsExist'
    <3> DEFINE left == IF to = "Inspected" THEN {p \in Products : ret[t].items[p] > 0} ELSE {}
    <3> DEFINE q == [op |-> "return", ret |-> t, was |-> ret[t].status, to |-> to,
                     items |-> ret[t].items, left |-> left]
    <3>1. ret[t] \in ReturnOrders /\ ret[t] # None
      BY <2>11 DEF ReturnRead, TypeOK
    <3>2. q \in ReturnReq
      BY <3>1 DEF ReturnReq, ReturnOrders
    <3>3. Open(r, q) /\ UNCHANGED <<documents, stale, takenBack, faults>>
      BY <2>11 DEF ReturnRead
    <3>4. q \in RequestStates /\ q.op = "return" /\ q.ret = t
      BY <3>2 DEF RequestStates
    <3> HIDE DEF q
    <3>5. QED
      BY <3>1, <3>3, <3>4, OpenKeeps DEF TypeOK, RequestsExist
  <2>12. ASSUME NEW r \in Requests, NEW p \in Products, Restock(r, p)
         PROVE  TypeOK' /\ RequestsExist'
    <3>1. req[r] \in ReturnReq
      BY <2>12, KindOfRequest DEF Restock, TypeOK
    <3>2. [req[r] EXCEPT !.left = @ \ {p}] \in ReturnReq
      BY <3>1 DEF ReturnReq
    <3>3. restocked' \in [Returns -> [Products -> Nat]]
      <4>1. req[r].items[p] \in Nat /\ req[r].ret \in Returns
        BY <3>1 DEF ReturnReq
      <4>2. QED
        BY <2>12, <4>1 DEF Restock, TypeOK
    <3>4. TypeOK'
      BY <2>12, <3>2, <3>3 DEF Restock, TypeOK, RequestStates
    <3>5. QED
      BY <2>12, <3>1, <3>4 DEF Restock, RequestsExist, TypeOK, ReturnReq
  <2>13. ASSUME NEW r \in Requests, ReturnSave(r) PROVE TypeOK' /\ RequestsExist'
    <3> DEFINE t == req[r].ret
    <3>1. t \in Returns /\ ret[t] # None /\ req[r].to \in ReturnStatuses
          /\ req[r].was \in ReturnStatuses
      BY <2>13, KindOfRequest DEF ReturnSave, ReturnReq, TypeOK, RequestsExist
    <3>2. ret[t] \in ReturnOrders
      BY <3>1 DEF TypeOK
    <3>3. PICK s \in ReturnStatuses : ret' = [ret EXCEPT ![t].status = s]
      BY <2>13, <3>1, <3>2 DEF ReturnSave, ReturnOrders, ReturnStatuses
    <3>4. [ret[t] EXCEPT !.status = s] \in ReturnOrders
      BY <3>2 DEF ReturnOrders
    <3>5. /\ ret' \in [Returns -> ReturnOrders \cup {None}]
          /\ \A u \in Returns : ret[u] # None => ret'[u] # None
      BY <3>1, <3>3, <3>4, NoneAssumption DEF TypeOK
    <3>6. TypeOK'
      BY <2>13, <3>5, DoneKeeps DEF ReturnSave, Save, TypeOK
    <3>7. QED
      BY <2>13, <2>b, <3>5, <3>6 DEF ReturnSave
  <2>14. ASSUME NEW r \in Requests, NEW t \in Returns, EditRead(r, t) \/ RemoveRead(r, t)
         PROVE  TypeOK' /\ RequestsExist'
    <3>1. ret[t] \in ReturnOrders /\ ret[t] # None
      BY <2>14 DEF EditRead, RemoveRead, TypeOK
    <3>2. PICK q \in ChangeReq :
             q.ret = t /\ Open(r, q) /\ UNCHANGED <<documents, stale, takenBack, faults>>
      BY <2>14, <3>1 DEF EditRead, RemoveRead, ChangeReq, ReturnOrders
    <3>3. q \in RequestStates /\ q.op \in {"edit", "remove"}
      BY <3>2 DEF RequestStates, ChangeReq
    <3>4. QED
      BY <3>1, <3>2, <3>3, OpenKeeps DEF TypeOK, RequestsExist
  <2>15. ASSUME NEW r \in Requests, EditWrite(r) \/ RemoveWrite(r)
         PROVE  TypeOK' /\ RequestsExist'
    <3> DEFINE t == req[r].ret
    <3>1. t \in Returns /\ ret[t] # None /\ req[r].was \in ReturnStatuses
      BY <2>15, KindOfRequest DEF EditWrite, RemoveWrite, ChangeReq, TypeOK, RequestsExist
    <3>2. ret[t] \in ReturnOrders
      BY <3>1 DEF TypeOK
    <3>3. PICK x \in ReturnOrders : ret' = [ret EXCEPT ![t] = x]
      <4>1. CASE EditWrite(r)
        <5>1. PICK items \in Contents, priced \in BOOLEAN :
                 ret' = [ret EXCEPT ![t].items = items, ![t].priced = priced]
          BY <4>1 DEF EditWrite
        <5>2. [ret[t] EXCEPT !.items = items, !.priced = priced] \in ReturnOrders
          BY <3>2, DeliveryAssumption DEF ReturnOrders
        <5>3. QED
          BY <3>1, <5>1, <5>2 DEF TypeOK
      <4>2. CASE RemoveWrite(r)
        <5>1. [ret[t] EXCEPT !.status = "Deleted"] \in ReturnOrders
          BY <3>2 DEF ReturnOrders, ReturnStatuses
        <5>2. QED
          BY <3>1, <4>2, <5>1 DEF RemoveWrite, TypeOK
      <4>3. QED
        BY <2>15, <4>1, <4>2
    <3>4. /\ TypeOK'
          /\ \A u \in Returns : ret[u] # None => ret'[u] # None
      BY <2>15, <3>1, <3>3, NoneAssumption, DoneKeeps DEF EditWrite, RemoveWrite, Save, TypeOK
    <3>5. QED
      BY <2>15, <2>b, <3>4 DEF EditWrite, RemoveWrite
  <2>16. ASSUME NEW r \in Requests, Interrupt(r) PROVE TypeOK' /\ RequestsExist'
    BY <2>16, <2>b, DoneKeeps, DeliveryAssumption DEF Interrupt, TypeOK
  <2>17. CASE UNCHANGED vars
    BY <2>17, <2>a DEF vars, TypeOK
  <2>18. QED
    BY <2>1, <2>2, <2>3, <2>4, <2>5, <2>6, <2>7, <2>8, <2>9, <2>10, <2>11, <2>12,
       <2>13, <2>14, <2>15, <2>16, <2>17 DEF Next, Handle, Moves
<1>3. QED
  BY <1>1, <1>2, PTL DEF Spec

-----------------------------------------------------------------------------
\* What is shipped stays shipped and what is finished stays finished, unless a
\* late save takes it back.
LEMMA OrdersGoForward ==
  ASSUME TypeOK, RequestsExist, [Next]_vars
  PROVE  /\ takenBack \subseteq takenBack'
         /\ \A o \in Orders :
               /\ order[o] \in Shipped => order'[o] \in Shipped \/ o \in takenBack'
               /\ order[o] \in Finished => order'[o] \in Finished \/ o \in takenBack'
<1> USE DEF Finished, Shipped
<1>1. ASSUME NEW r \in Requests, DispatchDeduct(r)
      PROVE  \A o \in Orders : order'[o] = order[o] \/ (order[o] = "Approved" /\ order'[o] = "Dispatched")
  BY <1>1 DEF DispatchDeduct, TypeOK
<1>2. ASSUME NEW r \in Requests, Confirm(r)
      PROVE  \A o \in Orders : order'[o] = order[o] \/ order'[o] \in Finished
  <2>1. CASE Confirmable(rec[req[r].rec].order, req[r].rec)
    <3>1. PICK d \in Records, to \in Finished : order' = [order EXCEPT ![rec[d].order] = to]
      BY <1>2, <2>1, ConfirmWrites
    <3>2. QED
      BY <3>1 DEF TypeOK
  <2>2. CASE UNCHANGED <<order, rec, ret>>
    BY <2>2
  <2>3. QED
    BY <1>2, <2>1, <2>2 DEF Confirm
<1>3. ASSUME NEW r \in Requests, StatusWrite(r)
      PROVE  /\ takenBack \subseteq takenBack'
             /\ \A o \in Orders : \/ order'[o] = order[o] \/ order'[o] \in Finished
                                  \/ order[o] \notin Shipped \/ o \in takenBack'
  <2> DEFINE o == req[r].order
  <2>1. req[r] \in StatusReq
    BY <1>3, KindOfRequest DEF StatusWrite, TypeOK
  <2>2. o \in Orders /\ req[r].to \in Saved
    BY <2>1 DEF StatusReq
  <2>3. /\ order'[o] = req[r].to
        /\ \A p \in Orders : p # o => order'[p] = order[p]
    BY <1>3, <2>2 DEF StatusWrite, TypeOK
  <2>4. takenBack' = IF order[o] \in Shipped /\ req[r].to \notin Shipped
                       THEN takenBack \cup {o} ELSE takenBack
    BY <1>3 DEF StatusWrite
  <2>5. req[r].to \in Shipped => req[r].to \in Finished
    BY <2>2 DEF Saved
  <2>6. QED
    BY <2>3, <2>4, <2>5
<1>4. ASSUME NEW p \in Orders, Moves(p)
      PROVE  \A o \in Orders : order'[o] = order[o] \/ order[o] \in {"Unapproved", "Approved"}
  BY <1>4 DEF Moves, Approve, RejectOrder, CancelOrder, DirectDispatch, TypeOK
<1>5. ASSUME UNCHANGED order PROVE \A o \in Orders : order'[o] = order[o]
  BY <1>5
<1>6. UNCHANGED takenBack \/ \E r \in Requests : StatusWrite(r)
  <2>1. ASSUME NEW r \in Requests, Handle(r) PROVE UNCHANGED takenBack \/ StatusWrite(r)
    <3>1. CASE Confirm(r)
      BY <3>1 DEF Confirm
    <3>2. CASE ~Confirm(r)
      BY <2>1, <3>2 DEF Handle, DispatchFind, DispatchLook, DispatchDeduct, DispatchSave, ConfirmRead,
         StatusRead, ReturnRead, Restock, ReturnSave, EditRead, EditWrite, RemoveRead, RemoveWrite,
         Interrupt
    <3>3. QED
      BY <3>1, <3>2
  <2>2. QED
    BY <2>1 DEF Next, vars, Approve, RejectOrder, CancelOrder, DirectDispatch, CreateReturn
<1>7. QED
  <2>1. \/ UNCHANGED order
        \/ \E r \in Requests : DispatchDeduct(r) \/ Confirm(r) \/ StatusWrite(r)
        \/ \E o \in Orders : Moves(o)
    BY DEF Next, Handle, vars, Moves, DispatchFind, DispatchLook, DispatchSave, ConfirmRead, StatusRead,
           CreateReturn, ReturnRead, Restock, ReturnSave, EditRead, EditWrite, RemoveRead,
           RemoveWrite, Interrupt
  <2>2. takenBack \subseteq takenBack'
    BY <1>3, <1>6
  <2>3. QED
    BY <2>1, <2>2, <1>1, <1>2, <1>3, <1>4, <1>5

\* A step that leaves the records and the origin of every return as they are.
Quiet ==
    /\ UNCHANGED rec
    /\ \A o \in Orders : OpenedFor(o)' = OpenedFor(o)

\* A save or an edit of a return, and its removal, replace one document.
LEMMA ReturnWritten ==
  ASSUME TypeOK, RequestsExist, NEW r \in Requests,
         ReturnSave(r) \/ EditWrite(r) \/ RemoveWrite(r)
  PROVE  /\ req[r].ret \in Returns /\ ret[req[r].ret] \in ReturnOrders
         /\ \E x \in ReturnOrders :
               /\ ret' = [ret EXCEPT ![req[r].ret] = x]
               /\ x.opened = ret[req[r].ret].opened
               /\ EditWrite(r) => x.status = ret[req[r].ret].status
               /\ ReturnSave(r) =>
                     /\ x.items = ret[req[r].ret].items
                     /\ ret[req[r].ret].status # "Deleted" => x.status = req[r].to
               /\ RemoveWrite(r) => x.status = "Deleted"
<1> DEFINE t == req[r].ret
<1>1. req[r] \in ReturnReq \cup ChangeReq /\ ret[t] # None
  <2>1. req[r].op \in {"return", "edit", "remove"}
    BY DEF ReturnSave, EditWrite, RemoveWrite
  <2>2. QED
    BY <2>1, KindOfRequest DEF TypeOK, RequestsExist
<1>2. t \in Returns
  BY <1>1 DEF ReturnReq, ChangeReq
<1>3. ret[t] \in ReturnOrders
  BY <1>1, <1>2 DEF TypeOK
<1>4. CASE ReturnSave(r)
  <2>1. ~EditWrite(r) /\ ~RemoveWrite(r)
    BY <1>4 DEF ReturnSave, EditWrite, RemoveWrite
  <2>2. PICK z \in ReturnStatuses : /\ ret' = [ret EXCEPT ![t].status = z]
                                    /\ ret[t].status # "Deleted" => z = req[r].to
    <3>1. req[r].to \in ReturnStatuses
      BY <1>4, KindOfRequest DEF ReturnSave, ReturnReq, TypeOK
    <3>2. QED
      BY <1>2, <1>3, <1>4, <3>1 DEF ReturnSave, ReturnOrders, ReturnStatuses
  <2>3. [ret[t] EXCEPT !.status = z] \in ReturnOrders
    BY <1>3, <2>2 DEF ReturnOrders
  <2>4. QED
    BY <1>2, <1>3, <2>1, <2>2, <2>3 DEF TypeOK, ReturnOrders
<1>5. CASE EditWrite(r)
  <2>1. ~ReturnSave(r) /\ ~RemoveWrite(r)
    BY <1>5 DEF ReturnSave, EditWrite, RemoveWrite
  <2>2. PICK items \in Contents, priced \in BOOLEAN :
           ret' = [ret EXCEPT ![t].items = items, ![t].priced = priced]
    BY <1>5 DEF EditWrite
  <2>3. [ret[t] EXCEPT !.items = items, !.priced = priced] \in ReturnOrders
    BY <1>3, DeliveryAssumption DEF ReturnOrders
  <2>4. QED
    BY <1>2, <1>3, <2>1, <2>2, <2>3 DEF TypeOK, ReturnOrders
<1>6. CASE RemoveWrite(r)
  <2>1. ~ReturnSave(r) /\ ~EditWrite(r)
    BY <1>6 DEF ReturnSave, EditWrite, RemoveWrite
  <2>2. [ret[t] EXCEPT !.status = "Deleted"] \in ReturnOrders
    BY <1>3 DEF ReturnOrders, ReturnStatuses
  <2>3. QED
    BY <1>2, <1>3, <1>6, <2>1, <2>2 DEF RemoveWrite, TypeOK, ReturnOrders
<1>7. QED
  BY <1>4, <1>5, <1>6

\* Only creating a record and confirming one are not quiet.
LEMMA QuietSteps ==
  ASSUME TypeOK, RequestsExist, [Next]_vars
  PROVE  \/ Quiet
         \/ \E r \in Requests : DispatchSave(r)
         \/ \E r \in Requests : Confirm(r) /\ Confirmable(rec[req[r].rec].order, req[r].rec)
<1>1. ASSUME UNCHANGED <<rec, ret>> PROVE Quiet
  BY <1>1 DEF Quiet, OpenedFor
<1>2. ASSUME NEW t \in Returns, CreateReturn(t) PROVE Quiet
  <2>1. PICK s \in {"Draft", "Submitted"}, items \in Contents, priced \in BOOLEAN :
           ret' = [ret EXCEPT ![t] = [opened |-> None, status |-> s,
                                      items |-> items, priced |-> priced]]
    BY <1>2 DEF CreateReturn
  <2>2. ret'[t].opened = None /\ \A u \in Returns : u # t => ret'[u] = ret[u]
    BY <2>1 DEF TypeOK
  <2>3. UNCHANGED rec /\ ret[t] = None
    BY <1>2 DEF CreateReturn
  <2>4. ASSUME NEW o \in Orders PROVE OpenedFor(o)' = OpenedFor(o)
    <3>1. o # None
      BY DeliveryAssumption
    <3>2. \A u \in Returns : u \in OpenedFor(o)' <=> u \in OpenedFor(o)
      BY <2>2, <2>3, <3>1 DEF OpenedFor
    <3>3. OpenedFor(o) \subseteq Returns /\ OpenedFor(o)' \subseteq Returns
      BY DEF OpenedFor
    <3>4. QED
      BY <3>2, <3>3
  <2>5. QED
    BY <2>3, <2>4 DEF Quiet
<1>3. ASSUME NEW r \in Requests, ReturnSave(r) \/ EditWrite(r) \/ RemoveWrite(r) PROVE Quiet
  <2> DEFINE t == req[r].ret
  <2>1. /\ t \in Returns /\ ret[t] \in ReturnOrders
        /\ \E x \in ReturnOrders : /\ ret' = [ret EXCEPT ![t] = x]
                                   /\ x.opened = ret[t].opened
    BY <1>3, ReturnWritten
  <2>2. UNCHANGED rec
    BY <1>3 DEF ReturnSave, EditWrite, RemoveWrite
  <2>3. PICK x \in ReturnOrders : ret' = [ret EXCEPT ![t] = x] /\ x.opened = ret[t].opened
    BY <2>1
  <2>4. /\ ret'[t] = x /\ x # None /\ ret[t] # None
        /\ \A u \in Returns : u # t => ret'[u] = ret[u]
    BY <2>1, <2>3, NoneAssumption DEF TypeOK
  <2>5. ASSUME NEW o \in Orders PROVE OpenedFor(o)' = OpenedFor(o)
    <3>1. \A u \in Returns : u \in OpenedFor(o)' <=> u \in OpenedFor(o)
      BY <2>3, <2>4 DEF OpenedFor
    <3>2. OpenedFor(o) \subseteq Returns /\ OpenedFor(o)' \subseteq Returns
      BY DEF OpenedFor
    <3>3. QED
      BY <3>1, <3>2
  <2>6. QED
    BY <2>2, <2>5 DEF Quiet
<1>4. ASSUME NEW r \in Requests, Confirm(r), ~Confirmable(rec[req[r].rec].order, req[r].rec)
      PROVE  Quiet
  BY <1>1, <1>4 DEF Confirm
<1>5. QED
  <2>1. \/ UNCHANGED <<rec, ret>>
        \/ \E r \in Requests : \/ DispatchSave(r) \/ Confirm(r) \/ ReturnSave(r)
                               \/ EditWrite(r) \/ RemoveWrite(r)
        \/ \E t \in Returns : CreateReturn(t)
    BY DEF Next, Handle, vars, DispatchFind, DispatchLook, DispatchDeduct, ConfirmRead, StatusRead,
           StatusWrite, Moves, Approve, RejectOrder, CancelOrder, DirectDispatch, ReturnRead, Restock,
           EditRead, RemoveRead, Interrupt
  <2>2. QED
    BY <2>1, <1>1, <1>2, <1>3, <1>4

-----------------------------------------------------------------------------
\* A dispatch that has deducted the stock, or found it deducted, still has a
\* shipped order when it saves the record.
LEMMA DispatchesStayShipped ==
  ASSUME TypeOK, RequestsExist, DispatchesShip, [Next]_vars
  PROVE  DispatchesShip'
<1> DEFINE Ships(o) == order'[o] \in Shipped \/ o \in takenBack'
<1> SUFFICES ASSUME NEW s \in Requests, req'[s].op = "dispatch",
                    req'[s].phase = "save" \/ req'[s].was = "Dispatched"
             PROVE  Ships(req'[s].order)
  BY DEF DispatchesShip
<1>0. \A o \in Orders : order[o] \in Shipped \/ o \in takenBack => Ships(o)
  BY OrdersGoForward
<1>1. ASSUME req'[s] = req[s] PROVE Ships(req'[s].order)
  <2>1. /\ req[s].order \in Orders
        /\ order[req[s].order] \in Shipped \/ req[s].order \in takenBack
    BY <1>1, KindOfRequest DEF DispatchesShip, TypeOK, DispatchReq
  <2>2. QED
    BY <1>0, <1>1, <2>1
<1>2. ASSUME NEW r \in Requests, NEW o \in Orders, DispatchFind(r, o)
      PROVE  Ships(req'[s].order)
  <2>1. CASE s = r
    BY <1>2, <2>1 DEF DispatchFind, Open, TypeOK, Shipped
  <2>2. CASE s # r
    BY <1>1, <1>2, <2>2 DEF DispatchFind, Open, TypeOK
  <2>3. QED
    BY <2>1, <2>2
<1>3. ASSUME NEW r \in Requests, DispatchLook(r) PROVE Ships(req'[s].order)
  <2>1. req[r] \in DispatchReq
    BY <1>3, KindOfRequest DEF DispatchLook, TypeOK
  <2>2. CASE s = r
    <3>1. req' = [req EXCEPT ![r].phase = IF req[r].was = "Dispatched" THEN "save" ELSE "deduct"]
      BY <1>3, <2>2 DEF DispatchLook, Done, Idle, TypeOK
    <3>2. req'[r].order = req[r].order /\ req'[r].was = req[r].was /\ req[r].order \in Orders
          /\ (req'[r].phase = "save" => req[r].was = "Dispatched")
      BY <2>1, <3>1 DEF TypeOK, DispatchReq
    <3>3. req[r].op = "dispatch"
      BY <2>1 DEF DispatchReq
    <3>4. req[r].was = "Dispatched"
      BY <2>2, <3>2
    <3>5. order[req[r].order] \in Shipped \/ req[r].order \in takenBack
      BY <3>3, <3>4 DEF DispatchesShip
    <3>6. QED
      BY <1>0, <2>2, <3>2, <3>5
  <2>3. CASE s # r
    BY <1>1, <1>3, <2>3 DEF DispatchLook, Done, TypeOK
  <2>4. QED
    BY <2>2, <2>3
<1>4. ASSUME NEW r \in Requests, DispatchDeduct(r) PROVE Ships(req'[s].order)
  <2>1. req[r] \in DispatchReq
    BY <1>4, KindOfRequest DEF DispatchDeduct, TypeOK
  <2>2. CASE s = r
    <3>1. /\ order' = [order EXCEPT ![req[r].order] = "Dispatched"]
          /\ req' = [req EXCEPT ![r].phase = "save"]
      BY <1>4, <2>2 DEF DispatchDeduct, Done, Idle, TypeOK
    <3>2. req'[r].order = req[r].order /\ req[r].order \in Orders
      BY <2>1, <3>1 DEF TypeOK, DispatchReq
    <3>3. QED
      BY <2>2, <3>1, <3>2 DEF TypeOK, Shipped
  <2>3. CASE s # r
    BY <1>1, <1>4, <2>3 DEF DispatchDeduct, Done, TypeOK
  <2>4. QED
    BY <2>2, <2>3
<1>5. ASSUME NEW r \in Requests, Done(r) PROVE Ships(req'[s].order)
  BY <1>1, <1>5, DoneKeeps
<1>6. ASSUME NEW r \in Requests, NEW q, q.op # "dispatch", Open(r, q)
      PROVE  Ships(req'[s].order)
  BY <1>1, <1>6 DEF Open, TypeOK
<1>7. ASSUME NEW r \in Requests, NEW p \in Products, Restock(r, p)
      PROVE  Ships(req'[s].order)
  <2>1. req[r] \in ReturnReq
    BY <1>7, KindOfRequest DEF Restock, TypeOK
  <2>2. req'[r].op = "return" /\ (s # r => req'[s] = req[s])
    BY <1>7, <2>1 DEF Restock, TypeOK, ReturnReq
  <2>3. QED
    BY <1>1, <2>2
<1>8. CASE UNCHANGED req
  BY <1>1, <1>8
<1>9. QED
  <2>1. CASE \E r \in Requests : \/ \E d \in Records : ConfirmRead(r, d)
                                 \/ \E o \in Orders, to \in Saved : StatusRead(r, o, to)
                                 \/ \E t \in Returns, to \in ReturnStatuses : ReturnRead(r, t, to)
                                 \/ \E t \in Returns : EditRead(r, t) \/ RemoveRead(r, t)
    <3>1. PICK r \in Requests : \E q : q.op # "dispatch" /\ Open(r, q)
      <4>1. ASSUME NEW r \in Requests, NEW d \in Records, ConfirmRead(r, d)
            PROVE  \E q : q.op # "dispatch" /\ Open(r, q)
        BY <4>1 DEF ConfirmRead
      <4>2. ASSUME NEW r \in Requests, NEW o \in Orders, NEW to \in Saved, StatusRead(r, o, to)
            PROVE  \E q : q.op # "dispatch" /\ Open(r, q)
        BY <4>2 DEF StatusRead
      <4>3. ASSUME NEW r \in Requests, NEW t \in Returns, NEW to \in ReturnStatuses, ReturnRead(r, t, to)
            PROVE  \E q : q.op # "dispatch" /\ Open(r, q)
        BY <4>3 DEF ReturnRead
      <4>4. ASSUME NEW r \in Requests, NEW t \in Returns, EditRead(r, t) \/ RemoveRead(r, t)
            PROVE  \E q : q.op # "dispatch" /\ Open(r, q)
        BY <4>4 DEF EditRead, RemoveRead
      <4>5. QED
        BY <2>1, <4>1, <4>2, <4>3, <4>4
    <3>2. QED
      BY <3>1, <1>6
  <2>2. CASE \E r \in Requests : DispatchSave(r) \/ Confirm(r) \/ StatusWrite(r) \/ ReturnSave(r)
                                \/ EditWrite(r) \/ RemoveWrite(r) \/ Interrupt(r)
    BY <2>2, <1>5 DEF DispatchSave, Confirm, StatusWrite, ReturnSave, EditWrite, RemoveWrite, Interrupt
  <2>3. CASE \/ UNCHANGED vars
             \/ \E o \in Orders : Moves(o)
             \/ \E t \in Returns : CreateReturn(t)
    BY <2>3, <1>8 DEF vars, Moves, Approve, RejectOrder, CancelOrder, DirectDispatch, CreateReturn
  <2>4. CASE \E r \in Requests : \/ \E o \in Orders : DispatchFind(r, o)
                                 \/ DispatchLook(r) \/ DispatchDeduct(r)
                                 \/ \E p \in Products : Restock(r, p)
    BY <2>4, <1>2, <1>3, <1>4, <1>7
  <2>5. CASE \E r \in Requests : Handle(r)
    <3>1. PICK r \in Requests : Handle(r)
      BY <2>5
    <3>2. \/ \E o \in Orders : DispatchFind(r, o) \/ \E to \in Saved : StatusRead(r, o, to)
          \/ DispatchLook(r) \/ DispatchDeduct(r) \/ \E p \in Products : Restock(r, p)
          \/ \E d \in Records : ConfirmRead(r, d)
          \/ \E t \in Returns : \/ \E to \in ReturnStatuses : ReturnRead(r, t, to)
                                \/ EditRead(r, t) \/ RemoveRead(r, t)
          \/ DispatchSave(r) \/ Confirm(r) \/ StatusWrite(r) \/ ReturnSave(r)
          \/ EditWrite(r) \/ RemoveWrite(r) \/ Interrupt(r)
      BY <3>1 DEF Handle
    <3>3. CASE \E o \in Orders : DispatchFind(r, o) \/ \E to \in Saved : StatusRead(r, o, to)
      BY <2>1, <2>4, <3>3
    <3>4. CASE \E t \in Returns : \/ \E to \in ReturnStatuses : ReturnRead(r, t, to)
                                  \/ EditRead(r, t) \/ RemoveRead(r, t)
      BY <2>1, <3>4
    <3>5. CASE DispatchLook(r) \/ DispatchDeduct(r) \/ \E p \in Products : Restock(r, p)
      BY <2>4, <3>5
    <3>6. CASE \E d \in Records : ConfirmRead(r, d)
      BY <2>1, <3>6
    <3>7. CASE DispatchSave(r) \/ Confirm(r) \/ StatusWrite(r) \/ ReturnSave(r)
               \/ EditWrite(r) \/ RemoveWrite(r) \/ Interrupt(r)
      BY <2>2, <3>7
    <3>8. QED
      BY <3>2, <3>3, <3>4, <3>5, <3>6, <3>7
  <2>6. QED
    BY <2>3, <2>5 DEF Next, Moves

-----------------------------------------------------------------------------
\* A step keeps the records' and the orders' part of DeliveryInv.
LEMMA DeliveryStep ==
  ASSUME TypeOK, RequestsExist, DispatchesShip, RecordMeansShipped, EndedOnce, ConfirmedOnce,
         [Next]_vars
  PROVE  RecordMeansShipped' /\ EndedOnce' /\ ConfirmedOnce'
<1> DEFINE Ships(o) == order'[o] \in Shipped \/ o \in takenBack'
           Ends(o)  == order'[o] \in Finished \/ o \in takenBack'
<1>0. /\ takenBack \subseteq takenBack'
      /\ \A o \in Orders : /\ order[o] \in Shipped \/ o \in takenBack => Ships(o)
                           /\ order[o] \in Finished \/ o \in takenBack => Ends(o)
  BY OrdersGoForward
<1>a. \A d \in Records : rec[d] # None => rec[d].order \in Orders
  BY DEF TypeOK, DispatchRecords
<1>1. CASE Quiet
  <2>1. RecordMeansShipped'
    <3> SUFFICES ASSUME NEW d \in Records, rec'[d] # None
                 PROVE  Ships(rec'[d].order)
      BY DEF RecordMeansShipped
    <3>1. rec'[d] = rec[d]
      BY <1>1 DEF Quiet
    <3>2. order[rec[d].order] \in Shipped \/ rec[d].order \in takenBack
      BY <3>1 DEF RecordMeansShipped
    <3>3. QED
      BY <1>0, <1>a, <3>1, <3>2
  <2>2. EndedOnce'
    <3>1. ASSUME NEW d \in Records, Confirmed(d)' PROVE Ends(rec'[d].order)
      <4>1. rec'[d] = rec[d]
        BY <1>1 DEF Quiet
      <4>2. rec[d] # None /\ (order[rec[d].order] \in Finished \/ rec[d].order \in takenBack)
        BY <3>1, <4>1 DEF Confirmed, EndedOnce
      <4>3. QED
        BY <1>0, <1>a, <4>1, <4>2
    <3>2. ASSUME NEW o \in Orders, o \notin takenBack', OpenedFor(o)' # {}
          PROVE  order'[o] \in Finished
      <4>1. OpenedFor(o) # {} /\ o \notin takenBack
        BY <1>0, <1>1, <3>2 DEF Quiet
      <4>2. order[o] \in Finished
        BY <4>1 DEF EndedOnce
      <4>3. QED
        BY <1>0, <3>2, <4>2
    <3>3. QED
      BY <3>1, <3>2 DEF EndedOnce
  <2>3. ConfirmedOnce'
    <3>1. ASSUME NEW d \in Records, NEW e \in Records, Confirmed(d)', Confirmed(e)',
                 rec'[d].order = rec'[e].order
          PROVE  d = e \/ rec'[d].order \in takenBack'
      BY <1>0, <1>1, <3>1 DEF Quiet, ConfirmedOnce, Confirmed
    <3>2. ASSUME NEW o \in Orders, o \notin takenBack',
                 NEW t \in OpenedFor(o)', NEW u \in OpenedFor(o)'
          PROVE  t = u
      BY <1>0, <1>1, <3>2 DEF Quiet, ConfirmedOnce
    <3>3. QED
      BY <3>1, <3>2 DEF ConfirmedOnce
  <2>4. QED
    BY <2>1, <2>2, <2>3
<1>2. ASSUME NEW r \in Requests, DispatchSave(r)
      PROVE  RecordMeansShipped' /\ EndedOnce' /\ ConfirmedOnce'
  <2>1. PICK d \in Records :
           rec' = [rec EXCEPT ![d] = [order |-> req[r].order, status |-> "In Transit"]]
    BY <1>2 DEF DispatchSave
  <2>2. rec'[d].order = req[r].order /\ ~Confirmed(d)'
        /\ \A e \in Records : e # d => rec'[e] = rec[e]
    BY <2>1 DEF TypeOK, Confirmed, Finished
  <2>3. order[req[r].order] \in Shipped \/ req[r].order \in takenBack
    BY <1>2 DEF DispatchSave, DispatchesShip
  <2>4. UNCHANGED <<order, ret, takenBack>>
    BY <1>2 DEF DispatchSave
  <2>5. RecordMeansShipped'
    BY <2>2, <2>3, <2>4 DEF RecordMeansShipped
  <2>6. EndedOnce' /\ ConfirmedOnce'
    BY <2>2, <2>4 DEF EndedOnce, ConfirmedOnce, Confirmed, OpenedFor
  <2>7. QED
    BY <2>5, <2>6
<1>3. ASSUME NEW r \in Requests, Confirm(r), Confirmable(rec[req[r].rec].order, req[r].rec)
      PROVE  RecordMeansShipped' /\ EndedOnce' /\ ConfirmedOnce'
  <2>1. PICK d \in Records, to \in Finished, o \in Orders :
           /\ rec[d] \in DispatchRecords /\ rec[d].order = o /\ order[o] = "Dispatched"
           /\ rec' = [rec EXCEPT ![d].status = to]
           /\ order' = [order EXCEPT ![o] = to]
           /\ \/ UNCHANGED ret
              \/ \E t \in Returns, items \in [Products -> Nat] :
                    /\ ret[t] = None
                    /\ ret' = [ret EXCEPT ![t] =
                          [opened |-> o, status |-> "Submitted",
                           items |-> items, priced |-> FALSE]]
    BY <1>3, ConfirmWrites
  <2>2. /\ rec'[d].order = o /\ rec'[d].status = to
        /\ \A e \in Records : e # d => rec'[e] = rec[e]
    BY <2>1 DEF TypeOK, DispatchRecords
  <2>3. order'[o] = to /\ \A p \in Orders : p # o => order'[p] = order[p]
    BY <2>1 DEF TypeOK
  <2>4. order[o] \notin Finished
    BY <2>1 DEF Finished
  <2>5. UNCHANGED takenBack
    BY <1>3 DEF Confirm
  <2>6. \E t : /\ OpenedFor(o)' \in {OpenedFor(o), OpenedFor(o) \cup {t}}
               /\ \A p \in Orders \ {o} : OpenedFor(p)' = OpenedFor(p)
    <3>1. CASE UNCHANGED ret
      BY <3>1 DEF OpenedFor
    <3>2. CASE \E t \in Returns, items \in [Products -> Nat] :
                    /\ ret[t] = None
                    /\ ret' = [ret EXCEPT ![t] =
                          [opened |-> o, status |-> "Submitted",
                           items |-> items, priced |-> FALSE]]
      <4>1. /\ \E t : OpenedFor(o)' = OpenedFor(o) \cup {t}
            /\ \A p \in Orders \ {o} : OpenedFor(p)' = OpenedFor(p)
        BY <3>2, ReturnOpened
      <4>2. QED
        BY <4>1
    <3>3. QED
      BY <2>1, <3>1, <3>2
  <2>7. RecordMeansShipped'
    BY <1>0, <1>a, <2>2, <2>3, <2>5 DEF RecordMeansShipped, Shipped
  <2>8. \A e \in Records : Confirmed(e)' =>
           e = d \/ (Confirmed(e) /\ (rec'[e].order # o \/ o \in takenBack))
    BY <2>2, <2>4 DEF Confirmed, EndedOnce
  <2>9. \A e \in Records : Confirmed(e)' => Ends(rec'[e].order)
    <3> SUFFICES ASSUME NEW e \in Records, Confirmed(e)' PROVE Ends(rec'[e].order)
      OBVIOUS
    <3>1. CASE e = d
      BY <2>2, <2>3, <3>1
    <3>2. CASE e # d
      BY <1>0, <1>a, <2>2, <2>8, <3>2 DEF EndedOnce, Confirmed
    <3>3. QED
      BY <3>1, <3>2
  <2>10. ASSUME NEW e \in Records, NEW f \in Records, Confirmed(e)', Confirmed(f)',
                rec'[e].order = rec'[f].order
         PROVE  e = f \/ rec'[e].order \in takenBack'
    <3>1. CASE e = d \/ f = d
      BY <2>2, <2>5, <2>8, <2>10, <3>1
    <3>2. CASE e # d /\ f # d
      BY <2>2, <2>5, <2>8, <2>10, <3>2 DEF ConfirmedOnce
    <3>3. QED
      BY <3>1, <3>2
  <2>11. o \notin takenBack => OpenedFor(o) = {}
    BY <2>1, <2>4 DEF EndedOnce
  <2>12. ASSUME NEW p \in Orders, p \notin takenBack', OpenedFor(p)' # {}
         PROVE  order'[p] \in Finished
    <3>1. CASE p = o
      BY <2>3, <3>1
    <3>2. CASE p # o
      BY <2>3, <2>5, <2>6, <2>12, <3>2 DEF EndedOnce
    <3>3. QED
      BY <3>1, <3>2
  <2>13. ASSUME NEW p \in Orders, p \notin takenBack',
                NEW t \in OpenedFor(p)', NEW u \in OpenedFor(p)'
         PROVE  t = u
    <3>1. CASE p = o
      BY <2>5, <2>6, <2>11, <2>13, <3>1
    <3>2. CASE p # o
      BY <2>5, <2>6, <2>13, <3>2 DEF ConfirmedOnce
    <3>3. QED
      BY <3>1, <3>2
  <2>14. EndedOnce'
    BY <2>9, <2>12 DEF EndedOnce
  <2>15. ConfirmedOnce'
    BY <2>10, <2>13 DEF ConfirmedOnce
  <2>16. QED
    BY <2>7, <2>14, <2>15
<1>4. QED
  BY <1>1, <1>2, <1>3, QuietSteps

\* A delivery exists only for an order that has been shipped, and an order is
\* confirmed at most once and has at most one return of its own, unless a save
\* decided before its approval took it back.
THEOREM DeliveredOnce ==
  Spec => [](DispatchesShip /\ RecordMeansShipped /\ EndedOnce /\ ConfirmedOnce)
<1> DEFINE Inv == DispatchesShip /\ RecordMeansShipped /\ EndedOnce /\ ConfirmedOnce
<1>1. Init => Inv
  BY NoneAssumption DEF Init, Idle, DispatchesShip, RecordMeansShipped, EndedOnce, ConfirmedOnce,
     Confirmed, OpenedFor
<1>2. TypeOK /\ RequestsExist /\ Inv /\ [Next]_vars => Inv'
  BY DispatchesStayShipped, DeliveryStep
<1>3. QED
  BY <1>1, <1>2, TypeCorrect, PTL DEF Spec

\* A delivery exists only for an order whose stock has been deducted, however
\* dispatches, cancellations and retries of them interleave, unless a save
\* decided before the order's approval took it back.
THEOREM ShippedFirst == Spec => []RecordMeansShipped
BY DeliveredOnce, PTL

-----------------------------------------------------------------------------
\* A step goes on with a request, ends it, or begins one the status allows.
LEMMA RequestsStayAllowed ==
  ASSUME TypeOK, RequestsAllowed, [Next]_vars
  PROVE  RequestsAllowed'
<1> SUFFICES ASSUME NEW s \in Requests PROVE Allowed(req'[s])
  BY DEF RequestsAllowed
<1>0. Allowed(req[s])
  BY DEF RequestsAllowed
<1>1. ASSUME NEW r \in Requests, Done(r) PROVE Allowed(req'[s])
  <2>1. req'[s] = req[s] \/ req'[s].op = "idle"
    BY <1>1, DoneKeeps
  <2>2. QED
    BY <1>0, <2>1 DEF Allowed
<1>2. ASSUME NEW r \in Requests, NEW q, Open(r, q), Allowed(q) PROVE Allowed(req'[s])
  BY <1>0, <1>2 DEF Open, TypeOK
<1>3. ASSUME NEW r \in Requests, NEW o \in Orders, DispatchFind(r, o) PROVE Allowed(req'[s])
  BY <1>2, <1>3 DEF DispatchFind, Allowed
<1>4. ASSUME NEW r \in Requests, NEW d \in Records, ConfirmRead(r, d) PROVE Allowed(req'[s])
  BY <1>2, <1>4 DEF ConfirmRead, Allowed
<1>5. ASSUME NEW r \in Requests, NEW o \in Orders, NEW to \in Saved, StatusRead(r, o, to)
      PROVE  Allowed(req'[s])
  BY <1>2, <1>5 DEF StatusRead, Allowed
<1>6. ASSUME NEW r \in Requests, NEW t \in Returns, NEW to \in ReturnStatuses, ReturnRead(r, t, to)
      PROVE  Allowed(req'[s])
  BY <1>2, <1>6 DEF ReturnRead, Allowed
<1>7. ASSUME NEW r \in Requests, NEW t \in Returns, EditRead(r, t) \/ RemoveRead(r, t)
      PROVE  Allowed(req'[s])
  BY <1>2, <1>7 DEF EditRead, RemoveRead, Allowed
<1>8. ASSUME NEW r \in Requests, DispatchLook(r) \/ DispatchDeduct(r) PROVE Allowed(req'[s])
  <2>1. req[r] \in DispatchReq
    BY <1>8, KindOfRequest DEF DispatchLook, DispatchDeduct, TypeOK
  <2>2. CASE \E ph : req' = [req EXCEPT ![r].phase = ph]
    <3>1. req'[s] = req[s] \/ req'[s].op = "dispatch"
      BY <2>1, <2>2 DEF TypeOK, DispatchReq
    <3>2. QED
      BY <1>0, <3>1 DEF Allowed
  <2>3. QED
    BY <1>1, <1>8, <2>2 DEF DispatchLook, DispatchDeduct
<1>9. ASSUME NEW r \in Requests, NEW p \in Products, Restock(r, p) PROVE Allowed(req'[s])
  <2>1. req[r] \in ReturnReq
    BY <1>9, KindOfRequest DEF Restock, TypeOK
  <2>2. CASE s = r
    <3>1. req'[s].op = "return" /\ req'[s].to = req[s].to /\ req'[s].was = req[s].was
          /\ req'[s].left = req[s].left \ {p}
      BY <1>9, <2>1, <2>2 DEF Restock, TypeOK, ReturnReq
    <3>2. QED
      BY <1>0, <1>9, <2>2, <3>1 DEF Allowed, Restock
  <2>3. CASE s # r
    BY <1>0, <1>9, <2>3 DEF Restock, TypeOK
  <2>4. QED
    BY <2>2, <2>3
<1>10. CASE UNCHANGED req
  BY <1>0, <1>10
<1>11. QED
  <2>1. CASE \E r \in Requests : Handle(r)
    <3>1. PICK r \in Requests : Handle(r)
      BY <2>1
    <3>2. CASE \/ DispatchSave(r) \/ Confirm(r) \/ StatusWrite(r) \/ ReturnSave(r)
               \/ EditWrite(r) \/ RemoveWrite(r) \/ Interrupt(r)
      BY <1>1, <3>2 DEF DispatchSave, Confirm, StatusWrite, ReturnSave, EditWrite, RemoveWrite, Interrupt
    <3>3. QED
      BY <1>3, <1>4, <1>5, <1>6, <1>7, <1>8, <1>9, <3>1, <3>2 DEF Handle
  <2>2. CASE \/ UNCHANGED vars
             \/ \E o \in Orders : Moves(o)
             \/ \E t \in Returns : CreateReturn(t)
    BY <1>10, <2>2 DEF vars, Moves, Approve, RejectOrder, CancelOrder, DirectDispatch, CreateReturn
  <2>3. QED
    BY <2>1, <2>2 DEF Next, Moves

\* Unless a save goes over it, an order at its end stays at that end.
LEMMA OrdersSettle ==
  ASSUME TypeOK, RequestsExist, RequestsAllowed, [Next]_vars, ~stale'
  PROVE  ~stale /\ \A o \in Orders : order[o] \in Finished => order'[o] = order[o]
<1> USE DEF Finished
<1>1. ASSUME NEW r \in Requests, StatusWrite(r)
      PROVE  ~stale /\ order[req[r].order] \in {"Unapproved", "Dispatched"}
  <2>1. req[r].was \in {"Unapproved", "Dispatched"}
    BY <1>1 DEF StatusWrite, RequestsAllowed, Allowed
  <2>2. QED
    BY <1>1, <2>1 DEF StatusWrite, Save
<1>2. ASSUME NEW r \in Requests, StatusWrite(r)
      PROVE  \A o \in Orders : order[o] \in Finished => order'[o] = order[o]
  BY <1>1, <1>2 DEF StatusWrite, TypeOK
<1>3. ASSUME NEW r \in Requests, Confirm(r)
      PROVE  ~stale /\ \A o \in Orders : order[o] \in Finished => order'[o] = order[o]
  <2>1. CASE Confirmable(rec[req[r].rec].order, req[r].rec)
    <3>1. PICK d \in Records, to \in Finished :
             /\ order[rec[d].order] = "Dispatched"
             /\ order' = [order EXCEPT ![rec[d].order] = to]
      BY <1>3, <2>1, ConfirmWrites
    <3>2. QED
      BY <1>3, <3>1 DEF TypeOK, Confirm
  <2>2. CASE UNCHANGED order
    BY <1>3, <2>2 DEF Confirm
  <2>3. QED
    BY <1>3, <2>1, <2>2 DEF Confirm
<1>4. ASSUME NEW r \in Requests, DispatchDeduct(r)
      PROVE  ~stale /\ \A o \in Orders : order[o] \in Finished => order'[o] = order[o]
  BY <1>4 DEF DispatchDeduct, TypeOK
<1>5. ASSUME NEW p \in Orders, Moves(p)
      PROVE  ~stale /\ \A o \in Orders : order[o] \in Finished => order'[o] = order[o]
  BY <1>5 DEF Moves, Approve, RejectOrder, CancelOrder, DirectDispatch, TypeOK
<1>6. ASSUME NEW r \in Requests, ReturnSave(r) \/ EditWrite(r) \/ RemoveWrite(r)
      PROVE  ~stale /\ UNCHANGED order
  BY <1>6 DEF ReturnSave, EditWrite, RemoveWrite, Save
<1>7. QED
  <2>1. \/ UNCHANGED <<order, stale>>
        \/ \E r \in Requests : \/ DispatchDeduct(r) \/ Confirm(r) \/ StatusWrite(r)
                               \/ ReturnSave(r) \/ EditWrite(r) \/ RemoveWrite(r)
        \/ \E o \in Orders : Moves(o)
    BY DEF Next, Handle, vars, Moves, DispatchFind, DispatchLook, DispatchSave, ConfirmRead,
           StatusRead, CreateReturn, ReturnRead, Restock, EditRead, RemoveRead, Interrupt
  <2>2. QED
    BY <2>1, <1>1, <1>2, <1>3, <1>4, <1>5, <1>6

\* Whatever takes a shipped order back replaces a status its request never
\* read: what was allowed by an order not approved finds it shipped.
LEMMA LateSaves ==
  ASSUME TypeOK, RequestsAllowed, TakenBackLate, [Next]_vars
  PROVE  TakenBackLate'
<1>1. ASSUME NEW r \in Requests, StatusWrite(r) PROVE TakenBackLate'
  <2> DEFINE o == req[r].order
  <2>1. /\ stale' = (stale \/ req[r].was # order[o])
        /\ takenBack' = IF order[o] \in Shipped /\ req[r].to \notin Shipped
                           THEN takenBack \cup {o} ELSE takenBack
    BY <1>1 DEF StatusWrite, Save
  <2>2. req[r].to \in Shipped \/ req[r].was = "Unapproved"
    BY <1>1 DEF StatusWrite, RequestsAllowed, Allowed, Shipped
  <2>3. "Unapproved" \notin Shipped
    BY DEF Shipped, Finished
  <2>4. QED
    BY <2>1, <2>2, <2>3 DEF TakenBackLate
<1>2. ASSUME UNCHANGED takenBack, stale => stale' PROVE TakenBackLate'
  BY <1>2 DEF TakenBackLate
<1>3. ASSUME NEW r \in Requests, Handle(r) PROVE TakenBackLate'
  <2>1. CASE Confirm(r)
    BY <1>2, <2>1 DEF Confirm
  <2>2. CASE StatusWrite(r)
    BY <1>1, <2>2
  <2>3. CASE ReturnSave(r) \/ EditWrite(r) \/ RemoveWrite(r)
    BY <1>2, <2>3 DEF ReturnSave, EditWrite, RemoveWrite, Save
  <2>4. CASE ~Confirm(r) /\ ~StatusWrite(r) /\ ~(ReturnSave(r) \/ EditWrite(r) \/ RemoveWrite(r))
    <3>1. UNCHANGED <<takenBack, stale>>
      BY <1>3, <2>4 DEF Handle, DispatchFind, DispatchLook, DispatchDeduct, DispatchSave, ConfirmRead,
         StatusRead, ReturnRead, Restock, EditRead, RemoveRead, Interrupt
    <3>2. QED
      BY <1>2, <3>1
  <2>5. QED
    BY <2>1, <2>2, <2>3, <2>4
<1>4. QED
  <2>1. \/ UNCHANGED <<takenBack, stale>>
        \/ \E r \in Requests : Handle(r)
    BY DEF Next, vars, Approve, RejectOrder, CancelOrder, DirectDispatch, CreateReturn
  <2>2. QED
    BY <1>2, <1>3, <2>1

\* A step keeps the order, its delivery and its return in agreement.
LEMMA AgreementStep ==
  ASSUME TypeOK, RequestsExist, RequestsAllowed, EndedOnce, TakenBackLate, ConfirmationAgrees,
         [Next]_vars
  PROVE  ConfirmationAgrees'
<1>a. \A d \in Records : rec[d] # None => rec[d].order \in Orders
  BY DEF TypeOK, DispatchRecords
<1>b. takenBack \subseteq takenBack'
  BY OrdersGoForward
<1> DEFINE OpenedNext(o) == {t \in Returns : ret'[t] # None /\ ret'[t].opened = o}
           Agree(d) == /\ ~stale' => order'[rec'[d].order] = rec'[d].status
                       /\ rec'[d].order \notin takenBack' =>
                             (rec'[d].status = "Partial_Delivery" <=> OpenedNext(rec'[d].order) # {})
<1>c. \A o \in Orders : OpenedFor(o)' = OpenedNext(o)
  BY DEF OpenedFor
<1>d. ConfirmationAgrees' <=> \A d \in Records : Confirmed(d)' => Agree(d)
  BY DEF ConfirmationAgrees, OpenedFor
<1>e. ASSUME NEW d \in Records, Confirmed(d), rec'[d] = rec[d]
      PROVE  ~stale' => order'[rec'[d].order] = rec'[d].status
  BY <1>a, <1>e, OrdersSettle DEF EndedOnce, TakenBackLate, ConfirmationAgrees, Confirmed
<1>1. ASSUME NEW d \in Records, NEW o \in Orders, rec[d].order = o, Confirmed(d)', rec'[d] = rec[d],
             OpenedNext(o) = OpenedFor(o) \/ o \in takenBack
      PROVE  Agree(d)
  <2>1. Confirmed(d)
    BY <1>1 DEF Confirmed
  <2>2. ~stale' => order'[rec'[d].order] = rec'[d].status
    BY <1>1, <1>e, <2>1
  <2>3. o \notin takenBack => (rec[d].status = "Partial_Delivery" <=> OpenedFor(o) # {})
    BY <1>1, <2>1 DEF ConfirmationAgrees
  <2>4. o \notin takenBack' => (rec'[d].status = "Partial_Delivery" <=> OpenedNext(o) # {})
    <3>1. o \notin takenBack' => o \notin takenBack
      BY <1>b
    <3> HIDE DEF OpenedNext
    <3>2. QED
      BY <1>1, <2>3, <3>1
  <2>5. QED
    BY <1>1, <2>2, <2>4
<1>2. ASSUME \A d \in Records : Confirmed(d)' => rec'[d] = rec[d],
             \A o \in Orders : OpenedFor(o)' = OpenedFor(o)
      PROVE  ConfirmationAgrees'
  <2> SUFFICES ASSUME NEW d \in Records, Confirmed(d)'
               PROVE  Agree(d)
    BY <1>d
  <2>1. PICK o \in Orders : rec[d].order = o
    BY <1>a, <1>2 DEF Confirmed
  <2>2. OpenedNext(o) = OpenedFor(o)
    BY <1>2, <1>c
  <2>3. QED
    BY <1>1, <1>2, <2>1, <2>2
<1>3. CASE Quiet
  BY <1>2, <1>3 DEF Quiet
<1>4. ASSUME NEW r \in Requests, DispatchSave(r) PROVE ConfirmationAgrees'
  <2>1. PICK d \in Records :
           rec' = [rec EXCEPT ![d] = [order |-> req[r].order, status |-> "In Transit"]]
    BY <1>4 DEF DispatchSave
  <2>2. ~Confirmed(d)' /\ \A e \in Records : e # d => rec'[e] = rec[e]
    BY <2>1 DEF TypeOK, Confirmed, Finished
  <2>3. \A o \in Orders : OpenedFor(o)' = OpenedFor(o)
    BY <1>4 DEF DispatchSave, OpenedFor
  <2>4. QED
    BY <1>2, <2>2, <2>3
<1>5. ASSUME NEW r \in Requests, Confirm(r), Confirmable(rec[req[r].rec].order, req[r].rec)
      PROVE  ConfirmationAgrees'
  <2>1. PICK d \in Records, to \in Finished, o \in Orders :
           /\ rec[d] \in DispatchRecords /\ rec[d].order = o /\ order[o] = "Dispatched"
           /\ rec' = [rec EXCEPT ![d].status = to]
           /\ order' = [order EXCEPT ![o] = to]
           /\ \/ to = "Delivered" /\ UNCHANGED ret
              \/ to = "Partial_Delivery" /\ \E t \in Returns, items \in [Products -> Nat] :
                    /\ ret[t] = None
                    /\ ret' = [ret EXCEPT ![t] =
                          [opened |-> o, status |-> "Submitted",
                           items |-> items, priced |-> FALSE]]
    BY <1>5, ConfirmWrites
  <2>2. /\ rec'[d].order = o /\ rec'[d].status = to
        /\ \A e \in Records : e # d => rec'[e] = rec[e]
    BY <2>1 DEF TypeOK, DispatchRecords
  <2>3. order'[o] = to
    BY <2>1 DEF TypeOK
  <2>4. order[o] \notin Finished
    BY <2>1 DEF Finished
  <2>5. UNCHANGED takenBack
    BY <1>5 DEF Confirm
  <2>6. o \notin takenBack => OpenedFor(o) = {}
    BY <2>1, <2>4 DEF EndedOnce
  <2>7. /\ o \notin takenBack => (to = "Partial_Delivery" <=> OpenedNext(o) # {})
        /\ \A x \in Orders \ {o} : OpenedNext(x) = OpenedFor(x)
    <3>1. CASE to = "Delivered" /\ UNCHANGED ret
      BY <2>6, <3>1 DEF OpenedFor
    <3>2. CASE to = "Partial_Delivery" /\ \E t \in Returns, items \in [Products -> Nat] :
                    /\ ret[t] = None
                    /\ ret' = [ret EXCEPT ![t] =
                          [opened |-> o, status |-> "Submitted",
                           items |-> items, priced |-> FALSE]]
      <4>1. /\ \E t : OpenedFor(o)' = OpenedFor(o) \cup {t}
            /\ \A x \in Orders \ {o} : OpenedFor(x)' = OpenedFor(x)
        BY <3>2, ReturnOpened
      <4>2. QED
        BY <1>c, <3>2, <4>1
    <3>3. QED
      BY <2>1, <3>1, <3>2
  <2> HIDE DEF OpenedNext
  <2>8. ASSUME NEW e \in Records, Confirmed(e)', e # d
        PROVE  Agree(e)
    <3>1. rec'[e] = rec[e] /\ Confirmed(e)
      BY <2>2, <2>8 DEF Confirmed
    <3>2. PICK x \in Orders : rec[e].order = x
      BY <1>a, <3>1 DEF Confirmed
    <3>3. x # o \/ o \in takenBack
      BY <2>4, <3>1, <3>2 DEF EndedOnce
    <3>4. OpenedNext(x) = OpenedFor(x) \/ x \in takenBack
      BY <2>7, <3>3
    <3>5. QED
      BY <1>1, <2>8, <3>1, <3>2, <3>4
  <2>9. Agree(d)
    BY <2>2, <2>3, <2>5, <2>7
  <2>10. QED
    BY <1>d, <2>8, <2>9
<1>6. QED
  BY <1>3, <1>4, <1>5, QuietSteps

\* The order ends as its delivery was confirmed, except where a bare status
\* change overwrites it, and exactly a partial delivery has opened a return.
THEOREM Agrees == Spec => []ConfirmationAgrees
<1>1. Init => RequestsAllowed /\ TakenBackLate /\ ConfirmationAgrees
  BY DEF Init, Idle, RequestsAllowed, Allowed, TakenBackLate, ConfirmationAgrees, Confirmed
<1>2. TypeOK /\ RequestsAllowed /\ [Next]_vars => RequestsAllowed'
  BY RequestsStayAllowed
<1>3. TypeOK /\ RequestsAllowed /\ TakenBackLate /\ [Next]_vars => TakenBackLate'
  BY LateSaves
<1>4. TypeOK /\ RequestsExist /\ RequestsAllowed /\ EndedOnce /\ TakenBackLate /\ ConfirmationAgrees
        /\ [Next]_vars => ConfirmationAgrees'
  BY AgreementStep
<1>5. QED
  BY <1>1, <1>2, <1>3, <1>4, TypeCorrect, DeliveredOnce, PTL DEF Spec

-----------------------------------------------------------------------------
\* Where the transition table leads to and from.
LEMMA TransitionFacts ==
  ASSUME NEW s \in ReturnStatuses, NEW to \in ReturnTransitions[s]
  PROVE  /\ s \notin {"Closed", "Rejected", "Cancelled", "Deleted"}
         /\ to = "Inspected" <=> s = "Received"
         /\ to = "Closed" <=> s = "Inspected"
         /\ to # "Deleted"
BY DEF ReturnTransitions, ReturnStatuses

GoodsInv == Untouched /\ InspectionsAgree /\ GoodsFollowReturn

\* A step keeps what is in stock of a return in line with its status.
LEMMA GoodsStep ==
  ASSUME TypeOK, RequestsExist, RequestsAllowed, GoodsInv, [Next]_vars
  PROVE  GoodsInv'
<1> USE DEF GoodsInv
<1> DEFINE Inspects(q) == q.op = "return" /\ q.to = "Inspected"
           Home == {"Received", "Inspected", "Closed"}
<1>a. ASSUME NEW s \in Requests, Inspects(req[s])
      PROVE  /\ req[s] \in ReturnReq /\ req[s].ret \in Returns /\ ret[req[s].ret] # None
             /\ req[s].items \in [Products -> Nat]
  <2>1. req[s] \in ReturnReq
    BY <1>a, KindOfRequest DEF TypeOK
  <2>2. QED
    BY <1>a, <2>1 DEF ReturnReq, RequestsExist
<1>b. \A t \in Returns : restocked[t] \in [Products -> Nat]
  BY DEF TypeOK
<1>1. ASSUME UNCHANGED <<ret, restocked>>, stale => stale',
             \A s \in Requests : Inspects(req'[s]) => req'[s] = req[s]
      PROVE  GoodsInv'
  BY <1>1 DEF Untouched, InspectionsAgree, GoodsFollowReturn
<1>2. ASSUME NEW r \in Requests, Done(r), UNCHANGED <<ret, restocked>>, stale => stale'
      PROVE  GoodsInv'
  <2>1. \A s \in Requests : Inspects(req'[s]) => req'[s] = req[s]
    BY <1>2, DoneKeeps
  <2>2. QED
    BY <1>1, <1>2, <2>1
<1>3. ASSUME NEW r \in Requests, NEW q, Open(r, q), UNCHANGED <<ret, restocked, stale>>, ~Inspects(q)
      PROVE  GoodsInv'
  <2>1. \A s \in Requests : Inspects(req'[s]) => req'[s] = req[s]
    BY <1>3 DEF Open, TypeOK
  <2>2. QED
    BY <1>1, <1>3, <2>1
<1>4. ASSUME NEW r \in Requests, NEW t \in Returns, NEW to \in ReturnStatuses, ReturnRead(r, t, to)
      PROVE  GoodsInv'
  <2> DEFINE left == IF to = "Inspected" THEN {p \in Products : ret[t].items[p] > 0} ELSE {}
             q == [op |-> "return", ret |-> t, was |-> ret[t].status, to |-> to,
                   items |-> ret[t].items, left |-> left]
  <2>1. Open(r, q) /\ UNCHANGED <<ret, restocked, stale>>
    BY <1>4 DEF ReturnRead
  <2>2. CASE to # "Inspected"
    BY <1>3, <2>1, <2>2
  <2>3. CASE to = "Inspected"
    <3>1. ret[t] # None /\ ret[t] \in ReturnOrders /\ ret[t].status = "Received"
      <4>1. ret[t] # None /\ ret[t] \in ReturnOrders /\ to \in ReturnTransitions[ret[t].status]
        BY <1>4 DEF ReturnRead, TypeOK
      <4>2. QED
        BY <2>3, <4>1, TransitionFacts DEF ReturnOrders
    <3>2. \A p \in Products \ left : restocked[t][p] >= ret[t].items[p]
      <4>1. \A p \in Products : ret[t].items[p] \in Nat /\ restocked[t][p] \in Nat
        BY <1>b, <3>1 DEF ReturnOrders
      <4>2. QED
        BY <2>3, <4>1
    <3>3. q.ret = t /\ q.items = ret[t].items /\ q.left = left
      OBVIOUS
    <3> HIDE DEF q, left
    <3>4. \A s \in Requests : req'[s] = req[s] \/ req'[s] = q
      BY <2>1 DEF Open, TypeOK
    <3>5. InspectionsAgree'
      BY <2>1, <3>1, <3>2, <3>3, <3>4 DEF InspectionsAgree
    <3>6. QED
      BY <2>1, <3>5 DEF Untouched, GoodsFollowReturn
  <2>4. QED
    BY <2>2, <2>3
<1>5. ASSUME NEW r \in Requests, NEW p \in Products, Restock(r, p) PROVE GoodsInv'
  <2> DEFINE t == req[r].ret
  <2>1. Inspects(req[r])
    BY <1>5 DEF Restock, RequestsAllowed, Allowed
  <2>2. /\ req[r] \in ReturnReq /\ t \in Returns /\ ret[t] # None
        /\ req[r].items \in [Products -> Nat]
    BY <1>a, <2>1
  <2>3. /\ restocked'[t][p] = restocked[t][p] + req[r].items[p]
        /\ \A x \in Products : x # p => restocked'[t][x] = restocked[t][x]
        /\ \A u \in Returns : u # t => restocked'[u] = restocked[u]
    BY <1>5, <2>2 DEF Restock, TypeOK
  <2>4. \A u \in Returns, x \in Products : restocked'[u][x] >= restocked[u][x]
    BY <1>b, <2>2, <2>3
  <2>5. UNCHANGED <<ret, stale>>
    BY <1>5 DEF Restock
  <2>6. Untouched'
    BY <2>2, <2>3, <2>5 DEF Untouched
  <2>7. InspectionsAgree'
    <3> SUFFICES ASSUME ~stale, NEW s \in Requests, Inspects(req'[s])
                 PROVE  /\ ret[req'[s].ret].status \in Home
                        /\ ret[req'[s].ret].items = req'[s].items
                        /\ \A x \in Products \ req'[s].left :
                              restocked'[req'[s].ret][x] >= req'[s].items[x]
      BY <2>5 DEF InspectionsAgree
    <3>1. CASE s = r
      <4>1. /\ req'[r].ret = t /\ req'[r].items = req[r].items
            /\ req'[r].left = req[r].left \ {p}
        BY <1>5, <2>2 DEF Restock, TypeOK, ReturnReq
      <4>2. /\ ret[t].status \in Home /\ ret[t].items = req[r].items
            /\ \A x \in Products \ req[r].left : restocked[t][x] >= req[r].items[x]
        BY <2>1 DEF InspectionsAgree
      <4>3. ASSUME NEW x \in Products, x \notin req[r].left \ {p}
            PROVE  restocked'[t][x] >= req[r].items[x]
        <5>1. /\ restocked[t][x] \in Nat /\ restocked'[t][x] >= restocked[t][x]
              /\ req[r].items[x] \in Nat
          BY <1>b, <2>2, <2>4
        <5>2. CASE x = p
          BY <2>3, <5>1, <5>2
        <5>3. CASE x # p
          BY <2>3, <4>2, <4>3, <5>3
        <5>4. QED
          BY <5>2, <5>3
      <4>4. QED
        BY <3>1, <4>1, <4>2, <4>3
    <3>2. CASE s # r
      <4>1. req'[s] = req[s]
        BY <1>5, <3>2 DEF Restock, TypeOK
      <4>2. /\ ret[req[s].ret].status \in Home /\ ret[req[s].ret].items = req[s].items
            /\ \A x \in Products \ req[s].left : restocked[req[s].ret][x] >= req[s].items[x]
        BY <4>1 DEF InspectionsAgree
      <4>3. req[s].ret \in Returns /\ req[s].items \in [Products -> Nat]
        BY <1>a, <4>1
      <4>4. ASSUME NEW x \in Products, x \notin req[s].left
            PROVE  restocked'[req[s].ret][x] >= req[s].items[x]
        <5>1. restocked[req[s].ret][x] >= req[s].items[x]
          BY <4>2, <4>4
        <5>2. restocked'[req[s].ret][x] = restocked[req[s].ret][x]
                \/ (req[s].ret = t /\ x = p)
          <6>1. CASE req[s].ret = t
            BY <2>3, <4>4, <6>1
          <6>2. CASE req[s].ret # t
            BY <2>3, <4>3, <6>2
          <6>3. QED
            BY <6>1, <6>2
        <5>3. /\ restocked[req[s].ret][x] \in Nat /\ req[s].items[x] \in Nat
              /\ req[r].items[p] \in Nat
          BY <1>b, <2>2, <4>3
        <5>4. QED
          BY <2>3, <5>1, <5>2, <5>3
      <4>5. QED
        BY <4>1, <4>2, <4>4
    <3>3. QED
      BY <3>1, <3>2
  <2>8. GoodsFollowReturn'
    <3> SUFFICES ASSUME ~stale, NEW u \in Returns, ret[u] # None
                 PROVE  /\ ret[u].status \in {"Inspected", "Closed"} =>
                              \A x \in Products : restocked'[u][x] >= ret[u].items[x]
                        /\ ret[u].status \notin Home => \A x \in Products : restocked'[u][x] = 0
      BY <2>5 DEF GoodsFollowReturn
    <3>1. ASSUME ret[u].status \in {"Inspected", "Closed"}, NEW x \in Products
          PROVE  restocked'[u][x] >= ret[u].items[x]
      <4>1. restocked[u][x] >= ret[u].items[x] /\ ret[u] \in ReturnOrders
        BY <3>1 DEF GoodsFollowReturn, TypeOK
      <4>2. ret[u].items[x] \in Nat /\ restocked[u][x] \in Nat /\ req[r].items[p] \in Nat
        BY <1>b, <2>2, <4>1 DEF ReturnOrders
      <4>3. restocked'[u][x] = restocked[u][x] \/ (u = t /\ x = p)
        <5>1. CASE u = t
          BY <2>3, <5>1
        <5>2. CASE u # t
          BY <2>3, <5>2
        <5>3. QED
          BY <5>1, <5>2
      <4>4. QED
        BY <2>3, <4>1, <4>2, <4>3
    <3>2. ASSUME ret[u].status \notin Home PROVE \A x \in Products : restocked'[u][x] = 0
      <4>1. u # t
        BY <2>1, <3>2 DEF InspectionsAgree
      <4>2. QED
        BY <2>3, <3>2, <4>1 DEF GoodsFollowReturn
    <3>3. QED
      BY <3>1, <3>2
  <2>9. QED
    BY <2>6, <2>7, <2>8
<1>6. ASSUME NEW r \in Requests, ReturnSave(r) \/ EditWrite(r) \/ RemoveWrite(r) PROVE GoodsInv'
  <2> DEFINE t == req[r].ret
  <2>1. t \in Returns /\ ret[t] \in ReturnOrders
    BY <1>6, ReturnWritten
  <2>2. PICK x \in ReturnOrders :
           /\ ret' = [ret EXCEPT ![t] = x]
           /\ EditWrite(r) => x.status = ret[t].status
           /\ ReturnSave(r) => /\ x.items = ret[t].items
                               /\ ret[t].status # "Deleted" => x.status = req[r].to
           /\ RemoveWrite(r) => x.status = "Deleted"
    BY <1>6, ReturnWritten
  <2>3. /\ ret'[t] = x /\ \A u \in Returns : u # t => ret'[u] = ret[u]
        /\ x # None /\ ret[t] # None
    BY <2>1, <2>2, NoneAssumption DEF TypeOK
  <2>4. UNCHANGED restocked /\ Done(r)
    BY <1>6 DEF ReturnSave, EditWrite, RemoveWrite
  <2>5. ~stale' => ~stale /\ req[r].was = ret[t].status
    BY <1>6 DEF ReturnSave, EditWrite, RemoveWrite, Save
  <2>6. Untouched'
    BY <2>3, <2>4 DEF Untouched
  <2>7. ret[t].status \in ReturnStatuses
    BY <2>1 DEF ReturnOrders
  <2>8. ASSUME ~stale', ReturnSave(r)
        PROVE  /\ x.status \in ReturnTransitions[ret[t].status] /\ x.status = req[r].to
               /\ x.items = ret[t].items
    <3>1. req[r].to \in ReturnTransitions[ret[t].status]
      BY <2>5, <2>8 DEF ReturnSave, RequestsAllowed, Allowed
    <3>2. ret[t].status # "Deleted"
      BY <2>7, <3>1, TransitionFacts
    <3>3. QED
      BY <2>2, <2>8, <3>1, <3>2
  <2>9. ASSUME ~stale', EditWrite(r) \/ RemoveWrite(r)
        PROVE  ret[t].status \notin Home /\ x.status \notin Home
    <3>1. req[r].was \notin Home
      BY <2>9 DEF EditWrite, RemoveWrite, RequestsAllowed, Allowed
    <3>2. QED
      BY <2>2, <2>5, <2>9, <3>1
  <2>10. InspectionsAgree'
    <3> SUFFICES ASSUME ~stale', NEW s \in Requests, Inspects(req'[s])
                 PROVE  /\ ret'[req'[s].ret].status \in Home
                        /\ ret'[req'[s].ret].items = req'[s].items
                        /\ \A y \in Products \ req'[s].left :
                              restocked'[req'[s].ret][y] >= req'[s].items[y]
      BY DEF InspectionsAgree
    <3>1. req'[s] = req[s]
      BY <2>4, DoneKeeps
    <3>2. /\ ret[req[s].ret].status \in Home /\ ret[req[s].ret].items = req[s].items
          /\ \A y \in Products \ req[s].left : restocked[req[s].ret][y] >= req[s].items[y]
      BY <2>5, <3>1 DEF InspectionsAgree
    <3>3. req[s].ret \in Returns
      BY <1>a, <3>1
    <3>4. CASE req[s].ret # t
      BY <2>3, <2>4, <3>1, <3>2, <3>3, <3>4
    <3>5. CASE req[s].ret = t
      <4>1. ReturnSave(r)
        BY <1>6, <2>9, <3>2, <3>5
      <4>2. x.items = ret[t].items /\ x.status \in {"Inspected", "Closed"}
        BY <2>7, <2>8, <3>2, <3>5, <4>1, TransitionFacts
      <4>3. QED
        BY <2>3, <2>4, <3>1, <3>2, <3>5, <4>2
    <3>6. QED
      BY <3>4, <3>5
  <2>11. GoodsFollowReturn'
    <3> SUFFICES ASSUME ~stale'
                 PROVE  /\ x.status \in {"Inspected", "Closed"} =>
                              \A y \in Products : restocked[t][y] >= x.items[y]
                        /\ x.status \notin Home => \A y \in Products : restocked[t][y] = 0
      BY <2>3, <2>4, <2>5 DEF GoodsFollowReturn
    <3>1. CASE EditWrite(r) \/ RemoveWrite(r)
      BY <2>1, <2>3, <2>5, <2>9, <3>1 DEF GoodsFollowReturn
    <3>2. CASE ReturnSave(r)
      <4>1. CASE x.status = "Inspected"
        <5>1. /\ Inspects(req[r]) /\ req[r].left = {}
          BY <2>8, <3>2, <4>1 DEF ReturnSave
        <5>2. /\ ret[t].items = req[r].items
              /\ \A y \in Products : restocked[t][y] >= req[r].items[y]
          BY <2>5, <5>1 DEF InspectionsAgree
        <5>3. QED
          BY <2>8, <3>2, <4>1, <5>2
      <4>2. CASE x.status = "Closed"
        <5>1. ret[t].status = "Inspected" /\ x.items = ret[t].items
          BY <2>7, <2>8, <3>2, <4>2, TransitionFacts
        <5>2. QED
          BY <2>3, <2>5, <4>2, <5>1, <2>1 DEF GoodsFollowReturn
      <4>3. CASE x.status \notin Home
        <5>1. ret[t].status \notin Home
          BY <2>7, <2>8, <3>2, <4>3, TransitionFacts
        <5>2. QED
          BY <2>1, <2>3, <2>5, <4>3, <5>1 DEF GoodsFollowReturn
      <4>4. QED
        BY <4>1, <4>2, <4>3
    <3>3. QED
      BY <1>6, <3>1, <3>2
  <2>12. QED
    BY <2>6, <2>10, <2>11
<1>7. ASSUME UNCHANGED <<restocked, stale>>, \A s \in Requests : Inspects(req'[s]) => req'[s] = req[s],
             NEW t \in Returns, NEW x \in ReturnOrders, ret[t] = None,
             ret' = [ret EXCEPT ![t] = x], x.status \in {"Draft", "Submitted"}
      PROVE  GoodsInv'
  <2>1. ret'[t] = x /\ x # None /\ \A u \in Returns : u # t => ret'[u] = ret[u]
    BY <1>7, NoneAssumption DEF TypeOK
  <2>2. \A p \in Products : restocked[t][p] = 0
    BY <1>7 DEF Untouched
  <2>3. ASSUME NEW s \in Requests, Inspects(req'[s])
        PROVE  req'[s] = req[s] /\ ret'[req[s].ret] = ret[req[s].ret]
    BY <1>7, <1>a, <2>1, <2>3
  <2>4. InspectionsAgree'
    BY <1>7, <2>3 DEF InspectionsAgree
  <2>5. Untouched' /\ GoodsFollowReturn'
    BY <1>7, <2>1, <2>2 DEF Untouched, GoodsFollowReturn
  <2>6. QED
    BY <2>4, <2>5
<1>8. ASSUME NEW t \in Returns, CreateReturn(t) PROVE GoodsInv'
  <2>1. PICK s \in {"Draft", "Submitted"}, items \in Contents, priced \in BOOLEAN :
           ret' = [ret EXCEPT ![t] = [opened |-> None, status |-> s,
                                      items |-> items, priced |-> priced]]
    BY <1>8 DEF CreateReturn
  <2> DEFINE x == [opened |-> None, status |-> s, items |-> items, priced |-> priced]
  <2>2. x \in ReturnOrders /\ x.status \in {"Draft", "Submitted"}
    BY DeliveryAssumption DEF ReturnOrders, ReturnStatuses
  <2>3. ret[t] = None /\ ret' = [ret EXCEPT ![t] = x] /\ UNCHANGED <<restocked, req, stale>>
    BY <1>8, <2>1 DEF CreateReturn
  <2> HIDE DEF x
  <2>4. QED
    BY <1>7, <2>2, <2>3
<1>9. ASSUME NEW r \in Requests, Confirm(r) PROVE GoodsInv'
  <2>1. Done(r) /\ UNCHANGED <<restocked, stale>>
    BY <1>9 DEF Confirm
  <2>2. CASE UNCHANGED ret
    BY <1>2, <2>1, <2>2
  <2>3. CASE \E d \in Records, t \in Returns, items \in [Products -> Nat] :
                /\ rec[d].order \in Orders /\ ret[t] = None
                /\ ret' = [ret EXCEPT ![t] =
                      [opened |-> rec[d].order, status |-> "Submitted",
                       items |-> items, priced |-> FALSE]]
    <3>1. PICK d \in Records, t \in Returns, items \in [Products -> Nat] :
                /\ rec[d].order \in Orders /\ ret[t] = None
                /\ ret' = [ret EXCEPT ![t] =
                      [opened |-> rec[d].order, status |-> "Submitted",
                       items |-> items, priced |-> FALSE]]
      BY <2>3
    <3> DEFINE x == [opened |-> rec[d].order, status |-> "Submitted",
                     items |-> items, priced |-> FALSE]
    <3>2. x \in ReturnOrders /\ x.status \in {"Draft", "Submitted"}
      BY <3>1 DEF ReturnOrders, ReturnStatuses
    <3>3. ret' = [ret EXCEPT ![t] = x]
      BY <3>1
    <3>4. \A s \in Requests : Inspects(req'[s]) => req'[s] = req[s]
      BY <2>1, DoneKeeps
    <3> HIDE DEF x
    <3>5. QED
      BY <1>7, <2>1, <3>1, <3>2, <3>3, <3>4
  <2>4. QED
    <3>1. CASE Confirmable(rec[req[r].rec].order, req[r].rec)
      BY <1>9, <2>2, <2>3, <3>1, ConfirmWrites
    <3>2. QED
      BY <1>9, <2>2, <3>1 DEF Confirm
<1>10. ASSUME NEW r \in Requests, DispatchLook(r) \/ DispatchDeduct(r) PROVE GoodsInv'
  <2>1. req[r] \in DispatchReq
    BY <1>10, KindOfRequest DEF DispatchLook, DispatchDeduct, TypeOK
  <2>2. UNCHANGED <<ret, restocked, stale>>
    BY <1>10 DEF DispatchLook, DispatchDeduct
  <2>3. CASE \E ph : req' = [req EXCEPT ![r].phase = ph]
    <3>1. \A s \in Requests : req'[s] = req[s] \/ req'[s].op = "dispatch"
      BY <2>1, <2>3 DEF TypeOK, DispatchReq
    <3>2. \A s \in Requests : Inspects(req'[s]) => req'[s] = req[s]
      BY <3>1
    <3>3. QED
      BY <1>1, <2>2, <3>2
  <2>4. QED
    BY <1>2, <1>10, <2>2, <2>3 DEF DispatchLook, DispatchDeduct
<1>11. ASSUME NEW r \in Requests, Handle(r) PROVE GoodsInv'
  <2>1. CASE \E o \in Orders : DispatchFind(r, o) \/ \E to \in Saved : StatusRead(r, o, to)
    <3>1. CASE \E o \in Orders : DispatchFind(r, o)
      BY <1>3, <3>1 DEF DispatchFind
    <3>2. CASE \E o \in Orders, to \in Saved : StatusRead(r, o, to)
      BY <1>3, <3>2 DEF StatusRead
    <3>3. QED
      BY <2>1, <3>1, <3>2
  <2>2. CASE \E d \in Records : ConfirmRead(r, d)
    BY <1>3, <2>2 DEF ConfirmRead
  <2>3. CASE \E t \in Returns : EditRead(r, t) \/ RemoveRead(r, t)
    BY <1>3, <2>3 DEF EditRead, RemoveRead
  <2>4. CASE DispatchSave(r) \/ StatusWrite(r) \/ Interrupt(r)
    <3>1. Done(r) /\ UNCHANGED <<ret, restocked>>
      BY <2>4 DEF DispatchSave, StatusWrite, Interrupt
    <3>2. stale => stale'
      BY <2>4 DEF DispatchSave, StatusWrite, Interrupt, Save
    <3>3. QED
      BY <1>2, <3>1, <3>2
  <2>5. QED
    BY <1>4, <1>5, <1>6, <1>9, <1>10, <1>11, <2>1, <2>2, <2>3, <2>4 DEF Handle
<1>12. CASE UNCHANGED vars \/ \E o \in Orders : Moves(o)
  BY <1>1, <1>12 DEF vars, Moves, Approve, RejectOrder, CancelOrder, DirectDispatch
<1>13. QED
  BY <1>8, <1>11, <1>12 DEF Next, Moves

\* A return is inspected only once all its items are back in stock, and none
\* is before it was received, whatever fails in between: until some save
\* replaces a status its request never read.
THEOREM GoodsBack == Spec => []GoodsFollowReturn
<1>1. Init => RequestsAllowed /\ GoodsInv
  BY DEF Init, Idle, RequestsAllowed, Allowed, GoodsInv, Untouched, InspectionsAgree,
         GoodsFollowReturn
<1>2. TypeOK /\ RequestsAllowed /\ [Next]_vars => RequestsAllowed'
  BY RequestsStayAllowed
<1>3. TypeOK /\ RequestsExist /\ RequestsAllowed /\ GoodsInv /\ [Next]_vars => GoodsInv'
  BY GoodsStep
<1>4. GoodsInv => GoodsFollowReturn
  BY DEF GoodsInv
<1>5. QED
  BY <1>1, <1>2, <1>3, <1>4, TypeCorrect, PTL DEF Spec

-----------------------------------------------------------------------------
(* The life of an order, and that of a return.                             *)

\* Orders that keep their status keep their phase, and one that changes it
\* moves alone.
LEMMA OneOrderMoves ==
  ASSUME TypeOK, NEW o \in Orders, NEW s \in Statuses, order' = [order EXCEPT ![o] = s]
  PROVE  /\ s = "Approved" => phase' = [phase EXCEPT ![o] = "accepted"]
         /\ s = "Dispatched" => phase' = [phase EXCEPT ![o] = "shipped"]
         /\ s \in Finished \cup {"Cancelled", "Rejected"} => phase' = [phase EXCEPT ![o] = s]
         /\ order[o] = "Unapproved" => phase[o] = "open"
         /\ order[o] = "Approved" => phase[o] = "accepted"
         /\ order[o] = "Dispatched" => phase[o] = "shipped"
<1>1. \A x \in Orders \ {o} : order'[x] = order[x]
  BY DEF TypeOK
<1>2. order'[o] = s
  BY DEF TypeOK
<1>3. ASSUME NEW v, s = "Approved" => v = "accepted", s = "Dispatched" => v = "shipped",
             s \in Finished \cup {"Cancelled", "Rejected"} => v = s,
             s \in Finished \cup {"Cancelled", "Rejected", "Approved", "Dispatched"}
      PROVE  phase' = [phase EXCEPT ![o] = v]
  BY <1>1, <1>2, <1>3 DEF phase, Finished
<1>4. s = "Approved" => phase' = [phase EXCEPT ![o] = "accepted"]
  BY <1>3 DEF Finished
<1>5. s = "Dispatched" => phase' = [phase EXCEPT ![o] = "shipped"]
  BY <1>3 DEF Finished
<1>6. s \in Finished \cup {"Cancelled", "Rejected"} => phase' = [phase EXCEPT ![o] = s]
  BY <1>3 DEF Finished
<1>7. QED
  BY <1>4, <1>5, <1>6 DEF phase

LEMMA LifeStep ==
  ASSUME TypeOK, RequestsExist, RequestsAllowed, [Next]_vars, ~stale'
  PROVE  ~stale /\ (Life!Next \/ UNCHANGED phase)
<1>0. ~stale
  BY OrdersSettle
<1>1. ASSUME UNCHANGED order PROVE UNCHANGED phase
  BY <1>1 DEF phase
<1>2. ASSUME NEW o \in Orders, order[o] = "Approved", order' = [order EXCEPT ![o] = "Dispatched"]
      PROVE  Life!Next
  <2>1. phase[o] = "accepted" /\ phase' = [phase EXCEPT ![o] = "shipped"]
    BY <1>2, OneOrderMoves DEF Statuses, Shipped
  <2>2. QED
    BY <2>1 DEF Life!Next, Life!Ship, Life!Goes
<1>3. ASSUME NEW o \in Orders, NEW to \in Finished, order[o] = "Dispatched",
             order' = [order EXCEPT ![o] = to]
      PROVE  Life!Next
  <2>1. phase[o] = "shipped" /\ phase' = [phase EXCEPT ![o] = to]
    BY <1>3, OneOrderMoves DEF Statuses, Shipped
  <2>2. to \in Life!Arrivals
    BY DEF Finished, Life!Arrivals
  <2>3. QED
    BY <2>1, <2>2 DEF Life!Next, Life!Arrive, Life!Goes
<1>4. ASSUME NEW o \in Orders, NEW end \in {"Rejected", "Cancelled"},
             order[o] \in {"Unapproved", "Approved"}, order' = [order EXCEPT ![o] = end]
      PROVE  Life!Next
  <2>1. phase[o] \in {"open", "accepted"} /\ phase' = [phase EXCEPT ![o] = end]
    BY <1>4, OneOrderMoves DEF Statuses
  <2>2. QED
    BY <2>1 DEF Life!Next, Life!Close, Life!Closings, Life!Goes
<1>a. ASSUME NEW o \in Orders, Approve(o) PROVE Life!Next
  <2>1. phase[o] = "open" /\ phase' = [phase EXCEPT ![o] = "accepted"]
    BY <1>a, OneOrderMoves DEF Approve, Statuses
  <2>2. QED
    BY <2>1 DEF Life!Next, Life!Accept, Life!Goes
<1>b. ASSUME NEW o \in Orders, RejectOrder(o) \/ CancelOrder(o) PROVE Life!Next
  BY <1>4, <1>b DEF RejectOrder, CancelOrder
<1>5. ASSUME NEW r \in Requests, DispatchDeduct(r) PROVE Life!Next \/ UNCHANGED phase
  <2>1. req[r].order \in Orders
    BY <1>5, KindOfRequest DEF DispatchDeduct, DispatchReq, TypeOK
  <2>2. QED
    BY <1>1, <1>2, <1>5, <2>1 DEF DispatchDeduct
<1>6. ASSUME NEW r \in Requests, Confirm(r) PROVE Life!Next \/ UNCHANGED phase
  <2>1. CASE Confirmable(rec[req[r].rec].order, req[r].rec)
    <3>1. PICK d \in Records, to \in Finished :
             /\ rec[d].order \in Orders /\ order[rec[d].order] = "Dispatched"
             /\ order' = [order EXCEPT ![rec[d].order] = to]
      BY <1>6, <2>1, ConfirmWrites
    <3>2. QED
      BY <1>3, <3>1
  <2>2. CASE UNCHANGED order
    BY <1>1, <2>2
  <2>3. QED
    BY <1>6, <2>1, <2>2 DEF Confirm
<1>7. ASSUME NEW r \in Requests, StatusWrite(r) PROVE Life!Next \/ UNCHANGED phase
  <2> DEFINE o == req[r].order
  <2>1. req[r] \in StatusReq /\ Allowed(req[r])
    BY <1>7, KindOfRequest DEF StatusWrite, TypeOK, RequestsAllowed
  <2>2. /\ o \in Orders /\ order[o] = req[r].was /\ order' = [order EXCEPT ![o] = req[r].to]
        /\ req[r].op = "status"
    BY <1>7, <2>1 DEF StatusWrite, Save, StatusReq
  <2>3. CASE req[r].was = "Dispatched" /\ req[r].to \in Finished
    BY <1>3, <2>2, <2>3
  <2>4. CASE req[r].was = "Unapproved" /\ req[r].to = "Unapproved"
    <3>1. UNCHANGED order
      BY <2>2, <2>4 DEF TypeOK
    <3>2. QED
      BY <1>1, <3>1
  <2>5. CASE req[r].was = "Unapproved" /\ req[r].to = "Cancelled"
    BY <1>4, <2>2, <2>5
  <2>6. QED
    BY <2>1, <2>2, <2>3, <2>4, <2>5 DEF Allowed
<1>8. QED
  <2>1. \/ UNCHANGED order
        \/ \E r \in Requests : DispatchDeduct(r) \/ Confirm(r) \/ StatusWrite(r)
        \/ \E o \in Orders : Moves(o)
    BY DEF Next, Handle, vars, Moves, DispatchFind, DispatchLook, DispatchSave, ConfirmRead, StatusRead,
           CreateReturn, ReturnRead, Restock, ReturnSave, EditRead, EditWrite, RemoveRead,
           RemoveWrite, Interrupt
  <2>2. ASSUME NEW o \in Orders, DirectDispatch(o) PROVE Life!Next
    BY <1>2, <2>2 DEF DirectDispatch
  <2>3. QED
    BY <1>0, <1>1, <1>a, <1>b, <1>5, <1>6, <1>7, <2>1, <2>2 DEF Moves

\* What approval, dispatch, confirmation, cancellation and bare status changes
\* do to an order is one life from its entry on, until a save replaces a status
\* its request never read.
THEOREM LifeImplemented == Spec => ImplementsOrderLife
<1>1. Init => Life!Init
  BY DEF Init, phase, Life!Init
<1>2. TypeOK /\ RequestsExist /\ RequestsAllowed /\ [Next]_vars
        => [(~stale)' => ~stale /\ Life!Next]_<<phase, ~stale>>
  <2> SUFFICES ASSUME TypeOK, RequestsExist, RequestsAllowed, [Next]_vars
               PROVE  [(~stale)' => ~stale /\ Life!Next]_<<phase, ~stale>>
    OBVIOUS
  <2>1. CASE stale'
    BY <2>1
  <2>2. CASE ~stale'
    BY <2>2, LifeStep
  <2>3. QED
    BY <2>1, <2>2
<1>3. Init => RequestsAllowed
  BY DEF Init, Idle, RequestsAllowed, Allowed
<1>4. TypeOK /\ RequestsAllowed /\ [Next]_vars => RequestsAllowed'
  BY RequestsStayAllowed
<1>5. QED
  BY <1>1, <1>2, <1>3, <1>4, TypeCorrect, PTL DEF Spec, ImplementsOrderLife, Life!Spec

LEMMA ReturnsStep ==
  ASSUME TypeOK, RequestsExist, RequestsAllowed, [Next]_vars, ~stale',
         NEW t \in Returns, ret[t] # None
  PROVE  /\ ret'[t] # None
         /\ \/ ret'[t].status = ret[t].status
            \/ ret'[t].status \in ReturnTransitions[ret[t].status]
            \/ /\ ret'[t].status = "Deleted"
               /\ ret[t].status \notin {"Approved", "Received", "Inspected", "Closed"}
         /\ ret'[t].items = ret[t].items \/ ret[t].status \in {"Draft", "Submitted"}
<1>1. CASE ret'[t] = ret[t]
  BY <1>1
<1>2. ASSUME NEW r \in Requests, ReturnSave(r) \/ EditWrite(r) \/ RemoveWrite(r),
             ret'[t] # ret[t]
      PROVE  /\ ret'[t] # None
             /\ \/ ret'[t].status = ret[t].status
                \/ ret'[t].status \in ReturnTransitions[ret[t].status]
                \/ /\ ret'[t].status = "Deleted"
                   /\ ret[t].status \notin {"Approved", "Received", "Inspected", "Closed"}
             /\ ret'[t].items = ret[t].items \/ ret[t].status \in {"Draft", "Submitted"}
  <2>1. PICK x \in ReturnOrders :
           /\ ret' = [ret EXCEPT ![req[r].ret] = x]
           /\ EditWrite(r) => x.status = ret[req[r].ret].status
           /\ ReturnSave(r) =>
                 /\ x.items = ret[req[r].ret].items
                 /\ ret[req[r].ret].status # "Deleted" => x.status = req[r].to
           /\ RemoveWrite(r) => x.status = "Deleted"
    BY <1>2, ReturnWritten
  <2>2. req[r].ret = t /\ ret'[t] = x /\ x # None
    BY <1>2, <2>1, NoneAssumption DEF TypeOK
  <2>3. Save(req[r].was, ret[t].status)
    BY <1>2, <2>2 DEF ReturnSave, EditWrite, RemoveWrite
  <2>4. req[r].was = ret[t].status
    BY <2>3 DEF Save
  <2>5. Allowed(req[r])
    BY DEF RequestsAllowed
  <2>6. CASE ReturnSave(r)
    <3>1. req[r].op = "return" /\ req[r].to \in ReturnTransitions[ret[t].status]
      BY <2>4, <2>5, <2>6 DEF ReturnSave, Allowed
    <3>2. ret[t].status # "Deleted"
      <4>1. ret[t].status \in ReturnStatuses
        BY DEF TypeOK, ReturnOrders
      <4>2. QED
        BY <3>1, <4>1, TransitionFacts
    <3>3. QED
      BY <2>1, <2>2, <2>6, <3>1, <3>2
  <2>7. CASE EditWrite(r)
    BY <2>1, <2>2, <2>4, <2>5, <2>7 DEF EditWrite, Allowed
  <2>8. CASE RemoveWrite(r)
    <3>1. /\ req[r].op = "remove"
          /\ ret[t].status \notin {"Approved", "Received", "Inspected", "Closed", "Deleted"}
      BY <2>4, <2>5, <2>8 DEF RemoveWrite, Allowed
    <3>2. x.items = ret[t].items
      BY <2>2, <2>8 DEF RemoveWrite, TypeOK, ReturnOrders
    <3>3. QED
      BY <2>1, <2>2, <2>8, <3>1, <3>2
  <2>9. QED
    BY <1>2, <2>6, <2>7, <2>8
<1>3. ASSUME NEW u \in Returns, CreateReturn(u) PROVE ret'[t] = ret[t]
  BY <1>3 DEF CreateReturn, TypeOK
<1>4. ASSUME NEW r \in Requests, Confirm(r) PROVE ret'[t] = ret[t]
  <2>1. CASE Confirmable(rec[req[r].rec].order, req[r].rec)
    <3>1. \/ UNCHANGED ret
          \/ \E u \in Returns : ret[u] = None /\ \E x : ret' = [ret EXCEPT ![u] = x]
      BY <1>4, <2>1, ConfirmWrites
    <3>2. QED
      BY <3>1 DEF TypeOK
  <2>2. CASE UNCHANGED ret
    BY <2>2
  <2>3. QED
    BY <1>4, <2>1, <2>2 DEF Confirm
<1>5. QED
  <2>1. \/ UNCHANGED ret
        \/ \E r \in Requests : Confirm(r) \/ ReturnSave(r) \/ EditWrite(r) \/ RemoveWrite(r)
        \/ \E u \in Returns : CreateReturn(u)
    BY DEF Next, Handle, vars, DispatchFind, DispatchLook, DispatchDeduct, DispatchSave, ConfirmRead,
           StatusRead, StatusWrite, Moves, Approve, RejectOrder, CancelOrder, DirectDispatch, ReturnRead,
           Restock, EditRead, RemoveRead, Interrupt
  <2>2. QED
    BY <1>1, <1>2, <1>3, <1>4, <2>1

\* Until a save replaces a status its request never read, a return makes only
\* moves updateStatus allows, is deleted only before it is approved, and is
\* edited only before its approval is asked for.
THEOREM ReturnsOnTrack == Spec => ReturnsMoveOn
<1> DEFINE MoveOn == \A t \in Returns : ret[t] # None =>
          /\ ret'[t] # None
          /\ \/ ret'[t].status = ret[t].status
             \/ ret'[t].status \in ReturnTransitions[ret[t].status]
             \/ /\ ret'[t].status = "Deleted"
                /\ ret[t].status \notin {"Approved", "Received", "Inspected", "Closed"}
          /\ ret'[t].items = ret[t].items \/ ret[t].status \in {"Draft", "Submitted"}
<1>1. TypeOK /\ RequestsExist /\ RequestsAllowed /\ [Next]_vars => (~stale' => MoveOn)
  BY ReturnsStep
<1>2. Init => RequestsAllowed
  BY DEF Init, Idle, RequestsAllowed, Allowed
<1>3. TypeOK /\ RequestsAllowed /\ [Next]_vars => RequestsAllowed'
  BY RequestsStayAllowed
<1>4. QED
  BY <1>1, <1>2, <1>3, TypeCorrect, PTL DEF Spec, ReturnsMoveOn
=============================================================================

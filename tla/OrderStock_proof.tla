-------------------------- MODULE OrderStock_proof --------------------------
(***************************************************************************)
(* Type correctness of OrderStock, the accounting of reservations, the     *)
(* conservation of stock, the finality of ended orders, and that it        *)
(* implements Stockroom, for every set of orders, batches and requests.    *)
(***************************************************************************)
EXTENDS OrderStock, FiniteSetTheorems, TLAPS

USE DEF orderVars, batchVars, cleanupVars, history

\* TypeOK holds in every reachable state: quantities stay natural numbers on
\* every path of every handler, clamped or not.
THEOREM TypeCorrect == Spec => []TypeOK
<1>1. Init => TypeOK
  BY OrderStockAssumption DEF Init, TypeOK, Statuses, Allocations, NoAlloc, Lives,
     RequestStates
<1>2. TypeOK /\ [Next]_vars => TypeOK'
  <2> SUFFICES ASSUME TypeOK, [Next]_vars PROVE TypeOK'
    OBVIOUS
  <2> USE OrderStockAssumption DEF TypeOK, Allocations
  <2>1. ASSUME NEW o \in Orders, Create(o) PROVE TypeOK'
    BY <2>1 DEF Create, Statuses
  <2>2. ASSUME NEW o \in Orders, NEW actor \in Actors, Approve(o, actor) PROVE TypeOK'
    <3>1. PICK a \in Allocations : /\ CanReserve(o, a, actor)
                                   /\ Reserve(a)
                                   /\ alloc' = [alloc EXCEPT ![o] = a]
      BY <2>2 DEF Approve
    <3>2. stock' \in [Batches -> Nat] /\ reserved' \in [Batches -> Nat]
      <4>1. ASSUME NEW b \in Batches
            PROVE  stock[b] - a[b] \in Nat /\ reserved[b] + a[b] \in Nat
        <5>1. a[b] \in 0..MaxQty /\ stock[b] \in Nat /\ reserved[b] \in Nat
          OBVIOUS
        <5>2. a[b] <= stock[b]
          BY <3>1, <5>1 DEF CanReserve
        <5>3. QED
          BY <5>1, <5>2
      <4>2. QED
        BY <3>1, <4>1 DEF Reserve
    <3>3. alloc' \in [Orders -> Allocations]
      BY <3>1
    <3>4. status' \in [Orders -> Statuses]
      BY <2>2 DEF Approve, Statuses
    <3>5. QED
      BY <2>2, <3>2, <3>3, <3>4 DEF Approve
  <2>3. ASSUME NEW r \in Requests, NEW o \in Orders, NEW actor \in Actors,
               ApproveShort(r, o, actor)
        PROVE  TypeOK'
    BY <2>3 DEF ApproveShort, RequestStates, HoldReq
  <2>4. ASSUME NEW r \in Requests, HoldWrite(r) PROVE TypeOK'
    <3>1. req[r] \in HoldReq
      BY <2>4 DEF HoldWrite, RequestStates, HoldReq, StatusReq, AdjustReq, Idle
    <3>2. QED
      BY <2>4, <3>1 DEF HoldWrite, Save, RequestStates, HoldReq, Statuses
  <2>5. ASSUME NEW o \in Orders, Dispatch(o) PROVE TypeOK'
    BY <2>5 DEF Dispatch, Deduct, Less, Statuses
  <2>6. ASSUME NEW o \in Orders, NEW to \in Statuses, Close(o, to) PROVE TypeOK'
    <3>1. stock' \in [Batches -> Nat] /\ reserved' \in [Batches -> Nat]
      <4>1. CASE Release(alloc[o])
        <5>1. ASSUME NEW b \in Batches
              PROVE  stock[b] + alloc[o][b] \in Nat /\ Less(reserved[b], alloc[o][b]) \in Nat
          BY DEF Less
        <5>2. QED
          BY <4>1, <5>1 DEF Release
      <4>2. CASE UNCHANGED <<stock, reserved>>
        BY <4>2
      <4>3. QED
        BY <2>6, <4>1, <4>2 DEF Close
    <3>2. QED
      BY <2>6, <3>1 DEF Close
  <2>7. ASSUME NEW r \in Requests, NEW o \in Orders, NEW to \in BareStatuses, StatusRead(r, o, to)
        PROVE  TypeOK'
    BY <2>7 DEF StatusRead, RequestStates, StatusReq
  <2>8. ASSUME NEW r \in Requests, StatusWrite(r) PROVE TypeOK'
    <3>1. req[r] \in StatusReq
      BY <2>8 DEF StatusWrite, RequestStates, HoldReq, StatusReq, AdjustReq, Idle
    <3>2. QED
      BY <2>8, <3>1 DEF StatusWrite, Save, RequestStates, StatusReq, Statuses, BareStatuses
  <2>9. ASSUME NEW r \in Requests, NEW b \in Batches, NEW adj \in Adjustments,
               AdjustRead(r, b, adj)
        PROVE  TypeOK'
    <3>1. [op |-> "adjust", batch |-> b, was |-> stock[b],
           quantity |-> adj.quantity, block |-> adj.block] \in AdjustReq
      BY <2>9 DEF AdjustRead, AdjustReq
    <3>2. QED
      BY <2>9, <3>1 DEF AdjustRead, RequestStates
  <2>10. ASSUME NEW r \in Requests, AdjustWrite(r) PROVE TypeOK'
    <3>1. req[r] \in AdjustReq
      BY <2>10 DEF AdjustWrite, RequestStates, HoldReq, StatusReq, AdjustReq, Idle
    <3>2. \A b \in Batches : Given(req[r].block, blocked[b]) \in BOOLEAN
      BY <3>1 DEF Given, AdjustReq
    <3>3. QED
      BY <2>10, <3>1, <3>2 DEF AdjustWrite, Save, RequestStates, AdjustReq
  <2>11. CASE CleanupFind
    BY <2>11 DEF CleanupFind, NoAlloc, Statuses
  <2>12. ASSUME NEW o \in Orders, CleanupNext(o) PROVE TypeOK'
    BY <2>12 DEF CleanupNext
  <2>13. ASSUME NEW b \in Batches, CleanupRead(b) PROVE TypeOK'
    BY <2>13 DEF CleanupRead
  <2>14. CASE CleanupRelease
    BY <2>14 DEF CleanupRelease, Save, Less
  <2>15. CASE CleanupSave
    BY <2>15 DEF CleanupSave, DropCurrent, Save, NoAlloc, Statuses
  <2>16. CASE CleanupError
    BY <2>16 DEF CleanupError, DropCurrent, NoAlloc, Statuses
  <2>17. ASSUME NEW o \in Orders, Age(o) PROVE TypeOK'
    BY <2>17 DEF Age
  <2>18. ASSUME NEW b \in Batches, Spoil(b) PROVE TypeOK'
    BY <2>18 DEF Spoil, Lives
  <2>19. CASE Restart
    BY <2>19 DEF Restart, RequestStates, NoAlloc, Statuses
  <2>20. CASE UNCHANGED vars
    BY <2>20 DEF vars
  <2>21. QED
    BY <2>1, <2>2, <2>3, <2>4, <2>5, <2>6, <2>7, <2>8, <2>9, <2>10, <2>11, <2>12,
       <2>13, <2>14, <2>15, <2>16, <2>17, <2>18, <2>19, <2>20
       DEF Next, Cleanup, Reject, Cancel, Statuses
<1>3. QED
  BY <1>1, <1>2, PTL DEF Spec

-----------------------------------------------------------------------------
(* HeldUnits as an operator of the values it reads, to compare two states. *)

HeldIn(st, al, b) ==
    {u \in Orders \X (1..MaxQty) : st[u[1]] = "Approved" /\ u[2] <= al[u[1]][b]}

LEMMA HeldIsFinite ==
  ASSUME NEW st, NEW al, NEW b
  PROVE  IsFiniteSet(HeldIn(st, al, b)) /\ Cardinality(HeldIn(st, al, b)) \in Nat
<1>1. IsFiniteSet(Orders \X (1..MaxQty))
  <2>1. IsFiniteSet(Orders) /\ MaxQty \in Int
    BY OrderStockAssumption
  <2>2. IsFiniteSet(1..MaxQty)
    BY <2>1, FS_Interval
  <2>3. QED
    BY <2>1, <2>2, FS_Product
<1>2. HeldIn(st, al, b) \in SUBSET (Orders \X (1..MaxQty))
  BY DEF HeldIn
<1>3. QED
  BY <1>1, <1>2, FS_Subset, FS_CardinalityType

LEMMA UnitsOfOne ==
  ASSUME NEW o, NEW n \in Nat
  PROVE  IsFiniteSet({o} \X (1..n)) /\ Cardinality({o} \X (1..n)) = n
<1>1. IsFiniteSet({o}) /\ Cardinality({o}) = 1
  BY FS_Singleton, Zenon
<1>2. IsFiniteSet(1..n)
  BY FS_Interval
<1>3. Cardinality(1..n) = n
  <2>1. Cardinality(1..n) = IF 1 > n THEN 0 ELSE n - 1 + 1
    BY FS_Interval
  <2>2. QED
    BY <2>1
<1>4. IsFiniteSet({o} \X (1..n))
  BY <1>1, <1>2, FS_Product
<1>5. Cardinality({o} \X (1..n)) = Cardinality({o}) * Cardinality(1..n)
  BY <1>1, <1>2, FS_Product
<1>6. QED
  BY <1>1, <1>3, <1>4, <1>5

\* One order becoming Approved adds as many units as it was allocated.
LEMMA HeldGrows ==
  ASSUME NEW b \in Batches, NEW o \in Orders, NEW st, NEW st2,
         NEW al, NEW al2 \in [Orders -> Allocations],
         st[o] # "Approved", st2[o] = "Approved",
         \A x \in Orders \ {o} : /\ st2[x] = "Approved" <=> st[x] = "Approved"
                                 /\ al2[x] = al[x]
  PROVE  Cardinality(HeldIn(st2, al2, b)) = Cardinality(HeldIn(st, al, b)) + al2[o][b]
<1> DEFINE q == al2[o][b]
           U == {o} \X (1..q)
<1>1. q \in 0..MaxQty /\ q \in Nat /\ MaxQty \in Nat
  BY OrderStockAssumption DEF Allocations
<1>2. IsFiniteSet(U) /\ Cardinality(U) = q
  BY <1>1, UnitsOfOne
<1>3. HeldIn(st2, al2, b) = HeldIn(st, al, b) \cup U
  BY <1>1 DEF HeldIn
<1>4. HeldIn(st, al, b) \cap U = {}
  BY DEF HeldIn
<1>5. Cardinality(HeldIn(st, al, b) \cap U) = 0
  BY <1>4, FS_EmptySet
<1>6. QED
  <2> HIDE DEF U, q
  <2>1. IsFiniteSet(HeldIn(st, al, b)) /\ Cardinality(HeldIn(st, al, b)) \in Nat
    BY HeldIsFinite
  <2>2. Cardinality(HeldIn(st, al, b) \cup U)
          = Cardinality(HeldIn(st, al, b)) + Cardinality(U) - Cardinality(HeldIn(st, al, b) \cap U)
    BY <1>2, <2>1, FS_Union
  <2>3. QED
    BY <1>1, <1>2, <1>3, <1>5, <2>1, <2>2 DEF q

\* As long as the same orders are Approved with the same allocations, the
\* same units are held.
LEMMA HeldSame ==
  ASSUME NEW b, NEW st, NEW st2, NEW al, NEW al2,
         \A x \in Orders : /\ st2[x] = "Approved" <=> st[x] = "Approved"
                           /\ st[x] = "Approved" => al2[x] = al[x]
  PROVE  HeldIn(st2, al2, b) = HeldIn(st, al, b)
BY DEF HeldIn

-----------------------------------------------------------------------------
(* The strengthening, in three layers: what requests will write, what the  *)
(* cleanup holds, the accounting itself.                                   *)

LEMMA RequestsFitInv == Spec => []RequestsFit
<1>1. Init => RequestsFit
  BY DEF Init, RequestsFit, Idle
<1>2. TypeOK /\ RequestsFit /\ [Next]_vars => RequestsFit'
  <2> SUFFICES ASSUME TypeOK, RequestsFit, [Next]_vars PROVE RequestsFit'
    OBVIOUS
  <2> USE DEF RequestsFit, TypeOK
  <2>1. ASSUME NEW r \in Requests, NEW o \in Orders, NEW actor \in Actors,
               ApproveShort(r, o, actor)
        PROVE  RequestsFit'
    BY <2>1 DEF ApproveShort, CanApprove
  <2>2. ASSUME NEW r \in Requests, HoldWrite(r) \/ StatusWrite(r) \/ AdjustWrite(r)
        PROVE  RequestsFit'
    BY <2>2 DEF HoldWrite, StatusWrite, AdjustWrite, Idle
  <2>3. ASSUME NEW r \in Requests, NEW o \in Orders, NEW to \in BareStatuses, StatusRead(r, o, to)
        PROVE  RequestsFit'
    BY <2>3 DEF StatusRead
  <2>4. ASSUME NEW r \in Requests, NEW b \in Batches, NEW adj \in Adjustments,
               AdjustRead(r, b, adj)
        PROVE  RequestsFit'
    BY <2>4 DEF AdjustRead
  <2>5. CASE Restart
    BY <2>5 DEF Restart, Idle
  <2>6. CASE UNCHANGED req
    BY <2>6
  <2>7. QED
    BY <2>1, <2>2, <2>3, <2>4, <2>5, <2>6
       DEF Next, vars, Cleanup, Create, Approve, Dispatch, Reject, Cancel, Close, CleanupFind,
           CleanupNext, CleanupRead, CleanupRelease, CleanupSave, CleanupError, Age, Spoil
<1>3. QED
  BY <1>1, <1>2, TypeCorrect, PTL DEF Spec

LEMMA HeldInvariant == Spec => []HeldInv
<1> USE DEF HeldInv, AllocatedByApproval, CleanupFoundHeld, BeforeApproval
<1>1. Init => HeldInv
  BY DEF Init
<1>2. TypeOK /\ RequestsFit /\ HeldInv /\ [Next]_vars => HeldInv'
  <2> SUFFICES ASSUME TypeOK, RequestsFit, HeldInv, [Next]_vars PROVE HeldInv'
    OBVIOUS
  <2> USE OrderStockAssumption DEF TypeOK
  <2>1. ASSUME NEW o \in Orders, Create(o) PROVE HeldInv'
    BY <2>1 DEF Create
  <2>2. ASSUME NEW o \in Orders, NEW actor \in Actors, Approve(o, actor) PROVE HeldInv'
    BY <2>2 DEF Approve
  <2>3. ASSUME NEW r \in Requests, NEW o \in Orders, NEW actor \in Actors,
               ApproveShort(r, o, actor)
        PROVE  HeldInv'
    BY <2>3 DEF ApproveShort
  <2>4. ASSUME NEW r \in Requests, HoldWrite(r) PROVE HeldInv'
    <3>1. req[r] \in HoldReq /\ req[r].was \in Approvable
      BY <2>4 DEF HoldWrite, RequestsFit, RequestStates, HoldReq, StatusReq, AdjustReq, Idle
    <3>2. QED
      BY <2>4, <3>1 DEF HoldWrite, Save, HoldReq, Approvable
  <2>5. ASSUME NEW o \in Orders, Dispatch(o) PROVE HeldInv'
    BY <2>5 DEF Dispatch
  <2>6. ASSUME NEW o \in Orders, NEW to \in {"Rejected", "Cancelled"}, Close(o, to)
        PROVE  HeldInv'
    BY <2>6 DEF Close
  <2>7. ASSUME NEW r \in Requests, NEW o \in Orders, NEW to \in BareStatuses, StatusRead(r, o, to)
        PROVE  HeldInv'
    BY <2>7 DEF StatusRead
  <2>8. ASSUME NEW r \in Requests, StatusWrite(r) PROVE HeldInv'
    <3>1. req[r] \in StatusReq /\ req[r].to \in ValidTransitions[req[r].was]
      BY <2>8 DEF StatusWrite, RequestsFit, RequestStates, HoldReq, StatusReq, AdjustReq, Idle
    <3>2. req[r].to \in BeforeApproval => req[r].was \in BeforeApproval
      BY <3>1 DEF StatusReq, ValidTransitions, Statuses
    <3>3. QED
      BY <2>8, <3>1, <3>2 DEF StatusWrite, Save, StatusReq
  <2>9. ASSUME NEW r \in Requests, NEW b \in Batches, NEW adj \in Adjustments,
               AdjustRead(r, b, adj)
        PROVE  HeldInv'
    BY <2>9 DEF AdjustRead
  <2>10. ASSUME NEW r \in Requests, AdjustWrite(r) PROVE HeldInv'
    BY <2>10 DEF AdjustWrite, Save
  <2>11. CASE CleanupFind
    BY <2>11 DEF CleanupFind, Expirable
  <2>12. ASSUME NEW o \in Orders, CleanupNext(o) PROVE HeldInv'
    BY <2>12 DEF CleanupNext
  <2>13. ASSUME NEW b \in Batches, CleanupRead(b) PROVE HeldInv'
    BY <2>13 DEF CleanupRead, NoAlloc
  <2>14. CASE CleanupRelease
    BY <2>14 DEF CleanupRelease, Save
  <2>15. CASE CleanupSave
    BY <2>15 DEF CleanupSave, DropCurrent, Save
  <2>16. CASE CleanupError
    BY <2>16 DEF CleanupError, DropCurrent
  <2>17. ASSUME NEW o \in Orders, Age(o) PROVE HeldInv'
    BY <2>17 DEF Age
  <2>18. ASSUME NEW b \in Batches, Spoil(b) PROVE HeldInv'
    BY <2>18 DEF Spoil
  <2>19. CASE Restart
    BY <2>19 DEF Restart
  <2>20. CASE UNCHANGED vars
    BY <2>20 DEF vars
  <2>21. QED
    BY <2>1, <2>2, <2>3, <2>4, <2>5, <2>6, <2>7, <2>8, <2>9, <2>10, <2>11, <2>12,
       <2>13, <2>14, <2>15, <2>16, <2>17, <2>18, <2>19, <2>20
       DEF Next, Cleanup, Reject, Cancel
<1>3. QED
  BY <1>1, <1>2, TypeCorrect, RequestsFitInv, PTL DEF Spec

Books == ReservationAccounting /\ StockConservation

\* A step after which the same orders are Approved, with the same
\* allocations, and no quantity has changed keeps the books.
LEMMA BooksUntouched ==
  ASSUME Books, stale' = 0 => stale = 0,
         stale' = 0 => UNCHANGED <<stock, reserved, shipped, received>>,
         stale' = 0 => \A o \in Orders :
                          /\ status'[o] = "Approved" <=> status[o] = "Approved"
                          /\ status[o] = "Approved" => alloc'[o] = alloc[o]
  PROVE  Books'
<1> SUFFICES ASSUME stale' = 0
             PROVE  \A b \in Batches :
                       /\ reserved'[b] = Cardinality(HeldIn(status', alloc', b))
                       /\ stock'[b] + reserved'[b] + shipped'[b] = received'[b]
  BY DEF Books, ReservationAccounting, StockConservation, HeldUnits, HeldIn
<1> TAKE b \in Batches
<1>1. HeldIn(status', alloc', b) = HeldIn(status, alloc, b)
  BY HeldSame
<1>2. reserved[b] = Cardinality(HeldIn(status, alloc, b))
  BY DEF Books, ReservationAccounting, HeldUnits, HeldIn
<1>3. QED
  BY <1>1, <1>2 DEF Books, StockConservation

\* An order that leaves Approved gives up exactly its allocation, and the
\* counter holds at least that much.
LEMMA LeavesApproved ==
  ASSUME TypeOK, Books, stale = 0, NEW o \in Orders, NEW b \in Batches,
         status[o] = "Approved", NEW s \in Statuses, s # "Approved",
         status' = [status EXCEPT ![o] = s], UNCHANGED alloc
  PROVE  /\ alloc[o][b] <= reserved[b]
         /\ Less(reserved[b], alloc[o][b]) = reserved[b] - alloc[o][b]
         /\ Cardinality(HeldIn(status', alloc', b)) = reserved[b] - alloc[o][b]
<1>1. Cardinality(HeldIn(status, alloc, b))
        = Cardinality(HeldIn(status', alloc', b)) + alloc[o][b]
  <2> DEFINE t == status'
  <2>1. t[o] # "Approved" /\ alloc \in [Orders -> Allocations]
    BY DEF TypeOK
  <2>2. \A x \in Orders \ {o} : status[x] = "Approved" <=> t[x] = "Approved"
    BY DEF TypeOK
  <2>3. Cardinality(HeldIn(status, alloc, b)) = Cardinality(HeldIn(t, alloc, b)) + alloc[o][b]
    <3> HIDE DEF t
    <3>1. QED
      BY <2>1, <2>2, HeldGrows
  <2>4. QED
    BY <2>3
<1>2. Cardinality(HeldIn(status, alloc, b)) = reserved[b]
  BY DEF Books, ReservationAccounting, HeldUnits, HeldIn
<1>3. Cardinality(HeldIn(status', alloc', b)) \in Nat
  BY HeldIsFinite
<1>4. reserved[b] \in Nat /\ alloc[o][b] \in Nat
  BY OrderStockAssumption DEF TypeOK, Allocations
<1>5. QED
  BY <1>1, <1>2, <1>3, <1>4 DEF Less

LEMMA BooksInvariant == Spec => []Books
<1>1. Init => Books
  <2> SUFFICES ASSUME Init, NEW b \in Batches
               PROVE  /\ reserved[b] = Cardinality(HeldUnits(b))
                      /\ stock[b] + reserved[b] + shipped[b] = received[b]
    BY DEF Books, ReservationAccounting, StockConservation
  <2>1. HeldUnits(b) = {}
    BY DEF Init, HeldUnits
  <2>2. QED
    BY <2>1, FS_EmptySet, OrderStockAssumption DEF Init
<1>2. TypeOK /\ RequestsFit /\ HeldInv /\ Books /\ [Next]_vars => Books'
  <2> SUFFICES ASSUME TypeOK, RequestsFit, HeldInv, Books, [Next]_vars PROVE Books'
    OBVIOUS
  <2>1. ASSUME NEW o \in Orders, Create(o) PROVE Books'
    BY <2>1, BooksUntouched DEF Create, TypeOK
  <2>2. ASSUME NEW o \in Orders, NEW actor \in Actors, Approve(o, actor) PROVE Books'
    <3> SUFFICES ASSUME stale' = 0, NEW b \in Batches
                 PROVE  /\ reserved'[b] = Cardinality(HeldIn(status', alloc', b))
                        /\ stock'[b] + reserved'[b] + shipped'[b] = received'[b]
      BY DEF Books, ReservationAccounting, StockConservation, HeldUnits, HeldIn
    <3>1. PICK a \in Allocations : /\ CanReserve(o, a, actor)
                                   /\ Reserve(a)
                                   /\ alloc' = [alloc EXCEPT ![o] = a]
      BY <2>2 DEF Approve
    <3>2. status[o] # "Approved"
      BY <2>2 DEF Approve, CanApprove, Approvable
    <3>3. Cardinality(HeldIn(status', alloc', b))
            = Cardinality(HeldIn(status, alloc, b)) + alloc'[o][b]
      <4>1. alloc' \in [Orders -> Allocations]
        BY <3>1 DEF TypeOK
      <4>2. status'[o] = "Approved"
        BY <2>2 DEF Approve, TypeOK
      <4>3. \A x \in Orders \ {o} : /\ status'[x] = "Approved" <=> status[x] = "Approved"
                                    /\ alloc'[x] = alloc[x]
        BY <2>2, <3>1 DEF Approve, TypeOK
      <4>4. QED
        BY <3>2, <4>1, <4>2, <4>3, HeldGrows
    <3>4. Cardinality(HeldIn(status, alloc, b)) = reserved[b]
      BY <2>2 DEF Books, ReservationAccounting, HeldUnits, HeldIn, Approve
    <3>5. alloc'[o][b] = a[b] /\ a[b] \in Nat /\ stock[b] \in Nat /\ reserved[b] \in Nat
          /\ shipped[b] \in Nat
      BY <3>1, OrderStockAssumption DEF TypeOK, Allocations
    <3>6. reserved'[b] = reserved[b] + a[b] /\ stock'[b] = stock[b] - a[b]
      BY <3>1 DEF Reserve
    <3>7. stock[b] + reserved[b] + shipped[b] = received[b] /\ UNCHANGED <<shipped, received>>
      BY <2>2 DEF Books, StockConservation, Approve
    <3>8. QED
      BY <3>3, <3>4, <3>5, <3>6, <3>7
  <2>3. ASSUME NEW r \in Requests, NEW o \in Orders, NEW actor \in Actors,
               ApproveShort(r, o, actor)
        PROVE  Books'
    BY <2>3, BooksUntouched DEF ApproveShort
  <2>4. ASSUME NEW r \in Requests, HoldWrite(r) PROVE Books'
    <3>1. req[r] \in HoldReq /\ req[r].was \in Approvable
      BY <2>4 DEF HoldWrite, RequestsFit, TypeOK, RequestStates, HoldReq, StatusReq,
         AdjustReq, Idle
    <3>2. QED
      BY <2>4, <3>1, BooksUntouched DEF HoldWrite, Save, HoldReq, Approvable, TypeOK
  <2>5. ASSUME NEW o \in Orders, Dispatch(o) PROVE Books'
    <3> SUFFICES ASSUME stale' = 0, NEW b \in Batches
                 PROVE  /\ reserved'[b] = Cardinality(HeldIn(status', alloc', b))
                        /\ stock'[b] + reserved'[b] + shipped'[b] = received'[b]
      BY DEF Books, ReservationAccounting, StockConservation, HeldUnits, HeldIn
    <3>1. /\ Less(reserved[b], alloc[o][b]) = reserved[b] - alloc[o][b]
          /\ Cardinality(HeldIn(status', alloc', b)) = reserved[b] - alloc[o][b]
      BY <2>5, LeavesApproved DEF Dispatch, Statuses
    <3>2. reserved'[b] = reserved[b] - alloc[o][b] /\ shipped'[b] = shipped[b] + alloc[o][b]
          /\ UNCHANGED <<stock, received>>
      BY <2>5, <3>1 DEF Dispatch, Deduct
    <3>3. alloc[o][b] \in Nat /\ stock[b] \in Nat /\ reserved[b] \in Nat /\ shipped[b] \in Nat
      BY OrderStockAssumption DEF TypeOK, Allocations
    <3>4. stock[b] + reserved[b] + shipped[b] = received[b]
      BY <2>5 DEF Books, StockConservation, Dispatch
    <3>5. QED
      BY <3>1, <3>2, <3>3, <3>4
  <2>6. ASSUME NEW o \in Orders, NEW to \in {"Rejected", "Cancelled"}, Close(o, to)
        PROVE  Books'
    <3>1. CASE status[o] # "Approved"
      BY <2>6, <3>1, BooksUntouched DEF Close, TypeOK
    <3>2. CASE status[o] = "Approved"
      <4> SUFFICES ASSUME stale' = 0, NEW b \in Batches
                   PROVE  /\ reserved'[b] = Cardinality(HeldIn(status', alloc', b))
                          /\ stock'[b] + reserved'[b] + shipped'[b] = received'[b]
        BY DEF Books, ReservationAccounting, StockConservation, HeldUnits, HeldIn
      <4>1. /\ Less(reserved[b], alloc[o][b]) = reserved[b] - alloc[o][b]
            /\ Cardinality(HeldIn(status', alloc', b)) = reserved[b] - alloc[o][b]
        BY <2>6, <3>2, LeavesApproved DEF Close, Statuses
      <4>2. reserved'[b] = reserved[b] - alloc[o][b] /\ stock'[b] = stock[b] + alloc[o][b]
            /\ UNCHANGED <<shipped, received>>
        BY <2>6, <3>2, <4>1 DEF Close, Release
      <4>3. alloc[o][b] \in Nat /\ stock[b] \in Nat /\ reserved[b] \in Nat /\ shipped[b] \in Nat
        BY OrderStockAssumption DEF TypeOK, Allocations
      <4>4. stock[b] + reserved[b] + shipped[b] = received[b]
        BY <2>6 DEF Books, StockConservation, Close
      <4>5. QED
        BY <4>1, <4>2, <4>3, <4>4
    <3>3. QED
      BY <3>1, <3>2
  <2>7. ASSUME NEW r \in Requests, NEW o \in Orders, NEW to \in BareStatuses, StatusRead(r, o, to)
        PROVE  Books'
    BY <2>7, BooksUntouched DEF StatusRead
  <2>8. ASSUME NEW r \in Requests, StatusWrite(r) PROVE Books'
    <3>1. req[r] \in StatusReq /\ req[r].to \in ValidTransitions[req[r].was]
      BY <2>8 DEF StatusWrite, RequestsFit, TypeOK, RequestStates, HoldReq, StatusReq,
         AdjustReq, Idle
    <3>2. req[r].to # "Approved" /\ req[r].was # "Approved"
      BY <3>1 DEF StatusReq, ValidTransitions, Statuses, BareStatuses
    <3>3. QED
      BY <2>8, <3>1, <3>2, BooksUntouched DEF StatusWrite, Save, StatusReq, TypeOK
  <2>9. ASSUME NEW r \in Requests, NEW b \in Batches, NEW adj \in Adjustments,
               AdjustRead(r, b, adj)
        PROVE  Books'
    BY <2>9, BooksUntouched DEF AdjustRead
  <2>10. ASSUME NEW r \in Requests, AdjustWrite(r) PROVE Books'
    <3> SUFFICES ASSUME stale' = 0, NEW b \in Batches
                 PROVE  /\ reserved'[b] = Cardinality(HeldIn(status', alloc', b))
                        /\ stock'[b] + reserved'[b] + shipped'[b] = received'[b]
      BY DEF Books, ReservationAccounting, StockConservation, HeldUnits, HeldIn
    <3>1. req[r] \in AdjustReq
      BY <2>10 DEF AdjustWrite, TypeOK, RequestStates, HoldReq, StatusReq, AdjustReq, Idle
    <3>2. stale = 0 /\ stock[req[r].batch] = req[r].was
      BY <2>10, OrderStockAssumption DEF AdjustWrite, Save, TypeOK
    <3>3. reserved[b] = Cardinality(HeldIn(status, alloc, b))
          /\ stock[b] + reserved[b] + shipped[b] = received[b]
      BY <3>2 DEF Books, ReservationAccounting, StockConservation, HeldUnits, HeldIn
    <3>4. UNCHANGED <<status, alloc, reserved, shipped>>
      BY <2>10 DEF AdjustWrite
    <3>5. stock'[b] - stock[b] = received'[b] - received[b]
      BY <2>10, <3>1, <3>2 DEF AdjustWrite, AdjustReq, TypeOK
    <3>6. QED
      <4>1. stock[b] \in Int /\ stock'[b] \in Int /\ received[b] \in Int /\ received'[b] \in Int
            /\ reserved[b] \in Int /\ shipped[b] \in Int
        BY <2>10, <3>1 DEF AdjustWrite, AdjustReq, TypeOK
      <4>2. QED
        BY <3>3, <3>4, <3>5, <4>1
  <2>11. CASE CleanupFind
    BY <2>11, BooksUntouched DEF CleanupFind
  <2>12. ASSUME NEW o \in Orders, CleanupNext(o) PROVE Books'
    BY <2>12, BooksUntouched DEF CleanupNext
  <2>13. ASSUME NEW b \in Batches, CleanupRead(b) PROVE Books'
    BY <2>13, BooksUntouched DEF CleanupRead
  <2>14. CASE CleanupRelease
    <3>1. stale' # 0
      BY <2>14, OrderStockAssumption DEF CleanupRelease, Save, HeldInv, CleanupFoundHeld, TypeOK
    <3>2. QED
      BY <3>1 DEF Books, ReservationAccounting, StockConservation
  <2>15. CASE CleanupSave
    <3>1. cur \in Orders /\ seen[cur] # "Approved"
      BY <2>15 DEF CleanupSave, HeldInv, CleanupFoundHeld, TypeOK, Expirable
    <3>2. QED
      BY <2>15, <3>1, OrderStockAssumption, BooksUntouched DEF CleanupSave, Save, TypeOK
  <2>16. CASE CleanupError
    BY <2>16, BooksUntouched DEF CleanupError
  <2>17. ASSUME NEW o \in Orders, Age(o) PROVE Books'
    BY <2>17, BooksUntouched DEF Age
  <2>18. ASSUME NEW b \in Batches, Spoil(b) PROVE Books'
    BY <2>18, BooksUntouched DEF Spoil
  <2>19. CASE Restart
    BY <2>19, BooksUntouched DEF Restart
  <2>20. CASE UNCHANGED vars
    BY <2>20, BooksUntouched DEF vars
  <2>21. QED
    BY <2>1, <2>2, <2>3, <2>4, <2>5, <2>6, <2>7, <2>8, <2>9, <2>10, <2>11, <2>12,
       <2>13, <2>14, <2>15, <2>16, <2>17, <2>18, <2>19, <2>20
       DEF Next, Cleanup, Reject, Cancel
<1>3. QED
  BY <1>1, <1>2, TypeCorrect, RequestsFitInv, HeldInvariant, PTL DEF Spec

-----------------------------------------------------------------------------
(* The results.                                                            *)

\* Reservations are leaked, or released twice, by no interleaving of the
\* handlers in which no save replaces a value it never read.
THEOREM ReservationsAccounted == Spec => []ReservationAccounting
BY BooksInvariant, PTL DEF Books

\* Likewise no unit of stock is made or lost.
THEOREM StockConserved == Spec => []StockConservation
BY BooksInvariant, PTL DEF Books

\* Approved and Dispatched orders are allocated in full, in every behaviour,
\* stale saves included: only the approval transaction enters Approved.
THEOREM ApprovedFilled == Spec => []ApprovedIsFilled
<1>1. Init => ApprovedIsFilled
  BY DEF Init, ApprovedIsFilled
<1>2. TypeOK /\ ApprovedIsFilled /\ [Next]_vars => ApprovedIsFilled'
  <2> SUFFICES ASSUME TypeOK, ApprovedIsFilled, [Next]_vars PROVE ApprovedIsFilled'
    OBVIOUS
  <2> USE DEF ApprovedIsFilled, TypeOK, Fills
  <2>1. ASSUME NEW o \in Orders, Create(o) PROVE ApprovedIsFilled'
    BY <2>1 DEF Create
  <2>2. ASSUME NEW o \in Orders, NEW actor \in Actors, Approve(o, actor)
        PROVE  ApprovedIsFilled'
    BY <2>2 DEF Approve, CanReserve
  <2>3. ASSUME NEW r \in Requests, HoldWrite(r) PROVE ApprovedIsFilled'
    BY <2>3 DEF HoldWrite
  <2>4. ASSUME NEW o \in Orders, Dispatch(o) PROVE ApprovedIsFilled'
    BY <2>4 DEF Dispatch
  <2>5. ASSUME NEW o \in Orders, NEW to \in {"Rejected", "Cancelled"}, Close(o, to)
        PROVE  ApprovedIsFilled'
    BY <2>5 DEF Close
  <2>6. ASSUME NEW r \in Requests, StatusWrite(r) PROVE ApprovedIsFilled'
    <3>1. req[r].to \in BareStatuses
      BY <2>6 DEF StatusWrite, RequestStates, HoldReq, StatusReq, AdjustReq, Idle
    <3>2. QED
      BY <2>6, <3>1 DEF StatusWrite, BareStatuses
  <2>7. CASE CleanupSave
    BY <2>7 DEF CleanupSave
  <2>8. CASE UNCHANGED <<status, alloc>>
    BY <2>8
  <2>9. QED
    BY <2>1, <2>2, <2>3, <2>4, <2>5, <2>6, <2>7, <2>8
       DEF Next, vars, Cleanup, Reject, Cancel, ApproveShort, StatusRead, AdjustRead,
           AdjustWrite, CleanupFind, CleanupNext, CleanupRead, CleanupRelease, CleanupError,
           Age, Spoil, Restart
<1>3. QED
  BY <1>1, <1>2, TypeCorrect, PTL DEF Spec


-----------------------------------------------------------------------------
\* A delivered, rejected or cancelled order changes no more, except under a
\* save that replaces a status it never read.
THEOREM FinalStays == Spec => FinalIsFinal
<1> DEFINE Stays == \A o \in Orders : status[o] \in Final => status'[o] = status[o]
<1>1. TypeOK /\ RequestsFit /\ HeldInv /\ [Next]_vars => (stale' = 0 => Stays)
  <2> SUFFICES ASSUME TypeOK, RequestsFit, HeldInv, [Next]_vars, stale' = 0 PROVE Stays
    OBVIOUS
  <2> USE DEF Final
  <2>1. CASE UNCHANGED status
    BY <2>1
  <2>2. ASSUME NEW o \in Orders, NEW s, status[o] \notin Final,
               status' = [status EXCEPT ![o] = s]
        PROVE  Stays
    BY <2>2 DEF TypeOK
  <2>3. \A u : Save(u) => u
    BY DEF Save, TypeOK
  <2>4. ASSUME NEW s \in Statuses PROVE ValidTransitions[s] # {} => s \notin Final
    BY <2>4 DEF ValidTransitions, Statuses
  <2>5. ASSUME NEW o \in Orders, Create(o) PROVE Stays
    BY <2>2, <2>5 DEF Create
  <2>6. ASSUME NEW o \in Orders, NEW actor \in Actors, Approve(o, actor) PROVE Stays
    BY <2>2, <2>6 DEF Approve, CanApprove, Approvable
  <2>7. ASSUME NEW o \in Orders, Dispatch(o) PROVE Stays
    BY <2>2, <2>7 DEF Dispatch
  <2>8. ASSUME NEW o \in Orders, Reject(o) \/ Cancel(o) PROVE Stays
    <3>1. PICK to : status' = [status EXCEPT ![o] = to] /\ to \in ValidTransitions[status[o]]
      BY <2>8 DEF Reject, Cancel, Close
    <3>2. QED
      BY <2>2, <2>4, <3>1 DEF TypeOK
  <2>9. ASSUME NEW r \in Requests, HoldWrite(r) PROVE Stays
    <3>1. req[r].order \in Orders /\ req[r].was \in Approvable
      BY <2>9 DEF HoldWrite, RequestsFit, TypeOK, RequestStates, HoldReq, StatusReq, AdjustReq, Idle
    <3>2. status[req[r].order] = req[r].was /\ status' = [status EXCEPT ![req[r].order] = "Hold_Stock"]
      BY <2>3, <2>9 DEF HoldWrite
    <3>3. QED
      BY <2>2, <3>1, <3>2 DEF Approvable
  <2>10. ASSUME NEW r \in Requests, StatusWrite(r) PROVE Stays
    <3>1. /\ req[r].order \in Orders /\ req[r].was \in Statuses
          /\ req[r].to \in ValidTransitions[req[r].was]
      BY <2>10 DEF StatusWrite, RequestsFit, TypeOK, RequestStates, HoldReq, StatusReq, AdjustReq,
                   Idle
    <3>2. /\ status[req[r].order] = req[r].was
          /\ status' = [status EXCEPT ![req[r].order] = req[r].to]
      BY <2>3, <2>10 DEF StatusWrite
    <3>3. QED
      BY <2>2, <2>4, <3>1, <3>2
  <2>11. CASE CleanupSave
    <3>1. cur \in Orders /\ seen[cur] \in Expirable
      BY <2>11 DEF CleanupSave, HeldInv, CleanupFoundHeld, TypeOK
    <3>2. status[cur] = seen[cur] /\ status' = [status EXCEPT ![cur] = "Cancelled"]
      BY <2>3, <2>11 DEF CleanupSave
    <3>3. QED
      BY <2>2, <3>1, <3>2 DEF Expirable
  <2>12. QED
    BY <2>1, <2>5, <2>6, <2>7, <2>8, <2>9, <2>10, <2>11
       DEF Next, vars, orderVars, Cleanup, ApproveShort, StatusRead, AdjustRead, AdjustWrite,
           CleanupFind, CleanupNext, CleanupRead, CleanupRelease, CleanupError, Age, Spoil, Restart
<1>2. QED
  BY <1>1, TypeCorrect, RequestsFitInv, HeldInvariant, PTL DEF Spec, FinalIsFinal

-----------------------------------------------------------------------------
(* The refinement of the stock room.                                       *)

\* An order that changes its status moves one phase, and holds what it has
\* been allocated exactly if the new status is Approved.
LEMMA OneOrderMoves ==
  ASSUME TypeOK, NEW o \in Orders, NEW s, status' = [status EXCEPT ![o] = s],
         \A x \in Orders \ {o} : alloc'[x] = alloc[x]
  PROVE  /\ phase' = [phase EXCEPT ![o] = PhaseOf(s)]
         /\ held' = [held EXCEPT ![o] = IF s = "Approved" THEN alloc'[o] ELSE NoAlloc]
         /\ phase[o] = PhaseOf(status[o])
         /\ held[o] = IF status[o] = "Approved" THEN alloc[o] ELSE NoAlloc
BY DEF TypeOK, phase, held

\* A phase says as much of the status as the stock depends on.
LEMMA PhaseIs ==
  ASSUME NEW s \in Statuses
  PROVE  /\ PhaseOf(s) = "new" <=> s = "New"
         /\ PhaseOf(s) = "accepted" <=> s = "Approved"
         /\ PhaseOf(s) = "shipped" <=> s = "Dispatched"
         /\ s \in Final => PhaseOf(s) = s
         /\ PhaseOf(s) = "open" <=> s \in BeforeApproval \ {"New"}
<1>1. CASE s \in Final
  BY <1>1 DEF PhaseOf, BeforeApproval, Final
<1>2. CASE s \in {"New", "Approved", "Dispatched"}
  BY <1>2 DEF PhaseOf, BeforeApproval, Final
<1>3. CASE s \in BeforeApproval \ {"New"}
  BY <1>3 DEF PhaseOf, BeforeApproval, Final
<1>4. QED
  BY <1>1, <1>2, <1>3 DEF Statuses, BeforeApproval, Final

LEMMA RoomOpens == Init => Room!RoomInit
<1> SUFFICES ASSUME Init PROVE Room!RoomInit
  OBVIOUS
<1>1. phase = [o \in Orders |-> "new"]
  BY PhaseIs DEF Init, phase, Statuses
<1>2. held = [o \in Orders |-> NoAlloc]
  BY DEF Init, held
<1>3. stock \in [Batches -> Nat] /\ received = stock
  BY OrderStockAssumption DEF Init
<1>4. QED
  BY <1>1, <1>2, <1>3 DEF Init, NoAlloc, Room!RoomInit, Room!Init, Room!Nothing

RoomSame == UNCHANGED <<phase, held, stock, reserved, shipped, received>>

\* A status changed by a save that is not stale, among those before approval
\* or from dispatch to delivery, moves no units.
LEMMA StatusMoves ==
  ASSUME TypeOK, NEW o \in Orders, NEW s \in Statuses,
         status' = [status EXCEPT ![o] = s], UNCHANGED <<alloc, stock, reserved, shipped, received>>,
         \/ status[o] = "New" /\ s \in BeforeApproval \ {"New"}
         \/ status[o] \in BeforeApproval \ {"New"} /\ s \in BeforeApproval \ {"New"}
         \/ status[o] \in BeforeApproval \ {"New"} /\ s = "Cancelled"
         \/ status[o] = "Dispatched" /\ s \in {"Delivered", "Partial_Delivery"}
  PROVE  Room!RoomNext \/ RoomSame
<1>1. /\ phase' = [phase EXCEPT ![o] = PhaseOf(s)]
      /\ held' = [held EXCEPT ![o] = NoAlloc]
      /\ phase[o] = PhaseOf(status[o]) /\ held[o] = NoAlloc
  BY OneOrderMoves DEF BeforeApproval
<1>2. phase \in [Orders -> {PhaseOf(status[x]) : x \in Orders}]
  BY DEF phase
<1>3. held' = held /\ held \in [Orders -> Allocations]
  BY <1>1, OrderStockAssumption DEF held, TypeOK, Allocations, NoAlloc
<1>4. status[o] \in Statuses
  BY DEF TypeOK
<1>5. CASE PhaseOf(s) = PhaseOf(status[o])
  BY <1>1, <1>2, <1>3, <1>5 DEF RoomSame, phase
<1>6. CASE status[o] = "New" /\ s \in BeforeApproval \ {"New"}
  <2>1. phase[o] = "new" /\ PhaseOf(s) = "open"
    BY <1>1, <1>4, <1>6, PhaseIs
  <2>2. Room!EnterOrder(o)
    BY <1>1, <1>3, <2>1 DEF Room!EnterOrder, Room!Enter, Room!Goes, Room!stock
  <2>3. QED
    BY <2>2 DEF Room!RoomNext
<1>7. CASE status[o] \in BeforeApproval \ {"New"} /\ s = "Cancelled"
  <2>1. phase[o] = "open" /\ PhaseOf(s) \in Room!Closings
    BY <1>1, <1>4, <1>7, PhaseIs DEF Final, Room!Closings
  <2>2. /\ reserved' = [b \in Batches |-> reserved[b] - NoAlloc[b]]
        /\ stock' = [b \in Batches |-> stock[b] + NoAlloc[b]]
    BY DEF TypeOK, NoAlloc
  <2>3. Room!LetGo(o)
    BY <1>1, <2>1, <2>2
       DEF Room!LetGo, Room!Close, Room!Goes, Room!Minus, Room!Plus, Room!Nothing, NoAlloc
  <2>4. QED
    BY <2>3 DEF Room!RoomNext
<1>8. CASE status[o] = "Dispatched" /\ s \in {"Delivered", "Partial_Delivery"}
  <2>1. phase[o] = "shipped" /\ PhaseOf(s) \in Room!Arrivals
    BY <1>1, <1>4, <1>8, PhaseIs DEF Final, Room!Arrivals
  <2>2. Room!ArriveOrder(o)
    BY <1>1, <1>3, <2>1 DEF Room!ArriveOrder, Room!Arrive, Room!Goes, Room!stock
  <2>3. QED
    BY <2>2 DEF Room!RoomNext
<1>9. CASE status[o] \in BeforeApproval \ {"New"} /\ s \in BeforeApproval \ {"New"}
  <2>1. PhaseOf(status[o]) = "open" /\ PhaseOf(s) = "open"
    BY <1>4, <1>9, PhaseIs
  <2>2. QED
    BY <1>5, <2>1
<1>10. QED
  BY <1>6, <1>7, <1>8, <1>9

\* Each step of Next is one of the stock room or leaves it alone, unless it is
\* a stale save.
LEMMA RoomStep ==
  ASSUME TypeOK, RequestsFit, HeldInv, Books, [Next]_vars, stale' = 0
  PROVE  stale = 0 /\ (Room!RoomNext \/ RoomSame)
<1> DEFINE Kept == stale = 0 /\ (Room!RoomNext \/ RoomSame)
<1>1. \A u : Save(u) => u /\ stale = 0
  BY OrderStockAssumption DEF Save, TypeOK
<1>2. ASSUME UNCHANGED <<status, alloc, stock, reserved, shipped, received, stale>> PROVE Kept
  BY <1>2 DEF RoomSame, phase, held
<1>3. ASSUME NEW o \in Orders, Create(o) PROVE Kept
  <2>1. PICK s \in BeforeApproval \ {"New"} : status' = [status EXCEPT ![o] = s]
    BY <1>3 DEF Create, BeforeApproval
  <2>2. s \in Statuses
    BY DEF BeforeApproval, Statuses
  <2>3. QED
    BY <1>3, <2>1, <2>2, StatusMoves DEF Create
<1>4. ASSUME NEW o \in Orders, NEW actor \in Actors, Approve(o, actor) PROVE Kept
  <2>1. PICK a \in Allocations : /\ CanReserve(o, a, actor)
                                 /\ Reserve(a)
                                 /\ alloc' = [alloc EXCEPT ![o] = a]
    BY <1>4 DEF Approve
  <2>2. /\ phase' = [phase EXCEPT ![o] = PhaseOf("Approved")]
        /\ held' = [held EXCEPT ![o] = a]
        /\ phase[o] = PhaseOf(status[o])
    BY <1>4, <2>1, OneOrderMoves DEF Approve, TypeOK
  <2>3. phase[o] = "open" /\ PhaseOf("Approved") = "accepted"
    <3>1. status[o] \in BeforeApproval \ {"New"} /\ status[o] \in Statuses
      BY <1>4 DEF Approve, CanApprove, Approvable, BeforeApproval, TypeOK
    <3>2. QED
      BY <2>2, <3>1, PhaseIs DEF Statuses
  <2>4. \A b \in Batches : a[b] <= stock[b]
    <3> TAKE b \in Batches
    <3>1. a[b] \in 0..MaxQty /\ stock[b] \in Nat
      BY DEF Allocations, TypeOK
    <3>2. a[b] > 0 => a[b] <= stock[b]
      BY <2>1 DEF CanReserve
    <3>3. QED
      BY <3>1, <3>2
  <2>5. Room!Hold(o, a)
    BY <1>4, <2>1, <2>2, <2>3, <2>4
       DEF Approve, Reserve, Room!Hold, Room!Accept, Room!Goes, Room!Plus, Room!Minus
  <2>6. QED
    BY <1>4, <2>5 DEF Approve, Room!RoomNext
<1>5. ASSUME NEW o \in Orders, Dispatch(o) PROVE Kept
  <2>1. /\ status[o] = "Approved" /\ status' = [status EXCEPT ![o] = "Dispatched"]
        /\ UNCHANGED <<alloc, stock, received, stale>>
    BY <1>5 DEF Dispatch
  <2>2. /\ phase' = [phase EXCEPT ![o] = PhaseOf("Dispatched")]
        /\ held' = [held EXCEPT ![o] = NoAlloc]
        /\ phase[o] = PhaseOf(status[o]) /\ held[o] = alloc[o]
    <3>1. \A x \in Orders \ {o} : alloc'[x] = alloc[x]
      BY <2>1
    <3>2. "Dispatched" # "Approved"
      OBVIOUS
    <3>3. QED
      BY <2>1, <3>1, <3>2, OneOrderMoves
  <2>3. reserved' = [b \in Batches |-> reserved[b] - alloc[o][b]]
    <3>1. \A b \in Batches : Less(reserved[b], alloc[o][b]) = reserved[b] - alloc[o][b]
      BY <2>1, LeavesApproved DEF Statuses
    <3>2. QED
      BY <1>5, <3>1 DEF Dispatch, Deduct
  <2>4. shipped' = [b \in Batches |-> shipped[b] + alloc[o][b]]
    BY <1>5 DEF Dispatch
  <2>5. PhaseOf("Approved") = "accepted" /\ PhaseOf("Dispatched") = "shipped"
    BY PhaseIs DEF Statuses
  <2>6. Room!ShipHeld(o)
    BY <2>1, <2>2, <2>3, <2>4, <2>5
       DEF Room!ShipHeld, Room!Ship, Room!Goes, Room!Plus, Room!Minus, Room!Nothing, NoAlloc
  <2>7. QED
    BY <2>1, <2>6 DEF Room!RoomNext
<1>6. ASSUME NEW o \in Orders, NEW to \in {"Rejected", "Cancelled"}, Close(o, to) PROVE Kept
  <2>1. /\ status' = [status EXCEPT ![o] = to] /\ UNCHANGED <<alloc, shipped, received, stale>>
        /\ to \in ValidTransitions[status[o]]
    BY <1>6 DEF Close
  <2>2. /\ phase' = [phase EXCEPT ![o] = PhaseOf(to)]
        /\ held' = [held EXCEPT ![o] = NoAlloc]
        /\ phase[o] = PhaseOf(status[o])
        /\ held[o] = IF status[o] = "Approved" THEN alloc[o] ELSE NoAlloc
    BY <2>1, OneOrderMoves
  <2>3. phase[o] \in {"open", "accepted"} /\ PhaseOf(to) \in Room!Closings
    <3>1. status[o] \in Statuses
      BY DEF TypeOK
    <3>2. status[o] \in (BeforeApproval \ {"New"}) \cup {"Approved"}
      BY <1>6, <2>1, <3>1 DEF Close, ValidTransitions, Statuses, BeforeApproval
    <3>3. PhaseOf(to) \in Room!Closings
      BY DEF PhaseOf, Final, Room!Closings
    <3>4. QED
      BY <2>2, <3>1, <3>2, <3>3, PhaseIs
  <2>4. /\ reserved' = [b \in Batches |-> reserved[b] - held[o][b]]
        /\ stock' = [b \in Batches |-> stock[b] + held[o][b]]
    <3>1. CASE status[o] = "Approved"
      <4>1. \A b \in Batches : Less(reserved[b], alloc[o][b]) = reserved[b] - alloc[o][b]
        BY <2>1, <3>1, LeavesApproved DEF Statuses
      <4>2. Release(alloc[o])
        BY <1>6, <3>1 DEF Close
      <4>3. QED
        BY <2>2, <3>1, <4>1, <4>2 DEF Release
    <3>2. CASE status[o] # "Approved"
      BY <1>6, <2>2, <3>2 DEF Close, NoAlloc, TypeOK
    <3>3. QED
      BY <3>1, <3>2
  <2>5. Room!LetGo(o)
    BY <2>1, <2>2, <2>3, <2>4
       DEF Room!LetGo, Room!Close, Room!Goes, Room!Plus, Room!Minus, Room!Nothing, NoAlloc
  <2>6. QED
    BY <2>1, <2>5 DEF Room!RoomNext
<1>7. ASSUME NEW r \in Requests, HoldWrite(r) PROVE Kept
  <2>1. req[r].order \in Orders /\ req[r].was \in Approvable
    BY <1>7 DEF HoldWrite, RequestsFit, TypeOK, RequestStates, HoldReq, StatusReq, AdjustReq, Idle
  <2>2. /\ status[req[r].order] = req[r].was /\ stale = 0
        /\ status' = [status EXCEPT ![req[r].order] = "Hold_Stock"]
        /\ UNCHANGED <<alloc, stock, reserved, shipped, received>>
    BY <1>1, <1>7 DEF HoldWrite
  <2>3. status[req[r].order] \in BeforeApproval \ {"New"} /\ "Hold_Stock" \in BeforeApproval \ {"New"}
        /\ "Hold_Stock" \in Statuses
    BY <2>1, <2>2 DEF Approvable, BeforeApproval, Statuses
  <2>4. QED
    BY <2>1, <2>2, <2>3, StatusMoves
<1>8. ASSUME NEW r \in Requests, StatusWrite(r) PROVE Kept
  <2>1. /\ req[r].order \in Orders /\ req[r].was \in Statuses /\ req[r].to \in BareStatuses
        /\ req[r].to \in ValidTransitions[req[r].was]
    BY <1>8 DEF StatusWrite, RequestsFit, TypeOK, RequestStates, HoldReq, StatusReq, AdjustReq, Idle
  <2>2. /\ status[req[r].order] = req[r].was /\ stale = 0
        /\ status' = [status EXCEPT ![req[r].order] = req[r].to]
        /\ UNCHANGED <<alloc, stock, reserved, shipped, received>>
    BY <1>1, <1>8 DEF StatusWrite
  <2>3. /\ req[r].to \in Statuses
        /\ \/ req[r].was \in BeforeApproval \ {"New"} /\ req[r].to \in BeforeApproval \ {"New"}
           \/ req[r].was = "Dispatched" /\ req[r].to \in {"Delivered", "Partial_Delivery"}
    BY <2>1 DEF BareStatuses, ValidTransitions, Statuses, BeforeApproval
  <2>4. QED
    BY <2>1, <2>2, <2>3, StatusMoves
<1>9. ASSUME NEW r \in Requests, AdjustWrite(r) PROVE Kept
  <2>1. req[r] \in AdjustReq
    BY <1>9 DEF AdjustWrite, TypeOK, RequestStates, HoldReq, StatusReq, AdjustReq, Idle
  <2>2. stale = 0 /\ stock[req[r].batch] = req[r].was
    BY <1>1, <1>9 DEF AdjustWrite
  <2>3. req[r].batch \in Batches /\ req[r].quantity \in Int /\ req[r].was \in Nat
        /\ req[r].was + req[r].quantity \in Nat
    BY <2>1 DEF AdjustReq
  <2>4. stock' \in [Batches -> Nat] /\ \A c \in Batches \ {req[r].batch} : stock'[c] = stock[c]
    BY <1>9, <2>3 DEF AdjustWrite, TypeOK
  <2>5. stock'[req[r].batch] - stock[req[r].batch] = req[r].quantity
    BY <1>9, <2>2, <2>3 DEF AdjustWrite, TypeOK
  <2>6. received' = [received EXCEPT ![req[r].batch] = @ + (stock'[req[r].batch] - stock[req[r].batch])]
    BY <1>9, <2>5 DEF AdjustWrite
  <2>7. UNCHANGED <<phase, held, reserved, shipped>>
    BY <1>9 DEF AdjustWrite, phase, held
  <2>8. Room!Count(req[r].batch)
    BY <2>4, <2>6, <2>7 DEF Room!Count
  <2>9. QED
    BY <2>2, <2>3, <2>8 DEF Room!RoomNext
<1>10. CASE CleanupRelease
  BY <1>1, <1>10 DEF CleanupRelease, HeldInv, CleanupFoundHeld
<1>11. CASE CleanupSave
  <2>1. cur \in Orders /\ seen[cur] \in Expirable
    BY <1>11 DEF CleanupSave, HeldInv, CleanupFoundHeld, TypeOK
  <2>2. /\ status[cur] = seen[cur] /\ stale = 0
        /\ status' = [status EXCEPT ![cur] = "Cancelled"]
        /\ UNCHANGED <<alloc, stock, reserved, shipped, received>>
    BY <1>1, <1>11 DEF CleanupSave
  <2>3. status[cur] \in BeforeApproval \ {"New"} /\ "Cancelled" \in Statuses
    BY <2>1, <2>2 DEF Expirable, BeforeApproval, Statuses
  <2>4. QED
    BY <2>1, <2>2, <2>3, StatusMoves
<1>12. QED
  BY <1>2, <1>3, <1>4, <1>5, <1>6, <1>7, <1>8, <1>9, <1>10, <1>11
     DEF Next, vars, Cleanup, Reject, Cancel, ApproveShort, StatusRead, AdjustRead, CleanupFind,
         CleanupNext, CleanupRead, CleanupError, Age, Spoil, Restart

\* The workflows, the bare status writes, the adjustments and the cleanup
\* together implement the stock room, and with it the life of an order, until
\* a save replaces a value it never read.
THEOREM RoomImplemented == Spec => ImplementsStockroom
<1>1. TypeOK /\ RequestsFit /\ HeldInv /\ Books /\ [Next]_vars
        => [(stale = 0)' => (stale = 0) /\ Room!RoomNext]_(Room!rooms)
  <2> SUFFICES ASSUME TypeOK, RequestsFit, HeldInv, Books, [Next]_vars
               PROVE  [(stale = 0)' => (stale = 0) /\ Room!RoomNext]_(Room!rooms)
    OBVIOUS
  <2>1. CASE stale' # 0
    BY <2>1
  <2>2. CASE stale' = 0
    BY <2>2, RoomStep DEF RoomSame, Room!rooms, Room!stock
  <2>3. QED
    BY <2>1, <2>2
<1>2. QED
  BY <1>1, RoomOpens, TypeCorrect, RequestsFitInv, HeldInvariant, BooksInvariant, PTL
     DEF Spec, ImplementsStockroom, Room!RoomSpec
=============================================================================

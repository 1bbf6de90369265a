----------------------------- MODULE OrderStock -----------------------------
(***************************************************************************)
(* Orders, the stock batches they reserve, and everything in the server    *)
(* that writes either: the transactional workflows of OrdersService        *)
(* (approve, dispatch, reject, cancel), the bare status write behind       *)
(* PUT /orders/:id/status and PUT /approvals/:id, stock adjustments, and   *)
(* the cleanup job that expires held orders.                               *)
(*                                                                         *)
(* A MongoDB transaction that reads and writes the same documents aborts   *)
(* when another write to them commits first, so it is one step here.  A    *)
(* handler that reads and later saves with no transaction is two steps,    *)
(* with what it read kept in between.                                      *)
(***************************************************************************)
EXTENDS Integers, FiniteSets, Functions

CONSTANTS
    Orders,       \* order documents
    Products,
    Batches,      \* inventory documents, one per batch of a product
    ProductOf,    \* [Batches -> Products]
    Demand,       \* [Orders -> [Products -> 0..MaxQty]], the order's items
    Perishable,   \* batches that carry an expiry date
    OwnBatches,   \* batches of the distributor the orders are routed to
    Requests,     \* HTTP requests that can be in flight at once
    Opening,      \* [Batches -> Nat], stock before the first order
    Adjustments,  \* quantity and block flag (None: left alone) of users' adjustments
    MaxQty,       \* bound: units of one product in an order
    MaxStock,     \* bound: units of a batch, checked by adjustments
    MaxFaults,    \* bound: restarts of the server and errors of the cleanup
    MaxStale,     \* bound: saves that replace a value they never read
    None

ASSUME OrderStockAssumption ==
    /\ IsFiniteSet(Orders)
    /\ ProductOf \in [Batches -> Products]
    /\ MaxQty \in Nat /\ MaxStock \in Nat /\ MaxFaults \in Nat
    /\ MaxStale \in Nat
    /\ Demand \in [Orders -> [Products -> 0..MaxQty]]
    /\ Perishable \subseteq Batches
    /\ OwnBatches \subseteq Batches
    /\ Opening \in [Batches -> Nat]
    /\ Adjustments \subseteq [quantity : Int, block : BOOLEAN \cup {None}]
    /\ None \notin Orders

VARIABLES
    \* order documents
    status, alloc, aged,
    \* inventory documents
    stock, reserved, blocked, life,
    \* requests between their read and their write
    req,
    \* the running cleanup: found orders, the one in hand, their status and
    \* the allocations still to release as the query returned them, and the
    \* batch document being released
    todo, cur, seen, owe, rd,
    \* history: units received and shipped, faults, and saves that replaced a
    \* value they never read
    received, shipped, faults, stale

orderVars   == <<status, alloc, aged>>
batchVars   == <<stock, reserved, blocked, life>>
cleanupVars == <<todo, cur, seen, owe, rd>>
history     == <<received, shipped, faults, stale>>
vars == <<orderVars, batchVars, req, cleanupVars, history>>

-----------------------------------------------------------------------------
Statuses == {"New", "Draft", "Submitted", "Pending_Approval", "Hold_Credit",
             "Hold_Stock", "Approved", "Dispatched", "Delivered",
             "Partial_Delivery", "Rejected", "Cancelled"}

ValidTransitions ==
    [s \in Statuses |->
        CASE s = "Draft"            -> {"Submitted", "Cancelled"}
          [] s = "Submitted"        -> {"Pending_Approval", "Hold_Credit", "Hold_Stock",
                                        "Approved", "Rejected", "Cancelled"}
          [] s = "Pending_Approval" -> {"Submitted", "Approved", "Rejected", "Cancelled"}
          [] s = "Hold_Credit"      -> {"Approved", "Rejected", "Cancelled"}
          [] s = "Hold_Stock"       -> {"Approved", "Rejected", "Cancelled"}
          [] s = "Approved"         -> {"Dispatched", "Cancelled"}
          [] s = "Dispatched"       -> {"Delivered", "Partial_Delivery", "Cancelled"}
          [] OTHER                  -> {}]

Final      == {"Delivered", "Partial_Delivery", "Rejected", "Cancelled"}
Approvable == {"Submitted", "Hold_Stock", "Pending_Approval"}
Expirable  == {"Hold_Stock", "Pending_Approval"}

\* Statuses PUT /orders/:id/status sends to the bare updateStatus.
BareStatuses == {"Submitted", "Pending_Approval", "Hold_Credit", "Hold_Stock",
                 "Delivered", "Partial_Delivery"}

Actors      == {"company", "distributor"}
Allocations == [Batches -> 0..MaxQty]
NoAlloc     == [b \in Batches |-> 0]
Lives       == {"fresh", "short", "expired"}

Idle       == [op |-> "idle"]
HoldReq    == [op : {"hold"}, order : Orders, was : Statuses]
StatusReq  == [op : {"status"}, order : Orders, was : Statuses, to : BareStatuses]
AdjustReq  == {a \in [op : {"adjust"}, batch : Batches, was : Nat,
                      quantity : Int, block : BOOLEAN \cup {None}] : a.was + a.quantity >= 0}
RequestStates == {Idle} \cup HoldReq \cup StatusReq \cup AdjustReq

TypeOK ==
    /\ status \in [Orders -> Statuses]
    /\ alloc \in [Orders -> Allocations]
    /\ aged \in SUBSET Orders
    /\ stock \in [Batches -> Nat]
    /\ reserved \in [Batches -> Nat]
    /\ blocked \in [Batches -> BOOLEAN]
    /\ life \in [Batches -> Lives]
    /\ req \in [Requests -> RequestStates]
    /\ todo \in SUBSET Orders
    /\ cur \in Orders \cup {None}
    /\ seen \in [Orders -> Statuses]
    /\ owe \in [Orders -> Allocations]
    /\ rd \in [batch : Batches, stock : Nat, reserved : Nat] \cup {None}
    /\ received \in [Batches -> Int]
    /\ shipped \in [Batches -> Nat]
    /\ faults \in 0..MaxFaults
    /\ stale \in 0..MaxStale

Init ==
    /\ status = [o \in Orders |-> "New"]
    /\ alloc = [o \in Orders |-> NoAlloc]
    /\ aged = {}
    /\ stock = Opening
    /\ reserved = [b \in Batches |-> 0]
    /\ blocked = [b \in Batches |-> FALSE]
    /\ life = [b \in Batches |-> "fresh"]
    /\ req = [r \in Requests |-> Idle]
    /\ todo = {}
    /\ cur = None
    /\ seen = [o \in Orders |-> "New"]
    /\ owe = [o \in Orders |-> NoAlloc]
    /\ rd = None
    /\ received = Opening
    /\ shipped = [b \in Batches |-> 0]
    /\ faults = 0
    /\ stale = 0

-----------------------------------------------------------------------------
(* Stock queries.                                                          *)

BatchesOf(p) == {b \in Batches : ProductOf[b] = p}

Units(f, S) == FoldFunctionOnSet(+, 0, f, S)

\* The sum reduce() computes at booking: expired or blocked stock excluded,
\* no shelf-life margin, every owner's batches.
InStock(o) ==
    \A p \in Products :
        Units(stock, {b \in BatchesOf(p) : ~blocked[b] /\ life[b] # "expired"})
            >= Demand[o][p]

\* A distributor reserves from its own batches, a company user from any.
Scope(actor) == IF actor = "distributor" THEN OwnBatches ELSE Batches

\* Approval keeps a margin of a fifth of the shelf life.
Reservable(actor) == {b \in Scope(actor) : ~blocked[b] /\ life[b] = "fresh"}

Fills(o, a) == \A p \in Products : Units(a, BatchesOf(p)) = Demand[o][p]

\* Faults: takes more than a batch holds; settles for part of an item.
Overdraws(o, a, actor) ==
    Fills(o, a) /\ \A b \in Batches : a[b] > 0 => b \in Reservable(actor)
ReservesPartly(o, a, actor) ==
    \A b \in Batches : a[b] > 0 => b \in Reservable(actor) /\ a[b] <= stock[b]

\* What reserveStock can return for the items of o: FEFO picks one of these,
\* a manual override may name any of them.
CanReserve(o, a, actor) ==
    /\ Fills(o, a)
    /\ \A b \in Batches : a[b] > 0 => b \in Reservable(actor) /\ a[b] <= stock[b]

\* 'Insufficient stock': FEFO runs out of batches, or a manual override names
\* a batch that cannot be reserved or asks for more than it holds, which it
\* may do of any item, however much of it is in stock.
RunsShort(o) == \E p \in Products : Demand[o][p] > 0

Less(x, y) == IF x >= y THEN x - y ELSE 0

Reserve(a) ==
    /\ stock' = [b \in Batches |-> stock[b] - a[b]]
    /\ reserved' = [b \in Batches |-> reserved[b] + a[b]]

\* Fault: the released units do not go back to stock.
ReleasesNowhere(a) ==
    stock' = stock /\ reserved' = [b \in Batches |-> Less(reserved[b], a[b])]

Release(a) ==
    /\ stock' = [b \in Batches |-> stock[b] + a[b]]
    /\ reserved' = [b \in Batches |-> Less(reserved[b], a[b])]

Deduct(a) == reserved' = [b \in Batches |-> Less(reserved[b], a[b])]

\* Mongoose saves what the handler computed from the document it read.  The
\* save is stale when the document has changed since.
Save(unchanged) ==
    /\ stale' = IF unchanged THEN stale ELSE stale + 1
    /\ stale' <= MaxStale

-----------------------------------------------------------------------------
(* OrdersService.                                                          *)

\* A new order.  Price, quantity and credit outcomes are inputs; stock is
\* checked only when none of them holds the order.  The check and the save are
\* one step: nothing is reserved here, so a stale outcome is an outcome of
\* another moment, and the approval asks again.
Create(o) ==
    /\ status[o] = "New"
    /\ \E s \in {"Draft", "Pending_Approval", "Hold_Credit",
                 IF InStock(o) THEN "Submitted" ELSE "Hold_Stock"} :
          status' = [status EXCEPT ![o] = s]
    /\ UNCHANGED <<alloc, aged, batchVars, req, cleanupVars,
                   received, shipped, faults, stale>>

CanApprove(o, actor) ==
    /\ status[o] \in Approvable
    /\ ~(status[o] = "Pending_Approval" /\ actor = "distributor")

Approve(o, actor) ==
    /\ CanApprove(o, actor)
    /\ \E a \in Allocations :
          /\ CanReserve(o, a, actor)
          /\ Reserve(a)
          /\ alloc' = [alloc EXCEPT ![o] = a]
    /\ status' = [status EXCEPT ![o] = "Approved"]
    /\ UNCHANGED <<aged, blocked, life, req, cleanupVars,
                   received, shipped, faults, stale>>

\* Stock runs short: the transaction aborts, and the hold is recorded by a
\* separate update that does not look at the order again.
ApproveShort(r, o, actor) ==
    /\ req[r] = Idle
    /\ CanApprove(o, actor)
    /\ RunsShort(o)
    /\ req' = [req EXCEPT ![r] = [op |-> "hold", order |-> o, was |-> status[o]]]
    /\ UNCHANGED <<orderVars, batchVars, cleanupVars, history>>

HoldWrite(r) ==
    /\ req[r].op = "hold"
    /\ LET o == req[r].order IN
          /\ status' = [status EXCEPT ![o] = "Hold_Stock"]
          /\ Save(status[o] = req[r].was)
    /\ req' = [req EXCEPT ![r] = Idle]
    /\ UNCHANGED <<alloc, aged, batchVars, cleanupVars, received, shipped, faults>>

Dispatch(o) ==
    /\ status[o] = "Approved"
    /\ Deduct(alloc[o])
    /\ status' = [status EXCEPT ![o] = "Dispatched"]
    /\ shipped' = [b \in Batches |-> shipped[b] + alloc[o][b]]
    /\ UNCHANGED <<alloc, aged, stock, blocked, life, req, cleanupVars,
                   received, faults, stale>>

\* Fault: closes an Approved order without releasing.
ClosesUnreleased(o, to) ==
    /\ status[o] \notin {"Dispatched", "Delivered", "Cancelled", "Rejected"}
    /\ to \in ValidTransitions[status[o]]
    /\ status' = [status EXCEPT ![o] = to]
    /\ UNCHANGED <<alloc, aged, batchVars, req, cleanupVars, history>>

\* Reject and cancel: the guard of the handler, then that of updateStatus,
\* whose refusal aborts the transaction with the release it contains.
Close(o, to) ==
    /\ status[o] \notin {"Dispatched", "Delivered", "Cancelled", "Rejected"}
    /\ to \in ValidTransitions[status[o]]
    /\ IF status[o] = "Approved"
         THEN Release(alloc[o])
         ELSE UNCHANGED <<stock, reserved>>
    /\ status' = [status EXCEPT ![o] = to]
    /\ UNCHANGED <<alloc, aged, blocked, life, req, cleanupVars, history>>

Reject(o) == Close(o, "Rejected")
Cancel(o) == Close(o, "Cancelled")

\* updateStatus outside a transaction: the price request decided by a
\* manager (to Submitted) and every status changeStatus has no workflow for.
StatusRead(r, o, to) ==
    /\ req[r] = Idle
    /\ to \in BareStatuses \cap ValidTransitions[status[o]]
    /\ req' = [req EXCEPT ![r] = [op |-> "status", order |-> o, was |-> status[o],
                                  to |-> to]]
    /\ UNCHANGED <<orderVars, batchVars, cleanupVars, history>>

StatusWrite(r) ==
    /\ req[r].op = "status"
    /\ LET o == req[r].order IN
          /\ status' = [status EXCEPT ![o] = req[r].to]
          /\ Save(status[o] = req[r].was)
    /\ req' = [req EXCEPT ![r] = Idle]
    /\ UNCHANGED <<alloc, aged, batchVars, cleanupVars, received, shipped, faults>>

-----------------------------------------------------------------------------
(* InventoryService.adjustStock on an existing batch: the new quantity is  *)
(* computed from the one read and saved later.                             *)

AdjustRead(r, b, adj) ==
    /\ req[r] = Idle
    /\ stock[b] + adj.quantity >= 0
    /\ stock[b] + reserved[b] + adj.quantity <= MaxStock
    /\ req' = [req EXCEPT ![r] = [op |-> "adjust", batch |-> b, was |-> stock[b],
                                  quantity |-> adj.quantity, block |-> adj.block]]
    /\ UNCHANGED <<orderVars, batchVars, cleanupVars, history>>

\* The block flag is set only by an adjustment that carries one.
Given(block, was) == IF block = None THEN was ELSE block

\* Fault: reserved units are counted as stock.
AdjustsOnHand(r) ==
    /\ req[r].op = "adjust"
    /\ LET b == req[r].batch IN
          /\ stock' = [stock EXCEPT ![b] = req[r].was + reserved[b] + req[r].quantity]
          /\ blocked' = [blocked EXCEPT ![b] = Given(req[r].block, @)]
          /\ received' = [received EXCEPT ![b] = @ + req[r].quantity]
          /\ Save(stock[b] = req[r].was)
    /\ req' = [req EXCEPT ![r] = Idle]
    /\ UNCHANGED <<orderVars, reserved, life, cleanupVars, shipped, faults>>

AdjustWrite(r) ==
    /\ req[r].op = "adjust"
    /\ LET b == req[r].batch IN
          /\ stock' = [stock EXCEPT ![b] = req[r].was + req[r].quantity]
          /\ blocked' = [blocked EXCEPT ![b] = Given(req[r].block, @)]
          /\ received' = [received EXCEPT ![b] = @ + req[r].quantity]
          /\ Save(stock[b] = req[r].was)
    /\ req' = [req EXCEPT ![r] = Idle]
    /\ UNCHANGED <<orderVars, reserved, life, cleanupVars, shipped, faults>>

-----------------------------------------------------------------------------
(* InventoryCleanupService.handleCron, one run at a time.                  *)

\* Fault: orders waiting for a manager are never found.
FindsHoldStockOnly ==
    /\ todo = {}
    /\ LET expired == {o \in Orders : status[o] = "Hold_Stock" /\ o \in aged} IN
          /\ expired # {}
          /\ todo' = expired
          /\ seen' = [o \in Orders |-> IF o \in expired THEN status[o] ELSE "New"]
          /\ owe' = [o \in Orders |-> IF o \in expired THEN alloc[o] ELSE NoAlloc]
    /\ UNCHANGED <<orderVars, batchVars, req, cur, rd, history>>

CleanupFind ==
    /\ todo = {}
    /\ LET expired == {o \in Orders : status[o] \in Expirable /\ o \in aged} IN
          /\ expired # {}
          /\ todo' = expired
          /\ seen' = [o \in Orders |-> IF o \in expired THEN status[o] ELSE "New"]
          /\ owe' = [o \in Orders |-> IF o \in expired THEN alloc[o] ELSE NoAlloc]
    /\ UNCHANGED <<orderVars, batchVars, req, cur, rd, history>>

CleanupNext(o) ==
    /\ cur = None
    /\ o \in todo
    /\ cur' = o
    /\ UNCHANGED <<orderVars, batchVars, req, todo, seen, owe, rd, history>>

\* releaseReservedStock without a session: each batch is read, then saved.
CleanupRead(b) ==
    /\ cur # None
    /\ rd = None
    /\ owe[cur][b] > 0
    /\ rd' = [batch |-> b, stock |-> stock[b], reserved |-> reserved[b]]
    /\ UNCHANGED <<orderVars, batchVars, req, todo, cur, seen, owe, history>>

CleanupRelease ==
    /\ cur # None
    /\ rd # None
    /\ LET b == rd.batch  q == owe[cur][b] IN
          /\ stock' = [stock EXCEPT ![b] = rd.stock + q]
          /\ reserved' = [reserved EXCEPT ![b] = Less(rd.reserved, q)]
          /\ Save(stock[b] = rd.stock /\ reserved[b] = rd.reserved)
          /\ owe' = [owe EXCEPT ![cur][b] = 0]
    /\ rd' = None
    /\ UNCHANGED <<orderVars, blocked, life, req, todo, cur, seen,
                   received, shipped, faults>>

DropCurrent ==
    /\ todo' = todo \ {cur}
    /\ cur' = None
    /\ seen' = [seen EXCEPT ![cur] = "New"]
    /\ owe' = [owe EXCEPT ![cur] = NoAlloc]
    /\ rd' = None

CleanupSave ==
    /\ cur # None
    /\ rd = None
    /\ owe[cur] = NoAlloc
    /\ status' = [status EXCEPT ![cur] = "Cancelled"]
    /\ Save(status[cur] = seen[cur])
    /\ DropCurrent
    /\ UNCHANGED <<alloc, aged, batchVars, req, received, shipped, faults>>

\* An error is logged and the next order is taken up.
CleanupError ==
    /\ cur # None
    /\ faults < MaxFaults
    /\ faults' = faults + 1
    /\ DropCurrent
    /\ UNCHANGED <<orderVars, batchVars, req, received, shipped, stale>>

-----------------------------------------------------------------------------
(* The environment.                                                        *)

\* 24 hours pass for an order.
Age(o) ==
    /\ status[o] # "New"
    /\ o \notin aged
    /\ aged' = aged \cup {o}
    /\ UNCHANGED <<status, alloc, batchVars, req, cleanupVars, history>>

\* A dated batch comes within its shelf-life margin, then expires.
Spoil(b) ==
    /\ b \in Perishable
    /\ life[b] # "expired"
    /\ life' = [life EXCEPT ![b] = IF @ = "fresh" THEN "short" ELSE "expired"]
    /\ UNCHANGED <<orderVars, stock, reserved, blocked, req, cleanupVars, history>>

\* The process dies: requests and the cleanup run in hand are lost, open
\* transactions abort.
Restart ==
    /\ faults < MaxFaults
    /\ faults' = faults + 1
    /\ req' = [r \in Requests |-> Idle]
    /\ todo' = {}
    /\ cur' = None
    /\ seen' = [o \in Orders |-> "New"]
    /\ owe' = [o \in Orders |-> NoAlloc]
    /\ rd' = None
    /\ UNCHANGED <<orderVars, batchVars, received, shipped, stale>>

Cleanup ==
    \/ CleanupFind
    \/ \E o \in Orders : CleanupNext(o)
    \/ \E b \in Batches : CleanupRead(b)
    \/ CleanupRelease
    \/ CleanupSave

Next ==
    \/ \E o \in Orders :
          \/ Create(o) \/ Dispatch(o) \/ Reject(o) \/ Cancel(o) \/ Age(o)
          \/ \E actor \in Actors :
                \/ Approve(o, actor)
                \/ \E r \in Requests : ApproveShort(r, o, actor)
          \/ \E r \in Requests, to \in BareStatuses : StatusRead(r, o, to)
    \/ \E r \in Requests :
          \/ HoldWrite(r) \/ StatusWrite(r) \/ AdjustWrite(r)
          \/ \E b \in Batches, adj \in Adjustments : AdjustRead(r, b, adj)
    \/ \E b \in Batches : Spoil(b)
    \/ Cleanup \/ CleanupError
    \/ Restart

Spec == Init /\ [][Next]_vars

\* node-cron starts the cleanup every 15 minutes and it runs to its end.
FairSpec == Spec /\ WF_vars(Cleanup)

-----------------------------------------------------------------------------
(* Properties.                                                             *)

HeldUnits(b) ==
    {u \in Orders \X (1..MaxQty) : status[u[1]] = "Approved" /\ u[2] <= alloc[u[1]][b]}

\* reservedStock is exactly what the Approved orders have been allocated, in
\* every batch, until some save replaces a value it never read: no path of
\* approve, hold, dispatch, reject, cancel or cleanup leaks a reservation.
ReservationAccounting ==
    stale = 0 => \A b \in Batches : reserved[b] = Cardinality(HeldUnits(b))

\* Units are neither made nor lost: what was received is in stock, reserved
\* or shipped, until some save replaces a value it never read.
StockConservation ==
    stale = 0 => \A b \in Batches : stock[b] + reserved[b] + shipped[b] = received[b]

\* An order that is Approved or Dispatched has been allocated exactly the
\* quantity of each of its items, whatever stale saves ran in between.
ApprovedIsFilled ==
    \A o \in Orders : status[o] \in {"Approved", "Dispatched"} => Fills(o, alloc[o])

\* A delivered, rejected or cancelled order changes no more, except under a
\* save that replaces a status it never read.
FinalIsFinal ==
    [][stale' = 0 => \A o \in Orders : status[o] \in Final => status'[o] = status[o]]_vars

\* A held order older than 24 hours does not stay held for ever.
HeldOrdersExpire ==
    \A o \in Orders :
        (o \in aged /\ status[o] \in Expirable) ~> (status[o] \notin Expirable)

-----------------------------------------------------------------------------
(* What makes the accounting inductive: before approval an order carries   *)
(* no allocation, so a cleanup that read the order as it still is has      *)
(* nothing to release; and what requests and the cleanup will write fits   *)
(* the status they read.                                                   *)

BeforeApproval == {"New", "Draft", "Submitted", "Pending_Approval", "Hold_Credit",
                   "Hold_Stock"}

AllocatedByApproval ==
    \A o \in Orders : status[o] \in BeforeApproval => alloc[o] = NoAlloc

CleanupFoundHeld ==
    /\ cur \in todo \cup {None}
    /\ \A o \in todo : seen[o] \in Expirable
    /\ stale = 0 => rd = None /\ \A o \in Orders : owe[o] = NoAlloc

RequestsFit ==
    \A r \in Requests :
        /\ req[r].op = "hold" => req[r].was \in Approvable
        /\ req[r].op = "status" => req[r].to \in ValidTransitions[req[r].was]

HeldInv == (stale = 0 => AllocatedByApproval) /\ CleanupFoundHeld

-----------------------------------------------------------------------------
(* The stock room every handler is meant to keep.                          *)

PhaseOf(s) == CASE s = "New"        -> "new"
                [] s = "Approved"   -> "accepted"
                [] s = "Dispatched" -> "shipped"
                [] s \in Final      -> s
                [] OTHER            -> "open"

phase == [o \in Orders |-> PhaseOf(status[o])]
held  == [o \in Orders |-> IF status[o] = "Approved" THEN alloc[o] ELSE NoAlloc]

Room == INSTANCE Stockroom
          WITH sound <- stale = 0, free <- stock, Holdings <- Allocations

\* Every handler, with all its reads and saves, amounts to one step of the
\* stock room: an order moves through its life once, holds its units from its
\* approval until it is dispatched or closed, and those units and no others
\* are taken, shipped or put back, on the batch documents and in the counters.
ImplementsStockroom == Room!RoomSpec

=============================================================================

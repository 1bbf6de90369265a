------------------------------ MODULE Delivery ------------------------------
(***************************************************************************)
(* From an order to its delivery and what comes back of it: the dispatch   *)
(* records and their confirmation (DispatchService), and the returns a     *)
(* short delivery or a user opens (ReturnsService).                        *)
(*                                                                         *)
(* approveOrder, dispatchOrder, rejectOrder, cancelOrder and the           *)
(* confirmation are transactions, one step each; the other handlers read,  *)
(* decide and write in separate steps.  The statuses of an order that is   *)
(* not approved are one here; they, and the stock, are OrderStock's.       *)
(***************************************************************************)
EXTENDS Integers

CONSTANTS
    Orders,     \* orders entered, not yet approved
    Products,
    Quantity,   \* [Orders -> [Products -> Nat]], the orders' items
    Contents,   \* items a user may list on a return, in [Products -> Nat]
    Records,    \* dispatch documents; bounds how many there can be
    Returns,    \* return documents; bounds how many there can be
    Requests,   \* HTTP requests that can be in flight at once
    MaxCount,   \* bound: units a confirmation states
    MaxFaults,  \* bound: interrupted requests
    None

ASSUME DeliveryAssumption ==
    /\ Quantity \in [Orders -> [Products -> Nat]]
    /\ Contents \subseteq [Products -> Nat]
    /\ MaxCount \in Nat /\ MaxFaults \in Nat
    /\ None \notin Orders

VARIABLES
    order,      \* order documents: the status
    rec, ret,   \* dispatch and return documents
    restocked,  \* units the inspection of a return put back in stock
    req,        \* requests between two of their steps
    \* history: some save replaced a value its request never read; orders a
    \* save took back from being shipped
    stale, takenBack,
    faults

documents == <<order, rec, ret, restocked>>
vars == <<documents, req, stale, takenBack, faults>>

-----------------------------------------------------------------------------
Finished == {"Delivered", "Partial_Delivery"}
Shipped  == {"Dispatched"} \cup Finished
Statuses == Shipped \cup {"Unapproved", "Approved", "Rejected", "Cancelled"}

\* "Unapproved" is Draft, Submitted, Pending_Approval, Hold_Credit or Hold_Stock.
\* What a save outside the transactions makes of an order:
Saved == Finished \cup {"Unapproved", "Cancelled"}

ReturnStatuses == {"Draft", "Submitted", "Pending_Approval", "Approved", "Received",
                   "Inspected", "Closed", "Rejected", "Cancelled",
                   "Deleted"}   \* the document is gone

ReturnTransitions ==
    [s \in ReturnStatuses |->
        CASE s = "Draft"            -> {"Submitted", "Cancelled"}
          [] s = "Submitted"        -> {"Pending_Approval", "Rejected", "Cancelled"}
          [] s = "Pending_Approval" -> {"Approved", "Rejected"}
          [] s = "Approved"         -> {"Received", "Cancelled"}
          [] s = "Received"         -> {"Inspected"}
          [] s = "Inspected"        -> {"Closed"}
          [] OTHER                  -> {}]

DispatchRecords == [order : Orders, status : {"In Transit"} \cup Finished]
\* opened: the order whose short delivery opened the return, None for one a
\* user opened; the order a user's return names is data nothing here reads.
ReturnOrders == [opened : Orders \cup {None}, status : ReturnStatuses,
                 items : [Products -> Nat], priced : BOOLEAN]

ASSUME NoneAssumption == None \notin DispatchRecords \cup ReturnOrders

Idle == [op |-> "idle"]
DispatchReq == [op : {"dispatch"}, order : Orders, was : Statuses,
                phase : {"look", "deduct", "save"}]
ConfirmReq  == [op : {"confirm"}, rec : Records]
StatusReq   == [op : {"status"}, order : Orders, was : Statuses, to : Saved]
ReturnReq   == [op : {"return"}, ret : Returns, was : ReturnStatuses,
                to : ReturnStatuses, items : [Products -> Nat], left : SUBSET Products]
ChangeReq   == [op : {"edit", "remove"}, ret : Returns, was : ReturnStatuses]
RequestStates ==
    {Idle} \cup DispatchReq \cup ConfirmReq \cup StatusReq \cup ReturnReq \cup ChangeReq

TypeOK ==
    /\ order \in [Orders -> Statuses]
    /\ rec \in [Records -> DispatchRecords \cup {None}]
    /\ ret \in [Returns -> ReturnOrders \cup {None}]
    /\ restocked \in [Returns -> [Products -> Nat]]
    /\ req \in [Requests -> RequestStates]
    /\ stale \in BOOLEAN /\ takenBack \in SUBSET Orders
    /\ faults \in 0..MaxFaults

Init ==
    /\ order = [o \in Orders |-> "Unapproved"]
    /\ rec = [d \in Records |-> None]
    /\ ret = [t \in Returns |-> None]
    /\ restocked = [t \in Returns |-> [p \in Products |-> 0]]
    /\ req = [r \in Requests |-> Idle]
    /\ stale = FALSE /\ takenBack = {}
    /\ faults = 0

Open(r, q) == req[r] = Idle /\ req' = [req EXCEPT ![r] = q]
Done(r)    == req' = [req EXCEPT ![r] = Idle]

\* A save whose request has read the status `was`, which is `now` by now.
Save(was, now) == stale' = (stale \/ was # now)

-----------------------------------------------------------------------------
(* DispatchService.createDispatch.                                         *)

DispatchFind(r, o) ==
    /\ Open(r, [op |-> "dispatch", order |-> o, was |-> order[o], phase |-> "look"])
    /\ UNCHANGED <<documents, stale, takenBack, faults>>

HasRecord(o) == \E d \in Records : rec[d] # None /\ rec[d].order = o

\* An existing record is returned; an order already Dispatched only lacks one.
DispatchLook(r) ==
    /\ req[r].op = "dispatch" /\ req[r].phase = "look"
    /\ IF HasRecord(req[r].order)
         THEN Done(r)
         ELSE req' = [req EXCEPT ![r].phase =
                         IF req[r].was = "Dispatched" THEN "save" ELSE "deduct"]
    /\ UNCHANGED <<documents, stale, takenBack, faults>>

\* Fault: an order that has left Approved meanwhile goes on to its record.
DeductsLate(r) ==
    /\ req[r].op = "dispatch" /\ req[r].phase = "deduct"
    /\ order' = [order EXCEPT ![req[r].order] = IF @ = "Approved" THEN "Dispatched" ELSE @]
    /\ req' = [req EXCEPT ![r].phase = "save"]
    /\ UNCHANGED <<rec, ret, restocked, stale, takenBack, faults>>

\* OrdersService.dispatchOrder, refused unless the order is Approved.
DispatchDeduct(r) ==
    /\ req[r].op = "dispatch" /\ req[r].phase = "deduct"
    /\ IF order[req[r].order] = "Approved"
         THEN /\ order' = [order EXCEPT ![req[r].order] = "Dispatched"]
              /\ req' = [req EXCEPT ![r].phase = "save"]
         ELSE Done(r) /\ UNCHANGED order
    /\ UNCHANGED <<rec, ret, restocked, stale, takenBack, faults>>

DispatchSave(r) ==
    /\ req[r].op = "dispatch" /\ req[r].phase = "save"
    /\ \E d \in Records :
          /\ rec[d] = None
          /\ rec' = [rec EXCEPT ![d] = [order |-> req[r].order, status |-> "In Transit"]]
    /\ Done(r)
    /\ UNCHANGED <<order, ret, restocked, stale, takenBack, faults>>

-----------------------------------------------------------------------------
(* DispatchService.confirmDelivery.                                        *)

ConfirmRead(r, d) ==
    /\ rec[d] # None /\ rec[d].status = "In Transit"
    /\ Open(r, [op |-> "confirm", rec |-> d])
    /\ UNCHANGED <<documents, stale, takenBack, faults>>

Positive(n) == IF n > 0 THEN n ELSE 0

\* What comes back: the units missing from the counts stated, and the damaged.
Back(o, delivered, damaged) ==
    [p \in Products |-> Positive(Quantity[o][p] - delivered[p] - damaged[p]) + damaged[p]]

\* Fault: nothing is opened for what comes back.
NoReturn(o, items) == UNCHANGED ret

AutoReturn(o, items) ==
    \E t \in Returns :
        /\ ret[t] = None
        /\ ret' = [ret EXCEPT ![t] = [opened |-> o, status |-> "Submitted",
                                      items |-> items, priced |-> FALSE]]

\* Fault: the order's own transition is not checked.
Unchecked(o, d) == rec[d].status = "In Transit"

\* updateStatus refuses an order that is not Dispatched, and the save of the
\* record one whose items were written since it was read.
Confirmable(o, d) == order[o] = "Dispatched" /\ rec[d].status = "In Transit"

Confirm(r) ==
    /\ req[r].op = "confirm"
    /\ LET d == req[r].rec  o == rec[d].order IN
          IF Confirmable(o, d)
            THEN \E delivered, damaged \in [Products -> 0..MaxCount] :
                    LET items == Back(o, delivered, damaged)
                        short == \E p \in Products : items[p] > 0
                        to    == IF short THEN "Partial_Delivery" ELSE "Delivered" IN
                      /\ rec' = [rec EXCEPT ![d].status = to]
                      /\ order' = [order EXCEPT ![o] = to]
                      /\ IF short THEN AutoReturn(o, items) ELSE UNCHANGED ret
            ELSE UNCHANGED <<order, rec, ret>>
    /\ Done(r)
    /\ UNCHANGED <<restocked, stale, takenBack, faults>>

-----------------------------------------------------------------------------
(* The order's other ways: approval, rejection, cancellation, the cleanup  *)
(* and PUT /orders/:id/status.                                             *)

Approve(o) ==
    /\ order[o] = "Unapproved"
    /\ order' = [order EXCEPT ![o] = "Approved"]
    /\ UNCHANGED <<rec, ret, restocked, req, stale, takenBack, faults>>

\* The transition table has no Rejected after Approved.
RejectOrder(o) ==
    /\ order[o] = "Unapproved"
    /\ order' = [order EXCEPT ![o] = "Rejected"]
    /\ UNCHANGED <<rec, ret, restocked, req, stale, takenBack, faults>>

DirectDispatch(o) ==
    /\ order[o] = "Approved"
    /\ order' = [order EXCEPT ![o] = "Dispatched"]
    /\ UNCHANGED <<rec, ret, restocked, req, stale, takenBack, faults>>

\* Fault: the transition table lets an order on its way be cancelled.
CancelsShipped(o) ==
    /\ order[o] \in {"Unapproved", "Approved", "Dispatched"}
    /\ order' = [order EXCEPT ![o] = "Cancelled"]
    /\ UNCHANGED <<rec, ret, restocked, req, stale, takenBack, faults>>

CancelOrder(o) ==
    /\ order[o] \in {"Unapproved", "Approved"}
    /\ order' = [order EXCEPT ![o] = "Cancelled"]
    /\ UNCHANGED <<rec, ret, restocked, req, stale, takenBack, faults>>

\* A request that will save what it decided from this read, with no
\* transaction: a bare Delivered or Partial_Delivery; or, of an order not yet
\* approved, a bare status, the hold of an approval that ran short, or the
\* cleanup's Cancelled.
StatusRead(r, o, to) ==
    /\ \/ order[o] = "Dispatched" /\ to \in Finished
       \/ order[o] = "Unapproved" /\ to \in {"Unapproved", "Cancelled"}
    /\ Open(r, [op |-> "status", order |-> o, was |-> order[o], to |-> to])
    /\ UNCHANGED <<documents, stale, takenBack, faults>>

StatusWrite(r) ==
    /\ req[r].op = "status"
    /\ LET o == req[r].order IN
          /\ order' = [order EXCEPT ![o] = req[r].to]
          /\ Save(req[r].was, order[o])
          /\ takenBack' = IF order[o] \in Shipped /\ req[r].to \notin Shipped
                            THEN takenBack \cup {o} ELSE takenBack
    /\ Done(r)
    /\ UNCHANGED <<rec, ret, restocked, faults>>

-----------------------------------------------------------------------------
(* ReturnsService.                                                         *)

\* The value is the price of the items, zero when the order has them free.
CreateReturn(t) ==
    /\ ret[t] = None
    /\ \E s \in {"Draft", "Submitted"}, items \in Contents, priced \in BOOLEAN :
          ret' = [ret EXCEPT ![t] = [opened |-> None, status |-> s,
                                     items |-> items, priced |-> priced]]
    /\ UNCHANGED <<order, rec, restocked, req, stale, takenBack, faults>>

\* updateStatus.  Approving a return of some value saves a credit note whose
\* payment mode the collection schema does not know, so it always fails.
ReturnRead(r, t, to) ==
    /\ ret[t] # None
    /\ to \in ReturnTransitions[ret[t].status]
    /\ to = "Approved" => ~ret[t].priced
    /\ Open(r, [op |-> "return", ret |-> t, was |-> ret[t].status, to |-> to,
                items |-> ret[t].items,
                left |-> IF to = "Inspected" THEN {p \in Products : ret[t].items[p] > 0}
                                             ELSE {}])
    /\ UNCHANGED <<documents, stale, takenBack, faults>>

\* Fault: the units leave the stock again.
TransfersOut(r, p) ==
    /\ req[r].op = "return" /\ p \in req[r].left
    /\ restocked' = [restocked EXCEPT ![req[r].ret][p] = @ - req[r].items[p]]
    /\ req' = [req EXCEPT ![r].left = @ \ {p}]
    /\ UNCHANGED <<order, rec, ret, stale, takenBack, faults>>

\* adjustStock on the return's batch of the item's product.
Restock(r, p) ==
    /\ req[r].op = "return" /\ p \in req[r].left
    /\ restocked' = [restocked EXCEPT ![req[r].ret][p] = @ + req[r].items[p]]
    /\ req' = [req EXCEPT ![r].left = @ \ {p}]
    /\ UNCHANGED <<order, rec, ret, stale, takenBack, faults>>

\* Fault: saved before the items are back in stock.
SavesFirst(r) ==
    /\ req[r].op = "return"
    /\ ret' = [ret EXCEPT ![req[r].ret].status = IF @ = "Deleted" THEN @ ELSE req[r].to]
    /\ Save(req[r].was, ret[req[r].ret].status)
    /\ IF req[r].left = {} THEN Done(r) ELSE req' = [req EXCEPT ![r].was = req[r].to]
    /\ UNCHANGED <<order, rec, restocked, takenBack, faults>>

\* The save of a document that is gone fails.
ReturnSave(r) ==
    /\ req[r].op = "return" /\ req[r].left = {}
    /\ LET t == req[r].ret IN
          /\ ret' = [ret EXCEPT ![t].status = IF @ = "Deleted" THEN @ ELSE req[r].to]
          /\ Save(req[r].was, ret[t].status)
    /\ Done(r)
    /\ UNCHANGED <<order, rec, restocked, takenBack, faults>>

EditRead(r, t) ==
    /\ ret[t] # None /\ ret[t].status \in {"Draft", "Submitted"}
    /\ Open(r, [op |-> "edit", ret |-> t, was |-> ret[t].status])
    /\ UNCHANGED <<documents, stale, takenBack, faults>>

EditWrite(r) ==
    /\ req[r].op = "edit"
    /\ LET t == req[r].ret IN
          /\ \E items \in Contents, priced \in BOOLEAN :
                ret' = [ret EXCEPT ![t].items = items, ![t].priced = priced]
          /\ Save(req[r].was, ret[t].status)
    /\ Done(r)
    /\ UNCHANGED <<order, rec, restocked, takenBack, faults>>

RemoveRead(r, t) ==
    /\ ret[t] # None
    /\ ret[t].status \notin {"Approved", "Received", "Inspected", "Closed", "Deleted"}
    /\ Open(r, [op |-> "remove", ret |-> t, was |-> ret[t].status])
    /\ UNCHANGED <<documents, stale, takenBack, faults>>

RemoveWrite(r) ==
    /\ req[r].op = "remove"
    /\ LET t == req[r].ret IN
          /\ ret' = [ret EXCEPT ![t].status = "Deleted"]
          /\ Save(req[r].was, ret[t].status)
    /\ Done(r)
    /\ UNCHANGED <<order, rec, restocked, takenBack, faults>>

\* A request ends between two steps: an error, or the process dies.
Interrupt(r) ==
    /\ req[r] # Idle
    /\ faults < MaxFaults
    /\ faults' = faults + 1
    /\ Done(r)
    /\ UNCHANGED <<documents, stale, takenBack>>

-----------------------------------------------------------------------------
Handle(r) ==
    \/ \E o \in Orders : DispatchFind(r, o) \/ \E to \in Saved : StatusRead(r, o, to)
    \/ DispatchLook(r) \/ DispatchDeduct(r) \/ DispatchSave(r)
    \/ \E d \in Records : ConfirmRead(r, d)
    \/ Confirm(r) \/ StatusWrite(r)
    \/ \E t \in Returns :
          \/ \E to \in ReturnStatuses : ReturnRead(r, t, to)
          \/ EditRead(r, t) \/ RemoveRead(r, t)
    \/ \E p \in Products : Restock(r, p)
    \/ ReturnSave(r) \/ EditWrite(r) \/ RemoveWrite(r) \/ Interrupt(r)

Next ==
    \/ \E r \in Requests : Handle(r)
    \/ \E o \in Orders : Approve(o) \/ RejectOrder(o) \/ CancelOrder(o) \/ DirectDispatch(o)
    \/ \E t \in Returns : CreateReturn(t)

Spec == Init /\ [][Next]_vars

-----------------------------------------------------------------------------
(* Properties.                                                             *)

\* A delivery exists only for an order whose stock has been deducted, however
\* dispatches, cancellations and retries of them interleave; nothing takes a
\* shipped order back but a save decided before it was approved.
RecordMeansShipped ==
    \A d \in Records : rec[d] # None => order[rec[d].order] \in Shipped \/ rec[d].order \in takenBack

Confirmed(d) == rec[d] # None /\ rec[d].status \in Finished
OpenedFor(o) == {t \in Returns : ret[t] # None /\ ret[t].opened = o}

\* An order is confirmed at most once and has at most one return of its own,
\* even when two deliveries were created for it or a confirmation is repeated,
\* unless a late save had it dispatched all over again.
ConfirmedOnce ==
    /\ \A d, e \in Records :
          Confirmed(d) /\ Confirmed(e) /\ rec[d].order = rec[e].order
              => d = e \/ rec[d].order \in takenBack
    /\ \A o \in Orders \ takenBack : \A t, u \in OpenedFor(o) : t = u

\* The order ends as its delivery was confirmed, except where a bare save
\* overwrites it, and exactly a partial delivery has opened a return.
ConfirmationAgrees ==
    \A d \in Records : Confirmed(d) =>
        /\ ~stale => order[rec[d].order] = rec[d].status
        /\ rec[d].order \notin takenBack =>
              (rec[d].status = "Partial_Delivery" <=> OpenedFor(rec[d].order) # {})

\* A return is inspected only once all its items are back in stock, and none
\* is before it was received, whatever fails in between: until some save
\* replaces a status its request never read.
GoodsFollowReturn ==
    ~stale => \A t \in Returns : ret[t] # None =>
        /\ ret[t].status \in {"Inspected", "Closed"} =>
              \A p \in Products : restocked[t][p] >= ret[t].items[p]
        /\ ret[t].status \notin {"Received", "Inspected", "Closed"} =>
              \A p \in Products : restocked[t][p] = 0

-----------------------------------------------------------------------------
(* What makes these inductive.  Requests only ever act on documents that   *)
(* exist; what a dispatch has deducted or found Dispatched stays shipped   *)
(* unless a late save takes it back; until then an order with a confirmed  *)
(* delivery or a return of its own is at its end, so nothing can be        *)
(* confirmed for it again; and an inspection under way, unless something   *)
(* was saved over, is of a return that still is as it was read, with all   *)
(* but what is left of it restocked.                                       *)

RequestsExist ==
    \A r \in Requests :
        /\ req[r].op = "confirm" => rec[req[r].rec] # None
        /\ req[r].op \in {"return", "edit", "remove"} => ret[req[r].ret] # None

DispatchesShip ==
    \A r \in Requests :
        req[r].op = "dispatch" /\ (req[r].phase = "save" \/ req[r].was = "Dispatched")
            => order[req[r].order] \in Shipped \/ req[r].order \in takenBack

EndedOnce ==
    /\ \A d \in Records : Confirmed(d) => order[rec[d].order] \in Finished \/ rec[d].order \in takenBack
    /\ \A o \in Orders \ takenBack : OpenedFor(o) # {} => order[o] \in Finished

TakenBackLate == takenBack # {} => stale

\* The request q was allowed by the status it has read.
Allowed(q) ==
    /\ q.op = "status" => \/ q.was = "Dispatched" /\ q.to \in Finished
                          \/ q.was = "Unapproved" /\ q.to \in {"Unapproved", "Cancelled"}
    /\ q.op = "return" => q.to \in ReturnTransitions[q.was]
    /\ q.op = "return" /\ q.to # "Inspected" => q.left = {}
    /\ q.op = "edit" => q.was \in {"Draft", "Submitted"}
    /\ q.op = "remove" => q.was \notin {"Approved", "Received", "Inspected", "Closed", "Deleted"}

RequestsAllowed == \A r \in Requests : Allowed(req[r])

Untouched ==
    \A t \in Returns : ret[t] = None => \A p \in Products : restocked[t][p] = 0

InspectionsAgree ==
    ~stale => \A r \in Requests : req[r].op = "return" /\ req[r].to = "Inspected" =>
        /\ ret[req[r].ret].status \in {"Received", "Inspected", "Closed"}
        /\ ret[req[r].ret].items = req[r].items
        /\ \A p \in Products \ req[r].left : restocked[req[r].ret][p] >= req[r].items[p]

DeliveryInv ==
    /\ TypeOK /\ RequestsExist /\ DispatchesShip /\ RecordMeansShipped /\ EndedOnce /\ ConfirmedOnce
    /\ RequestsAllowed /\ TakenBackLate /\ ConfirmationAgrees
    /\ Untouched /\ InspectionsAgree /\ GoodsFollowReturn

-----------------------------------------------------------------------------
(* What users count on.                                                    *)

phase == [o \in Orders |-> CASE order[o] = "Unapproved" -> "open"
                             [] order[o] = "Approved"   -> "accepted"
                             [] order[o] = "Dispatched" -> "shipped"
                             [] OTHER                   -> order[o]]

Life == INSTANCE OrderLife WITH sound <- ~stale

\* From its entry on, an order's life goes one phase at a time: approvals,
\* dispatches, confirmations, cancellations and bare status changes that cross
\* never skip, repeat or take back a phase, until a save replaces a status its
\* request never read.
ImplementsOrderLife == Life!Spec

\* Until then a return, too, only makes moves updateStatus allows, or is
\* deleted before it is approved, and what it lists changes only before its
\* approval is asked for.
ReturnsMoveOn ==
    [][~stale' => \A t \in Returns : ret[t] # None =>
          /\ ret'[t] # None
          /\ \/ ret'[t].status = ret[t].status
             \/ ret'[t].status \in ReturnTransitions[ret[t].status]
             \/ /\ ret'[t].status = "Deleted"
                /\ ret[t].status \notin {"Approved", "Received", "Inspected", "Closed"}
          /\ ret'[t].items = ret[t].items \/ ret[t].status \in {"Draft", "Submitted"}]_vars
=============================================================================

----------------------------- MODULE Approvals ------------------------------
(***************************************************************************)
(* Price approvals: ApprovalsService and the OrdersService handlers that   *)
(* raise a request, act on its decision and settle what is left of it.     *)
(*                                                                         *)
(* A request is saved outside the transaction that saves its order; a      *)
(* decision reads the request, acts on the order and writes the request    *)
(* afterwards; a direct approval settles the requests after its commit.    *)
(* Each await between those that another handler could notice ends a step. *)
(* What an order does to stock is OrderStock's.                            *)
(***************************************************************************)
EXTENDS Integers

CONSTANTS
    Orders,     \* orders, by number
    ApprovalIds,
    Requests,   \* handlers that can be on their way at once
    None

VARIABLES
    order,      \* the status of each committed order
    approval,
    req,
    acted,      \* history: decisions that changed each order, up to two
    loose, contested, signed, lost  \* history, see the properties

history == <<acted, loose, contested, signed, lost>>
vars == <<order, approval, req, history>>

-----------------------------------------------------------------------------
\* Submitted stands for every status in which an order waits for its
\* distributor, for credit or for stock; Approved for an order that was
\* accepted and for what becomes of it.
Statuses  == {"Pending_Approval", "Submitted", "Approved", "Rejected", "Cancelled"}
Closed    == {"Rejected", "Cancelled"}
Decisions == {"Approved", "Rejected"}
\* `own`: history, the request was saved by the creation of its order and
\* nobody has reopened it.
Records   == [order : Orders, status : Decisions \cup {"Pending"}, own : BOOLEAN]

ASSUME NoneAssumption == None \notin Statuses \cup Records

Idle      == [op |-> "idle"]
CommitReq == [op : {"commit"}, order : Orders]
DecideReq == [op : {"decide", "submit", "reject", "record"}, id : ApprovalIds, order : Orders,
              decision : Decisions \cup {"Pending"}]
SettleReq == [op : {"settle"}, order : Orders]
StatusReq == [op : {"status"}, order : Orders, to : Statuses]
RequestStates == {Idle} \cup CommitReq \cup DecideReq \cup SettleReq \cup StatusReq

TypeOK ==
    /\ order \in [Orders -> Statuses \cup {None}]
    /\ approval \in [ApprovalIds -> Records \cup {None}]
    /\ req \in [Requests -> RequestStates]
    /\ acted \in [Orders -> 0..2]
    /\ loose \in SUBSET Orders /\ contested \in SUBSET Orders
    /\ signed \in SUBSET Orders /\ lost \in SUBSET Orders

Init ==
    /\ order = [o \in Orders |-> None]
    /\ approval = [a \in ApprovalIds |-> None]
    /\ req = [r \in Requests |-> Idle]
    /\ acted = [o \in Orders |-> 0]
    /\ loose = {} /\ contested = {} /\ signed = {} /\ lost = {}

Open(r, q) == req[r] = Idle /\ req' = [req EXCEPT ![r] = q]
Turn(r, q) == req' = [req EXCEPT ![r] = q]
Done(r)    == req' = [req EXCEPT ![r] = Idle]

-----------------------------------------------------------------------------
(* OrdersService.create and ApprovalsService.createApproval.               *)

\* Fault: the record keeps the order's own word for it.
Asked(o, own) == [order |-> o, status |-> "Pending_Approval", own |-> own]

Raised(o, own) == [order |-> o, status |-> "Pending", own |-> own]

PendingFor(a, o) == \E own \in BOOLEAN : approval[a] = Raised(o, own)

\* Ids are not used again while a handler still names one.
Fresh(a) ==
    /\ approval[a] = None
    /\ \A r \in Requests : req[r].op \in {"decide", "submit", "reject", "record"} => req[r].id # a

\* The request is saved, and visible, before its order's transaction commits.
CreateRaise(r, o, a) ==
    /\ order[o] = None /\ Fresh(a)
    /\ \A q \in Requests : req[q].op = "commit" => req[q].order # o
    /\ approval' = [approval EXCEPT ![a] = Raised(o, TRUE)]
    /\ Open(r, [op |-> "commit", order |-> o])
    /\ UNCHANGED <<order, history>>

CreateCommit(r) ==
    /\ req[r].op = "commit"
    /\ order' = [order EXCEPT ![req[r].order] = "Pending_Approval"]
    /\ Done(r)
    /\ UNCHANGED <<approval, history>>

\* An order at its list prices needs nobody's sign-off.
CreatePlain(o) ==
    /\ order[o] = None
    /\ \A q \in Requests : req[q].op = "commit" => req[q].order # o
    /\ order' = [order EXCEPT ![o] = "Submitted"]
    /\ UNCHANGED <<approval, req, history>>

\* POST /approvals, for an order number of the caller's choice.
RaiseApproval(a, o) ==
    /\ Fresh(a)
    /\ approval' = [approval EXCEPT ![a] = Raised(o, FALSE)]
    /\ UNCHANGED <<order, req, history>>

-----------------------------------------------------------------------------
(* ApprovalsService.updateApproval and OrdersService.resolveApprovalRequest.*)

Deciding(r, o) == req[r].op \in {"decide", "submit", "reject"} /\ req[r].order = o

Find(r, a, d) ==
    LET o == approval[a].order
        acts == approval[a].status = "Pending" /\ d # "Pending"
    IN /\ Open(r, [op |-> IF acts THEN "decide" ELSE "record",
                   id |-> a, order |-> o, decision |-> d])
       /\ contested' = IF acts /\ \E q \in Requests : Deciding(q, o)
                          THEN contested \cup {o} ELSE contested

\* Fault: the decision is written down before it acts.
RecordsFirst(r, a, d) ==
    /\ approval[a] # None
    /\ Find(r, a, d)
    /\ approval' = [approval EXCEPT ![a].status = d]
    /\ UNCHANGED <<order, acted, loose, signed, lost>>

\* Only a request that is still pending acts on its order.
DecideFind(r, a, d) ==
    /\ approval[a] # None
    /\ Find(r, a, d)
    /\ UNCHANGED <<order, approval, acted, loose, signed, lost>>

\* Fault: the decision acts on the order wherever it is by now.
ActsAnyway(r) ==
    /\ req[r].op = "decide" /\ order[req[r].order] # None
    /\ Turn(r, [req[r] EXCEPT !.op = IF req[r].decision = "Approved" THEN "submit" ELSE "reject"])
    /\ UNCHANGED <<order, approval, history>>

DecideAct(r) ==
    /\ req[r].op = "decide"
    /\ order[req[r].order] = "Pending_Approval"
    /\ Turn(r, [req[r] EXCEPT !.op = IF req[r].decision = "Approved" THEN "submit" ELSE "reject"])
    /\ UNCHANGED <<order, approval, history>>

\* An order that waits for no approval, or is not there yet, is left alone.
DecideSkip(r) ==
    /\ req[r].op = "decide"
    /\ order[req[r].order] # "Pending_Approval"
    /\ Turn(r, [req[r] EXCEPT !.op = "record"])
    /\ loose' = IF order[req[r].order] = None THEN loose \cup {req[r].order} ELSE loose
    /\ UNCHANGED <<order, approval, acted, contested, signed, lost>>

Acted(o) == acted' = [acted EXCEPT ![o] = IF @ = 2 THEN 2 ELSE @ + 1]

\* updateStatus, outside a transaction: the save writes over whatever the
\* order has become since it was read.
DecideSubmit(r) ==
    /\ req[r].op = "submit"
    /\ order' = [order EXCEPT ![req[r].order] = "Submitted"]
    /\ Acted(req[r].order)
    /\ Turn(r, [req[r] EXCEPT !.op = "record"])
    /\ UNCHANGED <<approval, loose, contested, signed, lost>>

\* An accepted order fails the check of its transitions.
MayReject(o) == order[o] \in {"Pending_Approval", "Submitted"}

\* rejectOrder, in a transaction.
DecideReject(r) ==
    /\ req[r].op = "reject"
    /\ MayReject(req[r].order)
    /\ order' = [order EXCEPT ![req[r].order] = "Rejected"]
    /\ Acted(req[r].order)
    /\ Turn(r, [req[r] EXCEPT !.op = "record"])
    /\ UNCHANGED <<approval, loose, contested, signed, lost>>

\* A request that has been removed meanwhile is not found.
Recorded(doc, d) ==
    IF doc = None THEN None
    ELSE [doc EXCEPT !.status = d, !.own = doc.own /\ d # "Pending"]

DecideRecord(r) ==
    /\ req[r].op = "record"
    /\ approval' = [approval EXCEPT ![req[r].id] = Recorded(@, req[r].decision)]
    /\ Done(r)
    /\ UNCHANGED <<order, history>>

DeleteApproval(a) ==
    /\ approval[a] # None
    /\ approval' = [approval EXCEPT ![a] = None]
    /\ loose' = loose \cup {approval[a].order}
    /\ UNCHANGED <<order, req, acted, contested, signed, lost>>

-----------------------------------------------------------------------------
(* The order's other ways out of Pending_Approval.                         *)

\* approveOrder by a manager: what is pending is settled after the commit.
ApproveOrder(r, o) ==
    /\ order[o] = "Pending_Approval"
    /\ order' = [order EXCEPT ![o] = "Approved"]
    /\ Open(r, [op |-> "settle", order |-> o])
    /\ signed' = signed \cup {o}
    /\ UNCHANGED <<approval, acted, loose, contested, lost>>

\* Fault: updateOne instead of updateMany.
SettleOne(o) ==
    \E a \in ApprovalIds :
        /\ PendingFor(a, o)
        /\ approval' = [approval EXCEPT ![a].status = "Approved"]

SettleAll(o) ==
    approval' = [a \in ApprovalIds |->
        IF PendingFor(a, o) THEN [approval[a] EXCEPT !.status = "Approved"] ELSE approval[a]]

Settle(r) ==
    /\ req[r].op = "settle"
    /\ SettleAll(req[r].order)
    /\ Done(r)
    /\ UNCHANGED <<order, history>>

\* approveOrder of an order that waits for its distributor.
AcceptOrder(o) ==
    /\ order[o] = "Submitted"
    /\ order' = [order EXCEPT ![o] = "Approved"]
    /\ UNCHANGED <<approval, req, history>>

\* rejectOrder and cancelOrder; neither settles a request.
CloseOrder(o, to) ==
    /\ \/ to = "Cancelled" /\ order[o] \notin Closed \cup {None}
       \/ to = "Rejected" /\ MayReject(o)
    /\ order' = [order EXCEPT ![o] = to]
    /\ UNCHANGED <<approval, req, history>>

\* The bare status change, an approval that finds too little stock and the
\* cleanup of orders that waited too long read the order, and save it later.
MayBecome(from) ==
    CASE from = "Pending_Approval" -> {"Submitted", "Cancelled"}
      [] from = "Submitted"        -> {"Submitted", "Pending_Approval", "Cancelled"}
      [] OTHER                     -> {}

StatusRead(r, o, to) ==
    /\ to \in MayBecome(order[o])
    /\ Open(r, [op |-> "status", order |-> o, to |-> to])
    /\ UNCHANGED <<order, approval, history>>

StatusWrite(r) ==
    /\ req[r].op = "status"
    /\ order' = [order EXCEPT ![req[r].order] = req[r].to]
    /\ loose' = IF req[r].to = "Pending_Approval" THEN loose \cup {req[r].order} ELSE loose
    /\ Done(r)
    /\ UNCHANGED <<approval, acted, contested, signed, lost>>

\* A handler fails, or its process dies under it.
Abandon(r) ==
    /\ req[r] # Idle
    /\ lost' = IF req[r].op = "settle" THEN lost \cup {req[r].order} ELSE lost
    /\ Done(r)
    /\ UNCHANGED <<order, approval, acted, loose, contested, signed>>

-----------------------------------------------------------------------------
Next ==
    \/ \E r \in Requests :
          \/ CreateCommit(r) \/ DecideAct(r) \/ DecideSkip(r) \/ DecideSubmit(r)
          \/ DecideReject(r) \/ DecideRecord(r) \/ Settle(r) \/ StatusWrite(r) \/ Abandon(r)
          \/ \E o \in Orders, a \in ApprovalIds : CreateRaise(r, o, a)
          \/ \E a \in ApprovalIds, d \in Decisions \cup {"Pending"} : DecideFind(r, a, d)
          \/ \E o \in Orders : ApproveOrder(r, o)
          \/ \E o \in Orders, to \in Statuses : StatusRead(r, o, to)
    \/ \E o \in Orders :
          \/ CreatePlain(o) \/ AcceptOrder(o)
          \/ \E to \in Closed : CloseOrder(o, to)
    \/ \E a \in ApprovalIds :
          \/ DeleteApproval(a)
          \/ \E o \in Orders : RaiseApproval(a, o)

Spec == Init /\ [][Next]_vars

-----------------------------------------------------------------------------
(* Properties.                                                             *)

\* An order that waits for a manager has a pending request that shows it,
\* unless the order was put back by a bare status change or its request was
\* decided before the order was committed, or removed (loose).
WaitsOnRequest ==
    \A o \in Orders \ loose : order[o] = "Pending_Approval" =>
        \E a \in ApprovalIds : PendingFor(a, o)

\* The decisions on the requests of one order change it once, unless two of
\* them overlapped (contested) or it was put back (loose).
DecidedOnce == \A o \in Orders \ (loose \cup contested) : acted[o] <= 1

\* A manager who approves the order itself leaves none of the requests its
\* creation raised open, those of a creation that was rolled back and tried
\* again included, once the settling is through (lost: it was not).
DirectApprovalSettles ==
    \A o \in signed \ lost :
        \/ \A a \in ApprovalIds : approval[a] # Raised(o, TRUE)
        \/ \E r \in Requests : req[r].op = "settle" /\ req[r].order = o

\* The workflow keeps to the life of an order: it opens, is accepted or closed
\* once, and nothing reopens it but a save that had read it open before.
phase == [o \in Orders |->
    CASE order[o] = None                             -> "new"
      [] order[o] \in {"Pending_Approval", "Submitted"} -> "open"
      [] order[o] = "Approved"                       -> "accepted"
      [] OTHER                                       -> order[o]]

SavesLate(r) == (DecideSubmit(r) \/ StatusWrite(r)) /\ phase[req[r].order] # "open"

Life == INSTANCE OrderLife WITH sound <- TRUE
KeepsToLife == [][(\E r \in Requests : SavesLate(r)) \/ Life!Next]_phase

-----------------------------------------------------------------------------
(* What makes these inductive: while an order waits, or is not there yet,  *)
(* nothing has been decided about it, and what is about to be written of   *)
(* it decides nothing.                                                     *)

OneOrderEach ==
    \A r \in Requests :
        req[r].op \in {"decide", "submit", "reject", "record"} /\ approval[req[r].id] # None
            => approval[req[r].id].order = req[r].order

Undecided ==
    \A o \in Orders \ loose : order[o] \in {None, "Pending_Approval"} =>
        /\ \A a \in ApprovalIds : approval[a] # None /\ approval[a].order = o => approval[a].status = "Pending"
        /\ \A r \in Requests : req[r].op = "record" /\ req[r].order = o => req[r].decision = "Pending"
        /\ \A r \in Requests : req[r].op = "settle" => req[r].order # o

CommitsFollow ==
    \A r \in Requests : req[r].op = "commit" =>
        /\ order[req[r].order] = None
        /\ req[r].order \notin loose => \E a \in ApprovalIds : PendingFor(a, req[r].order)
        /\ \A q \in Requests : req[q].op = "commit" /\ req[q].order = req[r].order => q = r

Acting(r, o) == req[r].op \in {"submit", "reject"} /\ req[r].order = o

ActsAlone ==
    \A o \in Orders \ contested :
        /\ \A q, r \in Requests : Deciding(q, o) /\ Deciding(r, o) => q = r
        /\ o \notin loose /\ acted[o] >= 1 =>
              /\ order[o] \notin {None, "Pending_Approval"}
              /\ \A r \in Requests : ~Acting(r, o)

OrdersExist ==
    /\ \A o \in signed : order[o] # None
    /\ \A r \in Requests : req[r].op \in {"submit", "reject", "status"} => order[req[r].order] # None

ApprovalsInv ==
    /\ TypeOK /\ OneOrderEach
    /\ Undecided /\ CommitsFollow /\ WaitsOnRequest
    /\ ActsAlone /\ DecidedOnce
    /\ OrdersExist /\ DirectApprovalSettles
=============================================================================

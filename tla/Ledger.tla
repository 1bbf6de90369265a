------------------------------- MODULE Ledger -------------------------------
(***************************************************************************)
(* What one outlet owes: CollectionsService (payments recorded, cleared,   *)
(* bounced, reversed, removed) and FinanceService (invoices, the ledger),  *)
(* over the outlet's outstandingBalance and its invoices.                  *)
(*                                                                         *)
(* The handlers of a payment run in a transaction each, so each is a step. *)
(* An invoice is made without one: its check, its save and the balance are *)
(* three steps.  A create whose idempotency key is known changes nothing;  *)
(* how a key is looked up and raced is SyncQueue's.                        *)
(***************************************************************************)
EXTENDS Integers, FiniteSets

CONSTANTS
    Payments,    \* payment documents; bounds how many exist at once
    Orders,      \* the outlet's orders
    Grand,       \* totals.grandTotal of each
    Requests,    \* requests for an invoice that can be on their way at once
    MaxAmount,   \* bound: payments and order totals
    MaxInvoices, \* bound: invoices of the outlet
    None

ASSUME LedgerAssumption ==
    /\ IsFiniteSet(Payments)
    /\ MaxAmount \in Nat /\ MaxInvoices \in Nat
    /\ Grand \in [Orders -> 0..MaxAmount]
    /\ None \notin Int

InvoiceIds == 1..MaxInvoices    \* numbered as createdAt orders them

VARIABLES
    balance,        \* commercial.outstandingBalance
    invoice,
    payment,
    req,
    unposted, wiped \* history, see the properties

vars == <<balance, invoice, payment, req, unposted, wiped>>

-----------------------------------------------------------------------------
Amounts     == 1..MaxAmount
Allocations == [InvoiceIds -> 0..MaxAmount]
Nothing     == [i \in InvoiceIds |-> 0]

InvoiceDocs == [order : Orders, total : 0..MaxAmount, paid : Nat,
                status : {"Unpaid", "Partial", "Paid"}]

\* A reversal stands for the REV- row that reverseCollection writes: its
\* amount is stored negated.
PaymentDocs == [amount : Amounts, reversal : BOOLEAN,
                status : {"Pending", "Cleared", "Bounced"},
                named : InvoiceIds \cup {None}, alloc : Allocations]

ASSUME DocumentAssumption == None \notin InvoiceDocs \cup PaymentDocs

Idle      == [op |-> "idle"]
SaveReq   == [op : {"save"}, order : Orders]
PostReq   == [op : {"post"}, id : InvoiceIds]

TypeOK ==
    /\ balance \in Int
    /\ invoice \in [InvoiceIds -> InvoiceDocs \cup {None}]
    /\ payment \in [Payments -> PaymentDocs \cup {None}]
    /\ req \in [Requests -> {Idle} \cup SaveReq \cup PostReq]
    /\ unposted \in SUBSET InvoiceIds /\ wiped \in SUBSET InvoiceIds

Smaller(m, n) == IF m <= n THEN m ELSE n

\* The sum of a function's values, none of them above MaxAmount.
Units(f) == {u \in (DOMAIN f) \X Amounts : u[2] <= f[u[1]]}
Total(f) == Cardinality(Units(f))

StatusFor(paid, total) ==
    IF paid >= total THEN "Paid" ELSE IF paid > 0 THEN "Partial" ELSE "Unpaid"

Remaining(i) == IF invoice[i] = None THEN 0 ELSE invoice[i].total - invoice[i].paid

\* What an older version left: a pending payment allocated when it was made.
OlderPayment(p, o, n) ==
    /\ 1 \in InvoiceIds
    /\ balance = Grand[o]
    /\ invoice = [i \in InvoiceIds |-> IF i # 1 THEN None ELSE
          [order |-> o, total |-> Grand[o], paid |-> n, status |-> StatusFor(n, Grand[o])]]
    /\ payment = [q \in Payments |-> IF q # p THEN None ELSE
          [amount |-> n, reversal |-> FALSE, status |-> "Pending", named |-> 1,
           alloc |-> [i \in InvoiceIds |-> IF i = 1 THEN n ELSE 0]]]

NoDocuments ==
    /\ balance = 0
    /\ invoice = [i \in InvoiceIds |-> None]
    /\ payment = [p \in Payments |-> None]

Init ==
    /\ \/ NoDocuments
       \/ \E p \in Payments, o \in Orders : \E n \in 1..Grand[o] : OlderPayment(p, o, n)
    /\ req = [r \in Requests |-> Idle]
    /\ unposted = {} /\ wiped = {}

-----------------------------------------------------------------------------
(* Allocations.                                                            *)

\* The whole amount goes to one invoice, or as much of it as is open.
Single(i, n, a) == a = [j \in InvoiceIds |-> IF j = i THEN n ELSE 0]

\* The oldest open invoices first.
Fifo(amount, a) ==
    LET due == [i \in InvoiceIds |->
                   IF invoice[i] # None /\ invoice[i].status # "Paid" THEN Remaining(i) ELSE 0]
    IN /\ \A i \in InvoiceIds : a[i] <= due[i]
       /\ \A i, j \in InvoiceIds : i < j /\ a[j] > 0 => a[i] = due[i]
       /\ Total(a) = Smaller(amount, Total(due))

\* Strict: the allocations asked for, or the invoice named, must have room.
AllocatedNow(amount, named, a) ==
    \/ /\ \A i \in InvoiceIds : a[i] <= Remaining(i)
       /\ a # Nothing /\ Total(a) <= amount
    \/ /\ named # None /\ amount <= Remaining(named)
       /\ Single(named, amount, a)
    \/ named = None /\ Fifo(amount, a)

\* Fault: a clearing cheque is allocated in full.
AllocatesAll(amount, named, a) ==
    \/ named # None /\ Single(named, amount, a)
    \/ named = None /\ Fifo(amount, a)

\* Lenient: capped at what the invoice has left by the time a cheque clears.
AllocatedLater(amount, named, a) ==
    \/ named # None /\ Single(named, Smaller(amount, Remaining(named)), a)
    \/ named = None /\ Fifo(amount, a)

WithPaid(inv, paid) == [inv EXCEPT !.paid = paid, !.status = StatusFor(paid, inv.total)]

Apply(a) ==
    invoice' = [i \in InvoiceIds |->
        IF a[i] = 0 THEN invoice[i] ELSE WithPaid(invoice[i], invoice[i].paid + a[i])]

\* Fault: a paid amount is not kept from going below zero.
Subtracts(m, n) == m - n

Less(m, n) == IF m < n THEN 0 ELSE m - n

Unapply(a) ==
    invoice' = [i \in InvoiceIds |->
        IF invoice[i] = None \/ a[i] = 0 THEN invoice[i]
                                         ELSE WithPaid(invoice[i], Less(invoice[i].paid, a[i]))]

-----------------------------------------------------------------------------
(* CollectionsService.create.                                              *)

NewPayment(amount, status, named, a) ==
    [amount |-> amount, reversal |-> FALSE, status |-> status, named |-> named,
     alloc |-> a]

\* Cash and UPI clear at once.
CreateCleared(p) ==
    /\ payment[p] = None
    /\ \E amount \in Amounts, named \in InvoiceIds \cup {None}, a \in Allocations :
          /\ AllocatedNow(amount, named, a)
          /\ Apply(a)
          /\ payment' = [payment EXCEPT ![p] = NewPayment(amount, "Cleared", named, a)]
          /\ balance' = balance - amount
    /\ UNCHANGED <<req, unposted, wiped>>

\* Cheques and transfers wait; the invoice they name is only checked.
CreatePending(p) ==
    /\ payment[p] = None
    /\ \E amount \in Amounts, named \in InvoiceIds \cup {None} :
          /\ named # None => amount <= Remaining(named)
          /\ payment' = [payment EXCEPT ![p] = NewPayment(amount, "Pending", named, Nothing)]
    /\ UNCHANGED <<balance, invoice, req, unposted, wiped>>

-----------------------------------------------------------------------------
(* CollectionsService.updateStatus, reverseCollection and remove.          *)

Is(p, status) == payment[p] # None /\ payment[p].status = status

\* A pending payment of an older version is already on its invoices.
Clear(p) ==
    /\ Is(p, "Pending") /\ ~payment[p].reversal
    /\ \E a \in Allocations :
          /\ IF payment[p].alloc = Nothing
                THEN AllocatedLater(payment[p].amount, payment[p].named, a) /\ Apply(a)
                ELSE a = payment[p].alloc /\ UNCHANGED invoice
          /\ payment' = [payment EXCEPT ![p].status = "Cleared", ![p].alloc = a]
    /\ balance' = balance - payment[p].amount
    /\ UNCHANGED <<req, unposted, wiped>>

\* Fault: the status check is missing its final case.
BouncesAgain(p) ==
    /\ payment[p] # None /\ ~payment[p].reversal
    /\ balance' = IF payment[p].status # "Pending" THEN balance + payment[p].amount ELSE balance
    /\ Unapply(payment[p].alloc)
    /\ payment' = [payment EXCEPT ![p].status = "Bounced"]
    /\ UNCHANGED <<req, unposted, wiped>>

Bounce(p) ==
    /\ Is(p, "Pending") \/ Is(p, "Cleared")
    /\ ~payment[p].reversal
    /\ balance' = IF payment[p].status = "Cleared" THEN balance + payment[p].amount ELSE balance
    /\ Unapply(payment[p].alloc)
    /\ payment' = [payment EXCEPT ![p].status = "Bounced"]
    /\ UNCHANGED <<req, unposted, wiped>>

\* What is taken back: the allocations, or the amount from the invoice named
\* when the payment lists none.
TakenBack(doc) ==
    IF doc.alloc # Nothing \/ doc.named = None THEN doc.alloc
    ELSE [i \in InvoiceIds |-> IF i = doc.named THEN doc.amount ELSE 0]

\* The statuses are written here without a look at the total: Unpaid for a
\* paid amount of zero, Partial above it.  Unapply's agree, but for an invoice
\* of nothing, whose status nothing here relies on.
Reverse(p, q) ==
    /\ Is(p, "Cleared") /\ ~payment[p].reversal
    /\ payment[q] = None
    /\ payment' = [payment EXCEPT ![p].status = "Bounced",
                                  ![q] = [amount |-> payment[p].amount, reversal |-> TRUE,
                                          status |-> "Cleared", named |-> payment[p].named,
                                          alloc |-> Nothing]]
    /\ balance' = balance + payment[p].amount
    /\ Unapply(TakenBack(payment[p]))
    /\ wiped' = IF TakenBack(payment[p]) # payment[p].alloc
                   THEN wiped \cup {payment[p].named} ELSE wiped
    /\ UNCHANGED <<req, unposted>>

\* Fault: an older pending payment leaves its invoices paid.
RemovesOnly(p) ==
    /\ Is(p, "Pending") \/ Is(p, "Bounced")
    /\ payment' = [payment EXCEPT ![p] = None]
    /\ UNCHANGED <<balance, invoice, req, unposted, wiped>>

Remove(p) ==
    /\ Is(p, "Pending") \/ Is(p, "Bounced")
    /\ payment' = [payment EXCEPT ![p] = None]
    /\ IF payment[p].status = "Pending" THEN Unapply(payment[p].alloc) ELSE UNCHANGED invoice
    /\ UNCHANGED <<balance, req, unposted, wiped>>

-----------------------------------------------------------------------------
(* FinanceService.generateInvoiceFromOrder.                                *)

InvoiceFind(r, o) ==
    /\ req[r] = Idle
    /\ \A i \in InvoiceIds : invoice[i] # None => invoice[i].order # o
    /\ req' = [req EXCEPT ![r] = [op |-> "save", order |-> o]]
    /\ UNCHANGED <<balance, invoice, payment, unposted, wiped>>

InvoiceSave(r, i) ==
    /\ req[r].op = "save"
    /\ invoice[i] = None /\ \A j \in 1..(i - 1) : invoice[j] # None
    /\ invoice' = [invoice EXCEPT ![i] =
          [order |-> req[r].order, total |-> Grand[req[r].order], paid |-> 0, status |-> "Unpaid"]]
    /\ req' = [req EXCEPT ![r] = [op |-> "post", id |-> i]]
    /\ unposted' = unposted \cup {i}
    /\ UNCHANGED <<balance, payment, wiped>>

InvoicePost(r) ==
    /\ req[r].op = "post"
    /\ balance' = balance + invoice[req[r].id].total
    /\ unposted' = unposted \ {req[r].id}
    /\ req' = [req EXCEPT ![r] = Idle]
    /\ UNCHANGED <<invoice, payment, wiped>>

\* A request is refused, or its transaction or its process fails.
Abandon(r) ==
    /\ req[r] # Idle
    /\ req' = [req EXCEPT ![r] = Idle]
    /\ UNCHANGED <<balance, invoice, payment, unposted, wiped>>

-----------------------------------------------------------------------------
Next ==
    \/ \E r \in Requests :
          \/ \E o \in Orders : InvoiceFind(r, o)
          \/ \E i \in InvoiceIds : InvoiceSave(r, i)
          \/ InvoicePost(r) \/ Abandon(r)
    \/ \E p \in Payments :
          \/ CreateCleared(p) \/ CreatePending(p) \/ Clear(p) \/ Bounce(p) \/ Remove(p)
          \/ \E q \in Payments : Reverse(p, q)

Spec == Init /\ [][Next]_vars

-----------------------------------------------------------------------------
(* Properties.                                                             *)

Invoiced  == [i \in InvoiceIds |-> IF invoice[i] = None THEN 0 ELSE invoice[i].total]
Missing   == [i \in InvoiceIds |-> IF i \in unposted THEN Invoiced[i] ELSE 0]
Settled   == [p \in Payments |->
                 IF Is(p, "Cleared") /\ ~payment[p].reversal THEN payment[p].amount ELSE 0]
Applied(i) == [p \in Payments |->
                  IF payment[p] # None /\ payment[p].status # "Bounced" THEN payment[p].alloc[i] ELSE 0]

\* The outlet owes what it was invoiced less the payments that stand, through
\* any order of clearing, bouncing, reversing and removing, except for an
\* invoice whose balance update is still to come or was cut off (unposted).
BalanceAccounts == balance = Total(Invoiced) - Total(Missing) - Total(Settled)

\* An invoice is paid by exactly what the standing payments allocate to it,
\* unless the reversal of a payment that had allocated nothing took its amount
\* from it (wiped).
PaidIsAllocated ==
    \A i \in InvoiceIds \ wiped : invoice[i] # None => invoice[i].paid = Total(Applied(i))

\* No invoice is paid beyond its total, and its status says how far it is
\* paid; one of nothing stays as it was made.
InvoiceAgrees ==
    \A i \in InvoiceIds : invoice[i] # None =>
        /\ invoice[i].paid <= invoice[i].total
        /\ invoice[i].total > 0 => invoice[i].status = StatusFor(invoice[i].paid, invoice[i].total)

\* No payment allocates more than its amount, whichever of the ways of
\* allocating it took, at once or when it cleared.
AllocatesWithin == \A p \in Payments : payment[p] # None => Total(payment[p].alloc) <= payment[p].amount

\* The two books agree: the outlet's balance is what its invoices still ask
\* for, less what settled payments have not allocated, and plus what an older
\* version's pending payments already have.
Due      == [i \in InvoiceIds |-> Remaining(i)]
Given(p) == IF payment[p] # None /\ payment[p].status # "Bounced" THEN payment[p].alloc ELSE Nothing
Gave     == [p \in Payments |-> Total(Given(p))]

BooksAgree == unposted = {} /\ wiped = {} => balance = Total(Due) - (Total(Settled) - Total(Gave))

-----------------------------------------------------------------------------
(* What makes these inductive.                                             *)

AllocatedExist ==
    \A p \in Payments, i \in InvoiceIds :
        payment[p] # None /\ payment[p].alloc[i] > 0 => invoice[i] # None

PostsDue ==
    \A r \in Requests : req[r].op = "post" =>
        /\ req[r].id \in unposted /\ invoice[req[r].id] # None
        /\ \A q \in Requests : req[q].op = "post" /\ req[q].id = req[r].id => q = r

\* What was paid of all invoices is what all payments gave.
Paid     == [i \in InvoiceIds |-> IF invoice[i] = None THEN 0 ELSE invoice[i].paid]
PaidGave == wiped = {} => Total(Paid) = Total(Gave)

LedgerInv ==
    /\ TypeOK /\ AllocatedExist /\ PostsDue
    /\ BalanceAccounts /\ PaidIsAllocated /\ InvoiceAgrees
    /\ AllocatesWithin /\ PaidGave
=============================================================================

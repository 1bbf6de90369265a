# BharatSales AI: a TLA+ verification project

BharatSales AI is a field-sales system: an Express server over MongoDB
(`src/server`), a React Native app and a PWA with offline queues
(`src/apps/mobile`, `src/apps/field-pwa`), a web client, and shared packages
(`src/packages`). This directory holds TLA+ models of the parts where
concurrency, failure and ordering decide whether the system is right, TLC runs
that check them on small instances, and proofs that TLAPS checks for every
instance.

| File | Holds |
|---|---|
| `OrderStock.tla` | orders, stock batches, the workflows and the job that write them |
| `SyncQueue.tla` | the mobile app's offline queue, its runs, its requests and the server's duplicate protection |
| `Stockroom.tla` | what orders and stock promise each other; `OrderStock` implements it |
| `OrderLife.tla` | the life of an order; `Stockroom`, `Delivery` and `Approvals` keep to it |
| `Outbox.tla` | what an offline queue promises; `SyncQueue` implements it |
| `Delivery.tla` | dispatch records, their confirmation, and returns |
| `Sessions.tla` | refresh tokens: the server's sessions and the API client that renews them |
| `TokenChain.tla` | the tokens a session may hand out; `Sessions` implements it |
| `Ledger.tla` | payments, invoices and the balance of an outlet |
| `FieldDay.tla` | attendance, visits and the draft orders that hold a visit |
| `WorkDay.tla` | a day's work as others count on it; `FieldDay` implements it |
| `Approvals.tla` | price approvals and the orders that wait for them |
| `Territories.tla` | the territory tree and the search a manager's team comes from |
| `Tree.tla` | a tree whose operations are single steps; `Territories` implements it |
| `MC*.tla`, `*.cfg` | instances for TLC |
| `*_proof.tla` | theorems and their proofs |
| `PROJECT.json` | components, runs, mutants, the map from definitions to source lines, hazards, findings, theorems |

Sections: 1 inventory, 2 plan, 3 how the models stand for the code, 4 runs,
5 bounds, 6 fairness, 7 proofs, 8 what the models show against the texts,
9 what is not modelled.

## 1. Inventory

### Components, state, operations

Server services each own one or a few MongoDB collections. There is one Node
process per instance; a handler is a chain of awaits, so two requests interleave
at every await. Handlers that need atomicity open a MongoDB transaction; the
others read a document, decide, and save it later.

| Component (source under `server/src`) | State | Operations | Module |
|---|---|---|---|
| Orders (`orders/`) | order documents: status, items with allocations, history | create, approve, reject, cancel, dispatch, bare status change, offline batch | OrderStock |
| Inventory (`inventory/`) | batches: stock, reservedStock, blocked, expiry | check, reserve (FEFO), release, deduct, adjust; cleanup job | OrderStock |
| Scheduler (`scheduler.ts`) | a no-overlap flag per job | cleanup every 15 minutes, nightly rollups | OrderStock |
| Dispatch (`dispatch/`) | delivery records | create, confirm | Delivery |
| Returns (`returns/`) | return documents | create, status changes with restock and credit note, edit, remove, automatic return | Delivery |
| Approvals (`approvals/`) | approval requests and rules | create with an order, decide, settle, delete | Approvals |
| Collections (`collections/`) | payments and their allocations | create, clear, bounce, reverse, remove | Ledger |
| Finance (`finance/`) | invoices, outlet balance | generate an invoice, credit note, ledger | Ledger |
| Authentication (`auth/`) | sessions: current, previous and rotated refresh tokens; lockout counters; OTPs | login, refresh, logout, revoke, reset password | Sessions |
| Attendance, visits (`attendance/`, `visits/`) | day sessions, visits | start, break, end day; check in, check out | FieldDay |
| Hierarchy (`hierarchy/`) | territory nodes with level and parent | create, update, delete, descendants, team | Territories |
| Batch sync (`sync/`) | none of its own | orders and collections in one request | |
| Others | master data, beats, tracking, targets, reports, notifications, audit, uploads, users, tenants | CRUD, append-only records, queries | |

| Client component | State | Operations | Module |
|---|---|---|---|
| Mobile sync queue (`apps/mobile/src/sync`, `apps/mobile/src/db`) | a SQLite table, `isSyncing`, `rerunRequested`, backoff timer | queue, triggerSync, retry, discard, recover at start | SyncQueue |
| PWA sync queue (`apps/field-pwa/src/sync`) | a Dexie table | the same, with other checks | |
| API client (`packages/api-client`) | tokens, one refresh in flight | attach token, refresh once on 401, retry | Sessions |

### How they interact

* **Orders and inventory** share one transaction: approving reserves stock for
  every item and stores the allocations on the order; dispatching deducts
  them, cancelling and rejecting release them. The cleanup job releases and
  cancels outside any transaction, from a list it read earlier.
* **Dispatch, orders and returns**: creating a delivery dispatches the order in
  the order service's own transaction and then saves the record; confirming it
  writes the record, the order and, when something is missing, a return, in one
  transaction.
* **Returns, inventory and finance**: an inspected return restocks its items
  one adjustment at a time; an approved one asks Finance for a credit note.
* **Approvals and orders** call each other: an order raises a request before its
  own transaction commits, a decision on the request acts on the order and is
  recorded afterwards, and a manager's direct approval of the order settles its
  requests after the commit.
* **Collections, invoices and outlets**: one transaction moves the payment, the
  invoices' paid amounts and the outlet's balance; an invoice is made without one.
* **Attendance, visits and orders**: an order needs an open day, the end of the
  day closes the user's visits, and a draft order holds the visit it was taken in.
* **Hierarchy and users**: a node's manager is granted its id, and sees the
  representatives of everything below the ids granted.
* **Sync queue, API client, server**: the queue sends rows one by one with the
  token stored at that moment; the API client renews that token with one
  exchange at a time; keyed rows are recognised again by the services that keep
  `idempotencyKey`.

### What is hard, and what makes each part correct

| Component | Hard behaviour | Correct when |
|---|---|---|
| Orders, inventory | approvals racing for the last units; short approvals that roll back; the cleanup racing an approval; unlocked saves | reservations equal what Approved orders hold; units are conserved; an approved order is filled; final orders stay final; held orders do not stay held for ever |
| Dispatch | a retry after a lost response; dying between deduction and record; two confirmations; a save decided before the order was approved | a delivery only for shipped stock; an order confirmed once; the order agrees with its delivery |
| Returns | a restock that fails halfway and is retried; decisions, edits and removals crossing | goods are back when the return says so, and not before |
| Sync queue | overlapping runs, kill at any point, lost answers, late requests, logout in mid-run, a local database that throws | nothing is lost; no row is stranded but by a failed write of its outcome; a keyed item is carried out once; failure only for cause; the queue drains |
| Authentication, API client | refresh racing refresh, logout, revocation, reset; lost refresh answers; bounded memory of old tokens | a device's token is honoured unless the grace window ends; no rotated token is forgotten; a revoked session stays revoked; a reset ends what earlier passwords opened |
| Collections, finance | clear, bounce, reverse and remove in any order; an invoice cut off before it is posted | the balance equals invoices minus cleared payments; paid amounts equal the allocations in force; none is paid beyond its total |
| Approvals | a request without its order; decisions crossing order actions | a waiting order has a pending request; decisions change an order once; an approved order leaves no request open |
| Attendance, visits | two starts of a day, check-in racing the end of a day, a draft racing a check-out | one open day and one open visit per user; none open after the day ends; a draft holds its visit |
| Hierarchy | moves, changes of level and deletions that overlap | no cycle; no missing parent; a manager's whole team is found |

`PROJECT.json` lists the hazards line by line, with the properties that cover
each one or the reason none does.

## 2. Plan

In order of what the business loses when it goes wrong; every module of the list
is modelled, checked and has theorems.

1. **OrderStock**, with **Stockroom** and **OrderLife**: status machine,
   reservations, cleanup and its liveness.
2. **SyncQueue** and **Outbox**: the device side, its refinement and its liveness.
3. **Delivery**: dispatch records, confirmation, returns.
4. **Sessions**: a session document, refresh with grace window and reuse
   detection, logout, revocation, password reset, and the API client's
   single-flight refresh in front of them; **TokenChain**, its abstraction.
5. **Ledger**: payments, allocations, invoices and the balance.
6. **Approvals**, composed with the order's status machine.
7. **FieldDay** and **WorkDay**: day sessions, visits and drafts of one user.
8. **Territories** and **Tree**: the tree, its moves, and the search below it.

Of the proofs, what is left: an abstract account that `Ledger` implements step by
step (its sums are proved, its moves are not stated apart from the operations),
and the termination of the walk in `updateNode`, which `Forest` gives the measure
for.

What a next model would take, in this order: the PWA's queue as a second
implementation of `Outbox`; `Fefo`, which batches an allocation takes
(OrderStock allows every choice that fills the demand); `CreditExposure`, the
credit limit as orders of one outlet are created at once; the composition of
SyncQueue's `Insert` with the services behind it, each with its own answer to a
raced key (`Racing`).

## 3. How the models stand for the code

Common conventions.

* An action is one step nobody can interleave with: a whole MongoDB transaction,
  or what a handler does between two awaits that matter. A transaction that reads
  and writes a document aborts if another write to it commits first, so it is one
  step; the abort leaves no trace and is the action not happening.
* A handler without a transaction is a read action, which keeps in `req[r]` what
  it read, and a write action, which uses it. `Abandon` or `Interrupt` ends a
  handler between any two steps: a refusal, a failed call or a dead process.
* History variables record that something happened which the code does not
  prevent, such as two starts of a day overlapping (`raced`). A property that
  holds only without it says so, naming the variable; the variable is set by the
  smallest circumstance that breaks the property, so that everything else is
  still shown. They are read by properties, never by guards (except where a
  bound counts them).
* A fault operator (marked `Fault:`) stands before the definition it varies and
  is used by nothing; it is a plausible bug against which a property is tried.
* Amounts, prices, names and messages are left out unless a guard reads them.

* An abstract module states what others count on, with no requests, reads or
  saves in it. The module that implements it names the abstract variables as
  operators of its own state (`phase`, `held`, `stage`, ...) and instantiates it.
  Where the code keeps the promise only until a race it does not prevent, the
  abstract variable `sound` stands for that race not having happened, and the
  promise ends there: `[][sound' => sound /\ Next]`.

### OrderStock, Stockroom and OrderLife

`status`, `alloc` and `aged` are the order document (`alloc` its items'
allocations, per batch; `aged` that it is older than 24 hours); `stock`,
`reserved`, `blocked` and `life` the batch documents (`life` what the expiry date
means to the two stock checks: fresh, within the near-expiry margin, expired).
`req` holds requests between read and write, and `todo`, `cur`, `seen`, `owe`
and `rd` the running cleanup: the orders its query returned, the one in hand, the
statuses and allocations as the query returned them, and a batch document read
but not saved.

| Action | Code |
|---|---|
| `Create` | `OrdersService.create`: the initial status from approval, credit and stock checks |
| `Approve` | `approveOrder`, committed: every item reserved (`CanReserve`), allocations stored |
| `ApproveShort`, `HoldWrite` | the aborted approval, and the `Hold_Stock` update after it, by id alone |
| `Dispatch`, `Reject`, `Cancel` | the transactions that deduct or release |
| `StatusRead`, `StatusWrite` | `changeStatus` into the bare `updateStatus` |
| `AdjustRead`, `AdjustWrite` | `adjustStock`, which has no session |
| `CleanupFind` .. `CleanupError` | `InventoryCleanupService.handleCron`, order by order, batch by batch |
| `Age`, `Spoil`, `Restart` | time and the process |

`stale` counts the saves that replaced a status or quantity their request never
read; `received` and `shipped` let a property speak of units the code does not
count. Choosing batches is any choice that fills the demand. A distributor
reserves from its own batches (`Scope`). `ApproveShort` needs no shortage
(`RunsShort`): a manual override that names a batch which is not there, or asks
for more than it holds, runs short whatever is in stock. `Create` decides on the
stock and saves in one step: it reserves nothing, so what it saw may be out of
date anyway by the time the order is approved, which looks again. An adjustment
changes the block flag only when it carries one (`Given`).

`OrderLife` is an order as its users see it: entered, accepted, shipped and
delivered, each once and in this order, or closed before it is shipped. `Stockroom`
adds the units: accepting moves units from the free stock to the order, shipping
takes out exactly those, closing puts exactly those back. The mapping is `sound <-
stale = 0, free <- stock`, `held` what an Approved order's allocations say, and
`phase` the statuses by what they mean; the three ways to wait (for a manager, a
distributor or stock) are all "open", which also covers `HoldWrite`, a step from
Pending_Approval to Hold_Stock that the code's transition table does not list.

### SyncQueue and Outbox

`row`, `owner`, `attempts`, `due` are the `syncQueue` table; `isSyncing` and
`rerunRequested` the module variables; `run[k]` one call of `triggerSync`: where
it waits (`pc`), the user it read, the rows it read, the one in hand. JavaScript
runs a callback to its next await, so `Call` is the synchronous part,
`Begin` what follows the network check, `Query` the claim and the select, `Send`
the mark and the request, and `Succeed`, `PutBack`, `Settle` the three outcomes.
Every statement of the local database may also throw. Before the request, or in
the `remove` after a 2xx, the catch block takes that for a failed send
(`MarkSyncingFails`, `RemoveFails`); in the query or the last refresh of the
status it ends the run (`QueryFails`, `StatusFails`); inside the catch block
itself, in `markRetry` or `markFailed`, it ends the run through `finally` and
leaves the row SYNCING (`MarkFails`). `stranded` are the rows this happened to,
until the app restarts or a run that had read them before sends them again.
`isSyncing` is set only after an await, so two runs can overlap, and
`docs/OFFLINE_SYNC.md:54` does not hold; the model has the overlap and every
property is checked under it.

`net` is the set of requests on their way. `Lookup` and `Insert` are the server's
two steps for a keyed item; a service that catches the duplicate-key error answers
with the stored record, one that does not answers 409 (`Racing`). A request the
device has stopped waiting for keeps going (`GiveUpWaiting`). `Unauthorized` is
the API client's refresh and second try, or, while another request's refresh is
in progress, its place in `failedQueue` ("parked"), which `Unpark` ends when that
refresh does. `Logout` leaves the table as it is,
`ClearSyncQueue` is the user's choice to discard on logging out; `Restart` is a
kill followed by the recovery at start (`Recovered`). `attempts` may pass
`MaxAttempts`: an overlapping run can put a row back after another gave up on it.

`Outbox` is the promise: work waits until done or discarded. The mapping is
`waiting <- Queued, done <- applied, dropped <- discarded`. Its `Do` is allowed at
any time after the item was asked for, because a request can outlive its row.

The PWA's queue differs: it sets `isSyncing` before any await, so its runs do not
overlap, and it treats 401 as permanent; it is listed as its own component.

### Delivery

`order` is the order's status, the five before approval in one ("Unapproved",
told apart in OrderStock and Approvals); `rec` and `ret` are the dispatch
and return documents; `restocked[t]` the units the inspection of return `t` has
put in stock; `req` as above.

`createDispatch` is four steps: read the order (`DispatchFind`), look for a
record (`DispatchLook`), the order service's transaction (`DispatchDeduct`), save
the record (`DispatchSave`). `confirmDelivery` is a read (`ConfirmRead`) and a
transaction (`Confirm`), which fails unless the order is Dispatched and the record
is as it was read: setting `deliveredItems` makes mongoose check the version.
`Back` is what returns: units missing and units damaged. A return's status
changes are a read, one restock per item and a save, with no transaction between
them; `priced` says that its value is positive, because approving such a return
fails (the credit note's payment mode is not in the collection schema's enum).
`Interrupt` ends a request between any two steps. `EditWrite` changes what a
return lists and its value; the order and the outlet it names are data that no
handler here reads afterwards.

`Approve`, `RejectOrder`, `CancelOrder` and `DirectDispatch` are the order
service's transactions. `StatusRead` and `StatusWrite` are every save that is
decided from an earlier read: the bare Delivered and Partial_Delivery of a
dispatched order, and, of an order not yet approved, a bare status, the
`Hold_Stock` of an approval that ran short, and the cleanup's Cancelled. The last
three can land on an order that has been approved, dispatched or delivered since.
`stale` is that some save replaced a status it never read, `takenBack` the orders
that such a save took out of being shipped; they can then be approved, dispatched
and confirmed again.

`Delivery` implements `OrderLife` from an order's entry on, with `sound <- ~stale`:
the same abstract life as OrderStock's, so that the two modules agree on what an
order may do.

### Sessions and TokenChain

`session` is the session collection: tokens are numbered in the order their
hashes are saved, so `current`, `previous` and `rotated` hold numbers; `fresh`
is that the grace window is open. `stored` and `waiting` are the API client: the
refresh token in its storage and the exchange it waits for.

A refresh is `Send` (the interceptor), `Find` (lookup by the current hash or, in
the window, the previous one), `Rotate` (the save) and `Deliver`. `Refuse` is the
end of the path that finds nothing, where a token known to have been rotated out
revokes its session; `GateClosed` the checks of user and tenant. `Written` is
what mongoose's `$set` contains: the changed fields, not `revoked`, and nothing of
the window when the retired token was used. Because the array of rotated tokens is
replaced, mongoose checks the version, so of two refreshes that read one document
one fails (`Unchanged`). `GiveUp` is the client's timeout, after which the answer
is not used; `DeliverError` clears the tokens on a 401 and keeps them on a 500.
`Logout` finds a session by its current token only; `ResetPassword`, `ResetSpend`
and `ResetRevoke` are the three writes of a password reset.

`TokenChain` is what a session may hand out: token after token while it is open,
at most one more once it is revoked, none after that. A revoked session is
"closing" while a refresh is on its way whose copy of the document is still the
latest (`LastExchange`), and "closed" without one.

### Ledger

`balance` is the outlet's `outstandingBalance`; invoices are numbered in the order
of their creation, which is the order `Fifo` fills them in. A payment's handlers
each run in a transaction and are one action: `CreateCleared` and `CreatePending`
(cash clears at once, a cheque waits), `Clear`, `Bounce`, `Reverse`, `Remove`.
`AllocatedNow` is the strict allocation of a new payment, `AllocatedLater` the one
capped at what the invoice has left when a cheque clears, `Less` the clamp at
zero. `Reverse` also writes the `REV-` row, whose `allocations` are empty; it sets an
invoice Unpaid or Partial without a look at its total, which differs from
`StatusFor` only for an invoice of nothing, whose status no property speaks of.
An invoice is `InvoiceFind`, `InvoiceSave`, `InvoicePost`: no transaction, so two
requests can make two for one order, and a failure before the post leaves the
balance short (`unposted`). `Init` also admits what an older version left: a
pending payment that was allocated when it was recorded. Amounts are integers;
rounding to paise is left out.

### FieldDay and WorkDay

`session`, `visit` and `draft` are the documents of one user, `today` the date.
Each handler is a check or two and a save: `StartFind` (no open session),
`StartCheck` (none completed today) and `StartSave`, `EndRead`/`EndSave`/
`EndVisits`, `CheckInFind`/`CheckInSave`, `CheckOutFind`/`CheckOutDrafts`/
`CheckOutSave`, `OrderRead`/`OrderSave`. A check-in that carries an
`idempotencyKey` and is repeated is answered with its first visit, and a unique
index refuses a second save of the key (`Abandon`); the check-ins here are those
with other keys or none, which nothing keeps apart. `since` in a draft stands for the
comparison of `createdAt` with a visit's check-in. A check-in needs no open day,
as in the code. `raced` and `doubled` are what was saved while another request
of the same kind was between its check and its save; `cut` an end of the day
that stopped between its two writes.

`WorkDay` has the dates on which a day was begun, whether the user is on duty and
the outlet being visited, with five atomic steps; `sound` is that no two starts
and no two check-ins overlapped.

### Approvals

`order` is each order's status, `approval` the approval records. `CreateRaise` and
`CreateCommit` are the two commits of `OrdersService.create` (the record first,
outside the transaction); a creation that dies in between leaves the record, and
the next one raises another. `DecideFind`, `DecideAct` or `DecideSkip`,
`DecideSubmit` or `DecideReject`, `DecideRecord` are `updateApproval` with the
order action in the middle. `ApproveOrder` and `Settle` are a manager's direct
approval. The other actions are what else moves an order in or out of
Pending_Approval: `AcceptOrder`, `CloseOrder`, `StatusRead`/`StatusWrite`,
`DeleteApproval`, `RaiseApproval`.

`phase` maps the orders to `OrderLife` again. Two of the saves here run outside a
transaction (`DecideSubmit`, `StatusWrite`) and can land on an order that was
accepted or closed since it was read (`SavesLate`); `KeepsToLife` says that they
are all that steps out of it.

### Territories and Tree

`node` is the collection; an id is used once and a deleted node is `Gone`.
`createNode` is `CreateFind` (the parent and its level) and `CreateSave`;
`updateNode` is `UpdateFind` (the node itself), `UpdateTarget` (the new parent and
its level, only if the parent changes), `Walk` once per document on the way up,
and `UpdateSave`, which does nothing if the node has gone; `deleteNode` is
`DeleteFind` (the count of children) and `DeleteSave`. `Found` is
`getDescendantTerritoryIds` with its fixed number of rounds, all read in one
state; the code awaits one find per round, so a node moved up while a search is
under way can be missed by that one search (section 9). Three history sets
qualify the properties: `relabelled` (an update changed the node's level, which
the code compares with neither the parent's nor the children's), `raced` (its
parent was set while another request was setting one) and `contested` (a node
deleted while a request was putting a child under it).

`Tree` has the same nodes and operations with nothing in between: a node is added
or moved to a place that is there and above it and not below itself, and dropped
when nothing hangs from it. The history sets are variables of `Tree` too, so the
exceptions are the same.

## 4. Runs

Distinct states are for the instance in the cfg.

| Run | Shows | Properties | States |
|---|---|---|---|
| `order_stock` | two orders compete for three units in two batches through every workflow, two requests at a time, short approvals, the cleanup and a restart | `TypeOK`, `ReservationAccounting`, `ImplementsStockroom` | 1,274,720 |
| `order_stock_stale` | one order under two requests that adjust, block, hold and set its status, spoiling stock and the cleanup, with a save over values never read | `StockConservation`, `ApprovedIsFilled` | 5,699,439 |
| `order_stock_live` | a cleanup that runs, one error or restart between its find and its save | `HeldOrdersExpire` | 13,716 |
| `sync_queue` | one item, two users, two overlapping runs, one fault: a kill, a logout, a dead token, a lost network or a statement the database fails | `TypeOK`, `SyncingIsInFlight`, `KeyedOnce`, `FailedForCause`, `ImplementsOutbox` | 923,438 |
| `sync_queue_live` | one legacy item, two users, three attempts, two faults, fair callbacks | `Drains` | 306,892 |
| `delivery` | two requests at a time approve, reject, dispatch, confirm, cancel and return an order of two products, one interrupted, others saving late | `TypeOK`, `RecordMeansShipped`, `ConfirmedOnce`, `ConfirmationAgrees`, `GoodsFollowReturn`, `ImplementsOrderLife` | 2,736,643 |
| `sessions` | a device logs in, refreshes, gives up, retries and logs out while sessions are revoked and the password is reset | `TypeOK`, `HeldIsHonoured`, `IssuedIsKnown`, `ResetKicksOut`, `ImplementsTokenChain` | 1,021,766 |
| `ledger` | three payments in every order of clear, bounce, reverse and remove, two invoice requests at a time | `TypeOK`, `BalanceAccounts`, `PaidIsAllocated`, `InvoiceAgrees` | 1,784,127 |
| `field_day` | two sessions, two visits, a draft and two requests across a midnight | `TypeOK`, `DaysApart`, `OneActiveVisit`, `DayClosesVisits`, `DraftHoldsVisit` | 3,043,469 |
| `approvals` | one order, two records, three handlers on their way | `TypeOK`, `WaitsOnRequest`, `DecidedOnce`, `DirectApprovalSettles` | 2,825,253 |
| `territories` | three nodes on two levels, two requests that create, move, relabel and delete | `TypeOK`, `Forest`, `ParentsExist`, `TeamIsWhole` | 1,747,459 |
| `sync_owner` | a counterexample, section 8 | `OwnersSessionOnly` | |

What the properties say of the code:

* **ReservationAccounting**: `reservedStock` of every batch is the sum of the
  Approved orders' allocations. A leak, a double release or a half rolled back
  approval breaks it, steps later and in another handler.
* **StockConservation**: received = in stock + reserved + shipped, per batch.
* **ApprovedIsFilled**: an Approved or Dispatched order holds exactly its demand,
  even after stale saves: the hold that overwrites an approval leaks the
  reservation but a later approval fills the order again.
* **ImplementsStockroom**: every transaction and every step of the cleanup is one
  move of one order with exactly the units it holds, or a count of free stock,
  until a stale save. It includes that final orders stay final.
* **HeldOrdersExpire**: when the cleanup fails between its find and its save, every
  aged held order is found again. These orders hold no stock: one that does needs
  a stale save, which this run leaves out, so the releases are empty here.
* **SyncingIsInFlight**: no kill, overlap, lost answer, ended session or discard
  leaves a row SYNCING with nobody to finish it. The exception (`stranded`) is a
  row whose outcome the local database failed to write.
* **KeyedOnce**: any copies of a keyed request, in any interleaving of lookups and
  inserts, are carried out once.
* **FailedForCause**: a session that ends in mid-run does not fail the rest of the
  queue.
* **ImplementsOutbox**: a row leaves only once done, or discarded by a user.
* **Drains**: a queued item does not stay queued while its owner is logged in and
  online: it is resent through backoffs, timeouts and refused or unanswered
  refreshes, or fails. The exceptions are a stranded row, and a request that stays
  parked behind a refresh.
* **RecordMeansShipped**: a delivery exists only for an order whose stock has been
  deducted, though the record is saved after that transaction, unless a save
  decided before the order's approval took the order back (`takenBack`).
* **ConfirmedOnce**: an order is confirmed once even when two deliveries were
  created for it: the second confirmation finds the order already at its end. An
  order taken back can be dispatched and confirmed a second time.
* **ConfirmationAgrees**: order, delivery and automatic return tell one story. A
  late save may change the order's status (`stale`), but not the tie between
  delivery and return, unless the order was taken back.
* **ImplementsOrderLife**: approvals, dispatches, confirmations, cancellations and
  status changes, however they cross, take an order through its life without skipping or
  repeating a part of it, until a save replaces a status its request never read.
* **GoodsFollowReturn**: at `Inspected` every item is back in stock, before
  `Received` none is, wherever a request was interrupted. A retry may restock
  twice, which the property allows and the code does not prevent.
* **HeldIsHonoured**: through lost answers, refused saves, timeouts and retries,
  the token on a device is its session's current one or the one just rotated out.
  The exception (`overtaken`) is a copy of a refresh that the client has given up
  on and that takes the window's retry before the client's own does.
* **IssuedIsKnown**: no rotated token is forgotten sooner than the list's length
  says, so that its reuse is always detected: two rotations of one document would
  lose one.
* **ImplementsTokenChain**: no refresh brings a revoked session back, and of all
  that had read the session before it was revoked at most one still gets a token.
* **ResetKicksOut**: once a reset is through, no session lives that an earlier
  password opened, except one whose login had checked that password before and
  saved after (`stale`).
* **BalanceAccounts**: the outlet owes what it was invoiced less the payments that
  stand, after any sequence of operations.
* **PaidIsAllocated**: an invoice is paid by exactly what standing payments
  allocate to it. The exception (`wiped`) is the reversal of a payment that had
  allocated nothing, which takes its whole amount from the invoice it names.
* **InvoiceAgrees**: no invoice is paid beyond its total, also by cheques that
  clear late, and its status follows.
* **DaysApart**, **OneActiveVisit**: one open session and one start a day, one
  outlet at a time, unless two starts or two check-ins overlapped; the damage of a
  race does not spread to later days and visits.
* **DayClosesVisits**: a visit begun in an open session does not outlive it.
* **DraftHoldsVisit**: no check-out completes a visit that a draft holds, unless
  the draft was saved after the check-out had looked.
* **WaitsOnRequest**: an order that waits for a manager always has a record that
  shows up in the manager's list.
* **DecidedOnce**: decisions one after the other change an order once.
* **DirectApprovalSettles**: an order a manager approved directly leaves no record
  open, those of rolled-back creations included.
* **Forest**: nodes whose parents were set without a race never form a cycle, so
  the walk in `updateNode` ends on them. With a race it may not: section 8.
* **ParentsExist**: a parent is missing only where its deletion overlapped a
  request that was putting a child under it.
* **TeamIsWhole**: for every set of ids, the search, read in one state, reaches
  everything below it, raced moves and missing parents included, as long as no
  level was changed.

## 5. Bounds

* `OrderStock`: demands of two units and one against batches of one and two make
  a split allocation happen, and a distributor who owns only the smaller batch
  runs short on the larger order. Two orders are what an accounting error
  between orders needs, two requests what a handler between another's read and
  write needs. Adjustments that add a unit and leave the block flag, take one and
  block, or only unblock, up to three units, show a lost update in either
  direction. `MaxStale` is 0 where
  stale saves are out of the question and 1 where their effect is the question.
  `MaxFaults` counts restarts and errors of the cleanup.
* `SyncQueue`: one item is enough for everything that concerns a row and its
  copies; two users and two runs make overlap and a change of session happen
  together. `MaxAttempts` of 2 (8 in the code) has both a retry and giving up.
  The liveness run has 3, so that an item backs off and is resent twice before it
  is given up, and two faults in one behaviour; it trades the second run for
  them. That several rows go out in one run is in the theorems, which are about
  any number of items, and in the `sync_owner` run.
* `Delivery`: two delivery records and two requests are what a duplicate and a
  double confirmation take; two products what a restock that stops in between
  takes. With one return document the second half of `ConfirmedOnce` (one
  automatic return per order) holds trivially in the run; a second one is beyond
  the time budget, and the theorem covers it. The counts stated at a
  delivery, delivered and damaged, each go up to what was ordered. Late saves are
  not bounded: an order may be taken back and dispatched again any number of times.
* `Sessions`: two sessions (an old login and a new one), two requests (a refresh
  and whatever crosses it), one lost answer or timeout. `MaxRotated` of 1 (20 in
  the code) with two rotations lets the list overflow, which is where a token
  could be forgotten a rotation too early.
* `Ledger`: three payments, one of them the reversal another one writes; an
  invoice of two units and one of nothing, which stays as it was made; amounts up
  to two, so that a payment can be larger than, equal to or smaller than what is
  open.
* `FieldDay`: two sessions and two visits make every pair a property speaks of;
  one midnight separates the days; one draft holds a visit.
* `Approvals`: two records are one of a creation that was rolled back and one of
  its retry; three handlers are two decisions and a direct approval.
* `Territories`: two levels and one round are the tightest the assumption allows
  (the code has four levels and four rounds, one more than it needs), so a single
  missed level shows; three nodes make a chain one longer than the levels, and a
  cycle of two with a bystander. `MaxRelabelled` of 1 stops updates that name a
  level once a node has been relabelled.
* Symmetry is used only where no liveness is checked, over sets whose members the
  specification never tells apart.
* Deadlock is not checked where the system may rest: when all orders are at an end
  and nobody calls, when every session or node id of the instance is used up.
  `SyncQueue`, `Ledger`, `FieldDay` and `Approvals` are checked for deadlock.

## 6. Fairness

* `OrderStock!FairSpec` is weak fairness of the whole cleanup job: `node-cron`
  starts it every 15 minutes, skips a tick while it runs, and an awaited MongoDB
  call ends. Users are not assumed to do anything, and errors (`CleanupError`) are
  bounded but never assumed away before the bound.
* `SyncQueue!FairSpec` is weak fairness of each run's callbacks (the event loop),
  of the request a run waits for (it ends within its timeout), of each backoff,
  and of the foreground interval that calls `triggerSync` when none runs. Nothing
  is assumed of users, the network or the server: `Drains` has as its premise that
  the owner stays logged in and online. Nor is anything assumed of a request parked
  in `failedQueue`: its timeout is over, and a refresh that finds no token stored
  (`index.ts:87`) returns without `processQueue`, so it may never be answered.
  `Drains` therefore has as a second premise that the queue is found empty again
  and again.
* The other modules promise nothing that must eventually happen: their requests
  may be abandoned at any step, and what a user does next is the user's choice.

## 7. Proofs

TLAPS proves the theorems below for every value of the constants, from the named
assumptions of each module alone (`OrderStockAssumption`, `SyncQueueAssumption`,
`DeliveryAssumption`, `SessionsAssumption`, `LedgerAssumption`, `DaysAssumption`,
`TreeAssumption`, and `NoneAssumption` or `DocumentAssumption`, which only say that
the value for "no document" is not a document). TLC evaluates the same assumptions
in every run.

| Module | Theorems (and the property each proves) |
|---|---|
| `OrderStock_proof` | `TypeCorrect`, `ReservationsAccounted` (ReservationAccounting), `StockConserved` (StockConservation), `ApprovedFilled` (ApprovedIsFilled), `RoomImplemented` (ImplementsStockroom), `FinalStays` (FinalIsFinal\*) |
| `SyncQueue_proof` | `TypeCorrect` (with LinkInv), `SyncingInHand` (SyncingIsInFlight), `FailsForCause` (FailedForCause), `OutboxImplemented` (ImplementsOutbox), `OnceForAKey` (KeyedOnce) |
| `Delivery_proof` | `TypeCorrect`, `DeliveredOnce` (ConfirmedOnce), `ShippedFirst` (RecordMeansShipped), `Agrees` (ConfirmationAgrees), `GoodsBack` (GoodsFollowReturn), `LifeImplemented` (ImplementsOrderLife), `ReturnsOnTrack` (ReturnsMoveOn\*) |
| `Sessions_proof` | `TypeCorrect` (with SessionsInv), `RevokedForGood` (RevocationIsFinal\*), `NoneForgotten` (IssuedIsKnown), `ResetEnds` (ResetKicksOut), `Honours` (HeldIsHonoured), `ChainImplemented` (ImplementsTokenChain), `ReuseEnds` (ReuseDetected\*) |
| `Ledger_proof` | `TypeCorrect`, `Accounts` (BalanceAccounts), `Allocates` (PaidIsAllocated), `NeverOverpaid` (InvoiceAgrees), `GivesWithin` (AllocatesWithin\*), `BooksStayEqual` (BooksAgree\*) |
| `FieldDay_proof` | `TypeCorrect`, `OneDayAtATime` (DaysApart), `OneVisitAtATime` (OneActiveVisit), `DayEndsVisits` (DayClosesVisits), `DraftHolds` (DraftHoldsVisit), `WorkImplemented` (ImplementsWorkDay\*) |
| `Approvals_proof` | `TypeCorrect`, `WaitsForDecision` (WaitsOnRequest), `ActsOnce` (DecidedOnce), `Settles` (DirectApprovalSettles), `KeptToLife` (KeepsToLife\*) |
| `Territories_proof` | `TypeCorrect`, `StaysForest` (Forest), `ParentsStay` (ParentsExist), `TeamWhole` (TeamIsWhole), `TreeImplemented` (ImplementsTree\*) |

The properties marked \* are proved and are in no run: `FinalIsFinal` follows from
`ImplementsStockroom` and `RevocationIsFinal` from `ImplementsTokenChain`, which the
runs check; the others hold on the instances of their modules' cfgs (each was
checked there on its own before it was proved), where checking them every time
would say no more than the theorem does.

The lines of argument:

* **OrderStock.** The accounting alone is not inductive: a cleanup releases what
  it read earlier. `AllocatedByApproval` (an order carries no allocation before it
  is approved) and `CleanupFoundHeld` (what the cleanup found was held) give that
  an order which still is as the cleanup read it has nothing to release;
  `RequestsFit` ties what a request will write to what it read. Sums over orders
  are cardinalities of sets of units: `HeldGrows`, `HeldSame` and `LeavesApproved`
  say what an approval, an indifferent step and a release do to them.
  `FinalIsFinal` follows from `RequestsFit` and `CleanupFoundHeld`. For
  `RoomImplemented` each action is mapped to its move, the quantities batch by
  batch; `CleanupFoundHeld` makes the steps of the cleanup moves of an order that
  holds nothing.
* **SyncQueue.** `LinkInv` relates runs, requests, answers and rows: a run that
  waits has an item in hand, a request belongs to the run that waits for it or to
  nobody, nothing is sent that was never queued, an answer says what the server
  did. With it `Succeed` maps to the step of `Outbox` that leaves, which asks that
  the work is done. `KeyedOnce` is inductive by itself, because the insert looks
  the key up again. A statement that throws changes a run and at most `stranded`
  (`ThrowLink`); a row becomes SYNCING only in `Send`, and `SyncingInHand` follows
  it through the steps that take it out of a run's hands.
* **Delivery.** `DispatchesShip`: a request past the deduction has a shipped
  order, which stays shipped unless it is taken back. `EndedOnce`: until then an
  order with a confirmed delivery or a return of its own is at its end, where no
  confirmation can follow. `TakenBackLate`: what takes an order back has saved
  over a status it never read, so all that is stated under `~stale` is untouched
  (`LateSaves`). `RequestsAllowed` says that the
  status a request read allowed it, which settles what the writes do to
  `ConfirmationAgrees`. `Untouched` and `InspectionsAgree` say of an inspection
  under way that its return is as it was read, with all but what is left of it
  restocked; an interruption leaves that behind, and the next inspection starts
  from it. `LifeImplemented` and `ReturnsOnTrack` use `RequestsAllowed` once more: a
  write that replaces what its request read makes a move that was allowed.
* **Sessions.** `SessionsInv`: a device presents tokens of its own sessions only,
  and a document read for a rotation is the session's until another rotation is
  saved. `RotatedInOrder` makes `IssuedIsKnown` inductive: the list holds the
  latest tokens in order. For `HeldIsHonoured`, `HonouredInv` follows a token on
  its way: of a session that was not overtaken, no exchange presents a later token
  than the device stores (`StoredLatest`) or than the exchange it awaits
  (`AwaitedLatest`), the awaited answer carries the current token (`AnswerLatest`),
  and a session is new to its device until its login is answered
  (`WelcomeIsFirst`). Five actions issue, store or present a token; every other
  one is `Calm` and keeps all of it. `ChainImplemented` splits the steps in four:
  a login opens a session, a rotation renews an open one or is a revoked one's
  last, since no other document read for a rotation can be the latest after it
  (`ReadAgrees`); a read or the loss of a rotation changes one stage at most; the
  others leave all rotations alone and can only revoke. `ReuseEnds` finds the token
  in the list by `RotatedInOrder`.
* **Ledger.** `AllocatedExist` (allocations name invoices) and `PostsDue` (what an
  invoice request still has to post). Totals are cardinalities of sets of units
  (`TotalWithout`, `TotalChange`), so a change of one payment or invoice changes a
  sum by as much. For `BooksStayEqual` an allocation moves units from many
  invoices at once: `TotalAdds` (a sum of two functions has the sum of the totals)
  is shown by a bijection of units instead of an induction over the invoices.
  That `Fifo` has exactly one result in every state are the lemmas `FifoUnique`
  (the least invoice where two allocations differ) and `FifoExists` (the largest
  allocation that fills in order).
* **FieldDay.** A request between its check and its save still finds what it
  checked, but for what overlapping requests saved: `StartsAlone`, `ChecksInAlone`,
  `LeavesFree`, with `DaysPast` for what a midnight changes. `WorkImplemented` maps
  the five saves: before the first overlap the open session and the active visit
  are unique, so completing one leaves none.
* **Approvals.** While an order waits, or is not there yet, nothing has been
  decided about it (`Undecided`) and what is about to be written decides nothing
  (`CommitsFollow`, `ActsAlone`); records and orders name each other once
  (`OneOrderEach`, `OrdersExist`). `KeptToLife` maps every write of an open order
  to a move at once (`OpenGoes`), and needs `CommitsFollow` for the order that a
  commit brings in.
* **Territories.** A cycle is a set of nodes each of whose parents is in the set.
  `WalksSearch`: a walk towards the root that could close such a set is still
  inside it, so one that ended has excluded it. `DeletesChildless` and
  `PlacesUnderNodes` do the same for a deletion and a new child. For the search,
  `LevelsDescend` bounds the depth; that the rounds reach everything below is
  shown by unfolding the recursive function round by round and taking the least
  round that misses a node, since the induction rules that take an operator
  cannot be used by the installed provers. `TreeImplemented` rests on the same
  invariants: at the save, `WalksSearch` gives that the new parent is not below
  the node, `PlacesUnderNodes` that it is there, `RequestsDescend` that it is
  above, `DeletesChildless` that nothing hangs from a deleted node.

Only model-checked: the liveness properties `HeldOrdersExpire` and `Drains`
(fairness and ENABLED are beyond the prover). All other properties of the passing
runs are proved as well.

## 8. What the models show against the texts

One counterexample is kept as a run. `sync_owner`: a run sends all the rows it
read, each with the token stored at the moment of sending (`syncEngine.ts:179`);
after a logout and a login during the run, that is the next user's token, though
`docs/OFFLINE_SYNC.md:58` says only the owner's session ever sends a row.

The models contain the behaviour below as the code has it. Where a property would
fail because of it, a history variable says so and the property holds without it.

* Recording a short approval as `Hold_Stock` is an update by id alone
  (`orders.service.ts:520`): it overwrites an approval that committed in between,
  whose reservation then belongs to no approved order (counted in `stale`).
* The cleanup saves `Cancelled` over an order approved after its query
  (`inventory.cleanup.service.ts:61`) without releasing the approval's stock, and
  logs that it did.
* These two saves, and a bare status change (`orders.service.ts:369`), can also land
  on an order that has been approved and dispatched since they read it. It then has
  a delivery and is not shipped (`takenBack` in `Delivery`), and after a hold or a
  bare Submitted it can be approved, dispatched and confirmed once more.
* Two adjustments of a batch read, add and save: one is lost.
  `docs/BUSINESS_RULES.md:53` wants quantities derived from movements only.
* `changeStatus` refuses a distributor's approval of a Pending_Approval order
  (`orders.service.ts:474`), but lets the bare change to Submitted through, after
  which the distributor can approve it.
* Two runs of the mobile queue can overlap, since `isSyncing` is set after an
  await (`docs/OFFLINE_SYNC.md:54` says one at a time), and a discarded row that a
  run has read is still sent, against the wording of `SyncStatusCard.tsx:88`.
* A retry of a keyed request that overtakes its own first copy is answered 409 by
  the services that leave the duplicate-key error to `error-handler.ts:43`, and
  the device takes that for a permanent refusal; `docs/OFFLINE_SYNC.md:62` calls
  such a retry safe. Nothing is created twice (`KeyedOnce`).
* A write to the local database that throws inside the catch block
  (`syncEngine.ts:193`, `199`, `201`) leaves its row SYNCING until the next start
  (`stranded`), although the comment at `apps/mobile/src/db/client.ts:77` says "A
  row can only be SYNCING while a triggerSync() run is in flight in this process".
  A `remove` that throws after a 2xx sends the row again.
* A request that meets a 401 while another one's refresh is in progress waits in
  the API client's `failedQueue` (`api-client/src/index.ts:70`). A refresh that
  finds no stored token leaves it there (`index.ts:87`): the run that awaits it
  never goes on, `isSyncing` stays set, and the queue rests until a restart.
* Two dispatch requests that both find no record make two deliveries
  (`dispatch.service.ts:41`, whose comment says a retry gets the first one); only
  one of them can be confirmed (`ConfirmedOnce`).
* A bare status change to Delivered leaves the delivery In Transit for good, and
  one that read the order before a confirmation saves over it.
* An edit or removal of a return that read Submitted lands after its approval
  (`returns.service.ts:248`); a retried or doubled inspection restocks twice; the
  approval of a return worth something fails, because the credit note's payment
  mode is not in the collection schema's enum.
* A reversal is both an entry of its own and the end of the payment's credit in
  the ledger's running balance (`finance.service.ts:166`), although
  `collections.service.ts:234` says the operations are symmetric. The stored
  balance, which `BalanceAccounts` is about, is right.
* `docs/BUSINESS_RULES.md:56` says approved receipts are "NEVER deleted"; `remove`
  (`collections.service.ts:466`) refuses only a Cleared one, so a receipt that was
  approved and then reversed or bounced can be deleted (`Remove`), its reversal
  entry staying behind. The balance and the paid amounts do not change with it.
* A rolled-back creation leaves its approval request Pending for good when the
  retry does not carry the same order number: `DirectApprovalSettles` closes what
  names the order approved, and `orders.service.ts:292` makes up a new number for a
  request without one. The mobile app sends one.
* Ending the day completes a visit that a draft holds
  (`attendance.service.ts:119`), which a check-out would refuse
  (`visits.service.ts:104`).
* An update that names a level and no parent is compared with neither parent nor
  children, so the tree can become deeper than the four rounds of the search
  (comment at `hierarchy.service.ts:163`); two moves that overlap can both pass
  the loop check (`hierarchy.service.ts:100`) and close a cycle, on which the loop
  of a later check does not end.

## 9. What is not modelled

* **Within the modelled components.** Prices, taxes, schemes and the sum the
  credit check compares; the FEFO order of batches (any choice that fills the
  demand is allowed); orders that carry no allocations; more than one server
  process; account lockout, OTPs, registration and invitations; breaks,
  regularization, the geofence and outlet activities; a credit note entered by
  hand; approval rules and thresholds; rounding to paise; a check-in repeated with
  its own idempotency key.
* **Rounds of a search.** `getDescendantTerritoryIds` awaits one find per round
  (`hierarchy.service.ts:165`); `Found` reads all rounds in one state, so what a
  search misses when a node moves between two rounds is not represented.
* **Other queues.** The PWA's variant of the queue and the batch endpoint, which
  hands each entry to the order and collection services; pulling cached data.
* **Data without interleavings of interest.** Master data, beats, tracking,
  targets and their rollups, reports, notifications, audit, uploads, support,
  users and tenants, the permission table and managers' grants: single-document
  writes, appended records and queries. A model of them would restate the code.
* **Screens** of the web client and the apps, which hold no state that the server
  or the queue does not check again.

The parts in the first three groups are where the models could grow. The
models cover a small share of the repository's lines, since most of them are
screens, schemas, validation and reports.

------------------------------ MODULE SyncQueue ------------------------------
(***************************************************************************)
(* The offline queue of the mobile app: the syncQueue table, the           *)
(* triggerSync runs that drain it, the session they borrow, the requests   *)
(* they make and the server's duplicate protection.                        *)
(*                                                                         *)
(* JavaScript runs one callback at a time, so a step here is what happens  *)
(* between two awaits.  The table's statements are steps of the callback   *)
(* around them unless another callback could tell.                         *)
(***************************************************************************)
EXTENDS Integers

CONSTANTS
    Items,        \* queue rows, numbered in the order they are queued
    Legacy,       \* rows queued before rows had an owner
    Keyed,        \* items that carry an idempotency key
    Racing,       \* those of them whose unique index answers a race with 409
    Users,
    Runs,         \* bound: calls of triggerSync in progress at once
    MaxAttempts,  \* MAX_SYNC_ATTEMPTS
    MaxFaults,    \* bound: restarts, logouts, dead tokens, lost networks,
                  \* statements the local database fails
    None

ASSUME SyncQueueAssumption ==
    /\ Items \subseteq Nat /\ Legacy \subseteq Items
    /\ Keyed \subseteq Items /\ Racing \subseteq Keyed
    /\ MaxAttempts \in Nat \ {0} /\ MaxFaults \in Nat
    /\ None \notin Users /\ None \notin Runs

VARIABLES
    \* the table: status, owner, attempts, and whether nextAttemptAt has passed
    row, owner, attempts, due,
    \* the app: session, network, module variables of syncEngine.ts, runs
    user, online, isSyncing, rerunRequested, run,
    \* requests on their way and what the server has carried out
    net, applied, twice,
    \* history: items queued, discarded by a user, refused by the server, and
    \* those whose last outcome could not be written to the table
    asked, discarded, refused, stranded, faults

table  == <<row, owner, attempts, due>>
engine == <<isSyncing, rerunRequested, run>>
server == <<applied, twice>>
vars == <<table, user, online, engine, net, server, asked, discarded, refused, stranded, faults>>

-----------------------------------------------------------------------------
Entries == Items \X Nat   \* an item as getPending read it

Pcs     == {"idle", "online", "query", "loop", "sent", "reply", "after"}
Results == {"ok", "refused", "unauthorized", "none"}

RunStates == [pc : Pcs, uid : Users \cup {None}, list : SUBSET Entries,
              cur : Entries \cup {None}, res : Results \cup {None}]
Messages  == [item : Items, as : Users \cup {None}, phase : {"sent", "checked", "parked"},
              run : Runs \cup {None}, again : BOOLEAN]

Idle == [pc |-> "idle", uid |-> None, list |-> {}, cur |-> None, res |-> None]

TypeOK ==
    /\ row \in [Items -> {"none", "PENDING", "SYNCING", "FAILED"}]
    /\ owner \in [Items -> Users \cup {None}]
    /\ attempts \in [Items -> Nat]
    /\ due \in SUBSET Items
    /\ user \in Users \cup {None}
    /\ online \in BOOLEAN /\ isSyncing \in BOOLEAN /\ rerunRequested \in BOOLEAN
    /\ run \in [Runs -> RunStates]
    /\ net \in SUBSET Messages
    /\ applied \in SUBSET Items /\ twice \in SUBSET Items
    /\ asked \in SUBSET Items /\ discarded \in SUBSET Items
    /\ refused \in SUBSET Items /\ stranded \in SUBSET Items
    /\ faults \in 0..MaxFaults

Init ==
    /\ row = [i \in Items |-> IF i \in Legacy THEN "PENDING" ELSE "none"]
    /\ owner = [i \in Items |-> None]
    /\ attempts = [i \in Items |-> 0]
    /\ due = Legacy
    /\ user = None
    /\ online = TRUE /\ isSyncing = FALSE /\ rerunRequested = FALSE
    /\ run = [k \in Runs |-> Idle]
    /\ net = {} /\ applied = {} /\ twice = {}
    /\ asked = Legacy /\ discarded = {} /\ refused = {} /\ stranded = {}
    /\ faults = 0

Queued    == {i \in Items : row[i] # "none"}
Own(i, u) == owner[i] \in {u, None}

Fault == faults < MaxFaults /\ faults' = faults + 1

-----------------------------------------------------------------------------
(* A run of triggerSync.                                                   *)

\* The call itself, up to the first await.
Call ==
    \/ /\ isSyncing
       /\ rerunRequested' = TRUE
       /\ UNCHANGED run
    \/ /\ ~isSyncing /\ user = None
       /\ UNCHANGED <<rerunRequested, run>>
    \/ /\ ~isSyncing /\ user # None
       /\ \E k \in Runs :
             /\ run[k] = Idle
             /\ run' = [run EXCEPT ![k].pc = "online"]
       /\ UNCHANGED rerunRequested

\* NetInfo.fetch() has answered.
Begin(k) ==
    /\ run[k].pc = "online"
    /\ IF online
         THEN /\ isSyncing' = TRUE /\ rerunRequested' = FALSE
              /\ run' = [run EXCEPT ![k].pc = "query", ![k].uid = user]
         ELSE /\ run' = [run EXCEPT ![k] = Idle]
              /\ UNCHANGED <<isSyncing, rerunRequested>>
    /\ UNCHANGED <<table, user, online, net, server, asked, discarded, refused, stranded, faults>>

\* claimLegacyItems, then getPending.
Query(k) ==
    /\ run[k].pc = "query"
    /\ owner' = [i \in Items |-> IF i \in Queued /\ Own(i, None) THEN run[k].uid ELSE owner[i]]
    /\ LET ready == {i \in due : row[i] = "PENDING" /\ owner'[i] = run[k].uid} IN
          run' = [run EXCEPT ![k] = [Idle EXCEPT !.pc = "loop",
                                         !.list = {<<i, attempts[i]>> : i \in ready}]]
    /\ UNCHANGED <<row, attempts, due, user, online, isSyncing, rerunRequested,
                   net, server, asked, discarded, refused, stranded, faults>>

\* markSyncing, then the request with the token stored at that moment.
Send(k, e) ==
    /\ run[k].pc = "loop"
    /\ e \in run[k].list
    /\ \A d \in run[k].list : e[1] <= d[1]
    /\ row' = [row EXCEPT ![e[1]] = IF @ = "none" THEN @ ELSE "SYNCING"]
    /\ run' = [run EXCEPT ![k].pc = "sent", ![k].list = @ \ {e}, ![k].cur = e]
    /\ net' = net \cup {[item |-> e[1], as |-> user, phase |-> "sent",
                         run |-> k, again |-> FALSE]}
    /\ stranded' = stranded \ {e[1]}
    /\ UNCHANGED <<owner, attempts, due, user, online, isSyncing, rerunRequested,
                   server, asked, discarded, refused, faults>>

\* An UPDATE or DELETE of a row that is gone does nothing.
Mark(i, s) == row' = [row EXCEPT ![i] = IF @ = "none" THEN @ ELSE s]

\* Faults: the attempt just made is taken off instead of counted; it is not
\* written at all.
CountsDown(i, n)    == attempts' = [attempts EXCEPT ![i] = IF row[i] = "none" THEN @ ELSE n - 1]
CountsNothing(i, n) == UNCHANGED attempts

SetAttempts(i, n) == attempts' = [attempts EXCEPT ![i] = IF row[i] = "none" THEN @ ELSE n]

Succeed(k) ==
    /\ run[k].pc = "reply" /\ run[k].res = "ok"
    /\ Mark(run[k].cur[1], "none")
    /\ run' = [run EXCEPT ![k].pc = "loop", ![k].cur = None, ![k].res = None]
    /\ UNCHANGED <<owner, attempts, due, user, online, isSyncing, rerunRequested,
                   net, server, asked, discarded, refused, stranded, faults>>

\* Fault: only the error is looked at, never the session.
NeverEnded(k) == FALSE

SessionEnded(k) == run[k].res = "unauthorized" \/ user = None

\* Fault: the run stops and leaves the row as it is.
LeavesInHand(k) ==
    /\ run[k].pc = "reply" /\ run[k].res # "ok"
    /\ SessionEnded(k)
    /\ run' = [run EXCEPT ![k] = [Idle EXCEPT !.pc = "loop"]]
    /\ UNCHANGED <<table, user, online, isSyncing, rerunRequested,
                   net, server, asked, discarded, refused, stranded, faults>>

\* The session ended: the item goes back untouched and the run stops.
PutBack(k) ==
    /\ run[k].pc = "reply" /\ run[k].res # "ok"
    /\ SessionEnded(k)
    /\ LET e == run[k].cur IN
          /\ Mark(e[1], "PENDING") /\ SetAttempts(e[1], e[2])
          /\ due' = due \cup {e[1]}
    /\ run' = [run EXCEPT ![k] = [Idle EXCEPT !.pc = "loop"]]
    /\ UNCHANGED <<owner, user, online, isSyncing, rerunRequested,
                   net, server, asked, discarded, refused, stranded, faults>>

GivesUp(res, n) == res # "none" \/ n >= MaxAttempts

\* decideRetry, with the attempts the snapshot holds.
Settle(k) ==
    /\ run[k].pc = "reply" /\ run[k].res # "ok"
    /\ ~SessionEnded(k)
    /\ LET i == run[k].cur[1]  n == run[k].cur[2] + 1 IN
          /\ SetAttempts(i, n)
          /\ IF GivesUp(run[k].res, n)
               THEN Mark(i, "FAILED") /\ UNCHANGED due
               ELSE Mark(i, "PENDING") /\ due' = due \ {i}
    /\ run' = [run EXCEPT ![k].pc = "loop", ![k].cur = None, ![k].res = None]
    /\ UNCHANGED <<owner, user, online, isSyncing, rerunRequested,
                   net, server, asked, discarded, refused, stranded, faults>>

Finish(k) ==
    /\ run[k].pc = "loop" /\ run[k].list = {}
    /\ isSyncing' = FALSE
    /\ run' = [run EXCEPT ![k].pc = "after"]
    /\ UNCHANGED <<table, user, online, rerunRequested,
                   net, server, asked, discarded, refused, stranded, faults>>

\* After the awaits of the finally block and the pull: the requested rerun.
Rerun(k) ==
    /\ run[k].pc = "after"
    /\ rerunRequested' = (rerunRequested /\ isSyncing)
    /\ run' = [run EXCEPT ![k] =
                  IF rerunRequested /\ ~isSyncing /\ user # None
                    THEN [Idle EXCEPT !.pc = "online"] ELSE Idle]
    /\ UNCHANGED <<table, user, online, isSyncing,
                   net, server, asked, discarded, refused, stranded, faults>>

(* A statement of the local database throws.                               *)

\* claimLegacyItems, getPending or a count: the finally block ends the run.
QueryFails(k) ==
    /\ run[k].pc = "query" /\ Fault
    /\ \/ UNCHANGED owner
       \/ owner' = [i \in Items |-> IF i \in Queued /\ Own(i, None) THEN run[k].uid ELSE owner[i]]
    /\ isSyncing' = FALSE
    /\ run' = [run EXCEPT ![k] = Idle]
    /\ UNCHANGED <<row, attempts, due, user, online, rerunRequested,
                   net, server, asked, discarded, refused, stranded>>

\* markSyncing: nothing is sent, and the item is treated as unanswered.
MarkSyncingFails(k, e) ==
    /\ run[k].pc = "loop" /\ Fault
    /\ e \in run[k].list
    /\ \A d \in run[k].list : e[1] <= d[1]
    /\ run' = [run EXCEPT ![k].pc = "reply", ![k].list = @ \ {e}, ![k].cur = e, ![k].res = "none"]
    /\ UNCHANGED <<table, user, online, isSyncing, rerunRequested,
                   net, server, asked, discarded, refused, stranded>>

\* remove, after a 2xx: the item is treated as unanswered.
RemoveFails(k) ==
    /\ run[k].pc = "reply" /\ run[k].res = "ok" /\ Fault
    /\ run' = [run EXCEPT ![k].res = "none"]
    /\ UNCHANGED <<table, user, online, isSyncing, rerunRequested,
                   net, server, asked, discarded, refused, stranded>>

\* markRetry or markFailed, inside the catch block: the finally block ends
\* the run, and the row keeps the status it has.
MarkFails(k) ==
    /\ run[k].pc = "reply" /\ run[k].res # "ok" /\ Fault
    /\ isSyncing' = FALSE
    /\ run' = [run EXCEPT ![k] = Idle]
    /\ stranded' = stranded \cup {run[k].cur[1]}
    /\ UNCHANGED <<table, user, online, rerunRequested,
                   net, server, asked, discarded, refused>>

\* refreshSyncStatus, in the finally block: neither the pull nor the rerun.
StatusFails(k) ==
    /\ run[k].pc = "after" /\ Fault
    /\ run' = [run EXCEPT ![k] = Idle]
    /\ UNCHANGED <<table, user, online, isSyncing, rerunRequested,
                   net, server, asked, discarded, refused, stranded>>

-----------------------------------------------------------------------------
(* Requests.                                                               *)

Answer(q, res) ==
    /\ net' = net \ {q}
    /\ run' = IF q.run = None THEN run
              ELSE [run EXCEPT ![q.run].pc = "reply", ![q.run].res = res]

Stored(i) == i \in Keyed \cap applied

\* The service looks the key up.
Lookup(q) ==
    /\ q.phase = "sent" /\ q.as # None
    /\ IF Stored(q.item)
         THEN Answer(q, "ok")
         ELSE net' = (net \ {q}) \cup {[q EXCEPT !.phase = "checked"]} /\ UNCHANGED run
    /\ UNCHANGED <<table, user, online, isSyncing, rerunRequested,
                   server, asked, discarded, refused, stranded, faults>>

\* Fault: the key has no unique index.
InsertsAnyway(q) ==
    /\ q.phase = "checked"
    /\ applied' = applied \cup {q.item}
    /\ twice' = IF q.item \in applied THEN twice \cup {q.item} ELSE twice
    /\ Answer(q, "ok")
    /\ UNCHANGED <<table, user, online, isSyncing, rerunRequested,
                   asked, discarded, refused, stranded, faults>>

\* Then it inserts, under the unique index on the key.
Insert(q) ==
    /\ q.phase = "checked"
    /\ IF Stored(q.item)
         THEN /\ Answer(q, IF q.item \in Racing THEN "refused" ELSE "ok")
              /\ refused' = IF q.item \in Racing THEN refused \cup {q.item} ELSE refused
              /\ UNCHANGED server
         ELSE /\ Answer(q, "ok")
              /\ applied' = applied \cup {q.item}
              /\ twice' = IF q.item \in applied THEN twice \cup {q.item} ELSE twice
              /\ UNCHANGED refused
    /\ UNCHANGED <<table, user, online, isSyncing, rerunRequested,
                   asked, discarded, stranded, faults>>

\* A rule of the business refuses it: a 4xx that is final for the client.
Refuse(q) ==
    /\ q.phase = "checked"
    /\ Answer(q, "refused")
    /\ refused' = refused \cup {q.item}
    /\ UNCHANGED <<table, user, online, isSyncing, rerunRequested,
                   server, asked, discarded, stranded, faults>>

\* Lost before it is carried out, or a 5xx, 408 or 429.
Fail(q) ==
    /\ q.phase # "parked"
    /\ Answer(q, "none")
    /\ UNCHANGED <<table, user, online, isSyncing, rerunRequested,
                   server, asked, discarded, refused, stranded, faults>>

\* The client's timeout or a broken connection; the server may go on.
GiveUpWaiting(q) ==
    /\ q.run # None /\ q.as # None /\ q.phase # "parked"
    /\ net' = (net \ {q}) \cup {[q EXCEPT !.run = None]}
    /\ run' = [run EXCEPT ![q.run].pc = "reply", ![q.run].res = "none"]
    /\ UNCHANGED <<table, user, online, isSyncing, rerunRequested,
                   server, asked, discarded, refused, stranded, faults>>

\* No token, or one the server no longer takes.  The api-client refreshes
\* the session that is logged in by now and resends once; a refresh that is
\* refused ends the session, one that gets no answer does not.  While another
\* request's refresh is in progress, this one is parked in failedQueue.
Unauthorized(q) ==
    /\ q.phase = "sent"
    /\ IF q.as = None THEN UNCHANGED faults ELSE Fault
    /\ \/ /\ q.run = None \/ user = None \/ q.again
          /\ Answer(q, "unauthorized") /\ UNCHANGED user
       \/ /\ q.run # None /\ user # None /\ ~q.again
          /\ \/ /\ \/ net' = (net \ {q}) \cup {[q EXCEPT !.as = user, !.again = TRUE]}
                   \/ net' = (net \ {q}) \cup {[q EXCEPT !.phase = "parked"]}
                /\ UNCHANGED <<run, user>>
             \/ Answer(q, "unauthorized") /\ user' = None
             \/ Answer(q, "none") /\ UNCHANGED user
    /\ UNCHANGED <<table, online, isSyncing, rerunRequested,
                   server, asked, discarded, refused, stranded>>

\* processQueue, when the other request's refresh ends: resent with the new
\* token, without the mark of a retry, or given the error of the refresh.
Unpark(q) ==
    /\ q.phase = "parked"
    /\ \/ /\ net' = (net \ {q}) \cup {[q EXCEPT !.as = user, !.phase = "sent"]}
          /\ UNCHANGED <<run, user>>
       \/ Answer(q, "unauthorized") /\ user' = None
       \/ Answer(q, "none") /\ UNCHANGED user
    /\ UNCHANGED <<table, online, isSyncing, rerunRequested,
                   server, asked, discarded, refused, stranded, faults>>

-----------------------------------------------------------------------------
(* The user and the device.                                                *)

\* enqueueAndSync.
Enqueue(i) ==
    /\ user # None
    /\ i \notin asked /\ \A j \in Items : j < i => j \in asked
    /\ row' = [row EXCEPT ![i] = "PENDING"]
    /\ owner' = [owner EXCEPT ![i] = user]
    /\ due' = due \cup {i}
    /\ asked' = asked \cup {i}
    /\ Call
    /\ UNCHANGED <<attempts, user, online, isSyncing, net, server,
                   discarded, refused, stranded, faults>>

\* Retry on one of the user's own failed items.
RetryFailed(i) ==
    /\ user # None /\ row[i] = "FAILED" /\ Own(i, user)
    /\ Mark(i, "PENDING") /\ SetAttempts(i, 0)
    /\ due' = due \cup {i}
    /\ Call
    /\ UNCHANGED <<owner, user, online, isSyncing, net, server,
                   asked, discarded, refused, stranded, faults>>

Delete(S) ==
    /\ row' = [i \in Items |-> IF i \in S THEN "none" ELSE row[i]]
    /\ discarded' = discarded \cup S
    /\ UNCHANGED <<owner, attempts, due, user, online, engine, net, server, asked, refused, stranded>>

\* Discard: one of the user's own failed items, or another user's item.
DiscardFailed(i) ==
    /\ user # None /\ i \in Queued
    /\ (row[i] = "FAILED" /\ Own(i, user)) \/ ~Own(i, user)
    /\ Delete({i}) /\ UNCHANGED faults

\* 'Log out anyway (discard)': the rows go first, the session after.
ClearSyncQueue ==
    /\ user # None
    /\ Fault
    /\ Delete({i \in Queued : Own(i, user)})

\* The user logs out, or a refresh of some other screen's request is refused.
Logout ==
    /\ user # None /\ Fault
    /\ user' = None
    /\ UNCHANGED <<table, online, engine, net, server, asked, discarded, refused, stranded>>

Login(u) ==
    /\ user = None
    /\ user' = u
    /\ UNCHANGED <<table, online, engine, net, server, asked, discarded, refused, stranded, faults>>

\* A timer, the foreground, a login or a pull to refresh.
Trigger ==
    /\ user # None /\ Call
    /\ UNCHANGED <<table, user, online, isSyncing, net, server,
                   asked, discarded, refused, stranded, faults>>

LoseNetwork ==
    /\ online /\ Fault
    /\ online' = FALSE
    /\ UNCHANGED <<table, user, engine, net, server, asked, discarded, refused, stranded>>

Reconnect ==
    /\ ~online
    /\ online' = TRUE
    /\ Call
    /\ UNCHANGED <<table, user, isSyncing, net, server, asked, discarded, refused, stranded, faults>>

\* nextAttemptAt passes.
BackoffEnds(i) ==
    /\ row[i] = "PENDING" /\ i \notin due
    /\ due' = due \cup {i}
    /\ UNCHANGED <<row, owner, attempts, user, online, engine,
                   net, server, asked, discarded, refused, stranded, faults>>

\* Fault: the new process drops interrupted rows.
DropsInterrupted(s) == IF s = "SYNCING" THEN "none" ELSE s

\* migrate() puts interrupted rows back in line.
Recovered(s) == IF s = "SYNCING" THEN "PENDING" ELSE s

\* The app is killed and opened again; the stored session may be unreadable.
Restart ==
    /\ Fault
    /\ row' = [i \in Items |-> Recovered(row[i])]
    /\ isSyncing' = FALSE /\ rerunRequested' = FALSE
    /\ run' = [k \in Runs |-> Idle]
    /\ net' = {[q EXCEPT !.run = None] : q \in {m \in net : m.as # None /\ m.phase # "parked"}}
    /\ user' \in {user, None}
    /\ stranded' = {}
    /\ UNCHANGED <<owner, attempts, due, online, server, asked, discarded, refused>>

-----------------------------------------------------------------------------
Step(k) ==
    \/ Begin(k) \/ Query(k) \/ Succeed(k) \/ PutBack(k) \/ Settle(k)
    \/ Finish(k) \/ Rerun(k)
    \/ \E e \in run[k].list : Send(k, e)

Throw(k) ==
    \/ QueryFails(k) \/ RemoveFails(k) \/ MarkFails(k) \/ StatusFails(k)
    \/ \E e \in run[k].list : MarkSyncingFails(k, e)

Exchange(q) ==
    \/ Lookup(q) \/ Insert(q) \/ Refuse(q) \/ Fail(q) \/ GiveUpWaiting(q)
    \/ Unauthorized(q) \/ Unpark(q)

Next ==
    \/ \E k \in Runs : Step(k) \/ Throw(k)
    \/ \E q \in net : Exchange(q)
    \/ \E i \in Items : Enqueue(i) \/ RetryFailed(i) \/ DiscardFailed(i) \/ BackoffEnds(i)
    \/ \E u \in Users : Login(u)
    \/ ClearSyncQueue \/ Logout \/ Trigger \/ LoseNetwork \/ Reconnect \/ Restart

Spec == Init /\ [][Next]_vars

\* The event loop runs every callback, a request ends within its timeout,
\* backoffs end, and the foreground interval keeps calling triggerSync.  Of a
\* parked request nothing is assumed: it has no timeout of its own, and a
\* refresh that finds no token stored ends without releasing it.
FairSpec ==
    /\ Spec
    /\ \A k \in Runs :
          /\ WF_vars(Step(k))
          /\ WF_vars(\E q \in net : q.run = k /\ q.phase # "parked" /\ Exchange(q))
    /\ \A i \in Items : WF_vars(BackoffEnds(i))
    /\ WF_vars(~isSyncing /\ Trigger)

-----------------------------------------------------------------------------
(* Properties.                                                             *)

Promise == INSTANCE Outbox WITH waiting <- Queued, done <- applied, dropped <- discarded

\* The queue implements the outbox: whatever is lost, repeated, killed or
\* logged out, a row leaves only once the server has carried it out or a user
\* has discarded it.
ImplementsOutbox == Promise!Spec

\* A row is SYNCING only while a run of this process has it in hand, or since
\* the local database failed the write of its outcome: no lost answer, ended
\* session, overlapping run or restart leaves one where no run will pick it up.
SyncingIsInFlight ==
    \A i \in Items : row[i] = "SYNCING" =>
        \/ \E k \in Runs : run[k].pc \in {"sent", "reply"} /\ run[k].cur[1] = i
        \/ i \in stranded

\* An item with an idempotency key is carried out at most once, however often
\* it is sent and however its copies interleave at the server.
KeyedOnce == twice \cap Keyed = {}

\* An item fails only because the server refused it or its attempts are used
\* up, never because a session ended under it.
FailedForCause ==
    \A i \in Items : row[i] = "FAILED" => i \in refused \/ attempts[i] >= MaxAttempts

LeftAlone(i) == row[i] = "SYNCING" /\ i \in stranded
Parked       == \E q \in net : q.phase = "parked"

\* While its owner stays logged in and the network stays up, a queued item
\* does not stay queued, through backoffs, timeouts and failed refreshes: it
\* is sent, or fails for the user to decide.  Not so for a row whose outcome
\* could not be written, nor behind a request that stays parked for ever.
Drains ==
    \A i \in Items :
        <>[](user # None /\ user = owner[i] /\ online /\ ~LeftAlone(i)) /\ []<>~Parked
            => []<>(row[i] \notin {"PENDING", "SYNCING"})

(* What ties runs, requests and rows together; each is inductive with the  *)
(* others and with TypeOK.                                                 *)

\* A run that waits for a request or holds its answer has an item in hand.
HoldsEntry ==
    \A k \in Runs : run[k].pc \in {"sent", "reply"} => run[k].cur \in Entries

\* A request is the one its run waits for, or nobody waits for it.
AwaitedByRun ==
    /\ \A q \in net : q.run # None => run[q.run].pc = "sent" /\ run[q.run].cur[1] = q.item
    /\ \A p, q \in net : p.run = q.run /\ p.run # None => p = q

\* Nothing is sent that was never queued.
SentWasAsked ==
    /\ Queued \subseteq asked
    /\ \A k \in Runs : \A e \in run[k].list : e[1] \in asked
    /\ \A k \in Runs : run[k].pc \in {"sent", "reply"} => run[k].cur[1] \in asked
    /\ \A q \in net : q.item \in asked

\* An answer says what the server did.
AnswersHonest ==
    \A k \in Runs : run[k].pc = "reply" =>
        /\ run[k].res \in Results
        /\ run[k].res = "ok" => run[k].cur[1] \in applied
        /\ run[k].res = "refused" => run[k].cur[1] \in refused

LinkInv == HoldsEntry /\ AwaitedByRun /\ SentWasAsked /\ AnswersHonest

(* What the repository says of the code and the code does not keep.        *)

\* OFFLINE_SYNC.md: only the session of its owner ever sends an item.
OwnersSessionOnly ==
    \A q \in net : owner[q.item] # None => q.as \in {owner[q.item], None}
=============================================================================

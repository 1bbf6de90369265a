--------------------------- MODULE SyncQueue_proof ---------------------------
(***************************************************************************)
(* Proofs about SyncQueue, for any items, users and number of runs, and    *)
(* any bound on faults: types, the in-flight and failure invariants, that  *)
(* the queue implements Outbox, and that a keyed item is carried out once. *)
(***************************************************************************)
EXTENDS SyncQueue, TLAPS

-----------------------------------------------------------------------------
(* Type correctness.                                                       *)

LEMMA IdleType == Idle \in RunStates
  BY DEF Idle, RunStates, Pcs

LEMMA TypeInit == ASSUME Init PROVE TypeOK
  <1>1. run \in [Runs -> RunStates]
    BY IdleType DEF Init
  <1>2. row \in [Items -> {"none", "PENDING", "SYNCING", "FAILED"}]
    BY DEF Init
  <1>3. faults \in 0..MaxFaults
    BY SyncQueueAssumption DEF Init, SyncQueueAssumption
  <1> QED
    BY SyncQueueAssumption, <1>1, <1>2, <1>3 DEF Init, TypeOK, SyncQueueAssumption

\* A call of triggerSync keeps the module variables of the engine well typed.
LEMMA CallType ==
    ASSUME TypeOK, Call
    PROVE  rerunRequested' \in BOOLEAN /\ run' \in [Runs -> RunStates]
  <1>1. CASE UNCHANGED run /\ rerunRequested' \in BOOLEAN
    BY <1>1 DEF TypeOK
  <1>2. ASSUME NEW k \in Runs, run' = [run EXCEPT ![k].pc = "online"],
               UNCHANGED rerunRequested
        PROVE  rerunRequested' \in BOOLEAN /\ run' \in [Runs -> RunStates]
    <2>1. [run[k] EXCEPT !.pc = "online"] \in RunStates
      BY DEF TypeOK, RunStates, Pcs
    <2> QED
      BY <1>2, <2>1 DEF TypeOK
  <1>3. rerunRequested \in BOOLEAN
    BY DEF TypeOK
  <1> QED
    BY <1>1, <1>2, <1>3 DEF Call

LEMMA ReplyType ==
    ASSUME NEW r \in RunStates, NEW res \in Results
    PROVE  [r EXCEPT !.pc = "reply", !.res = res] \in RunStates
  BY DEF RunStates, Pcs, Results

LEMMA AnswerType ==
    ASSUME TypeOK, NEW q \in net, NEW res \in Results, Answer(q, res)
    PROVE  net' \in SUBSET Messages /\ run' \in [Runs -> RunStates]
  <1>1. q \in Messages /\ net' \in SUBSET Messages
    BY DEF Answer, TypeOK
  <1>2. q.run \in Runs \cup {None}
    BY <1>1 DEF Messages
  <1>3. CASE q.run = None
    BY <1>1, <1>3 DEF Answer, TypeOK
  <1>4. CASE q.run \in Runs
    <2>1. run[q.run] \in RunStates
      BY <1>4 DEF TypeOK
    <2>2. [run[q.run] EXCEPT !.pc = "reply", !.res = res] \in RunStates
      BY <2>1, ReplyType
    <2>3. run' = IF q.run = None THEN run
                 ELSE [run EXCEPT ![q.run] = [run[q.run] EXCEPT !.pc = "reply", !.res = res]]
      BY DEF Answer
    <2> QED
      BY <1>1, <1>4, <2>2, <2>3 DEF TypeOK
  <1> QED
    BY <1>2, <1>3, <1>4

LEMMA HeldEntry ==
    ASSUME HoldsEntry, NEW k \in Runs, run[k].pc = "reply"
    PROVE  run[k].cur \in Entries
  BY DEF HoldsEntry

LEMMA StepType ==
    ASSUME TypeOK, HoldsEntry, NEW k \in Runs, Step(k)
    PROVE  TypeOK'
  <1> USE DEF TypeOK, table, engine, server, Pcs, Results
  <1>1. run[k] \in RunStates /\ Idle \in RunStates
    BY DEF RunStates, Idle
  <1>2. CASE Begin(k)
    <2>1. run' \in [Runs -> RunStates]
      <3>1. [run[k] EXCEPT !.pc = "query", !.uid = user] \in RunStates
        BY <1>1 DEF RunStates
      <3>2. \/ run' = [run EXCEPT ![k] = [run[k] EXCEPT !.pc = "query", !.uid = user]]
            \/ run' = [run EXCEPT ![k] = Idle]
        BY <1>2 DEF Begin
      <3> QED
        BY <1>1, <3>1, <3>2
    <2>2. isSyncing' \in BOOLEAN /\ rerunRequested' \in BOOLEAN
      BY <1>2 DEF Begin
    <2> QED
      BY <1>2, <2>1, <2>2 DEF Begin
  <1>3. CASE Query(k)
    <2> DEFINE ready == {i \in due : row[i] = "PENDING" /\ owner'[i] = run[k].uid}
               new   == [Idle EXCEPT !.pc = "loop", !.list = {<<i, attempts[i]>> : i \in ready}]
    <2>1. run[k].uid \in Users \cup {None}
      BY <1>1 DEF RunStates
    <2>2. owner' \in [Items -> Users \cup {None}]
      BY <1>3, <2>1 DEF Query
    <2>3. {<<i, attempts[i]>> : i \in ready} \in SUBSET Entries
      BY DEF Entries
    <2>4. new \in RunStates
      BY <2>3 DEF RunStates, Idle
    <2>5. run' = [run EXCEPT ![k] = new]
      BY <1>3 DEF Query
    <2>6. run' \in [Runs -> RunStates]
      BY <2>4, <2>5
    <2> QED
      BY <1>3, <2>2, <2>6 DEF Query
  <1>4. CASE Succeed(k)
    <2>1. row' \in [Items -> {"none", "PENDING", "SYNCING", "FAILED"}]
      BY <1>4 DEF Succeed, Mark
    <2>2. run' \in [Runs -> RunStates]
      BY <1>1, <1>4 DEF Succeed, RunStates
    <2> QED
      BY <1>4, <2>1, <2>2 DEF Succeed
  <1>5. CASE PutBack(k)
    <2> DEFINE e == run[k].cur
    <2>1. [Idle EXCEPT !.pc = "loop"] \in RunStates
      BY <1>1 DEF RunStates
    <2>2. run' \in [Runs -> RunStates]
      BY <1>5, <2>1 DEF PutBack
    <2>3. row' \in [Items -> {"none", "PENDING", "SYNCING", "FAILED"}]
      BY <1>5 DEF PutBack, Mark
    <2>4. e \in Entries
      BY <1>5, HeldEntry DEF PutBack
    <2>5. e[1] \in Items /\ e[2] \in Nat
      BY <2>4 DEF Entries
    <2>6. attempts' \in [Items -> Nat]
      BY <1>5, <2>5 DEF PutBack, SetAttempts
    <2> QED
      BY <1>5, <2>2, <2>3, <2>5, <2>6 DEF PutBack
  <1>6. CASE Settle(k)
    <2> DEFINE i == run[k].cur[1]
               n == run[k].cur[2] + 1
    <2>1. run[k].cur \in Entries
      BY <1>6, HeldEntry DEF Settle
    <2>2. i \in Items /\ n \in Nat
      BY <2>1 DEF Entries
    <2>3. [run[k] EXCEPT !.pc = "loop", !.cur = None, !.res = None] \in RunStates
      BY <1>1 DEF RunStates
    <2>4. run' \in [Runs -> RunStates]
      BY <1>6, <2>3 DEF Settle
    <2>5. /\ row' \in [Items -> {"none", "PENDING", "SYNCING", "FAILED"}]
          /\ due' \in SUBSET Items
      BY <1>6, <2>2 DEF Settle, Mark
    <2>6. attempts' \in [Items -> Nat]
      BY <1>6, <2>2 DEF Settle, SetAttempts
    <2> QED
      BY <1>6, <2>4, <2>5, <2>6 DEF Settle
  <1>7. CASE Finish(k)
    BY <1>1, <1>7 DEF Finish, RunStates
  <1>8. CASE Rerun(k)
    BY <1>1, <1>8 DEF Rerun, Idle, RunStates
  <1>9. ASSUME NEW e \in run[k].list, Send(k, e) PROVE TypeOK'
    BY <1>1, <1>9 DEF Send, RunStates, Entries, Messages
  <1> QED
    BY <1>2, <1>3, <1>4, <1>5, <1>6, <1>7, <1>8, <1>9 DEF Step

LEMMA ThrowType ==
    ASSUME TypeOK, HoldsEntry, NEW k \in Runs, Throw(k)
    PROVE  TypeOK'
  <1> USE DEF TypeOK, table, server
  <1>1. run[k] \in RunStates /\ Idle \in RunStates
    BY DEF RunStates, Idle, Pcs
  <1>2. Fault => faults' \in 0..MaxFaults
    BY SyncQueueAssumption DEF Fault, SyncQueueAssumption
  <1>3. CASE QueryFails(k)
    <2>1. run[k].uid \in Users \cup {None}
      BY <1>1 DEF RunStates
    <2>2. owner' \in [Items -> Users \cup {None}]
      BY <1>3, <2>1 DEF QueryFails
    <2>3. run' \in [Runs -> RunStates]
      BY <1>1, <1>3 DEF QueryFails
    <2> QED
      BY <1>2, <1>3, <2>2, <2>3 DEF QueryFails
  <1>4. CASE RemoveFails(k)
    <2>1. [run[k] EXCEPT !.res = "none"] \in RunStates
      BY <1>1 DEF RunStates, Results
    <2>2. run' \in [Runs -> RunStates]
      BY <1>4, <2>1 DEF RemoveFails
    <2> QED
      BY <1>2, <1>4, <2>2 DEF RemoveFails
  <1>5. CASE MarkFails(k)
    <2>1. run[k].cur[1] \in Items
      BY <1>5, HeldEntry DEF MarkFails, Entries
    <2>2. run' \in [Runs -> RunStates]
      BY <1>1, <1>5 DEF MarkFails
    <2> QED
      BY <1>2, <1>5, <2>1, <2>2 DEF MarkFails
  <1>6. CASE StatusFails(k)
    <2>1. run' \in [Runs -> RunStates]
      BY <1>1, <1>6 DEF StatusFails
    <2> QED
      BY <1>2, <1>6, <2>1 DEF StatusFails
  <1>7. ASSUME NEW e \in run[k].list, MarkSyncingFails(k, e) PROVE TypeOK'
    <2> DEFINE new == [run[k] EXCEPT !.pc = "reply", !.list = @ \ {e}, !.cur = e, !.res = "none"]
    <2>1. new \in RunStates
      BY <1>1 DEF RunStates, Results, Pcs
    <2>2. run' = [run EXCEPT ![k] = new]
      BY <1>7 DEF MarkSyncingFails
    <2>3. run' \in [Runs -> RunStates]
      BY <2>1, <2>2
    <2> QED
      BY <1>2, <1>7, <2>3 DEF MarkSyncingFails
  <1> QED
    BY <1>3, <1>4, <1>5, <1>6, <1>7 DEF Throw

LEMMA ExchangeType ==
    ASSUME TypeOK, NEW q \in net, Exchange(q)
    PROVE  TypeOK'
  <1> USE DEF TypeOK, table, engine, server, Fault
  <1>1. q \in Messages /\ q.item \in Items
    BY DEF Messages
  <1>2. \A res \in Results : Answer(q, res) =>
           net' \in SUBSET Messages /\ run' \in [Runs -> RunStates]
    BY AnswerType
  <1>3. "ok" \in Results /\ "refused" \in Results /\ "none" \in Results
        /\ "unauthorized" \in Results
    BY DEF Results
  <1>4. CASE Lookup(q)
    <2>1. [q EXCEPT !.phase = "checked"] \in Messages
      BY <1>1 DEF Messages
    <2>2. net' \in SUBSET Messages /\ run' \in [Runs -> RunStates]
      BY <1>2, <1>3, <1>4, <2>1 DEF Lookup
    <2> QED
      BY <1>4, <2>2 DEF Lookup
  <1>5. CASE Insert(q)
    <2>1. net' \in SUBSET Messages /\ run' \in [Runs -> RunStates]
      BY <1>2, <1>3, <1>5 DEF Insert
    <2>2. applied' \in SUBSET Items /\ twice' \in SUBSET Items /\ refused' \in SUBSET Items
      BY <1>1, <1>5 DEF Insert
    <2> QED
      BY <1>5, <2>1, <2>2 DEF Insert
  <1>6. CASE Refuse(q)
    BY <1>1, <1>2, <1>3, <1>6 DEF Refuse
  <1>7. CASE Fail(q)
    BY <1>2, <1>3, <1>7 DEF Fail
  <1>8. CASE GiveUpWaiting(q)
    <2>1. [q EXCEPT !.run = None] \in Messages
      BY <1>1 DEF Messages
    <2>2. q.run \in Runs
      BY <1>1, <1>8 DEF GiveUpWaiting, Messages
    <2>3. [run[q.run] EXCEPT !.pc = "reply", !.res = "none"] \in RunStates
      BY <1>3, <2>2, ReplyType
    <2>4. run' = [run EXCEPT ![q.run] = [run[q.run] EXCEPT !.pc = "reply", !.res = "none"]]
      BY <1>8 DEF GiveUpWaiting
    <2>5. run' \in [Runs -> RunStates]
      BY <2>2, <2>3, <2>4
    <2> QED
      BY <1>8, <2>1, <2>5 DEF GiveUpWaiting
  <1>9. CASE Unauthorized(q)
    <2>1. /\ [q EXCEPT !.as = user, !.again = TRUE] \in Messages
          /\ [q EXCEPT !.phase = "parked"] \in Messages
      BY <1>1 DEF Messages
    <2>2. net' \in SUBSET Messages /\ run' \in [Runs -> RunStates]
      BY <1>2, <1>3, <1>9, <2>1 DEF Unauthorized
    <2>3. user' \in Users \cup {None}
      BY <1>9 DEF Unauthorized
    <2>4. faults' \in 0..MaxFaults
      BY <1>9, SyncQueueAssumption DEF Unauthorized, SyncQueueAssumption
    <2> QED
      BY <1>9, <2>2, <2>3, <2>4 DEF Unauthorized
  <1>10. CASE Unpark(q)
    <2>1. [q EXCEPT !.as = user, !.phase = "sent"] \in Messages
      BY <1>1 DEF Messages
    <2>2. net' \in SUBSET Messages /\ run' \in [Runs -> RunStates]
      BY <1>2, <1>3, <1>10, <2>1 DEF Unpark
    <2>3. user' \in Users \cup {None}
      BY <1>10 DEF Unpark
    <2> QED
      BY <1>10, <2>2, <2>3 DEF Unpark
  <1> QED
    BY <1>4, <1>5, <1>6, <1>7, <1>8, <1>9, <1>10 DEF Exchange

LEMMA DeviceType ==
    ASSUME TypeOK,
           \/ \E i \in Items : Enqueue(i) \/ RetryFailed(i) \/ DiscardFailed(i) \/ BackoffEnds(i)
           \/ \E u \in Users : Login(u)
           \/ ClearSyncQueue \/ Logout \/ Trigger \/ LoseNetwork \/ Reconnect \/ Restart
    PROVE  TypeOK'
  <1> USE DEF TypeOK, table, engine, server
  <1>1. Call => rerunRequested' \in BOOLEAN /\ run' \in [Runs -> RunStates]
    BY CallType
  <1>2. Fault => faults' \in 0..MaxFaults
    BY SyncQueueAssumption DEF Fault, SyncQueueAssumption
  <1>3. ASSUME NEW i \in Items, Enqueue(i) PROVE TypeOK'
    BY <1>1, <1>3 DEF Enqueue
  <1>4. ASSUME NEW i \in Items, RetryFailed(i) PROVE TypeOK'
    <2>1. /\ row' \in [Items -> {"none", "PENDING", "SYNCING", "FAILED"}]
          /\ attempts' \in [Items -> Nat]
      BY <1>4 DEF RetryFailed, Mark, SetAttempts
    <2> QED
      BY <1>1, <1>4, <2>1 DEF RetryFailed
  <1>5. ASSUME NEW S \in SUBSET Items, Delete(S), faults' \in 0..MaxFaults PROVE TypeOK'
    BY <1>5 DEF Delete
  <1>6. ASSUME NEW i \in Items, DiscardFailed(i) PROVE TypeOK'
    BY <1>5, <1>6 DEF DiscardFailed
  <1>7. CASE ClearSyncQueue
    <2>1. {i \in Queued : Own(i, user)} \in SUBSET Items
      BY DEF Queued
    <2> QED
      BY <1>2, <1>5, <1>7, <2>1 DEF ClearSyncQueue
  <1>8. ASSUME NEW i \in Items, BackoffEnds(i) PROVE TypeOK'
    BY <1>8 DEF BackoffEnds
  <1>9. ASSUME NEW u \in Users, Login(u) PROVE TypeOK'
    BY <1>9 DEF Login
  <1>10. CASE Logout
    BY <1>2, <1>10 DEF Logout
  <1>11. CASE Trigger
    BY <1>1, <1>11 DEF Trigger
  <1>12. CASE LoseNetwork
    BY <1>2, <1>12 DEF LoseNetwork
  <1>13. CASE Reconnect
    BY <1>1, <1>13 DEF Reconnect
  <1>14. CASE Restart
    <2>1. row' \in [Items -> {"none", "PENDING", "SYNCING", "FAILED"}]
      BY <1>14 DEF Restart, Recovered
    <2>2. run' \in [Runs -> RunStates]
      BY <1>14, IdleType DEF Restart
    <2>3. \A q \in Messages : [q EXCEPT !.run = None] \in Messages
      BY DEF Messages
    <2>4. net' \in SUBSET Messages
      BY <1>14, <2>3 DEF Restart
    <2> QED
      BY <1>2, <1>14, <2>1, <2>2, <2>4 DEF Restart
  <1> QED
    BY <1>3, <1>4, <1>6, <1>7, <1>8, <1>9, <1>10, <1>11, <1>12, <1>13, <1>14

LEMMA TypeStep == ASSUME TypeOK, HoldsEntry, [Next]_vars PROVE TypeOK'
  <1>1. CASE UNCHANGED vars
    BY <1>1 DEF vars, table, engine, server, TypeOK
  <1>2. CASE Next
    BY <1>2, StepType, ThrowType, ExchangeType, DeviceType DEF Next
  <1> QED
    BY <1>1, <1>2

-----------------------------------------------------------------------------
(* Runs, requests and rows.                                                *)

LEMMA LinkInit == ASSUME Init PROVE LinkInv
  BY DEF Init, LinkInv, HoldsEntry, AwaitedByRun, SentWasAsked, AnswersHonest, Idle, Queued

LEMMA NotAwaited ==
    ASSUME TypeOK, AwaitedByRun, NEW k \in Runs, run[k].pc # "sent"
    PROVE  \A q \in net : q.run \in Runs \cup {None} /\ q.run # k
  <1>1. \A q \in net : q.run \in Runs \cup {None}
    BY DEF TypeOK, Messages
  <1>2. k # None
    BY SyncQueueAssumption DEF SyncQueueAssumption
  <1> QED
    BY <1>1, <1>2 DEF AwaitedByRun

\* A step of run k that neither sends nor receives, when k waits for nothing.
LEMMA QuietStep ==
    ASSUME TypeOK, LinkInv, NEW k \in Runs, NEW r,
           run' = [run EXCEPT ![k] = r], run[k].pc # "sent",
           r.pc \notin {"sent", "reply"},
           \A e \in r.list : e[1] \in asked,
           net' = net, asked' = asked, applied' = applied, refused' = refused,
           Queued' \subseteq Queued
    PROVE  LinkInv'
  <1> USE DEF LinkInv
  <1>1. \A j \in Runs : run'[j] = IF j = k THEN r ELSE run[j]
    BY DEF TypeOK
  <1>2. \A q \in net : q.run \in Runs \cup {None} /\ q.run # k
    BY NotAwaited
  <1>3. HoldsEntry'
    BY <1>1 DEF HoldsEntry
  <1>4. AwaitedByRun'
    BY <1>1, <1>2 DEF AwaitedByRun
  <1>5. SentWasAsked'
    BY <1>1 DEF SentWasAsked
  <1>6. AnswersHonest'
    BY <1>1 DEF AnswersHonest
  <1> QED
    BY <1>3, <1>4, <1>5, <1>6

\* A step that leaves runs and requests alone and only adds to what the
\* invariant asks for.
LEMMA IdleStep ==
    ASSUME LinkInv, UNCHANGED <<run, net>>, asked \subseteq asked',
           applied' = applied, refused' = refused,
           Queued' \subseteq asked'
    PROVE  LinkInv'
  BY DEF LinkInv, HoldsEntry, AwaitedByRun, SentWasAsked, AnswersHonest

LEMMA CallLink ==
    ASSUME TypeOK, LinkInv, Call, net' = net, asked \subseteq asked',
           applied' = applied, refused' = refused, Queued' \subseteq asked'
    PROVE  LinkInv'
  <1>1. CASE UNCHANGED run
    BY <1>1, IdleStep
  <1>2. ASSUME NEW k \in Runs, run[k] = Idle, run' = [run EXCEPT ![k].pc = "online"]
        PROVE  LinkInv'
    <2>1. \A j \in Runs : run'[j] = IF j = k THEN [Idle EXCEPT !.pc = "online"] ELSE run[j]
      BY <1>2 DEF TypeOK
    <2>2. \A q \in net : q.run \in Runs \cup {None} /\ q.run # k
      BY <1>2, NotAwaited DEF LinkInv, Idle
    <2>3. HoldsEntry'
      BY <2>1 DEF HoldsEntry, LinkInv, Idle
    <2>4. AwaitedByRun'
      BY <2>1, <2>2 DEF AwaitedByRun, LinkInv
    <2>5. SentWasAsked'
      BY <2>1 DEF SentWasAsked, LinkInv, Idle
    <2>6. AnswersHonest'
      BY <2>1 DEF AnswersHonest, LinkInv, Idle
    <2> QED
      BY <2>3, <2>4, <2>5, <2>6 DEF LinkInv
  <1> QED
    BY <1>1, <1>2 DEF Call

LEMMA StepLink ==
    ASSUME TypeOK, LinkInv, NEW k \in Runs, Step(k)
    PROVE  LinkInv'
  <1> USE DEF server, table
  <1>1. Queued' \subseteq Queued
    <2>1. \A i \in Items : row[i] = "none" => row'[i] = "none"
      BY DEF Step, Begin, Query, Succeed, PutBack, Settle, Finish, Rerun, Send, Mark, TypeOK
    <2> QED
      BY <2>1 DEF Queued
  <1>2. /\ \A e \in run[k].list : e[1] \in asked
        /\ Queued \subseteq asked
        /\ run[k].pc = "reply" => run[k].cur[1] \in asked
    BY DEF LinkInv, SentWasAsked
  <1>run. run[k] \in RunStates
    BY DEF TypeOK
  <1>3. CASE Begin(k)
    <2> DEFINE new == IF online THEN [run[k] EXCEPT !.pc = "query", !.uid = user] ELSE Idle
    <2>1. run' = [run EXCEPT ![k] = new] /\ run[k].pc # "sent"
      BY <1>3 DEF Begin
    <2>2. new.pc \notin {"sent", "reply"} /\ \A e \in new.list : e[1] \in asked
      BY <1>2, <1>run DEF Idle, RunStates
    <2>3. net' = net /\ asked' = asked /\ applied' = applied /\ refused' = refused
      BY <1>3 DEF Begin
    <2> HIDE DEF new
    <2> QED
      BY <1>1, <2>1, <2>2, <2>3, QuietStep
  <1>4. CASE Query(k)
    <2> DEFINE ready == {i \in due : row[i] = "PENDING" /\ owner'[i] = run[k].uid}
               list  == {<<i, attempts[i]>> : i \in ready}
               new   == [Idle EXCEPT !.pc = "loop", !.list = list]
    <2>1. run' = [run EXCEPT ![k] = new]
      BY <1>4 DEF Query
    <2>2. ready \subseteq asked
      BY <1>2 DEF Queued, TypeOK
    <2>3. new.pc = "loop" /\ \A e \in new.list : e[1] \in asked
      <3>1. \A e \in list : e[1] \in asked
        BY <2>2
      <3> HIDE DEF list
      <3> QED
        BY <3>1 DEF Idle
    <2>4. run[k].pc = "query" /\ net' = net /\ asked' = asked /\ applied' = applied
          /\ refused' = refused
      BY <1>4 DEF Query
    <2> HIDE DEF new
    <2> QED
      BY <1>1, <2>1, <2>3, <2>4, QuietStep
  <1>5. CASE Succeed(k)
    <2> DEFINE new == [run[k] EXCEPT !.pc = "loop", !.cur = None, !.res = None]
    <2>1. run' = [run EXCEPT ![k] = new] /\ run[k].pc # "sent"
      BY <1>5 DEF Succeed
    <2>2. new.pc \notin {"sent", "reply"} /\ \A e \in new.list : e[1] \in asked
      BY <1>2, <1>run DEF RunStates
    <2>3. net' = net /\ asked' = asked /\ applied' = applied /\ refused' = refused
      BY <1>5 DEF Succeed
    <2> HIDE DEF new
    <2> QED
      BY <1>1, <2>1, <2>2, <2>3, QuietStep
  <1>6. CASE PutBack(k)
    <2> DEFINE new == [Idle EXCEPT !.pc = "loop"]
    <2>1. run' = [run EXCEPT ![k] = new] /\ run[k].pc # "sent"
      BY <1>6 DEF PutBack
    <2>2. new.pc \notin {"sent", "reply"} /\ \A e \in new.list : e[1] \in asked
      BY <1>2, <1>run DEF Idle, RunStates
    <2>3. net' = net /\ asked' = asked /\ applied' = applied /\ refused' = refused
      BY <1>6 DEF PutBack
    <2> HIDE DEF new
    <2> QED
      BY <1>1, <2>1, <2>2, <2>3, QuietStep
  <1>7. CASE Settle(k)
    <2> DEFINE new == [run[k] EXCEPT !.pc = "loop", !.cur = None, !.res = None]
    <2>1. run' = [run EXCEPT ![k] = new] /\ run[k].pc # "sent"
      BY <1>7 DEF Settle
    <2>2. new.pc \notin {"sent", "reply"} /\ \A e \in new.list : e[1] \in asked
      BY <1>2, <1>run DEF RunStates
    <2>3. net' = net /\ asked' = asked /\ applied' = applied /\ refused' = refused
      BY <1>7 DEF Settle
    <2> HIDE DEF new
    <2> QED
      BY <1>1, <2>1, <2>2, <2>3, QuietStep
  <1>8. CASE Finish(k)
    <2> DEFINE new == [run[k] EXCEPT !.pc = "after"]
    <2>1. run' = [run EXCEPT ![k] = new] /\ run[k].pc # "sent"
      BY <1>8 DEF Finish
    <2>2. new.pc \notin {"sent", "reply"} /\ \A e \in new.list : e[1] \in asked
      BY <1>2, <1>run DEF RunStates
    <2>3. net' = net /\ asked' = asked /\ applied' = applied /\ refused' = refused
      BY <1>8 DEF Finish
    <2> HIDE DEF new
    <2> QED
      BY <1>1, <2>1, <2>2, <2>3, QuietStep
  <1>9. CASE Rerun(k)
    <2> DEFINE new == IF rerunRequested /\ ~isSyncing /\ user # None
                        THEN [Idle EXCEPT !.pc = "online"] ELSE Idle
    <2>1. run' = [run EXCEPT ![k] = new] /\ run[k].pc # "sent"
      BY <1>9 DEF Rerun
    <2>2. new.pc \notin {"sent", "reply"} /\ \A e \in new.list : e[1] \in asked
      BY <1>2, <1>run DEF Idle, RunStates
    <2>3. net' = net /\ asked' = asked /\ applied' = applied /\ refused' = refused
      BY <1>9 DEF Rerun
    <2> HIDE DEF new
    <2> QED
      BY <1>1, <2>1, <2>2, <2>3, QuietStep
  <1>10. ASSUME NEW e \in run[k].list, Send(k, e) PROVE LinkInv'
    <2> DEFINE m == [item |-> e[1], as |-> user, phase |-> "sent", run |-> k, again |-> FALSE]
    <2>1. \A j \in Runs : run'[j] =
             IF j = k THEN [run[k] EXCEPT !.pc = "sent", !.list = @ \ {e}, !.cur = e] ELSE run[j]
      BY <1>10 DEF Send, TypeOK
    <2>2. /\ run'[k].pc = "sent" /\ run'[k].cur = e
          /\ run'[k].list = run[k].list \ {e}
      BY <2>1 DEF TypeOK, RunStates
    <2>3. run[k].pc = "loop" /\ net' = net \cup {m} /\ asked' = asked /\ applied' = applied
          /\ refused' = refused
      BY <1>10 DEF Send
    <2>4. e \in Entries
      BY DEF TypeOK, RunStates
    <2>5. \A q \in net : q.run \in Runs \cup {None} /\ q.run # k
      BY <2>3, NotAwaited DEF LinkInv
    <2>6. m.run = k /\ m.item = e[1]
      OBVIOUS
    <2> HIDE DEF m
    <2>7. HoldsEntry'
      BY <2>1, <2>2, <2>4 DEF LinkInv, HoldsEntry
    <2>8. AwaitedByRun'
      BY <2>1, <2>2, <2>3, <2>5, <2>6 DEF LinkInv, AwaitedByRun
    <2>9. SentWasAsked'
      BY <1>1, <1>2, <2>1, <2>2, <2>3, <2>6 DEF LinkInv, SentWasAsked
    <2>10. AnswersHonest'
      BY <2>1, <2>2, <2>3 DEF LinkInv, AnswersHonest
    <2> QED
      BY <2>7, <2>8, <2>9, <2>10 DEF LinkInv
  <1> QED
    BY <1>3, <1>4, <1>5, <1>6, <1>7, <1>8, <1>9, <1>10 DEF Step

\* A failed statement leaves run k outside a request, or with an item it has
\* read in hand and no answer for it.
LEMMA ThrowLink ==
    ASSUME TypeOK, LinkInv, NEW k \in Runs, Throw(k)
    PROVE  LinkInv'
  <1> USE DEF server, table
  <1>1. UNCHANGED <<row, net, asked, applied, refused>> /\ run[k].pc # "sent"
    BY DEF Throw, QueryFails, RemoveFails, MarkFails, StatusFails, MarkSyncingFails
  <1>2. Queued' = Queued
    BY <1>1 DEF Queued
  <1>3. CASE QueryFails(k) \/ MarkFails(k) \/ StatusFails(k)
    <2>1. run' = [run EXCEPT ![k] = Idle]
      BY <1>3 DEF QueryFails, MarkFails, StatusFails
    <2>2. Idle.pc \notin {"sent", "reply"} /\ \A e \in Idle.list : e[1] \in asked
      BY DEF Idle
    <2> QED
      BY <1>1, <1>2, <2>1, <2>2, QuietStep
  <1>4. ASSUME NEW r \in RunStates, NEW e \in Entries, e[1] \in asked,
               run' = [run EXCEPT ![k] = r],
               r.pc = "reply", r.cur = e, r.res = "none", r.list \subseteq run[k].list
        PROVE  LinkInv'
    <2> USE DEF LinkInv
    <2>1. \A j \in Runs : run'[j] = IF j = k THEN r ELSE run[j]
      BY <1>4 DEF TypeOK
    <2>2. \A q \in net : q.run \in Runs \cup {None} /\ q.run # k
      BY <1>1, NotAwaited
    <2>3. HoldsEntry'
      BY <1>4, <2>1 DEF HoldsEntry
    <2>4. AwaitedByRun'
      BY <1>1, <2>1, <2>2 DEF AwaitedByRun
    <2>5. SentWasAsked'
      BY <1>1, <1>2, <1>4, <2>1 DEF SentWasAsked
    <2>6. AnswersHonest'
      BY <1>1, <1>4, <2>1 DEF AnswersHonest, Results
    <2> QED
      BY <2>3, <2>4, <2>5, <2>6
  <1>5. run[k] \in RunStates
    BY DEF TypeOK
  <1>6. CASE RemoveFails(k)
    <2> DEFINE r == [run[k] EXCEPT !.res = "none"]
    <2>1. run' = [run EXCEPT ![k] = r] /\ run[k].pc = "reply"
      BY <1>6 DEF RemoveFails
    <2>2. r \in RunStates /\ r.pc = "reply" /\ r.cur = run[k].cur /\ r.res = "none"
          /\ r.list = run[k].list
      BY <1>5, <2>1 DEF RunStates, Results
    <2>3. run[k].cur \in Entries /\ run[k].cur[1] \in asked
      BY <2>1 DEF LinkInv, HoldsEntry, SentWasAsked
    <2> HIDE DEF r
    <2> QED
      BY <1>4, <2>1, <2>2, <2>3
  <1>7. ASSUME NEW e \in run[k].list, MarkSyncingFails(k, e) PROVE LinkInv'
    <2> DEFINE r == [run[k] EXCEPT !.pc = "reply", !.list = @ \ {e}, !.cur = e, !.res = "none"]
    <2>1. run' = [run EXCEPT ![k] = r]
      BY <1>7 DEF MarkSyncingFails
    <2>2. r \in RunStates /\ r.pc = "reply" /\ r.cur = e /\ r.res = "none"
          /\ r.list \subseteq run[k].list
      BY <1>5 DEF RunStates, Results, Pcs
    <2>3. e \in Entries /\ e[1] \in asked
      BY <1>5 DEF RunStates, LinkInv, SentWasAsked
    <2> HIDE DEF r
    <2> QED
      BY <1>4, <2>1, <2>2, <2>3
  <1> QED
    BY <1>3, <1>6, <1>7 DEF Throw

\* An answer that the server's state bears out.
LEMMA AnswerLink ==
    ASSUME TypeOK, LinkInv, NEW q \in net, NEW res \in Results, Answer(q, res),
           asked' = asked, applied \subseteq applied', refused \subseteq refused',
           Queued' = Queued,
           q.run # None /\ res = "ok" => q.item \in applied',
           q.run # None /\ res = "refused" => q.item \in refused'
    PROVE  LinkInv'
  <1> USE DEF LinkInv
  <1>1. q.run \in Runs \cup {None} /\ net' = net \ {q}
    BY DEF TypeOK, Messages, Answer
  <1>2. CASE q.run = None
    <2>1. run' = run
      BY <1>2 DEF Answer
    <2> QED
      BY <1>1, <2>1 DEF HoldsEntry, AwaitedByRun, SentWasAsked, AnswersHonest
  <1>3. CASE q.run \in Runs
    <2> DEFINE k == q.run
    <2>1. k # None /\ run[k].pc = "sent" /\ run[k].cur[1] = q.item
      BY <1>3, SyncQueueAssumption DEF SyncQueueAssumption, AwaitedByRun
    <2>2. \A j \in Runs : run'[j] =
             IF j = k THEN [run[k] EXCEPT !.pc = "reply", !.res = res] ELSE run[j]
      BY <2>1 DEF Answer, TypeOK
    <2>3. /\ run'[k].pc = "reply" /\ run'[k].res = res
          /\ run'[k].cur = run[k].cur /\ run'[k].list = run[k].list
      BY <1>3, <2>2 DEF TypeOK, RunStates
    <2>4. \A p \in net' : p.run # k
      BY <1>1, <2>1 DEF AwaitedByRun
    <2>5. HoldsEntry'
      BY <1>3, <2>1, <2>2, <2>3 DEF HoldsEntry
    <2>6. AwaitedByRun'
      BY <1>1, <2>2, <2>4 DEF AwaitedByRun, TypeOK, Messages
    <2>7. SentWasAsked'
      BY <1>1, <1>3, <2>1, <2>2, <2>3 DEF SentWasAsked
    <2>8. AnswersHonest'
      BY <1>3, <2>1, <2>2, <2>3 DEF AnswersHonest
    <2> QED
      BY <2>5, <2>6, <2>7, <2>8
  <1> QED
    BY <1>1, <1>2, <1>3

LEMMA ExchangeLink ==
    ASSUME TypeOK, LinkInv, NEW q \in net, Exchange(q)
    PROVE  LinkInv'
  <1> USE DEF server, table, Results
  <1>1. q \in Messages /\ q.item \in asked
    BY DEF TypeOK, LinkInv, SentWasAsked
  <1>2. row' = row /\ asked' = asked
    BY DEF Exchange, Lookup, Insert, Refuse, Fail, GiveUpWaiting, Unauthorized, Unpark
  <1>3. Queued' = Queued
    BY <1>2 DEF Queued
  <1>4. ASSUME NEW m \in Messages, net' = (net \ {q}) \cup {m}, run' = run,
               m.item = q.item, m.run = q.run,
               applied' = applied, refused' = refused
        PROVE  LinkInv'
    BY <1>1, <1>2, <1>3, <1>4
    DEF LinkInv, HoldsEntry, AwaitedByRun, SentWasAsked, AnswersHonest
  <1>5. CASE Lookup(q)
    <2>1. [q EXCEPT !.phase = "checked"] \in Messages
          /\ [q EXCEPT !.phase = "checked"].item = q.item
          /\ [q EXCEPT !.phase = "checked"].run = q.run
      BY <1>1 DEF Messages
    <2>2. applied' = applied /\ refused' = refused
      BY <1>5 DEF Lookup
    <2>3. CASE Stored(q.item)
      BY <1>2, <1>3, <1>5, <2>2, <2>3, AnswerLink DEF Lookup, Stored
    <2>4. CASE ~Stored(q.item)
      BY <1>4, <1>5, <2>1, <2>2, <2>4 DEF Lookup
    <2> QED
      BY <2>3, <2>4
  <1>6. CASE Insert(q)
    <2>1. CASE Stored(q.item) /\ q.item \in Racing
      BY <1>2, <1>3, <1>6, <2>1, AnswerLink DEF Insert
    <2>2. CASE Stored(q.item) /\ q.item \notin Racing
      BY <1>2, <1>3, <1>6, <2>2, AnswerLink DEF Insert, Stored
    <2>3. CASE ~Stored(q.item)
      BY <1>2, <1>3, <1>6, <2>3, AnswerLink DEF Insert
    <2> QED
      BY <2>1, <2>2, <2>3
  <1>7. CASE Refuse(q)
    BY <1>2, <1>3, <1>7, AnswerLink DEF Refuse
  <1>8. CASE Fail(q)
    BY <1>2, <1>3, <1>8, AnswerLink DEF Fail
  <1>9. CASE GiveUpWaiting(q)
    <2> DEFINE k == q.run
               m == [q EXCEPT !.run = None]
    <2>1. k \in Runs /\ k # None
      BY <1>1, <1>9 DEF GiveUpWaiting, Messages
    <2>2. run[k].pc = "sent" /\ run[k].cur[1] = q.item
      BY <2>1 DEF LinkInv, AwaitedByRun
    <2>3. \A j \in Runs : run'[j] =
             IF j = k THEN [run[k] EXCEPT !.pc = "reply", !.res = "none"] ELSE run[j]
      BY <1>9 DEF GiveUpWaiting, TypeOK
    <2>4. /\ run'[k].pc = "reply" /\ run'[k].res = "none"
          /\ run'[k].cur = run[k].cur /\ run'[k].list = run[k].list
      <3>1. run[k] \in RunStates
        BY <2>1 DEF TypeOK
      <3> QED
        BY <2>1, <2>3, <3>1 DEF RunStates
    <2>5. m.run = None /\ m.item = q.item
      BY <1>1 DEF Messages
    <2>6. net' = (net \ {q}) \cup {m} /\ applied' = applied /\ refused' = refused
      BY <1>9 DEF GiveUpWaiting
    <2> HIDE DEF m
    <2>7. \A p \in net' : p.run \in Runs \cup {None} /\ p.run # k
      BY <2>1, <2>5, <2>6 DEF LinkInv, AwaitedByRun, TypeOK, Messages
    <2>8. HoldsEntry'
      BY <2>1, <2>2, <2>3, <2>4 DEF LinkInv, HoldsEntry
    <2>9. \A p \in net' : p = m \/ p \in net
      BY <2>6
    <2>10. AwaitedByRun'
      BY <2>3, <2>5, <2>7, <2>9 DEF LinkInv, AwaitedByRun
    <2>11. SentWasAsked'
      BY <1>1, <1>2, <1>3, <2>1, <2>2, <2>3, <2>4, <2>5, <2>9 DEF LinkInv, SentWasAsked
    <2>12. AnswersHonest'
      BY <2>1, <2>3, <2>4, <2>6 DEF LinkInv, AnswersHonest
    <2> QED
      BY <2>8, <2>10, <2>11, <2>12 DEF LinkInv
  <1>10. CASE Unauthorized(q)
    <2>1. [q EXCEPT !.as = user, !.again = TRUE] \in Messages
          /\ [q EXCEPT !.as = user, !.again = TRUE].item = q.item
          /\ [q EXCEPT !.as = user, !.again = TRUE].run = q.run
      BY <1>1 DEF Messages, TypeOK
    <2>p. [q EXCEPT !.phase = "parked"] \in Messages
          /\ [q EXCEPT !.phase = "parked"].item = q.item
          /\ [q EXCEPT !.phase = "parked"].run = q.run
      BY <1>1 DEF Messages
    <2>2. applied' = applied /\ refused' = refused
      BY <1>10 DEF Unauthorized
    <2>3. \/ Answer(q, "unauthorized") \/ Answer(q, "none")
          \/ run' = run /\ net' = (net \ {q}) \cup {[q EXCEPT !.as = user, !.again = TRUE]}
          \/ run' = run /\ net' = (net \ {q}) \cup {[q EXCEPT !.phase = "parked"]}
      BY <1>10 DEF Unauthorized
    <2>4. CASE Answer(q, "unauthorized") \/ Answer(q, "none")
      BY <1>2, <1>3, <2>2, <2>4, AnswerLink
    <2>5. CASE run' = run /\ net' = (net \ {q}) \cup {[q EXCEPT !.as = user, !.again = TRUE]}
      BY <1>4, <2>1, <2>2, <2>5
    <2>6. CASE run' = run /\ net' = (net \ {q}) \cup {[q EXCEPT !.phase = "parked"]}
      BY <1>4, <2>p, <2>2, <2>6
    <2> QED
      BY <2>3, <2>4, <2>5, <2>6
  <1>11. CASE Unpark(q)
    <2>1. [q EXCEPT !.as = user, !.phase = "sent"] \in Messages
          /\ [q EXCEPT !.as = user, !.phase = "sent"].item = q.item
          /\ [q EXCEPT !.as = user, !.phase = "sent"].run = q.run
      BY <1>1 DEF Messages, TypeOK
    <2>2. applied' = applied /\ refused' = refused
      BY <1>11 DEF Unpark
    <2>3. \/ Answer(q, "unauthorized") \/ Answer(q, "none")
          \/ run' = run /\ net' = (net \ {q}) \cup {[q EXCEPT !.as = user, !.phase = "sent"]}
      BY <1>11 DEF Unpark
    <2>4. CASE Answer(q, "unauthorized") \/ Answer(q, "none")
      BY <1>2, <1>3, <2>2, <2>4, AnswerLink
    <2>5. CASE run' = run /\ net' = (net \ {q}) \cup {[q EXCEPT !.as = user, !.phase = "sent"]}
      BY <1>4, <2>1, <2>2, <2>5
    <2> QED
      BY <2>3, <2>4, <2>5
  <1> QED
    BY <1>5, <1>6, <1>7, <1>8, <1>9, <1>10, <1>11 DEF Exchange

LEMMA DeviceLink ==
    ASSUME TypeOK, LinkInv,
           \/ \E i \in Items : Enqueue(i) \/ RetryFailed(i) \/ DiscardFailed(i) \/ BackoffEnds(i)
           \/ \E u \in Users : Login(u)
           \/ ClearSyncQueue \/ Logout \/ Trigger \/ LoseNetwork \/ Reconnect \/ Restart
    PROVE  LinkInv'
  <1> USE DEF table, engine, server
  <1>1. Queued \subseteq asked
    BY DEF LinkInv, SentWasAsked
  <1>2. row' = row => Queued' = Queued
    BY DEF Queued
  <1>3. ASSUME NEW i \in Items, Enqueue(i) PROVE LinkInv'
    <2>1. asked \subseteq asked' /\ net' = net /\ applied' = applied /\ refused' = refused /\ Call
      BY <1>3 DEF Enqueue
    <2>2. Queued' \subseteq asked'
      BY <1>1, <1>3 DEF Enqueue, Queued, TypeOK
    <2> QED
      BY <2>1, <2>2, CallLink
  <1>4. ASSUME NEW i \in Items, RetryFailed(i) PROVE LinkInv'
    <2>1. asked' = asked /\ net' = net /\ applied' = applied /\ refused' = refused /\ Call
      BY <1>4 DEF RetryFailed
    <2>2. Queued' \subseteq asked'
      BY <1>1, <1>4 DEF RetryFailed, Mark, Queued, TypeOK
    <2> QED
      BY <2>1, <2>2, CallLink
  <1>5. ASSUME NEW S, Delete(S) PROVE LinkInv'
    <2>1. Queued' \subseteq asked'
      BY <1>1, <1>5 DEF Delete, Queued
    <2> QED
      BY <1>5, <2>1, IdleStep DEF Delete
  <1>6. CASE \/ \E i \in Items : DiscardFailed(i)
             \/ ClearSyncQueue
    BY <1>5, <1>6 DEF DiscardFailed, ClearSyncQueue
  <1>7. CASE \/ \E i \in Items : BackoffEnds(i)
             \/ \E u \in Users : Login(u)
             \/ Logout \/ LoseNetwork
    <2>1. UNCHANGED <<row, asked, run, net, applied, refused>>
      BY <1>7 DEF BackoffEnds, Login, Logout, LoseNetwork
    <2> QED
      BY <1>1, <1>2, <2>1, IdleStep
  <1>8. CASE Trigger \/ Reconnect
    <2>1. UNCHANGED <<row, asked, net, applied, refused>> /\ Call
      BY <1>8 DEF Trigger, Reconnect
    <2> QED
      BY <1>1, <1>2, <2>1, CallLink
  <1>9. CASE Restart
    <2>1. /\ UNCHANGED <<asked, applied, refused>>
          /\ \A j \in Runs : run'[j] = Idle
      BY <1>9 DEF Restart
    <2>2. Queued' \subseteq asked
      BY <1>1, <1>9 DEF Restart, Recovered, Queued, TypeOK
    <2>3. \A p \in net' : p.run = None /\ p.item \in asked
      BY <1>9 DEF Restart, TypeOK, Messages, LinkInv, SentWasAsked
    <2>4. HoldsEntry' /\ AnswersHonest'
      BY <2>1 DEF HoldsEntry, AnswersHonest, Idle
    <2>5. AwaitedByRun'
      BY <2>3 DEF AwaitedByRun
    <2>6. SentWasAsked'
      BY <2>1, <2>2, <2>3 DEF SentWasAsked, Idle
    <2> QED
      BY <2>4, <2>5, <2>6 DEF LinkInv
  <1> QED
    BY <1>3, <1>4, <1>6, <1>7, <1>8, <1>9

LEMMA LinkStep == ASSUME TypeOK, LinkInv, [Next]_vars PROVE LinkInv'
  <1>1. CASE UNCHANGED vars
    BY <1>1 DEF vars, table, engine, server, LinkInv, HoldsEntry, AwaitedByRun,
                SentWasAsked, AnswersHonest, Queued
  <1>2. CASE Next
    BY <1>2, StepLink, ThrowLink, ExchangeLink, DeviceLink DEF Next
  <1> QED
    BY <1>1, <1>2

\* Every reachable state is well typed, with runs, requests, answers and rows
\* tied together as LinkInv says.
THEOREM TypeCorrect == Spec => [](TypeOK /\ LinkInv)
  <1>1. Init => TypeOK /\ LinkInv
    BY TypeInit, LinkInit
  <1>2. TypeOK /\ LinkInv /\ [Next]_vars => (TypeOK /\ LinkInv)'
    BY TypeStep, LinkStep DEF LinkInv
  <1> QED
    BY <1>1, <1>2, PTL DEF Spec

-----------------------------------------------------------------------------
(* Safety.                                                                 *)

\* What a step does to the rows: a row becomes SYNCING only in the hands of a
\* run, and only Succeed takes a row out.
LEMMA StepRows ==
    ASSUME TypeOK, LinkInv, NEW k \in Runs, Step(k), ~Succeed(k)
    PROVE  Queued' = Queued
  <1>1. \A i \in Items : row[i] = "none" <=> row'[i] = "none"
    BY DEF Step, Begin, Query, PutBack, Settle, Finish, Rerun, Send, Mark, TypeOK, table
  <1> QED
    BY <1>1 DEF Queued

LEMMA InFlightStep ==
    ASSUME TypeOK, LinkInv, SyncingIsInFlight, [Next]_vars
    PROVE  SyncingIsInFlight'
  <1> USE DEF table, engine, server
  <1> DEFINE InHand(i, j) == run[j].pc \in {"sent", "reply"} /\ run[j].cur[1] = i
  <1> SUFFICES ASSUME NEW i \in Items, row'[i] = "SYNCING", i \notin stranded'
               PROVE  \E j \in Runs : InHand(i, j)'
    BY DEF SyncingIsInFlight
  <1>1. CASE run' = run /\ row[i] = "SYNCING" /\ i \notin stranded
    BY <1>1 DEF SyncingIsInFlight
  <1>2. ASSUME NEW k \in Runs, Step(k) PROVE \E j \in Runs : InHand(i, j)'
    <2>1. ASSUME NEW e \in run[k].list, Send(k, e) PROVE \E j \in Runs : InHand(i, j)'
      <3>1. CASE e[1] = i
        BY <2>1, <3>1 DEF Send, TypeOK, RunStates
      <3>2. CASE e[1] # i
        <4>1. row[i] = "SYNCING" /\ i \notin stranded
          BY <2>1, <3>2 DEF Send, TypeOK
        <4>2. PICK j \in Runs : InHand(i, j)
          BY <4>1 DEF SyncingIsInFlight
        <4>3. j # k
          BY <2>1, <4>2 DEF Send
        <4> QED
          BY <2>1, <4>2, <4>3 DEF Send, TypeOK
      <3> QED
        BY <3>1, <3>2
    <2>2. CASE Begin(k) \/ Query(k) \/ Finish(k) \/ Rerun(k)
      <3>1. row[i] = "SYNCING" /\ i \notin stranded /\ run[k].pc \notin {"sent", "reply"}
        BY <2>2 DEF Begin, Query, Finish, Rerun
      <3>2. PICK j \in Runs : InHand(i, j)
        BY <3>1 DEF SyncingIsInFlight
      <3>3. j # k
        BY <3>1, <3>2
      <3>4. run'[j] = run[j]
        BY <2>2, <3>3 DEF Begin, Query, Finish, Rerun, TypeOK
      <3> QED
        BY <3>2, <3>4
    <2>3. CASE Succeed(k) \/ PutBack(k) \/ Settle(k)
      <3>1. row[i] = "SYNCING" /\ i \notin stranded /\ run[k].cur[1] # i
        BY <2>3 DEF Succeed, PutBack, Settle, Mark, TypeOK
      <3>2. PICK j \in Runs : InHand(i, j)
        BY <3>1 DEF SyncingIsInFlight
      <3>3. run'[j] = run[j]
        BY <2>3, <3>1, <3>2 DEF Succeed, PutBack, Settle, TypeOK
      <3> QED
        BY <3>2, <3>3
    <2> QED
      BY <1>2, <2>1, <2>2, <2>3 DEF Step
  <1>3. ASSUME NEW q \in net, Exchange(q) PROVE \E j \in Runs : InHand(i, j)'
    <2>1. row' = row /\ stranded' = stranded
      BY <1>3 DEF Exchange, Lookup, Insert, Refuse, Fail, GiveUpWaiting, Unauthorized, Unpark
    <2>2. PICK j \in Runs : InHand(i, j)
      BY <2>1 DEF SyncingIsInFlight
    <2>3. \/ run' = run
          \/ \E res \in Results : run' = [run EXCEPT ![q.run].pc = "reply", ![q.run].res = res]
      BY <1>3 DEF Exchange, Lookup, Insert, Refuse, Fail, GiveUpWaiting, Unauthorized, Unpark,
                  Answer, Results
    <2>4. run'[j].cur = run[j].cur /\ run'[j].pc \in {run[j].pc, "reply"}
      <3>1. run \in [Runs -> RunStates] /\ run[j] \in RunStates
        BY DEF TypeOK
      <3>2. CASE run' = run
        BY <3>2
      <3>3. ASSUME NEW res \in Results,
                   run' = [run EXCEPT ![q.run].pc = "reply", ![q.run].res = res]
            PROVE  run'[j].cur = run[j].cur /\ run'[j].pc \in {run[j].pc, "reply"}
        <4>1. run'[j] = IF j = q.run THEN [run[j] EXCEPT !.pc = "reply", !.res = res]
                                     ELSE run[j]
          BY <3>1, <3>3
        <4> QED
          BY <3>1, <4>1 DEF RunStates
      <3> QED
        BY <2>3, <3>2, <3>3
    <2> QED
      BY <2>2, <2>4
  <1>4. ASSUME Call, row[i] = "SYNCING", i \notin stranded PROVE \E j \in Runs : InHand(i, j)'
    <2>1. PICK j \in Runs : InHand(i, j)
      BY <1>4 DEF SyncingIsInFlight
    <2>2. run'[j] = run[j]
      BY <1>4, <2>1 DEF Call, TypeOK, Idle
    <2> QED
      BY <2>1, <2>2
  <1>5. ASSUME NEW a \in Items, Enqueue(a) \/ RetryFailed(a) \/ DiscardFailed(a) \/ BackoffEnds(a)
        PROVE  \E j \in Runs : InHand(i, j)'
    <2>1. row[i] = "SYNCING" /\ i \notin stranded
      BY <1>5 DEF Enqueue, RetryFailed, DiscardFailed, Delete, BackoffEnds, Mark, TypeOK
    <2> QED
      BY <1>1, <1>4, <1>5, <2>1 DEF Enqueue, RetryFailed, DiscardFailed, Delete, BackoffEnds
  <1>6. CASE (\E u \in Users : Login(u)) \/ ClearSyncQueue \/ Logout \/ LoseNetwork
    <2>1. run' = run /\ row[i] = "SYNCING" /\ i \notin stranded
      BY <1>6 DEF Login, ClearSyncQueue, Delete, Logout, LoseNetwork, TypeOK
    <2> QED
      BY <1>1, <2>1
  <1>7. CASE Trigger \/ Reconnect
    BY <1>4, <1>7 DEF Trigger, Reconnect
  <1>8. CASE Restart
    BY <1>8 DEF Restart, Recovered, TypeOK
  <1>9. CASE UNCHANGED vars
    BY <1>1, <1>9 DEF vars
  <1>10. ASSUME NEW k \in Runs, Throw(k) PROVE \E j \in Runs : InHand(i, j)'
    <2>1. row[i] = "SYNCING" /\ i \notin stranded
      BY <1>10 DEF Throw, QueryFails, RemoveFails, MarkFails, StatusFails, MarkSyncingFails
    <2>2. PICK j \in Runs : InHand(i, j)
      BY <2>1 DEF SyncingIsInFlight
    <2>3. CASE RemoveFails(k)
      BY <2>2, <2>3 DEF RemoveFails, TypeOK, RunStates
    <2>4. CASE MarkFails(k)
      BY <2>2, <2>4 DEF MarkFails, TypeOK
    <2>5. CASE QueryFails(k) \/ StatusFails(k)
      BY <2>2, <2>5 DEF QueryFails, StatusFails, TypeOK
    <2>6. ASSUME NEW e \in run[k].list, MarkSyncingFails(k, e)
          PROVE  \E l \in Runs : InHand(i, l)'
      BY <2>2, <2>6 DEF MarkSyncingFails, TypeOK
    <2> QED
      BY <1>10, <2>3, <2>4, <2>5, <2>6 DEF Throw
  <1> QED
    BY <1>2, <1>3, <1>5, <1>6, <1>7, <1>8, <1>9, <1>10 DEF Next

\* A row is SYNCING only while a run of this process has it in hand, or since
\* the local database failed the write of its outcome: no lost answer, ended
\* session, overlapping run or restart strands it.
THEOREM SyncingInHand == Spec => []SyncingIsInFlight
  <1>1. Init => SyncingIsInFlight
    BY DEF Init, SyncingIsInFlight
  <1>2. TypeOK /\ LinkInv /\ SyncingIsInFlight /\ [Next]_vars => SyncingIsInFlight'
    BY InFlightStep
  <1> QED
    BY <1>1, <1>2, TypeCorrect, PTL DEF Spec

LEMMA FailedStep ==
    ASSUME TypeOK, LinkInv, FailedForCause, [Next]_vars
    PROVE  FailedForCause'
  <1> USE DEF table, engine, server
  <1> SUFFICES ASSUME NEW i \in Items, row'[i] = "FAILED"
               PROVE  i \in refused' \/ attempts'[i] >= MaxAttempts
    BY DEF FailedForCause
  <1>1. CASE row[i] = "FAILED" /\ attempts'[i] = attempts[i] /\ refused \subseteq refused'
    BY <1>1 DEF FailedForCause
  <1>2. ASSUME NEW k \in Runs, Step(k)
        PROVE  i \in refused' \/ attempts'[i] >= MaxAttempts
    <2>1. CASE Begin(k) \/ Query(k) \/ Finish(k) \/ Rerun(k)
      BY <1>1, <2>1 DEF Begin, Query, Finish, Rerun
    <2>2. CASE Succeed(k)
      BY <1>1, <2>2 DEF Succeed, Mark, TypeOK
    <2>3. ASSUME NEW e \in run[k].list, Send(k, e)
          PROVE  i \in refused' \/ attempts'[i] >= MaxAttempts
      BY <1>1, <2>3 DEF Send, TypeOK
    <2>4. CASE PutBack(k)
      BY <1>1, <2>4 DEF PutBack, Mark, SetAttempts, TypeOK
    <2>5. CASE Settle(k)
      <3> DEFINE c == run[k].cur[1]
                 n == run[k].cur[2] + 1
      <3>1. run[k].cur \in Entries /\ run[k].res \in Results
            /\ (run[k].res = "refused" => c \in refused)
        BY <2>5 DEF Settle, LinkInv, HoldsEntry, AnswersHonest
      <3>2. run[k].res \in {"refused", "none"}
        BY <2>5, <3>1 DEF Settle, SessionEnded, Results
      <3>3. c \in Items /\ n \in Nat
        BY <3>1 DEF Entries
      <3>4. CASE c # i
        BY <1>1, <2>5, <3>3, <3>4 DEF Settle, Mark, SetAttempts, TypeOK
      <3>5. CASE c = i
        <4>1. row[i] # "none" /\ GivesUp(run[k].res, n) /\ refused' = refused
          BY <2>5, <3>5 DEF Settle, Mark, TypeOK
        <4>2. attempts'[i] = n
          BY <2>5, <3>5, <4>1 DEF Settle, SetAttempts, TypeOK
        <4> QED
          BY <3>1, <3>2, <3>5, <4>1, <4>2 DEF GivesUp
      <3> QED
        BY <3>4, <3>5
    <2> QED
      BY <1>2, <2>1, <2>2, <2>3, <2>4, <2>5 DEF Step
  <1>3. ASSUME NEW q \in net, Exchange(q)
        PROVE  i \in refused' \/ attempts'[i] >= MaxAttempts
    <2>1. row' = row /\ attempts' = attempts /\ refused \subseteq refused'
      BY <1>3 DEF Exchange, Lookup, Insert, Refuse, Fail, GiveUpWaiting, Unauthorized, Unpark
    <2> QED
      BY <1>1, <2>1
  <1>4. ASSUME NEW a \in Items, Enqueue(a) \/ RetryFailed(a) \/ DiscardFailed(a) \/ BackoffEnds(a)
        PROVE  i \in refused' \/ attempts'[i] >= MaxAttempts
    <2>1. row[i] = "FAILED" /\ attempts'[i] = attempts[i] /\ refused' = refused
      BY <1>4 DEF Enqueue, RetryFailed, DiscardFailed, Delete, BackoffEnds, Mark,
                  SetAttempts, TypeOK
    <2> QED
      BY <1>1, <2>1
  <1>5. CASE \/ \E u \in Users : Login(u)
             \/ ClearSyncQueue \/ Logout \/ LoseNetwork \/ Trigger \/ Reconnect \/ Restart
    <2>1. row[i] = "FAILED" /\ attempts' = attempts /\ refused' = refused
      BY <1>5 DEF Login, ClearSyncQueue, Delete, Logout, LoseNetwork, Trigger, Reconnect,
                  Restart, Recovered, TypeOK
    <2> QED
      BY <1>1, <2>1
  <1>6. CASE UNCHANGED vars
    BY <1>1, <1>6 DEF vars
  <1>7. ASSUME NEW k \in Runs, Throw(k)
        PROVE  i \in refused' \/ attempts'[i] >= MaxAttempts
    BY <1>1, <1>7 DEF Throw, QueryFails, RemoveFails, MarkFails, StatusFails, MarkSyncingFails
  <1> QED
    BY <1>2, <1>3, <1>4, <1>5, <1>6, <1>7 DEF Next

\* An item fails only because the server refused it or its attempts are used
\* up, never because a session ended under it.
THEOREM FailsForCause == Spec => []FailedForCause
  <1>1. Init => FailedForCause
    BY DEF Init, FailedForCause
  <1>2. TypeOK /\ LinkInv /\ FailedForCause /\ [Next]_vars => FailedForCause'
    BY FailedStep
  <1> QED
    BY <1>1, <1>2, TypeCorrect, PTL DEF Spec

-----------------------------------------------------------------------------
(* Refinement.                                                             *)

LEMMA OutboxInit == ASSUME Init PROVE Promise!Init
  BY SyncQueueAssumption DEF Init, Promise!Init, Queued, SyncQueueAssumption

LEMMA OutboxStep ==
    ASSUME TypeOK, LinkInv, [Next]_vars
    PROVE  [Promise!Next]_(Promise!vars)
  <1> USE DEF table, engine, server
  <1>1. ASSUME Queued' = Queued, UNCHANGED <<asked, applied, discarded>>
        PROVE  UNCHANGED Promise!vars
    BY <1>1 DEF Promise!vars
  <1>2. ASSUME row' = row PROVE Queued' = Queued
    BY <1>2 DEF Queued
  <1>3. ASSUME NEW k \in Runs, Step(k) PROVE [Promise!Next]_(Promise!vars)
    <2>1. CASE Succeed(k)
      <3> DEFINE i == run[k].cur[1]
      <3>1. i \in Items /\ i \in applied /\ UNCHANGED <<asked, applied, discarded>>
        BY <2>1 DEF Succeed, TypeOK, LinkInv, AnswersHonest
      <3>2. Queued' = Queued \ {i}
        BY <2>1, <3>1 DEF Succeed, Mark, Queued, TypeOK
      <3>3. CASE i \in Queued
        BY <3>1, <3>2, <3>3 DEF Promise!Next, Promise!Leave
      <3>4. CASE i \notin Queued
        BY <1>1, <3>1, <3>2, <3>4
      <3> QED
        BY <3>3, <3>4
    <2>2. CASE ~Succeed(k)
      <3>1. UNCHANGED <<asked, applied, discarded>>
        BY <1>3 DEF Step, Begin, Query, Succeed, PutBack, Settle, Finish, Rerun, Send
      <3> QED
        BY <1>1, <1>3, <2>2, <3>1, StepRows
    <2> QED
      BY <2>1, <2>2
  <1>4. ASSUME NEW q \in net, Exchange(q) PROVE [Promise!Next]_(Promise!vars)
    <2>1. Queued' = Queued /\ UNCHANGED <<asked, discarded>>
      BY <1>2, <1>4 DEF Exchange, Lookup, Insert, Refuse, Fail, GiveUpWaiting, Unauthorized, Unpark
    <2>2. \/ applied' = applied
          \/ applied' = applied \cup {q.item}
      BY <1>4 DEF Exchange, Lookup, Insert, Refuse, Fail, GiveUpWaiting, Unauthorized, Unpark
    <2>3. q.item \in Items /\ q.item \in asked
      BY DEF TypeOK, Messages, LinkInv, SentWasAsked
    <2>4. CASE applied' = applied
      BY <1>1, <2>1, <2>4
    <2>5. CASE applied' = applied \cup {q.item}
      BY <2>1, <2>3, <2>5 DEF Promise!Next, Promise!Do
    <2> QED
      BY <2>2, <2>4, <2>5
  <1>5. ASSUME NEW i \in Items, Enqueue(i) PROVE [Promise!Next]_(Promise!vars)
    <2>1. i \notin asked /\ asked' = asked \cup {i} /\ UNCHANGED <<applied, discarded>>
      BY <1>5 DEF Enqueue
    <2>2. Queued' = Queued \cup {i}
      BY <1>5 DEF Enqueue, Queued, TypeOK
    <2> QED
      BY <2>1, <2>2 DEF Promise!Next, Promise!Ask
  <1>6. ASSUME NEW S \in SUBSET Queued, Delete(S) PROVE [Promise!Next]_(Promise!vars)
    <2>1. Queued' = Queued \ S /\ discarded' = discarded \cup S /\ UNCHANGED <<asked, applied>>
      BY <1>6 DEF Delete, Queued
    <2> QED
      BY <2>1 DEF Promise!Next, Promise!Discard
  <1>7. ASSUME NEW i \in Items, DiscardFailed(i) PROVE [Promise!Next]_(Promise!vars)
    BY <1>6, <1>7 DEF DiscardFailed
  <1>8. CASE ClearSyncQueue
    BY <1>6, <1>8 DEF ClearSyncQueue
  <1>9. CASE \/ \E i \in Items : RetryFailed(i) \/ BackoffEnds(i)
             \/ \E u \in Users : Login(u)
             \/ Logout \/ LoseNetwork \/ Trigger \/ Reconnect \/ Restart
    <2>1. UNCHANGED <<asked, applied, discarded>>
      BY <1>9 DEF RetryFailed, BackoffEnds, Login, Logout, LoseNetwork, Trigger,
                  Reconnect, Restart
    <2>2. \A j \in Items : row[j] = "none" <=> row'[j] = "none"
      BY <1>9 DEF RetryFailed, Mark, BackoffEnds, Login, Logout, LoseNetwork, Trigger,
                  Reconnect, Restart, Recovered, TypeOK
    <2> QED
      BY <1>1, <2>1, <2>2 DEF Queued
  <1>10. CASE UNCHANGED vars
    BY <1>1, <1>2, <1>10 DEF vars
  <1>11. ASSUME NEW k \in Runs, Throw(k) PROVE [Promise!Next]_(Promise!vars)
    BY <1>1, <1>2, <1>11
    DEF Throw, QueryFails, RemoveFails, MarkFails, StatusFails, MarkSyncingFails
  <1> QED
    BY <1>3, <1>4, <1>5, <1>7, <1>8, <1>9, <1>10, <1>11 DEF Next

\* The queue implements the outbox: a row leaves the device only once the
\* server has carried it out or a user has discarded it.
THEOREM OutboxImplemented == Spec => ImplementsOutbox
  <1>1. Init => Promise!Init
    BY OutboxInit
  <1>2. TypeOK /\ LinkInv /\ [Next]_vars => [Promise!Next]_(Promise!vars)
    BY OutboxStep
  <1> QED
    BY <1>1, <1>2, TypeCorrect, PTL DEF Spec, ImplementsOutbox, Promise!Spec

-----------------------------------------------------------------------------
\* Any copies of a keyed request, in any interleaving of their lookups and
\* inserts, are carried out once.
THEOREM OnceForAKey == Spec => []KeyedOnce
  <1>1. Init => KeyedOnce
    BY DEF Init, KeyedOnce
  <1>2. KeyedOnce /\ [Next]_vars => KeyedOnce'
    <2> SUFFICES ASSUME KeyedOnce, [Next]_vars PROVE KeyedOnce'
      OBVIOUS
    <2>1. CASE UNCHANGED twice
      BY <2>1 DEF KeyedOnce
    <2>2. ASSUME NEW q \in net, Insert(q) PROVE KeyedOnce'
      <3>1. CASE Stored(q.item)
        BY <2>1, <2>2, <3>1 DEF Insert, server
      <3>2. CASE q.item \notin Keyed
        BY <2>2, <3>2 DEF Insert, Stored, KeyedOnce
      <3>3. CASE q.item \notin applied
        BY <2>1, <2>2, <3>3 DEF Insert, Stored
      <3> QED
        BY <3>1, <3>2, <3>3 DEF Stored
    <2>3. ASSUME NEW k \in Runs, Step(k) PROVE UNCHANGED twice
      <3>1. ASSUME NEW e \in run[k].list, Send(k, e) PROVE UNCHANGED twice
        BY <3>1 DEF Send, server
      <3>2. CASE Begin(k) \/ Query(k) \/ Succeed(k) \/ PutBack(k)
        BY <3>2 DEF Begin, Query, Succeed, PutBack, server
      <3>3. CASE Settle(k) \/ Finish(k) \/ Rerun(k)
        BY <3>3 DEF Settle, Finish, Rerun, server
      <3> QED
        BY <2>3, <3>1, <3>2, <3>3 DEF Step
    <2>4. ASSUME NEW q \in net, Exchange(q), ~Insert(q) PROVE UNCHANGED twice
      BY <2>4 DEF Exchange, Lookup, Refuse, Fail, GiveUpWaiting, Unauthorized, Unpark, server
    <2>5. ASSUME NEW i \in Items, Enqueue(i) \/ RetryFailed(i) \/ DiscardFailed(i) \/ BackoffEnds(i)
          PROVE  UNCHANGED twice
      BY <2>5 DEF Enqueue, RetryFailed, DiscardFailed, Delete, BackoffEnds, server
    <2>6. CASE \/ \E u \in Users : Login(u)
               \/ ClearSyncQueue \/ Logout \/ Trigger \/ LoseNetwork \/ Reconnect \/ Restart
      BY <2>1, <2>6 DEF Login, ClearSyncQueue, Delete, Logout, Trigger, LoseNetwork, Reconnect,
                        Restart, server
    <2>7. CASE UNCHANGED vars
      BY <2>1, <2>7 DEF vars, server
    <2>8. ASSUME NEW k \in Runs, Throw(k) PROVE UNCHANGED twice
      BY <2>8 DEF Throw, QueryFails, RemoveFails, MarkFails, StatusFails, MarkSyncingFails, server
    <2> QED
      BY <2>1, <2>2, <2>3, <2>4, <2>5, <2>6, <2>7, <2>8 DEF Next
  <1> QED
    BY <1>1, <1>2, PTL DEF Spec
=============================================================================

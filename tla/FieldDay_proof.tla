--------------------------- MODULE FieldDay_proof ---------------------------
(***************************************************************************)
(* Type correctness of FieldDay; that days and visits exclude each other,  *)
(* that the end of the day closes its visits, that a draft order holds its *)
(* visit, and that FieldDay implements WorkDay, for every set of sessions, *)
(* visits, outlets, orders and requests and any number of days.            *)
(***************************************************************************)
EXTENDS FieldDay, TLAPS

USE DEF documents, history

\* What a request is follows from its op.
LEMMA KindOfRequest ==
  ASSUME NEW q \in RequestStates
  PROVE  /\ q.op \in {"end", "close"} => q \in EndReq
         /\ q.op \in {"checkIn", "order"} => q \in CheckInReq
         /\ q.op \in {"leave", "leaving"} => q \in LeaveReq
BY DEF RequestStates, Idle, StartReq, EndReq, CheckInReq, LeaveReq

\* A request that changes is one of the requests, and becomes one.
LEMMA RequestTurns ==
  ASSUME TypeOK, NEW r, NEW q \in RequestStates, Turn(r, q)
  PROVE  /\ req' \in [Requests -> RequestStates]
         /\ \A t \in Requests : t # r => req'[t] = req[t]
         /\ r \in Requests => req'[r] = q
BY DEF TypeOK, Turn

\* Every step keeps documents and requests well formed.
LEMMA TypeStep ==
  ASSUME TypeOK, RequestsExist, [Next]_vars
  PROVE  TypeOK'
<1> USE DEF Open, Done, Turn
<1>0. /\ today \in 0..MaxDays /\ session \in [SessionIds -> Sessions \cup {None}]
      /\ visit \in [VisitIds -> Visits \cup {None}] /\ draft \in [OrderIds -> Drafts \cup {None}]
      /\ req \in [Requests -> RequestStates]
      /\ raced \in SUBSET SessionIds /\ doubled \in SUBSET VisitIds /\ cut \in SUBSET SessionIds
  BY DEF TypeOK
<1>1. ASSUME NEW r \in Requests, StartFind(r) PROVE TypeOK'
  <2>1. [op |-> "start", checked |-> FALSE] \in RequestStates
    BY DEF RequestStates, StartReq
  <2>2. QED
    BY <1>0, <1>1, <2>1 DEF StartFind, TypeOK
<1>1a. ASSUME NEW r \in Requests, StartCheck(r) PROVE TypeOK'
  <2>1. [op |-> "start", checked |-> TRUE] \in RequestStates
    BY DEF RequestStates, StartReq
  <2>2. QED
    BY <1>0, <1>1a, <2>1 DEF StartCheck, TypeOK
<1>2. ASSUME NEW r \in Requests, EndSave(r) PROVE TypeOK'
  <2>1. req[r] \in EndReq
    BY <1>0, <1>2, KindOfRequest DEF EndSave
  <2>2. req[r].session \in SessionIds /\ session[req[r].session] \in Sessions
    BY <1>0, <1>2, <2>1 DEF EndSave, EndReq, RequestsExist
  <2>3. [op |-> "close", session |-> req[r].session] \in RequestStates
    BY <2>2 DEF RequestStates, EndReq
  <2>4. [session[req[r].session] EXCEPT !.status = "Completed"] \in Sessions
    BY <2>2 DEF Sessions
  <2>5. session' \in [SessionIds -> Sessions \cup {None}]
    BY <1>0, <1>2, <2>4 DEF EndSave
  <2>6. QED
    BY <1>0, <1>2, <2>3, <2>5 DEF EndSave, TypeOK
<1>3. ASSUME NEW r \in Requests, EndVisits(r) PROVE TypeOK'
  <2>1. \A v \in VisitIds : visit[v] # None => [visit[v] EXCEPT !.status = "Completed"] \in Visits
    BY <1>0 DEF Visits
  <2>2. visit' \in [VisitIds -> Visits \cup {None}]
    BY <1>3, <2>1 DEF EndVisits
  <2>3. QED
    BY <1>0, <1>3, <2>2 DEF EndVisits, TypeOK, RequestStates
<1>4. ASSUME NEW r \in Requests, CheckOutDrafts(r) PROVE TypeOK'
  <2>1. req[r] \in LeaveReq
    BY <1>0, <1>4, KindOfRequest DEF CheckOutDrafts
  <2>2. [req[r] EXCEPT !.op = "leaving"] \in RequestStates
    BY <2>1 DEF RequestStates, LeaveReq
  <2>3. QED
    BY <1>0, <1>4, <2>2 DEF CheckOutDrafts, TypeOK
<1>5. ASSUME NEW r \in Requests, CheckOutSave(r) PROVE TypeOK'
  <2>1. req[r] \in LeaveReq
    BY <1>0, <1>5, KindOfRequest DEF CheckOutSave
  <2>2. req[r].visit \in VisitIds /\ visit[req[r].visit] \in Visits
    BY <1>0, <1>5, <2>1 DEF CheckOutSave, LeaveReq, RequestsExist
  <2>3. [visit[req[r].visit] EXCEPT !.status = "Completed"] \in Visits
    BY <2>2 DEF Visits
  <2>4. visit' \in [VisitIds -> Visits \cup {None}]
    BY <1>0, <1>5, <2>3 DEF CheckOutSave
  <2>5. QED
    BY <1>0, <1>5, <2>4 DEF CheckOutSave, TypeOK, RequestStates
<1>6. ASSUME NEW r \in Requests, Abandon(r) PROVE TypeOK'
  <2>1. req[r].op = "close" => req[r].session \in SessionIds
    BY <1>0, KindOfRequest DEF EndReq
  <2>2. cut' \in SUBSET SessionIds
    BY <1>0, <1>6, <2>1 DEF Abandon
  <2>3. QED
    BY <1>0, <1>6, <2>2 DEF Abandon, TypeOK, RequestStates
<1>7. ASSUME NEW r \in Requests, NEW s \in SessionIds, StartSave(r, s) PROVE TypeOK'
  <2>1. Started \in Sessions
    BY <1>0 DEF Started, Sessions
  <2>2. session' \in [SessionIds -> Sessions \cup {None}] /\ raced' \in SUBSET SessionIds
    BY <1>0, <1>7, <2>1 DEF StartSave
  <2>3. QED
    BY <1>0, <1>7, <2>2 DEF StartSave, TypeOK, RequestStates
<1>8. ASSUME NEW r \in Requests, NEW s \in SessionIds, EndRead(r, s) PROVE TypeOK'
  <2>1. [op |-> "end", session |-> s] \in RequestStates
    BY DEF RequestStates, EndReq
  <2>2. QED
    BY <1>0, <1>8, <2>1 DEF EndRead, TypeOK
<1>9. ASSUME NEW r \in Requests, NEW l \in Outlets, CheckInFind(r, l) \/ OrderRead(r, l) PROVE TypeOK'
  <2>1. [op |-> "checkIn", outlet |-> l] \in RequestStates /\ [op |-> "order", outlet |-> l] \in RequestStates
    BY DEF RequestStates, CheckInReq
  <2>2. QED
    BY <1>0, <1>9, <2>1 DEF CheckInFind, OrderRead, TypeOK
<1>10. ASSUME NEW r \in Requests, NEW v \in VisitIds, CheckInSave(r, v) PROVE TypeOK'
  <2>1. req[r] \in CheckInReq
    BY <1>0, <1>10, KindOfRequest DEF CheckInSave
  <2>2. [outlet |-> req[r].outlet, status |-> "Active",
         open |-> {s \in SessionIds : IsOpen(s)}] \in Visits
    BY <2>1 DEF CheckInReq, Visits
  <2>3. visit' \in [VisitIds -> Visits \cup {None}] /\ doubled' \in SUBSET VisitIds
    BY <1>0, <1>10, <2>2 DEF CheckInSave
  <2>4. QED
    BY <1>0, <1>10, <2>3 DEF CheckInSave, TypeOK, RequestStates
<1>11. ASSUME NEW r \in Requests, NEW v \in VisitIds, CheckOutFind(r, v) PROVE TypeOK'
  <2>1. [op |-> "leave", visit |-> v] \in RequestStates
    BY DEF RequestStates, LeaveReq
  <2>2. QED
    BY <1>0, <1>11, <2>1 DEF CheckOutFind, TypeOK
<1>12. ASSUME NEW r \in Requests, NEW o \in OrderIds, OrderSave(r, o) PROVE TypeOK'
  <2> DEFINE since == {v \in VisitIds : visit[v] # None}
  <2> DEFINE late  == \E q \in Requests : /\ req[q].op = "leaving"
                                          /\ visit[req[q].visit].outlet = req[r].outlet
  <2>1. req[r] \in CheckInReq
    BY <1>0, <1>12, KindOfRequest DEF OrderSave
  <2>2. late \in BOOLEAN
    OBVIOUS
  <2>3. since \in SUBSET VisitIds /\ req[r].outlet \in Outlets
    BY <2>1 DEF CheckInReq
  <2> HIDE DEF since, late
  <2>4. [outlet |-> req[r].outlet, since |-> since, late |-> late] \in Drafts
    BY <2>2, <2>3 DEF Drafts
  <2>5. draft' = [draft EXCEPT ![o] = [outlet |-> req[r].outlet, since |-> since, late |-> late]]
    BY <1>12 DEF OrderSave, since, late
  <2>6. draft' \in [OrderIds -> Drafts \cup {None}]
    BY <1>0, <2>4, <2>5
  <2>7. QED
    BY <1>0, <1>12, <2>6 DEF OrderSave, TypeOK, RequestStates
<1>13. ASSUME NEW o \in OrderIds, DraftEnds(o) PROVE TypeOK'
  BY <1>0, <1>13 DEF DraftEnds, TypeOK
<1>14. ASSUME Midnight PROVE TypeOK'
  <2>1. today' \in 0..MaxDays
    BY <1>0, <1>14, DaysAssumption DEF Midnight
  <2>2. QED
    BY <1>0, <1>14, <2>1 DEF Midnight, TypeOK
<1>15. CASE UNCHANGED vars
  BY <1>0, <1>15 DEF vars, TypeOK
<1>16. QED
  BY <1>1, <1>1a, <1>2, <1>3, <1>4, <1>5, <1>6, <1>7, <1>8, <1>9, <1>10, <1>11, <1>12, <1>13, <1>14,
     <1>15 DEF Next

\* The documents a request names go on existing.
LEMMA ExistStep ==
  ASSUME TypeOK, RequestsExist, [Next]_vars
  PROVE  RequestsExist'
<1> USE DEF Open, Done, Turn
<1>0. /\ session \in [SessionIds -> Sessions \cup {None}]
      /\ visit \in [VisitIds -> Visits \cup {None}]
      /\ req \in [Requests -> RequestStates]
  BY DEF TypeOK
<1>1. \A r \in Requests :
         /\ req[r].op \in {"end", "close"} => req[r].session \in SessionIds
         /\ req[r].op \in {"leave", "leaving"} => req[r].visit \in VisitIds
  BY <1>0, KindOfRequest DEF EndReq, LeaveReq
<1>a. \A r \in Requests : req[r].op \in {"end", "close"} =>
         req[r].session \in SessionIds /\ session[req[r].session] # None
  BY <1>1 DEF RequestsExist
<1>b. \A r \in Requests : req[r].op \in {"leave", "leaving"} =>
         req[r].visit \in VisitIds /\ visit[req[r].visit] # None
  BY <1>1 DEF RequestsExist
<1>2. \A s \in SessionIds : session[s] # None => session'[s] # None
  <2>1. ASSUME NEW r \in Requests, EndSave(r) PROVE \A s \in SessionIds : session[s] # None => session'[s] # None
    <3>1. session[req[r].session] \in Sessions
      BY <1>0, <1>a, <2>1 DEF EndSave
    <3>2. [session[req[r].session] EXCEPT !.status = "Completed"] # None
      BY <3>1, NoneAssumption DEF Sessions
    <3>3. QED
      <4>1. session' = [session EXCEPT ![req[r].session] = [session[req[r].session] EXCEPT !.status = "Completed"]]
        BY <2>1 DEF EndSave
      <4>2. session' = [s \in SessionIds |-> IF s = req[r].session
                            THEN [session[req[r].session] EXCEPT !.status = "Completed"] ELSE session[s]]
        BY <1>0, <4>1
      <4>3. QED
        BY <3>2, <4>2
  <2>2. ASSUME NEW r \in Requests, NEW s \in SessionIds, StartSave(r, s)
        PROVE  \A t \in SessionIds : session[t] # None => session'[t] # None
    BY <1>0, <2>2 DEF StartSave
  <2>3. CASE UNCHANGED session
    BY <2>3
  <2>4. QED
    BY <2>1, <2>2, <2>3 DEF Next, vars, StartFind, StartCheck, EndRead, EndVisits, CheckInFind, CheckInSave,
       CheckOutFind, CheckOutDrafts, CheckOutSave, OrderRead, OrderSave, DraftEnds, Abandon, Midnight
<1>3. \A v \in VisitIds : visit[v] # None => visit'[v] # None
  <2>1. ASSUME NEW r \in Requests, EndVisits(r) PROVE \A v \in VisitIds : visit[v] # None => visit'[v] # None
    <3>1. \A v \in VisitIds : visit[v] # None => [visit[v] EXCEPT !.status = "Completed"] # None
      BY <1>0, NoneAssumption DEF Visits
    <3>2. QED
      BY <2>1, <3>1 DEF EndVisits
  <2>2. ASSUME NEW r \in Requests, CheckOutSave(r) PROVE \A v \in VisitIds : visit[v] # None => visit'[v] # None
    <3>1. visit[req[r].visit] \in Visits
      BY <1>0, <1>b, <2>2 DEF CheckOutSave
    <3>2. [visit[req[r].visit] EXCEPT !.status = "Completed"] # None
      BY <3>1, NoneAssumption DEF Visits
    <3>3. QED
      BY <1>0, <1>1, <2>2, <3>2 DEF CheckOutSave
  <2>3. ASSUME NEW r \in Requests, NEW v \in VisitIds, CheckInSave(r, v)
        PROVE  \A w \in VisitIds : visit[w] # None => visit'[w] # None
    BY <1>0, <2>3 DEF CheckInSave
  <2>4. CASE UNCHANGED visit
    BY <2>4
  <2>5. QED
    BY <2>1, <2>2, <2>3, <2>4 DEF Next, vars, StartFind, StartCheck, StartSave, EndRead, EndSave, CheckInFind,
       CheckOutFind, CheckOutDrafts, OrderRead, OrderSave, DraftEnds, Abandon, Midnight
<1>4. ASSUME NEW t \in Requests
      PROVE  /\ req'[t].op \in {"end", "close"} => session'[req'[t].session] # None
             /\ req'[t].op \in {"leave", "leaving"} => visit'[req'[t].visit] # None
  <2>1. CASE req'[t] = req[t]
    <3>1. /\ req[t].op \in {"end", "close"} => session'[req[t].session] # None
          /\ req[t].op \in {"leave", "leaving"} => visit'[req[t].visit] # None
      <4>1. ASSUME req[t].op \in {"end", "close"} PROVE session'[req[t].session] # None
        BY <1>a, <1>2, <4>1
      <4>2. ASSUME req[t].op \in {"leave", "leaving"} PROVE visit'[req[t].visit] # None
        BY <1>b, <1>3, <4>2
      <4>3. QED
        BY <4>1, <4>2
    <3>2. QED
      BY <2>1, <3>1
  <2>2. CASE req'[t].op \in {"idle", "start", "checkIn", "order"}
    BY <2>2
  <2>3. ASSUME NEW r \in Requests, EndSave(r)
        PROVE  req'[t] = req[t] \/ (session'[req'[t].session] # None /\ req'[t].op = "close")
    <3>1. t # r => req'[t] = req[t]
      BY <1>0, <2>3 DEF EndSave
    <3>2. CASE t = r
      <4>1. req'[t] = [op |-> "close", session |-> req[r].session]
        BY <1>0, <2>3, <3>2 DEF EndSave
      <4>2. session'[req[r].session] # None
        BY <1>a, <1>2, <2>3 DEF EndSave
      <4>3. QED
        BY <4>1, <4>2
    <3>3. QED
      BY <3>1, <3>2
  <2>4. ASSUME NEW r \in Requests, NEW s \in SessionIds, EndRead(r, s)
        PROVE  req'[t] = req[t] \/ (session'[req'[t].session] # None /\ req'[t].op = "end")
    <3>1. t # r => req'[t] = req[t]
      BY <1>0, <2>4 DEF EndRead
    <3>2. CASE t = r
      <4>1. req'[t] = [op |-> "end", session |-> s]
        BY <1>0, <2>4, <3>2 DEF EndRead
      <4>2. session'[s] # None
        BY <1>2, <2>4 DEF EndRead, IsOpen
      <4>3. QED
        BY <4>1, <4>2
    <3>3. QED
      BY <3>1, <3>2
  <2>5. ASSUME NEW r \in Requests, NEW v \in VisitIds, CheckOutFind(r, v)
        PROVE  req'[t] = req[t] \/ (visit'[req'[t].visit] # None /\ req'[t].op = "leave")
    <3>1. t # r => req'[t] = req[t]
      BY <1>0, <2>5 DEF CheckOutFind
    <3>2. CASE t = r
      <4>1. req'[t] = [op |-> "leave", visit |-> v]
        BY <1>0, <2>5, <3>2 DEF CheckOutFind
      <4>2. visit'[v] # None
        BY <1>3, <2>5 DEF CheckOutFind, IsActive
      <4>3. QED
        BY <4>1, <4>2
    <3>3. QED
      BY <3>1, <3>2
  <2>6. ASSUME NEW r \in Requests, CheckOutDrafts(r)
        PROVE  req'[t] = req[t] \/ (visit'[req'[t].visit] # None /\ req'[t].op = "leaving")
    <3>1. req[r] \in LeaveReq /\ visit[req[r].visit] # None
      BY <1>0, <2>6, KindOfRequest DEF CheckOutDrafts, RequestsExist
    <3>2. req[r].visit \in VisitIds /\ [req[r] EXCEPT !.op = "leaving"].visit = req[r].visit
          /\ [req[r] EXCEPT !.op = "leaving"].op = "leaving"
      BY <3>1 DEF LeaveReq
    <3>3. t # r => req'[t] = req[t]
      BY <1>0, <2>6 DEF CheckOutDrafts
    <3>4. CASE t = r
      <4>1. req'[t] = [req[r] EXCEPT !.op = "leaving"]
        BY <1>0, <2>6, <3>4 DEF CheckOutDrafts
      <4>2. visit'[req[r].visit] # None
        BY <1>3, <3>1, <3>2
      <4>3. QED
        BY <3>2, <4>1, <4>2
    <3>5. QED
      BY <3>3, <3>4
  <2>7. ASSUME NEW r \in Requests,
               \/ StartFind(r) \/ StartCheck(r) \/ EndVisits(r) \/ CheckOutSave(r) \/ Abandon(r)
               \/ \E s \in SessionIds : StartSave(r, s)
               \/ \E l \in Outlets : CheckInFind(r, l) \/ OrderRead(r, l)
               \/ \E v \in VisitIds : CheckInSave(r, v)
               \/ \E o \in OrderIds : OrderSave(r, o)
        PROVE  req'[t] = req[t] \/ req'[t].op \in {"idle", "start", "checkIn", "order"}
    BY <1>0, <2>7 DEF StartFind, StartCheck, EndVisits, CheckOutSave, Abandon, StartSave, CheckInFind, OrderRead,
       CheckInSave, OrderSave, Idle
  <2>8. ASSUME (\E o \in OrderIds : DraftEnds(o)) \/ Midnight \/ UNCHANGED vars PROVE req'[t] = req[t]
    BY <2>8 DEF DraftEnds, Midnight, vars
  <2>9. QED
    BY <2>1, <2>2, <2>3, <2>4, <2>5, <2>6, <2>7, <2>8 DEF Next
<1>5. QED
  BY <1>4 DEF RequestsExist

\* Days stay apart: a start that found no other saves one of its own.
LEMMA DaysStep ==
  ASSUME TypeOK, RequestsExist, DaysPast, StartsAlone, DaysApart, [Next]_vars
  PROVE  DaysPast' /\ StartsAlone' /\ DaysApart'
<1> USE DEF Open, Done, Turn
<1>0. /\ session \in [SessionIds -> Sessions \cup {None}] /\ today \in Int
      /\ req \in [Requests -> RequestStates]
  BY DaysAssumption DEF TypeOK
<1>1. \A s \in SessionIds : session[s] # None =>
         session[s] \in Sessions /\ session[s].day \in Int /\ session[s].status \in {"Active", "Completed"}
  BY <1>0, DaysAssumption DEF Sessions
<1>2. ASSUME NEW r \in Requests, NEW s \in SessionIds, StartSave(r, s)
      PROVE  DaysPast' /\ StartsAlone' /\ DaysApart'
  <2>1. /\ session' = [session EXCEPT ![s] = Started] /\ today' = today
        /\ req[r].op = "start" /\ req[r].checked /\ req' = [req EXCEPT ![r] = Idle]
        /\ raced' = IF Overlaps(r, "start") THEN raced \cup {s} ELSE raced
    BY <1>2 DEF StartSave
  <2>2. /\ session'[s] = Started /\ Started # None /\ Started.day = today
        /\ \A t \in SessionIds : t # s => session'[t] = session[t]
    BY <1>0, <2>1, NoneAssumption DEF Started, Sessions, TypeOK
  <2>3. \A t \in SessionIds \ raced : session[t] # None => ~IsOpen(t) /\ session[t].day # today
    BY <2>1 DEF StartsAlone
  <2>4. raced \subseteq raced'
    BY <2>1
  <2>5. DaysPast'
    <3> SUFFICES ASSUME NEW t \in SessionIds, session'[t] # None PROVE session'[t].day <= today'
      BY DEF DaysPast
    <3>1. CASE t = s
      BY <1>0, <2>1, <2>2, <3>1
    <3>2. CASE t # s
      BY <2>1, <2>2, <3>2 DEF DaysPast
    <3>3. QED
      BY <3>1, <3>2
  <2>6. StartsAlone'
    <3> SUFFICES ASSUME NEW q \in Requests, req'[q].op = "start",
                        NEW t \in SessionIds, t \notin raced', session'[t] # None
                 PROVE  ~IsOpen(t)' /\ (req'[q].checked => session'[t].day # today')
      BY DEF StartsAlone
    <3>1. q # r /\ req'[q] = req[q] /\ req[q].op = "start"
      BY <1>0, <2>1 DEF Idle
    <3>2. s \in raced'
      BY <2>1, <3>1 DEF Overlaps
    <3>3. t # s /\ session'[t] = session[t] /\ t \notin raced
      BY <2>2, <2>4, <3>2
    <3>4. QED
      BY <2>1, <2>3, <3>1, <3>3 DEF IsOpen
  <2>7. DaysApart'
    <3> SUFFICES ASSUME NEW t \in SessionIds, t \notin raced', NEW u \in SessionIds, u \notin raced',
                        t # u, session'[t] # None, session'[u] # None
                 PROVE  ~(IsOpen(t)' /\ IsOpen(u)') /\ session'[t].day # session'[u].day
      BY DEF DaysApart
    <3>1. CASE t = s
      <4>1. session'[u] = session[u] /\ u \notin raced /\ session'[t].day = today
        BY <2>2, <2>4, <3>1
      <4>2. QED
        BY <2>3, <4>1 DEF IsOpen
    <3>2. CASE u = s
      <4>1. session'[t] = session[t] /\ t \notin raced /\ session'[u].day = today
        BY <2>2, <2>4, <3>2
      <4>2. QED
        BY <2>3, <4>1 DEF IsOpen
    <3>3. CASE t # s /\ u # s
      <4>1. session'[t] = session[t] /\ session'[u] = session[u] /\ t \notin raced /\ u \notin raced
        BY <2>2, <2>4, <3>3
      <4>2. QED
        BY <4>1 DEF IsOpen, DaysApart
    <3>4. QED
      BY <3>1, <3>2, <3>3
  <2>8. QED
    BY <2>5, <2>6, <2>7
<1>3. ASSUME NEW r \in Requests, StartFind(r) PROVE DaysPast' /\ StartsAlone' /\ DaysApart'
  <2>1. /\ UNCHANGED <<today, session, raced>> /\ \A s \in SessionIds : ~IsOpen(s)
        /\ req' = [req EXCEPT ![r] = [op |-> "start", checked |-> FALSE]]
    BY <1>3 DEF StartFind
  <2>2. \A q \in Requests : req'[q].op = "start" /\ req'[q].checked => req[q].op = "start" /\ req[q].checked
    BY <1>0, <2>1
  <2>3. StartsAlone'
    BY <2>1, <2>2 DEF StartsAlone, IsOpen
  <2>4. DaysPast' /\ DaysApart'
    BY <2>1 DEF DaysPast, DaysApart, IsOpen
  <2>5. QED
    BY <2>3, <2>4
<1>3a. ASSUME NEW r \in Requests, StartCheck(r) PROVE DaysPast' /\ StartsAlone' /\ DaysApart'
  <2>1. /\ UNCHANGED <<today, session, raced>> /\ \A s \in SessionIds : ~CompletedToday(s)
        /\ req[r].op = "start" /\ req' = [req EXCEPT ![r] = [op |-> "start", checked |-> TRUE]]
    BY <1>3a DEF StartCheck
  <2>2. \A s \in SessionIds \ raced : session[s] # None => ~IsOpen(s) /\ session[s].day # today
    BY <1>1, <2>1 DEF StartsAlone, IsOpen, CompletedToday
  <2>3. StartsAlone'
    BY <2>1, <2>2 DEF StartsAlone, IsOpen
  <2>4. DaysPast' /\ DaysApart'
    BY <2>1 DEF DaysPast, DaysApart, IsOpen
  <2>5. QED
    BY <2>3, <2>4
<1>4. ASSUME Midnight PROVE DaysPast' /\ StartsAlone' /\ DaysApart'
  <2>1. today' = today + 1 /\ UNCHANGED <<session, req, raced>>
    BY <1>4 DEF Midnight
  <2>2. \A s \in SessionIds : session[s] # None => session[s].day <= today' /\ session[s].day # today'
    BY <1>0, <1>1, <2>1 DEF DaysPast
  <2>3. DaysPast' /\ StartsAlone'
    BY <2>1, <2>2 DEF DaysPast, StartsAlone, IsOpen
  <2>4. DaysApart'
    BY <2>1 DEF DaysApart, IsOpen
  <2>5. QED
    BY <2>3, <2>4
<1>5. ASSUME UNCHANGED <<today, raced>>, \A q \in Requests : req'[q].op = "start" => req'[q] = req[q],
             \A s \in SessionIds : session'[s] # None =>
                /\ session[s] # None /\ session'[s].day = session[s].day
                /\ IsOpen(s)' => IsOpen(s)
      PROVE  DaysPast' /\ StartsAlone' /\ DaysApart'
  <2>1. DaysPast'
    BY <1>5 DEF DaysPast
  <2>2. StartsAlone'
    BY <1>5 DEF StartsAlone
  <2>3. DaysApart'
    BY <1>5 DEF DaysApart
  <2>4. QED
    BY <2>1, <2>2, <2>3
<1>6. ASSUME NEW r \in Requests, EndSave(r) PROVE DaysPast' /\ StartsAlone' /\ DaysApart'
  <2> DEFINE x == req[r].session
  <2>1. req[r] \in EndReq /\ session[x] # None
    BY <1>0, <1>6, KindOfRequest DEF EndSave, RequestsExist
  <2>2. x \in SessionIds /\ session[x] \in Sessions
    BY <1>1, <2>1 DEF EndReq
  <2>3. session' = [session EXCEPT ![x] = [session[x] EXCEPT !.status = "Completed"]]
    BY <1>6 DEF EndSave
  <2>4. /\ session'[x].day = session[x].day /\ session'[x].status = "Completed"
        /\ \A s \in SessionIds : s # x => session'[s] = session[s]
    BY <1>0, <2>2, <2>3 DEF Sessions
  <2>5. \A s \in SessionIds : session'[s] # None =>
                /\ session[s] # None /\ session'[s].day = session[s].day
                /\ IsOpen(s)' => IsOpen(s)
    BY <2>1, <2>4 DEF IsOpen
  <2>6. UNCHANGED <<today, raced>> /\ \A q \in Requests : req'[q].op = "start" => req'[q] = req[q]
    BY <1>0, <1>6 DEF EndSave
  <2>7. QED
    BY <1>5, <2>5, <2>6
<1>7. ASSUME NEW r \in Requests,
             \/ EndVisits(r) \/ CheckOutDrafts(r) \/ CheckOutSave(r) \/ Abandon(r)
             \/ \E s \in SessionIds : EndRead(r, s)
             \/ \E l \in Outlets : CheckInFind(r, l) \/ OrderRead(r, l)
             \/ \E v \in VisitIds : CheckInSave(r, v) \/ CheckOutFind(r, v)
             \/ \E o \in OrderIds : OrderSave(r, o)
      PROVE  DaysPast' /\ StartsAlone' /\ DaysApart'
  <2>1. UNCHANGED <<today, session, raced>>
    BY <1>7 DEF EndVisits, CheckOutDrafts, CheckOutSave, Abandon, EndRead, CheckInFind, OrderRead,
       CheckInSave, CheckOutFind, OrderSave
  <2>2. ASSUME NEW q \in Requests, req'[q].op = "start" PROVE req'[q] = req[q]
    <3>1. CASE CheckOutDrafts(r)
      <4>1. req[r] \in LeaveReq
        BY <1>0, <3>1, KindOfRequest DEF CheckOutDrafts
      <4>2. [req[r] EXCEPT !.op = "leaving"].op = "leaving"
        BY <4>1 DEF LeaveReq
      <4>3. QED
        BY <1>0, <2>2, <3>1, <4>2 DEF CheckOutDrafts
    <3>2. CASE ~CheckOutDrafts(r)
      BY <1>0, <1>7, <2>2, <3>2 DEF EndVisits, CheckOutSave, Abandon, EndRead, CheckInFind, OrderRead,
         CheckInSave, CheckOutFind, OrderSave, Idle
    <3>3. QED
      BY <3>1, <3>2
  <2>3. QED
    BY <1>5, <2>1, <2>2 DEF IsOpen
<1>8. ASSUME (\E o \in OrderIds : DraftEnds(o)) \/ UNCHANGED vars PROVE DaysPast' /\ StartsAlone' /\ DaysApart'
  <2>1. UNCHANGED <<today, session, raced, req>>
    BY <1>8 DEF DraftEnds, vars
  <2>2. QED
    BY <1>5, <2>1 DEF IsOpen
<1>9. QED
  BY <1>2, <1>3, <1>3a, <1>4, <1>6, <1>7, <1>8 DEF Next

\* Visits exclude each other: a check-in that found no active visit and no
\* other check-in saves the only one.
LEMMA VisitsStep ==
  ASSUME TypeOK, RequestsExist, ChecksInAlone, OneActiveVisit, [Next]_vars
  PROVE  ChecksInAlone' /\ OneActiveVisit'
<1> USE DEF Open, Done, Turn
<1>0. /\ visit \in [VisitIds -> Visits \cup {None}]
      /\ req \in [Requests -> RequestStates]
  BY DEF TypeOK
<1>1. ASSUME NEW r \in Requests, NEW v \in VisitIds, CheckInSave(r, v)
      PROVE  ChecksInAlone' /\ OneActiveVisit'
  <2>1. /\ \A w \in VisitIds : w # v => visit'[w] = visit[w]
        /\ req[r].op = "checkIn" /\ req' = [req EXCEPT ![r] = Idle]
        /\ doubled' = IF Overlaps(r, "checkIn") THEN doubled \cup {v} ELSE doubled
    BY <1>0, <1>1 DEF CheckInSave
  <2>2. \A w \in VisitIds \ doubled : ~IsActive(w)
    BY <2>1 DEF ChecksInAlone
  <2>3. \A w \in VisitIds \ doubled' : w # v => ~IsActive(w)'
    BY <2>1, <2>2 DEF IsActive
  <2>4. OneActiveVisit'
    BY <2>3 DEF OneActiveVisit
  <2>5. ASSUME NEW q \in Requests, req'[q].op = "checkIn" PROVE v \in doubled'
    <3>1. q # r /\ req[q].op = "checkIn"
      BY <1>0, <2>1, <2>5 DEF Idle
    <3>2. QED
      BY <2>1, <3>1 DEF Overlaps
  <2>6. ChecksInAlone'
    BY <2>3, <2>5 DEF ChecksInAlone
  <2>7. QED
    BY <2>4, <2>6
<1>2. ASSUME NEW r \in Requests, NEW l \in Outlets, CheckInFind(r, l)
      PROVE  ChecksInAlone' /\ OneActiveVisit'
  <2>1. UNCHANGED <<visit, doubled>> /\ \A v \in VisitIds : ~IsActive(v)
    BY <1>2 DEF CheckInFind, NoVisitFor
  <2>2. QED
    BY <2>1 DEF ChecksInAlone, OneActiveVisit, IsActive
<1>3. ASSUME UNCHANGED doubled, \A q \in Requests : req'[q].op = "checkIn" => req[q].op = "checkIn",
             \A v \in VisitIds : IsActive(v)' => IsActive(v)
      PROVE  ChecksInAlone' /\ OneActiveVisit'
  <2>1. ChecksInAlone'
    BY <1>3 DEF ChecksInAlone
  <2>2. OneActiveVisit'
    BY <1>3 DEF OneActiveVisit
  <2>3. QED
    BY <2>1, <2>2
<1>4. ASSUME NEW r \in Requests, EndVisits(r) PROVE ChecksInAlone' /\ OneActiveVisit'
  <2>1. \A v \in VisitIds : visit[v] # None => [visit[v] EXCEPT !.status = "Completed"].status = "Completed"
    BY <1>0 DEF Visits
  <2>2. \A v \in VisitIds : ~IsActive(v)'
    BY <1>4, <2>1 DEF EndVisits, IsActive
  <2>3. UNCHANGED doubled /\ \A q \in Requests : req'[q].op = "checkIn" => req[q].op = "checkIn"
    BY <1>0, <1>4 DEF EndVisits, Idle
  <2>4. QED
    BY <1>3, <2>2, <2>3
<1>5. ASSUME NEW r \in Requests, CheckOutSave(r) PROVE ChecksInAlone' /\ OneActiveVisit'
  <2> DEFINE x == req[r].visit
  <2>1. req[r] \in LeaveReq /\ visit[x] # None
    BY <1>0, <1>5, KindOfRequest DEF CheckOutSave, RequestsExist
  <2>2. x \in VisitIds /\ visit[x] \in Visits
    BY <1>0, <2>1 DEF LeaveReq
  <2>3. visit' = [visit EXCEPT ![x] = [visit[x] EXCEPT !.status = "Completed"]]
    BY <1>5 DEF CheckOutSave
  <2>4. visit'[x].status = "Completed" /\ \A v \in VisitIds : v # x => visit'[v] = visit[v]
    BY <1>0, <2>2, <2>3 DEF Visits
  <2>5. \A v \in VisitIds : IsActive(v)' => IsActive(v)
    BY <2>4 DEF IsActive
  <2>6. UNCHANGED doubled /\ \A q \in Requests : req'[q].op = "checkIn" => req[q].op = "checkIn"
    BY <1>0, <1>5 DEF CheckOutSave, Idle
  <2>7. QED
    BY <1>3, <2>5, <2>6
<1>6. ASSUME NEW r \in Requests,
             \/ StartFind(r) \/ StartCheck(r) \/ EndSave(r) \/ CheckOutDrafts(r) \/ Abandon(r)
             \/ \E s \in SessionIds : StartSave(r, s) \/ EndRead(r, s)
             \/ \E l \in Outlets : OrderRead(r, l)
             \/ \E v \in VisitIds : CheckOutFind(r, v)
             \/ \E o \in OrderIds : OrderSave(r, o)
      PROVE  ChecksInAlone' /\ OneActiveVisit'
  <2>1. UNCHANGED <<visit, doubled>>
    BY <1>6 DEF StartFind, StartCheck, EndSave, CheckOutDrafts, Abandon, StartSave, EndRead, OrderRead,
       CheckOutFind, OrderSave
  <2>2. ASSUME NEW q \in Requests, req'[q].op = "checkIn" PROVE req[q].op = "checkIn"
    <3>1. CASE CheckOutDrafts(r)
      <4>1. req[r] \in LeaveReq
        BY <1>0, <3>1, KindOfRequest DEF CheckOutDrafts
      <4>2. [req[r] EXCEPT !.op = "leaving"].op = "leaving"
        BY <4>1 DEF LeaveReq
      <4>3. QED
        BY <1>0, <2>2, <3>1, <4>2 DEF CheckOutDrafts
    <3>2. CASE ~CheckOutDrafts(r)
      BY <1>0, <1>6, <2>2, <3>2 DEF StartFind, StartCheck, EndSave, Abandon, StartSave, EndRead, OrderRead,
         CheckOutFind, OrderSave, Idle
    <3>3. QED
      BY <3>1, <3>2
  <2>3. QED
    BY <1>3, <2>1, <2>2 DEF IsActive
<1>7. ASSUME (\E o \in OrderIds : DraftEnds(o)) \/ Midnight \/ UNCHANGED vars
      PROVE  ChecksInAlone' /\ OneActiveVisit'
  <2>1. UNCHANGED <<visit, doubled, req>>
    BY <1>7 DEF DraftEnds, Midnight, vars
  <2>2. QED
    BY <1>3, <2>1 DEF IsActive
<1>8. QED
  BY <1>1, <1>2, <1>4, <1>5, <1>6, <1>7 DEF Next

\* The visits of a session that has ended are being closed.
Closing(s) == \E r \in Requests : req[r].op = "close" /\ req[r].session = s

\* One that was open, or being closed, still is, or its end was cut off.
LEMMA ClosingStep ==
  ASSUME TypeOK, RequestsExist, [Next]_vars, NEW s \in SessionIds, s \notin cut',
         IsOpen(s) \/ Closing(s)
  PROVE  \/ IsOpen(s)' \/ Closing(s)'
         \/ \E r \in Requests : EndVisits(r)
<1> USE DEF Open, Done, Turn
<1>0. /\ session \in [SessionIds -> Sessions \cup {None}]
      /\ req \in [Requests -> RequestStates]
  BY DEF TypeOK
<1>1. CASE Closing(s)
  <2>1. PICK r \in Requests : req[r].op = "close" /\ req[r].session = s
    BY <1>1 DEF Closing
  <2>2. CASE req'[r] = req[r]
    BY <2>1, <2>2 DEF Closing
  <2>3. CASE Abandon(r)
    BY <2>1, <2>3 DEF Abandon
  <2>4. CASE EndVisits(r)
    BY <2>4
  <2>5. ASSUME NEW q \in Requests, EndSave(q) \/ EndVisits(q) \/ CheckOutDrafts(q) \/ CheckOutSave(q) \/ Abandon(q)
               \/ StartFind(q) \/ StartCheck(q)
               \/ (\E t \in SessionIds : StartSave(q, t) \/ EndRead(q, t))
               \/ (\E l \in Outlets : CheckInFind(q, l) \/ OrderRead(q, l))
               \/ (\E v \in VisitIds : CheckInSave(q, v) \/ CheckOutFind(q, v))
               \/ (\E o \in OrderIds : OrderSave(q, o))
        PROVE  req'[r] = req[r] \/ Abandon(r) \/ EndVisits(r)
    <3>1. CASE q # r
      BY <1>0, <2>5, <3>1 DEF EndSave, EndVisits, CheckOutDrafts, CheckOutSave, Abandon, StartFind, StartCheck, StartSave,
         EndRead, CheckInFind, OrderRead, CheckInSave, CheckOutFind, OrderSave
    <3>2. CASE q = r
      <4>1. req[r] # Idle
        BY <2>1 DEF Idle
      <4>2. QED
        BY <2>1, <2>5, <3>2, <4>1 DEF EndSave, CheckOutDrafts, CheckOutSave, StartFind, StartCheck, StartSave,
           EndRead, CheckInFind, OrderRead, CheckInSave, CheckOutFind, OrderSave
    <3>3. QED
      BY <3>1, <3>2
  <2>6. ASSUME (\E o \in OrderIds : DraftEnds(o)) \/ Midnight \/ UNCHANGED vars PROVE req'[r] = req[r]
    BY <2>6 DEF DraftEnds, Midnight, vars
  <2>7. req'[r] = req[r] \/ Abandon(r) \/ EndVisits(r)
    BY <2>5, <2>6 DEF Next
  <2>8. QED
    BY <2>2, <2>3, <2>4, <2>7
<1>2. CASE IsOpen(s)
  <2>1. ASSUME NEW r \in Requests, EndSave(r) PROVE IsOpen(s)' \/ Closing(s)'
    <3>1. CASE s # req[r].session
      BY <1>0, <1>2, <2>1, <3>1 DEF EndSave, IsOpen
    <3>2. CASE s = req[r].session
      <4>1. req'[r] = [op |-> "close", session |-> s]
        BY <1>0, <2>1, <3>2 DEF EndSave
      <4>2. QED
        BY <4>1 DEF Closing
    <3>3. QED
      BY <3>1, <3>2
  <2>2. ASSUME NEW r \in Requests, NEW t \in SessionIds, StartSave(r, t) PROVE IsOpen(s)'
    <3>1. t # s
      BY <1>2, <2>2 DEF StartSave, IsOpen
    <3>2. session'[s] = session[s]
      BY <1>0, <2>2, <3>1 DEF StartSave
    <3>3. QED
      BY <1>2, <3>2 DEF IsOpen
  <2>3. CASE UNCHANGED session
    BY <1>2, <2>3 DEF IsOpen
  <2>4. QED
    BY <2>1, <2>2, <2>3 DEF Next, vars, StartFind, StartCheck, EndRead, EndVisits, CheckInFind, CheckInSave,
       CheckOutFind, CheckOutDrafts, CheckOutSave, OrderRead, OrderSave, DraftEnds, Abandon, Midnight
<1>3. QED
  BY <1>1, <1>2

\* A visit that is active after a step was so before, or begins with it.
LEMMA ActiveStep ==
  ASSUME TypeOK, RequestsExist, [Next]_vars, NEW v \in VisitIds, IsActive(v)'
  PROVE  /\ ~\E r \in Requests : EndVisits(r)
         /\ \/ IsActive(v) /\ visit'[v].open = visit[v].open
            \/ visit'[v].open = {s \in SessionIds : IsOpen(s)} /\ UNCHANGED session
<1> USE DEF Open, Done, Turn
<1>0. /\ visit \in [VisitIds -> Visits \cup {None}]
      /\ req \in [Requests -> RequestStates]
  BY DEF TypeOK
<1>1. ASSUME NEW r \in Requests, EndVisits(r) PROVE FALSE
  <2>1. visit[v] # None => [visit[v] EXCEPT !.status = "Completed"].status = "Completed"
    BY <1>0 DEF Visits
  <2>2. QED
    BY <1>1, <2>1 DEF EndVisits, IsActive
<1>2. ASSUME NEW r \in Requests, CheckOutSave(r) PROVE IsActive(v) /\ visit'[v].open = visit[v].open
  <2> DEFINE x == req[r].visit
  <2>1. req[r] \in LeaveReq /\ visit[x] # None
    BY <1>0, <1>2, KindOfRequest DEF CheckOutSave, RequestsExist
  <2>2. x \in VisitIds /\ visit[x] \in Visits
    BY <1>0, <2>1 DEF LeaveReq
  <2>3. visit' = [visit EXCEPT ![x] = [visit[x] EXCEPT !.status = "Completed"]]
    BY <1>2 DEF CheckOutSave
  <2>4. visit'[x].status = "Completed" /\ \A w \in VisitIds : w # x => visit'[w] = visit[w]
    BY <1>0, <2>2, <2>3 DEF Visits
  <2>5. QED
    BY <2>4 DEF IsActive
<1>3. ASSUME NEW r \in Requests, NEW w \in VisitIds, CheckInSave(r, w)
      PROVE  \/ IsActive(v) /\ visit'[v].open = visit[v].open
             \/ visit'[v].open = {s \in SessionIds : IsOpen(s)} /\ UNCHANGED session
  <2>1. CASE w = v
    <3>1. visit'[v] = [outlet |-> req[r].outlet, status |-> "Active", open |-> {s \in SessionIds : IsOpen(s)}]
      BY <1>0, <1>3, <2>1 DEF CheckInSave
    <3>2. UNCHANGED session
      BY <1>3 DEF CheckInSave
    <3>3. QED
      BY <3>1, <3>2
  <2>2. CASE w # v
    <3>1. visit'[v] = visit[v]
      BY <1>0, <1>3, <2>2 DEF CheckInSave
    <3>2. QED
      BY <3>1 DEF IsActive
  <2>3. QED
    BY <2>1, <2>2
<1>4. ASSUME UNCHANGED visit PROVE IsActive(v) /\ visit'[v].open = visit[v].open
  BY <1>4 DEF IsActive
<1>5. \/ UNCHANGED visit \/ \E r \in Requests : EndVisits(r) \/ CheckOutSave(r)
      \/ \E r \in Requests, w \in VisitIds : CheckInSave(r, w)
  BY DEF Next, vars, StartFind, StartCheck, StartSave, EndRead, EndSave, CheckInFind, CheckOutFind, CheckOutDrafts,
     OrderRead, OrderSave, DraftEnds, Abandon, Midnight
<1>6. QED
  BY <1>1, <1>2, <1>3, <1>4, <1>5

\* An ended day leaves no visit of its own active.
LEMMA CloseStep ==
  ASSUME TypeOK, RequestsExist, DayClosesVisits, [Next]_vars
  PROVE  DayClosesVisits'
<1> SUFFICES ASSUME NEW v \in VisitIds, IsActive(v)', NEW s \in visit'[v].open, s \notin cut'
             PROVE  IsOpen(s)' \/ Closing(s)'
  BY DEF DayClosesVisits, Closing
<1>1. TypeOK'
  BY TypeStep
<1>2. s \in SessionIds
  BY <1>1 DEF TypeOK, Visits, IsActive
<1>3. cut \subseteq cut'
  BY DEF Next, vars, StartFind, StartCheck, StartSave, EndRead, EndSave, EndVisits, CheckInFind, CheckInSave,
     CheckOutFind, CheckOutDrafts, CheckOutSave, OrderRead, OrderSave, DraftEnds, Abandon, Midnight
<1>4. CASE IsActive(v) /\ visit'[v].open = visit[v].open
  <2>1. IsOpen(s) \/ Closing(s)
    BY <1>3, <1>4 DEF DayClosesVisits, Closing
  <2>2. QED
    BY <1>2, <2>1, ClosingStep, ActiveStep
<1>5. CASE visit'[v].open = {t \in SessionIds : IsOpen(t)} /\ UNCHANGED session
  BY <1>5 DEF IsOpen
<1>6. QED
  BY <1>4, <1>5, ActiveStep

\* A check-out that found no draft of its visit meets one only if it was saved
\* since.
LEMMA LeavesStep ==
  ASSUME TypeOK, RequestsExist, LeavesFree, [Next]_vars
  PROVE  LeavesFree'
<1> USE DEF Open, Done, Turn
<1>0. /\ visit \in [VisitIds -> Visits \cup {None}] /\ draft \in [OrderIds -> Drafts \cup {None}]
      /\ req \in [Requests -> RequestStates]
  BY DEF TypeOK
<1> SUFFICES ASSUME NEW t \in Requests, req'[t].op = "leaving",
                    NEW p \in OrderIds, HeldBy(req[t].visit, p)'
             PROVE  draft'[p].late
  BY DEF LeavesFree, HeldBy
<1> DEFINE v == req'[t].visit
<1>1. CASE req'[t] = req[t]
  <2>1. v = req[t].visit /\ v \in VisitIds /\ visit[v] # None /\ visit[v] \in Visits
    BY <1>0, <1>1, KindOfRequest DEF LeaveReq, RequestsExist
  <2>2. visit'[v].outlet = visit[v].outlet
    <3>1. ASSUME NEW r \in Requests, EndVisits(r) PROVE visit'[v].outlet = visit[v].outlet
      BY <2>1, <3>1 DEF EndVisits, Visits
    <3>2. ASSUME NEW r \in Requests, CheckOutSave(r) PROVE visit'[v].outlet = visit[v].outlet
      <4> DEFINE x == req[r].visit
      <4>1. x \in VisitIds /\ visit[x] \in Visits
        BY <1>0, <3>2, KindOfRequest DEF CheckOutSave, LeaveReq, RequestsExist
      <4>2. visit' = [visit EXCEPT ![x] = [visit[x] EXCEPT !.status = "Completed"]]
        BY <3>2 DEF CheckOutSave
      <4>3. [visit[x] EXCEPT !.status = "Completed"].outlet = visit[x].outlet
        BY <4>1 DEF Visits
      <4>4. QED
        BY <1>0, <2>1, <4>1, <4>2, <4>3
    <3>3. ASSUME NEW r \in Requests, NEW w \in VisitIds, CheckInSave(r, w) PROVE visit'[v].outlet = visit[v].outlet
      BY <1>0, <2>1, <3>3 DEF CheckInSave
    <3>4. CASE UNCHANGED visit
      BY <3>4
    <3>5. QED
      BY <3>1, <3>2, <3>3, <3>4 DEF Next, vars, StartFind, StartCheck, StartSave, EndRead, EndSave, CheckInFind,
         CheckOutFind, CheckOutDrafts, OrderRead, OrderSave, DraftEnds, Abandon, Midnight
  <2>3. ASSUME NEW r \in Requests, NEW o \in OrderIds, OrderSave(r, o), o = p PROVE draft'[p].late
    <3> DEFINE late == \E q \in Requests : /\ req[q].op = "leaving"
                                           /\ visit[req[q].visit].outlet = req[r].outlet
    <3> DEFINE since == {w \in VisitIds : visit[w] # None}
    <3> HIDE DEF late, since
    <3>1. draft' = [draft EXCEPT ![o] = [outlet |-> req[r].outlet, since |-> since, late |-> late]]
      BY <2>3 DEF OrderSave, late, since
    <3>2. draft'[p] = [outlet |-> req[r].outlet, since |-> since, late |-> late]
      BY <1>0, <2>3, <3>1
    <3>3. visit[v].outlet = req[r].outlet
      BY <2>2, <3>2 DEF HeldBy
    <3>4. late
      BY <1>1, <2>1, <3>3 DEF late
    <3>5. QED
      BY <3>2, <3>4
  <2>4. ASSUME NEW o \in OrderIds, DraftEnds(o), o = p PROVE FALSE
    BY <1>0, <2>4 DEF DraftEnds, HeldBy
  <2>5. ASSUME draft'[p] = draft[p] PROVE draft'[p].late
    <3>1. HeldBy(req[t].visit, p)
      BY <2>1, <2>2, <2>5 DEF HeldBy
    <3>2. QED
      BY <1>1, <2>5, <3>1 DEF LeavesFree
  <2>6. ASSUME NEW r \in Requests, NEW o \in OrderIds, OrderSave(r, o), o # p PROVE draft'[p] = draft[p]
    BY <1>0, <2>6 DEF OrderSave
  <2>7. ASSUME NEW o \in OrderIds, DraftEnds(o), o # p PROVE draft'[p] = draft[p]
    BY <1>0, <2>7 DEF DraftEnds
  <2>8. \/ UNCHANGED draft \/ \E o \in OrderIds : DraftEnds(o)
        \/ \E r \in Requests, o \in OrderIds : OrderSave(r, o)
    BY DEF Next, vars, StartFind, StartCheck, StartSave, EndRead, EndSave, EndVisits, CheckInFind, CheckInSave,
       CheckOutFind, CheckOutDrafts, CheckOutSave, OrderRead, Abandon, Midnight
  <2>9. QED
    BY <2>3, <2>4, <2>5, <2>6, <2>7, <2>8
<1>2. ASSUME NEW r \in Requests, CheckOutDrafts(r), r = t PROVE draft'[p].late
  <2>1. req[r] \in LeaveReq
    BY <1>0, <1>2, KindOfRequest DEF CheckOutDrafts
  <2>2. req'[t] = [req[r] EXCEPT !.op = "leaving"] /\ UNCHANGED <<visit, draft>>
    BY <1>0, <1>2 DEF CheckOutDrafts
  <2>3. v = req[r].visit
    BY <2>1, <2>2 DEF LeaveReq
  <2>4. QED
    BY <1>2, <2>2, <2>3 DEF CheckOutDrafts, HeldBy
<1>3. req'[t] = req[t] \/ CheckOutDrafts(t)
  <2>1. ASSUME NEW r \in Requests, EndSave(r) \/ EndVisits(r) \/ CheckOutDrafts(r) \/ CheckOutSave(r) \/ Abandon(r)
               \/ StartFind(r) \/ StartCheck(r)
               \/ (\E s \in SessionIds : StartSave(r, s) \/ EndRead(r, s))
               \/ (\E l \in Outlets : CheckInFind(r, l) \/ OrderRead(r, l))
               \/ (\E w \in VisitIds : CheckInSave(r, w) \/ CheckOutFind(r, w))
               \/ (\E o \in OrderIds : OrderSave(r, o))
        PROVE  req'[t] = req[t] \/ CheckOutDrafts(t)
    <3>1. CASE r # t
      BY <1>0, <2>1, <3>1 DEF EndSave, EndVisits, CheckOutDrafts, CheckOutSave, Abandon, StartFind, StartCheck, StartSave,
         EndRead, CheckInFind, OrderRead, CheckInSave, CheckOutFind, OrderSave
    <3>2. CASE r = t
      BY <1>0, <2>1, <3>2 DEF EndSave, EndVisits, CheckOutSave, Abandon, StartFind, StartCheck, StartSave,
         EndRead, CheckInFind, OrderRead, CheckInSave, CheckOutFind, OrderSave, Idle
    <3>3. QED
      BY <3>1, <3>2
  <2>2. ASSUME (\E o \in OrderIds : DraftEnds(o)) \/ Midnight \/ UNCHANGED vars PROVE req'[t] = req[t]
    BY <2>2 DEF DraftEnds, Midnight, vars
  <2>3. QED
    BY <2>1, <2>2 DEF Next
<1>4. QED
  BY <1>1, <1>2, <1>3

\* The initial state.
LEMMA InitCorrect == Init => FieldDayInv
<1> SUFFICES ASSUME Init PROVE FieldDayInv
  OBVIOUS
<1>1. \A r \in Requests : req[r].op = "idle"
  BY DEF Init, Idle
<1>2. req \in [Requests -> RequestStates] /\ today \in 0..MaxDays
  BY DaysAssumption DEF Init, RequestStates
<1>3. TypeOK
  BY <1>2 DEF Init, TypeOK
<1>4. RequestsExist /\ StartsAlone /\ ChecksInAlone /\ LeavesFree
  BY <1>1 DEF RequestsExist, StartsAlone, ChecksInAlone, LeavesFree
<1>5. DaysPast /\ DaysApart /\ OneActiveVisit /\ DayClosesVisits
  BY DEF Init, DaysPast, DaysApart, OneActiveVisit, DayClosesVisits, IsActive
<1>6. QED
  BY <1>3, <1>4, <1>5 DEF FieldDayInv

\* Every step keeps the invariant.
LEMMA StepCorrect == FieldDayInv /\ [Next]_vars => FieldDayInv'
<1> SUFFICES ASSUME FieldDayInv, [Next]_vars PROVE FieldDayInv'
  OBVIOUS
<1>1. /\ TypeOK /\ RequestsExist /\ DaysPast /\ StartsAlone /\ DaysApart
      /\ ChecksInAlone /\ OneActiveVisit /\ DayClosesVisits /\ LeavesFree
  BY DEF FieldDayInv
<1>2. TypeOK' /\ RequestsExist'
  BY <1>1, TypeStep, ExistStep
<1>3. DaysPast' /\ StartsAlone' /\ DaysApart'
  BY <1>1, DaysStep
<1>4. ChecksInAlone' /\ OneActiveVisit'
  BY <1>1, VisitsStep
<1>5. DayClosesVisits' /\ LeavesFree'
  BY <1>1, CloseStep, LeavesStep
<1>6. QED
  BY <1>2, <1>3, <1>4, <1>5 DEF FieldDayInv

\* Sessions, visits, drafts and requests are well formed.
THEOREM TypeCorrect == Spec => []TypeOK
<1>1. FieldDayInv => TypeOK
  BY DEF FieldDayInv
<1>2. QED
  BY <1>1, InitCorrect, StepCorrect, PTL DEF Spec

\* startDay: one open session and one start a day, overlapping starts aside.
THEOREM OneDayAtATime == Spec => []DaysApart
<1>1. FieldDayInv => DaysApart
  BY DEF FieldDayInv
<1>2. QED
  BY <1>1, InitCorrect, StepCorrect, PTL DEF Spec

\* checkIn: one active visit, overlapping check-ins aside.
THEOREM OneVisitAtATime == Spec => []OneActiveVisit
<1>1. FieldDayInv => OneActiveVisit
  BY DEF FieldDayInv
<1>2. QED
  BY <1>1, InitCorrect, StepCorrect, PTL DEF Spec

\* endDay: no visit outlives the session it began in.
THEOREM DayEndsVisits == Spec => []DayClosesVisits
<1>1. FieldDayInv => DayClosesVisits
  BY DEF FieldDayInv
<1>2. QED
  BY <1>1, InitCorrect, StepCorrect, PTL DEF Spec

\* checkOut: a draft order holds the visit it was taken in.
THEOREM DraftHolds == Spec => DraftHoldsVisit
<1>1. FieldDayInv => [\A r \in Requests : req[r].op = "leaving" /\ req'[r] = Idle /\ visit' # visit =>
          \A o \in OrderIds : HeldBy(req[r].visit, o) => draft[o].late]_vars
  BY DEF FieldDayInv, LeavesFree
<1>2. QED
  BY <1>1, InitCorrect, StepCorrect, PTL DEF Spec, DraftHoldsVisit

-----------------------------------------------------------------------------
\* What WorkDay sees, of the sessions and of the visits.
WorkSees  == <<today, begun, onDuty, at>>
DutyKept  == UNCHANGED <<begun, onDuty>>
VisitKept == UNCHANGED at

LEMMA SessionsSeen ==
  ASSUME UNCHANGED session
  PROVE  DutyKept
BY DEF DutyKept, begun, onDuty, IsOpen

LEMMA VisitsSeen ==
  ASSUME UNCHANGED visit
  PROVE  VisitKept
BY DEF VisitKept, at, IsActive

\* A start that no other overlapped begins a day nobody had begun.
LEMMA DayBegins ==
  ASSUME FieldDayInv, NEW r \in Requests, NEW s \in SessionIds, StartSave(r, s), raced = {}
  PROVE  Work!Begin
<1>0. /\ session \in [SessionIds -> Sessions \cup {None}]
      /\ today \in 0..MaxDays
      /\ \A t \in SessionIds : session[t] # None => ~IsOpen(t) /\ session[t].day # today
  BY DEF FieldDayInv, TypeOK, StartsAlone, StartSave
<1>1. session[s] = None /\ session' = [session EXCEPT ![s] = Started]
  BY DEF StartSave
<1>2. Started \in Sessions
  BY <1>0 DEF Started, Sessions
<1>3. Started # None /\ Started.status = "Active" /\ Started.day = today
  BY <1>2, NoneAssumption DEF Started
<1>4. session'[s] = Started /\ \A t \in SessionIds \ {s} : session'[t] = session[t]
  BY <1>0, <1>1
<1>5. ~onDuty
  BY <1>0 DEF onDuty, IsOpen
<1>6. onDuty' = TRUE
  BY <1>3, <1>4 DEF onDuty, IsOpen
<1>7. today \notin begun
  BY <1>0 DEF begun
<1>8. begun' = begun \cup {today}
  <2>1. \A x : x \in begun' <=> \E t \in SessionIds : session'[t] # None /\ x = session'[t].day
    BY DEF begun
  <2>2. \A x : x \in begun <=> \E t \in SessionIds : session[t] # None /\ x = session[t].day
    BY DEF begun
  <2>3. ASSUME NEW x \in begun' PROVE x \in begun \cup {today}
    BY <1>3, <1>4, <2>1, <2>2
  <2>4. ASSUME NEW x \in begun \cup {today} PROVE x \in begun'
    BY <1>1, <1>3, <1>4, <2>1, <2>2
  <2>5. QED
    BY <2>3, <2>4
<1>9. today' = today /\ at' = at
  BY VisitsSeen DEF StartSave, VisitKept
<1>10. QED
  BY <1>5, <1>6, <1>7, <1>8, <1>9 DEF Work!Begin

\* The end of a day ends the one day that is open, or finds it ended.
LEMMA DayEnds ==
  ASSUME FieldDayInv, NEW r \in Requests, EndSave(r), raced = {}
  PROVE  Work!End \/ UNCHANGED WorkSees
<1>0. /\ session \in [SessionIds -> Sessions \cup {None}]
      /\ req \in [Requests -> RequestStates]
      /\ RequestsExist /\ DaysApart
  BY DEF FieldDayInv, TypeOK
<1>1. PICK s \in SessionIds : s = req[r].session /\ session[s] # None
  BY <1>0, KindOfRequest DEF EndSave, EndReq, RequestsExist
<1>2. session' = [session EXCEPT ![s].status = "Completed"]
  BY <1>1 DEF EndSave
<1>3. session[s] \in Sessions
  BY <1>0, <1>1
<1>4. /\ session'[s] # None /\ session'[s].status = "Completed" /\ session'[s].day = session[s].day
      /\ \A t \in SessionIds \ {s} : session'[t] = session[t]
  <2>1. session'[s] = [session[s] EXCEPT !.status = "Completed"]
    BY <1>0, <1>2
  <2>2. session'[s] \in Sessions
    BY <1>3, <2>1 DEF Sessions
  <2>3. session'[s] # None
    BY <2>2, NoneAssumption
  <2>4. session'[s].status = "Completed" /\ session'[s].day = session[s].day
    BY <1>3, <2>1 DEF Sessions
  <2>5. QED
    BY <1>0, <1>2, <2>3, <2>4
<1>5. begun' = begun
  <2>1. \A x : x \in begun' <=> \E t \in SessionIds : session'[t] # None /\ x = session'[t].day
    BY DEF begun
  <2>2. \A x : x \in begun <=> \E t \in SessionIds : session[t] # None /\ x = session[t].day
    BY DEF begun
  <2>3. ASSUME NEW x \in begun' PROVE x \in begun
    BY <1>1, <1>4, <2>1, <2>2
  <2>4. ASSUME NEW x \in begun PROVE x \in begun'
    BY <1>1, <1>4, <2>1, <2>2
  <2>5. QED
    BY <2>3, <2>4
<1>6. today' = today /\ at' = at
  BY VisitsSeen DEF EndSave, VisitKept
<1>7. CASE IsOpen(s)
  <2>1. \A t \in SessionIds \ {s} : ~IsOpen(t)
    BY <1>0, <1>1, <1>7 DEF DaysApart, IsOpen
  <2>2. onDuty
    BY <1>7 DEF onDuty
  <2>3. onDuty' = FALSE
    BY <1>4, <2>1 DEF onDuty, IsOpen
  <2>4. QED
    BY <1>5, <1>6, <2>2, <2>3 DEF Work!End
<1>8. CASE ~IsOpen(s)
  <2>1. \A t \in SessionIds : IsOpen(t)' <=> IsOpen(t)
    BY <1>1, <1>4, <1>8 DEF IsOpen
  <2>2. onDuty' = onDuty
    BY <2>1 DEF onDuty
  <2>3. QED
    BY <1>5, <1>6, <2>2 DEF WorkSees
<1>9. QED
  BY <1>7, <1>8

\* A check-in that no other overlapped finds the user at no outlet.
LEMMA VisitBegins ==
  ASSUME FieldDayInv, NEW r \in Requests, NEW v \in VisitIds, CheckInSave(r, v), doubled = {}
  PROVE  Work!CheckIn
<1>0. /\ visit \in [VisitIds -> Visits \cup {None}]
      /\ req \in [Requests -> RequestStates]
      /\ \A w \in VisitIds : ~IsActive(w)
  BY DEF FieldDayInv, TypeOK, ChecksInAlone, CheckInSave
<1>1. PICK l \in Outlets : l = req[r].outlet
  BY <1>0, KindOfRequest DEF CheckInSave, CheckInReq
<1>2. PICK x \in Visits : x.outlet = l /\ x.status = "Active" /\ visit' = [visit EXCEPT ![v] = x]
  <2>1. [outlet |-> l, status |-> "Active", open |-> {s \in SessionIds : IsOpen(s)}] \in Visits
    BY DEF Visits
  <2>2. QED
    BY <1>1, <2>1 DEF CheckInSave
<1>3. /\ visit'[v].outlet = l /\ visit'[v].status = "Active" /\ visit'[v] # None
      /\ \A w \in VisitIds \ {v} : visit'[w] = visit[w]
  BY <1>0, <1>2, NoneAssumption
<1>4. \A w \in VisitIds : IsActive(w)' <=> w = v
  BY <1>0, <1>3 DEF IsActive
<1>5. at = {}
  BY <1>0 DEF at
<1>6. at' = {l}
  <2>1. \A y : y \in at' <=> \E w \in VisitIds : IsActive(w)' /\ y = visit'[w].outlet
    BY DEF at
  <2>2. QED
    BY <1>3, <1>4, <2>1
<1>7. today' = today /\ DutyKept
  BY SessionsSeen DEF CheckInSave
<1>8. QED
  BY <1>1, <1>5, <1>6, <1>7 DEF Work!CheckIn, DutyKept

\* Completing visits ends the one that is active, or finds it ended.
LEMMA VisitEnds ==
  ASSUME FieldDayInv, NEW r \in Requests, CheckOutSave(r) \/ EndVisits(r), doubled = {}
  PROVE  Work!CheckOut \/ UNCHANGED WorkSees
<1>0. /\ visit \in [VisitIds -> Visits \cup {None}]
      /\ req \in [Requests -> RequestStates]
      /\ RequestsExist /\ OneActiveVisit
  BY DEF FieldDayInv, TypeOK
<1>1. today' = today /\ DutyKept
  BY SessionsSeen DEF CheckOutSave, EndVisits
<1>2. \A x : x \in at' <=> \E w \in VisitIds : IsActive(w)' /\ x = visit'[w].outlet
  BY DEF at
<1>3. \A x : x \in at <=> \E w \in VisitIds : IsActive(w) /\ x = visit[w].outlet
  BY DEF at
<1>4. CASE EndVisits(r)
  <2>1. ASSUME NEW w \in VisitIds PROVE ~IsActive(w)'
    <3>1. visit'[w] = IF visit[w] = None THEN None ELSE [visit[w] EXCEPT !.status = "Completed"]
      BY <1>4 DEF EndVisits
    <3>2. visit[w] # None => [visit[w] EXCEPT !.status = "Completed"].status = "Completed"
      BY <1>0 DEF Visits
    <3>3. QED
      BY <3>1, <3>2 DEF IsActive
  <2>2. at' = {}
    BY <1>2, <2>1
  <2>3. CASE at = {}
    BY <1>1, <2>2, <2>3 DEF WorkSees, DutyKept
  <2>4. CASE at # {}
    BY <1>1, <2>2, <2>4 DEF Work!CheckOut, DutyKept
  <2>5. QED
    BY <2>3, <2>4
<1>5. CASE CheckOutSave(r)
  <2>1. PICK v \in VisitIds : v = req[r].visit /\ visit[v] # None
    BY <1>0, <1>5, KindOfRequest DEF CheckOutSave, LeaveReq, RequestsExist
  <2>2. visit[v] \in Visits /\ visit' = [visit EXCEPT ![v].status = "Completed"]
    BY <1>0, <1>5, <2>1 DEF CheckOutSave
  <2>3. visit'[v].status = "Completed" /\ \A w \in VisitIds \ {v} : visit'[w] = visit[w]
    BY <1>0, <2>2 DEF Visits
  <2>4. ~IsActive(v)' /\ \A w \in VisitIds \ {v} : IsActive(w)' <=> IsActive(w)
    BY <2>3 DEF IsActive
  <2>5. CASE IsActive(v)
    <3>1. \A w \in VisitIds \ {v} : ~IsActive(w)
      BY <1>0, <2>5 DEF OneActiveVisit
    <3>2. at' = {} /\ at # {}
      BY <1>2, <1>3, <2>4, <2>5, <3>1
    <3>3. QED
      BY <1>1, <3>2 DEF Work!CheckOut, DutyKept
  <2>6. CASE ~IsActive(v)
    <3>1. ASSUME NEW x \in at' PROVE x \in at
      BY <1>2, <1>3, <2>3, <2>4, <2>6
    <3>2. ASSUME NEW x \in at PROVE x \in at'
      BY <1>2, <1>3, <2>3, <2>4, <2>6
    <3>3. at' = at
      BY <3>1, <3>2
    <3>4. QED
      BY <1>1, <3>3 DEF WorkSees, DutyKept
  <2>7. QED
    BY <2>5, <2>6
<1>6. QED
  BY <1>4, <1>5

\* Every step before the first overlap is one of WorkDay, or changes nothing
\* it sees.
LEMMA WorkStep ==
  ASSUME FieldDayInv, [Next]_vars, raced' = {} /\ doubled' = {}
  PROVE  raced = {} /\ doubled = {} /\ (Work!Next \/ UNCHANGED WorkSees)
<1>1. raced = {} /\ doubled = {}
  <2>1. raced \subseteq raced' /\ doubled \subseteq doubled'
    BY DEF Next, vars, StartFind, StartCheck, StartSave, EndRead, EndSave, EndVisits, CheckInFind, CheckInSave,
           CheckOutFind, CheckOutDrafts, CheckOutSave, OrderRead, OrderSave, DraftEnds, Abandon, Midnight
  <2>2. QED
    BY <2>1
<1>2. ASSUME NEW r \in Requests, NEW s \in SessionIds, StartSave(r, s) PROVE Work!Next
  BY <1>1, <1>2, DayBegins DEF Work!Next
<1>3. ASSUME NEW r \in Requests, EndSave(r) PROVE Work!Next \/ UNCHANGED WorkSees
  BY <1>1, <1>3, DayEnds DEF Work!Next
<1>4. ASSUME NEW r \in Requests, NEW v \in VisitIds, CheckInSave(r, v) PROVE Work!Next
  BY <1>1, <1>4, VisitBegins DEF Work!Next
<1>5. ASSUME NEW r \in Requests, CheckOutSave(r) \/ EndVisits(r)
      PROVE  Work!Next \/ UNCHANGED WorkSees
  BY <1>1, <1>5, VisitEnds DEF Work!Next
<1>6. ASSUME Midnight PROVE Work!Next
  BY <1>6, SessionsSeen, VisitsSeen DEF Midnight, Work!Next, Work!Midnight, DutyKept, VisitKept
<1>7. ASSUME today' = today, session' = session, visit' = visit
      PROVE  Work!Next \/ UNCHANGED WorkSees
  BY <1>7, SessionsSeen, VisitsSeen DEF WorkSees, DutyKept, VisitKept
<1>8. CASE UNCHANGED vars
  BY <1>7, <1>8 DEF vars
<1>9. ASSUME NEW r \in Requests,
             \/ StartFind(r) \/ StartCheck(r) \/ CheckOutDrafts(r) \/ Abandon(r)
             \/ \E s \in SessionIds : EndRead(r, s)
             \/ \E l \in Outlets : CheckInFind(r, l) \/ OrderRead(r, l)
             \/ \E v \in VisitIds : CheckOutFind(r, v)
             \/ \E o \in OrderIds : OrderSave(r, o)
      PROVE  Work!Next \/ UNCHANGED WorkSees
  <2>1. today' = today /\ session' = session /\ visit' = visit
    BY <1>9 DEF StartFind, StartCheck, CheckOutDrafts, Abandon, EndRead, CheckInFind, OrderRead, CheckOutFind, OrderSave
  <2>2. QED
    BY <1>7, <2>1
<1>10. ASSUME NEW o \in OrderIds, DraftEnds(o) PROVE Work!Next \/ UNCHANGED WorkSees
  BY <1>7, <1>10 DEF DraftEnds
<1>11. CASE Next
  <2>1. ASSUME NEW r \in Requests,
               \/ StartFind(r) \/ StartCheck(r) \/ EndSave(r) \/ EndVisits(r)
               \/ CheckOutDrafts(r) \/ CheckOutSave(r) \/ Abandon(r)
               \/ \E s \in SessionIds : StartSave(r, s) \/ EndRead(r, s)
               \/ \E l \in Outlets : CheckInFind(r, l) \/ OrderRead(r, l)
               \/ \E v \in VisitIds : CheckInSave(r, v) \/ CheckOutFind(r, v)
               \/ \E o \in OrderIds : OrderSave(r, o)
        PROVE  Work!Next \/ UNCHANGED WorkSees
    <3>1. CASE EndSave(r)
      BY <1>3, <3>1
    <3>2. CASE CheckOutSave(r) \/ EndVisits(r)
      BY <1>5, <3>2
    <3>3. CASE \E s \in SessionIds : StartSave(r, s)
      BY <1>2, <3>3
    <3>4. CASE \E v \in VisitIds : CheckInSave(r, v)
      BY <1>4, <3>4
    <3>5. QED
      BY <1>9, <2>1, <3>1, <3>2, <3>3, <3>4
  <2>2. CASE \E r \in Requests :
           \/ StartFind(r) \/ StartCheck(r) \/ EndSave(r) \/ EndVisits(r)
           \/ CheckOutDrafts(r) \/ CheckOutSave(r) \/ Abandon(r)
           \/ \E s \in SessionIds : StartSave(r, s) \/ EndRead(r, s)
           \/ \E l \in Outlets : CheckInFind(r, l) \/ OrderRead(r, l)
           \/ \E v \in VisitIds : CheckInSave(r, v) \/ CheckOutFind(r, v)
           \/ \E o \in OrderIds : OrderSave(r, o)
    BY <1>1, <2>1, <2>2
  <2>3. CASE \E o \in OrderIds : DraftEnds(o)
    BY <1>1, <1>10, <2>3
  <2>4. CASE Midnight
    BY <1>1, <1>6, <2>4
  <2>5. QED
    BY <1>11, <2>2, <2>3, <2>4 DEF Next
<1>12. QED
  BY <1>1, <1>8, <1>11

\* Days and visits follow one another, and what has ended stays ended.
THEOREM WorkImplemented == Spec => ImplementsWorkDay
<1>1. Init => Work!Init
  BY DEF Init, begun, onDuty, at, IsOpen, IsActive, Work!Init
<1>2. FieldDayInv /\ [Next]_vars
        => [(raced = {} /\ doubled = {})' => (raced = {} /\ doubled = {}) /\ Work!Next]_<<today, begun, onDuty, at, raced = {} /\ doubled = {}>>
  <2> SUFFICES ASSUME FieldDayInv, [Next]_vars
               PROVE  [(raced = {} /\ doubled = {})' => (raced = {} /\ doubled = {}) /\ Work!Next]_<<today, begun, onDuty, at, raced = {} /\ doubled = {}>>
    OBVIOUS
  <2>1. CASE raced' = {} /\ doubled' = {}
    BY <2>1, WorkStep DEF WorkSees
  <2>2. CASE ~(raced' = {} /\ doubled' = {})
    BY <2>2
  <2>3. QED
    BY <2>1, <2>2
<1>3. QED
  BY <1>1, <1>2, InitCorrect, StepCorrect, PTL DEF Spec, ImplementsWorkDay, Work!Spec

=============================================================================

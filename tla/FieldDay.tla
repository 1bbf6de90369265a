------------------------------ MODULE FieldDay ------------------------------
(***************************************************************************)
(* A representative's day: AttendanceService (start and end of the day),   *)
(* VisitsService (check-in and check-out) and the two places where an      *)
(* order meets them: it may be taken only while the day is open, and a     *)
(* draft of it holds the visit it was taken in.                            *)
(*                                                                         *)
(* Nothing here runs in a transaction: each await that another request of  *)
(* the same user could notice ends a step.  The one unique index, on a     *)
(* check-in's idempotency key, answers a retry with its first visit or     *)
(* refuses its second save; it says nothing of check-ins with other keys   *)
(* or none, which are the ones here.                                       *)
(***************************************************************************)
EXTENDS Integers

CONSTANTS
    SessionIds, \* attendance sessions of one user
    VisitIds,   \* the user's visits
    Outlets,
    OrderIds,   \* the user's draft orders
    Requests,   \* requests of the user that can be on their way at once
    MaxDays,    \* bound: midnights
    None

ASSUME DaysAssumption == MaxDays \in Nat

VARIABLES
    today,
    session, visit, draft,
    req,
    raced, doubled, cut \* history, see the properties

documents == <<session, visit, draft>>
history == <<raced, doubled, cut>>
vars == <<today, documents, req, history>>

-----------------------------------------------------------------------------
Sessions == [status : {"Active", "Completed"}, day : 0..MaxDays]
\* `open`: history, the sessions that were open when the visit was saved.
Visits   == [outlet : Outlets, status : {"Active", "Completed"}, open : SUBSET SessionIds]
\* `since`: the visits whose checkInTime is not after the order's createdAt;
\* `late`: history, saved when a check-out of the outlet had looked for drafts.
Drafts   == [outlet : Outlets, since : SUBSET VisitIds, late : BOOLEAN]

ASSUME NoneAssumption == None \notin Sessions \cup Visits \cup Drafts

Idle       == [op |-> "idle"]
\* `checked`: no session completed today has been found either.
StartReq   == [op : {"start"}, checked : BOOLEAN]
EndReq     == [op : {"end", "close"}, session : SessionIds]
CheckInReq == [op : {"checkIn", "order"}, outlet : Outlets]
LeaveReq   == [op : {"leave", "leaving"}, visit : VisitIds]
RequestStates == {Idle} \cup StartReq \cup EndReq \cup CheckInReq \cup LeaveReq

TypeOK ==
    /\ today \in 0..MaxDays
    /\ session \in [SessionIds -> Sessions \cup {None}]
    /\ visit \in [VisitIds -> Visits \cup {None}]
    /\ draft \in [OrderIds -> Drafts \cup {None}]
    /\ req \in [Requests -> RequestStates]
    /\ raced \in SUBSET SessionIds /\ doubled \in SUBSET VisitIds /\ cut \in SUBSET SessionIds

Init ==
    /\ today = 0
    /\ session = [s \in SessionIds |-> None]
    /\ visit = [v \in VisitIds |-> None]
    /\ draft = [o \in OrderIds |-> None]
    /\ req = [r \in Requests |-> Idle]
    /\ raced = {} /\ doubled = {} /\ cut = {}

Open(r, q) == req[r] = Idle /\ req' = [req EXCEPT ![r] = q]
Turn(r, q) == req' = [req EXCEPT ![r] = q]
Done(r)    == req' = [req EXCEPT ![r] = Idle]

\* Another request of the same kind is between its check and its save.
Overlaps(r, op) == \E q \in Requests \ {r} : req[q].op = op

-----------------------------------------------------------------------------
(* AttendanceService.startDay and endDay.                                  *)

IsOpen(s) == session[s] # None /\ session[s].status = "Active"

CompletedToday(s) ==
    session[s] # None /\ session[s].status = "Completed" /\ session[s].day = today

\* An open session is returned as it is.
StartFind(r) ==
    /\ \A s \in SessionIds : ~IsOpen(s)
    /\ Open(r, [op |-> "start", checked |-> FALSE])
    /\ UNCHANGED <<today, documents, history>>

\* Fault: a day that was completed may be begun again.
StartsAgain(r) ==
    /\ req[r].op = "start" /\ ~req[r].checked
    /\ Turn(r, [op |-> "start", checked |-> TRUE])
    /\ UNCHANGED <<today, documents, history>>

\* A day that was completed is over.
StartCheck(r) ==
    /\ req[r].op = "start" /\ ~req[r].checked
    /\ \A s \in SessionIds : ~CompletedToday(s)
    /\ Turn(r, [op |-> "start", checked |-> TRUE])
    /\ UNCHANGED <<today, documents, history>>

\* Fault: the day is taken in UTC, where an early morning is still yesterday.
StartedInUTC == [status |-> "Active", day |-> today - 1]

Started == [status |-> "Active", day |-> today]

StartSave(r, s) ==
    /\ req[r].op = "start" /\ req[r].checked
    /\ session[s] = None
    /\ session' = [session EXCEPT ![s] = Started]
    /\ raced' = IF Overlaps(r, "start") THEN raced \cup {s} ELSE raced
    /\ Done(r)
    /\ UNCHANGED <<today, visit, draft, doubled, cut>>

EndRead(r, s) ==
    /\ IsOpen(s)
    /\ Open(r, [op |-> "end", session |-> s])
    /\ UNCHANGED <<today, documents, history>>

EndSave(r) ==
    /\ req[r].op = "end"
    /\ session' = [session EXCEPT ![req[r].session].status = "Completed"]
    /\ Turn(r, [op |-> "close", session |-> req[r].session])
    /\ UNCHANGED <<today, visit, draft, history>>

\* Fault: updateOne instead of updateMany.
EndsOneVisit(r) ==
    /\ req[r].op = "close"
    /\ \E v \in VisitIds : visit' = [visit EXCEPT ![v] =
          IF visit[v] = None THEN None ELSE [visit[v] EXCEPT !.status = "Completed"]]
    /\ Done(r)
    /\ UNCHANGED <<today, session, draft, history>>

EndVisits(r) ==
    /\ req[r].op = "close"
    /\ visit' = [v \in VisitIds |->
          IF visit[v] = None THEN None ELSE [visit[v] EXCEPT !.status = "Completed"]]
    /\ Done(r)
    /\ UNCHANGED <<today, session, draft, history>>

-----------------------------------------------------------------------------
(* VisitsService.checkIn and checkOut.  A check-in needs no open day.      *)

IsActive(v) == visit[v] # None /\ visit[v].status = "Active"

\* Fault: an active visit elsewhere does not block.
NoVisitThere(l) == \A v \in VisitIds : IsActive(v) => visit[v].outlet # l

\* An active visit of this outlet is returned, one elsewhere is an error.
NoVisitFor(l) == \A v \in VisitIds : ~IsActive(v)

CheckInFind(r, l) ==
    /\ NoVisitFor(l)
    /\ Open(r, [op |-> "checkIn", outlet |-> l])
    /\ UNCHANGED <<today, documents, history>>

CheckInSave(r, v) ==
    /\ req[r].op = "checkIn"
    /\ visit[v] = None
    /\ visit' = [visit EXCEPT ![v] = [outlet |-> req[r].outlet, status |-> "Active",
                                      open |-> {s \in SessionIds : IsOpen(s)}]]
    /\ doubled' = IF Overlaps(r, "checkIn") THEN doubled \cup {v} ELSE doubled
    /\ Done(r)
    /\ UNCHANGED <<today, session, draft, raced, cut>>

CheckOutFind(r, v) ==
    /\ IsActive(v)
    /\ Open(r, [op |-> "leave", visit |-> v])
    /\ UNCHANGED <<today, documents, history>>

HeldBy(v, o) == draft[o] # None /\ draft[o].outlet = visit[v].outlet /\ v \in draft[o].since

\* Fault: a visit may end with a draft open.
SkipsDrafts(r) ==
    /\ req[r].op = "leave"
    /\ Turn(r, [req[r] EXCEPT !.op = "leaving"])
    /\ UNCHANGED <<today, documents, history>>

\* Checkout blocked: you have a Draft order pending.
CheckOutDrafts(r) ==
    /\ req[r].op = "leave"
    /\ \A o \in OrderIds : ~HeldBy(req[r].visit, o)
    /\ Turn(r, [req[r] EXCEPT !.op = "leaving"])
    /\ UNCHANGED <<today, documents, history>>

CheckOutSave(r) ==
    /\ req[r].op = "leaving"
    /\ visit' = [visit EXCEPT ![req[r].visit].status = "Completed"]
    /\ Done(r)
    /\ UNCHANGED <<today, session, draft, history>>

-----------------------------------------------------------------------------
(* OrdersService.create, as far as the day and its visits go.              *)

OrderRead(r, l) ==
    /\ \E s \in SessionIds : IsOpen(s)
    /\ Open(r, [op |-> "order", outlet |-> l])
    /\ UNCHANGED <<today, documents, history>>

OrderSave(r, o) ==
    /\ req[r].op = "order"
    /\ draft[o] = None
    /\ draft' = [draft EXCEPT ![o] =
          [outlet |-> req[r].outlet, since |-> {v \in VisitIds : visit[v] # None},
           late |-> \E q \in Requests : /\ req[q].op = "leaving"
                                        /\ visit[req[q].visit].outlet = req[r].outlet]]
    /\ Done(r)
    /\ UNCHANGED <<today, session, visit, history>>

\* The draft is submitted or cancelled.
DraftEnds(o) ==
    /\ draft[o] # None
    /\ draft' = [draft EXCEPT ![o] = None]
    /\ UNCHANGED <<today, session, visit, req, history>>

-----------------------------------------------------------------------------
\* A request is refused, or its process dies under it.
Abandon(r) ==
    /\ req[r] # Idle
    /\ Done(r)
    /\ cut' = IF req[r].op = "close" THEN cut \cup {req[r].session} ELSE cut
    /\ UNCHANGED <<today, documents, raced, doubled>>

Midnight ==
    /\ today < MaxDays
    /\ today' = today + 1
    /\ UNCHANGED <<documents, req, history>>

Next ==
    \/ \E r \in Requests :
          \/ StartFind(r) \/ StartCheck(r) \/ EndSave(r) \/ EndVisits(r)
          \/ CheckOutDrafts(r) \/ CheckOutSave(r) \/ Abandon(r)
          \/ \E s \in SessionIds : StartSave(r, s) \/ EndRead(r, s)
          \/ \E l \in Outlets : CheckInFind(r, l) \/ OrderRead(r, l)
          \/ \E v \in VisitIds : CheckInSave(r, v) \/ CheckOutFind(r, v)
          \/ \E o \in OrderIds : OrderSave(r, o)
    \/ \E o \in OrderIds : DraftEnds(o)
    \/ Midnight

Spec == Init /\ [][Next]_vars

-----------------------------------------------------------------------------
(* Properties.                                                             *)

\* A user has one open session and starts one a day, through nights and ends
\* of the day, unless two starts overlapped (raced).
DaysApart ==
    \A s, t \in SessionIds \ raced :
        s # t /\ session[s] # None /\ session[t] # None =>
            /\ ~(IsOpen(s) /\ IsOpen(t))
            /\ session[s].day # session[t].day

\* A user is at one outlet at a time, unless two check-ins overlapped
\* (doubled).
OneActiveVisit ==
    \A v, w \in VisitIds \ doubled : IsActive(v) /\ IsActive(w) => v = w

\* A visit that began while a session was open does not outlive it, once the
\* end of the day is through, unless that was cut off between its two writes
\* (cut).
DayClosesVisits ==
    \A v \in VisitIds : IsActive(v) =>
        \A s \in visit[v].open \ cut :
            \/ IsOpen(s)
            \/ \E r \in Requests : req[r].op = "close" /\ req[r].session = s

\* No check-out completes a visit that a draft order holds, unless the draft
\* was saved after the check-out had looked for drafts (late).
DraftHoldsVisit ==
    [][\A r \in Requests : req[r].op = "leaving" /\ req'[r] = Idle /\ visit' # visit =>
          \A o \in OrderIds : HeldBy(req[r].visit, o) => draft[o].late]_vars

\* FieldDay implements WorkDay until two starts or two check-ins overlap: days
\* and visits follow one another, and what has ended does not begin again.
begun  == {session[s].day : s \in {t \in SessionIds : session[t] # None}}
onDuty == \E s \in SessionIds : IsOpen(s)
at     == {visit[v].outlet : v \in {w \in VisitIds : IsActive(w)}}

Work == INSTANCE WorkDay WITH sound <- raced = {} /\ doubled = {}
ImplementsWorkDay == Work!Spec

-----------------------------------------------------------------------------
(* What makes these inductive: requests name documents that exist, a       *)
(* request between its check and its save still finds what it checked, but *)
(* for documents saved by a request that overlapped with it.               *)

RequestsExist ==
    \A r \in Requests :
        /\ req[r].op \in {"end", "close"} => session[req[r].session] # None
        /\ req[r].op \in {"leave", "leaving"} => visit[req[r].visit] # None

DaysPast == \A s \in SessionIds : session[s] # None => session[s].day <= today

StartsAlone ==
    \A r \in Requests : req[r].op = "start" =>
        \A s \in SessionIds \ raced : session[s] # None =>
            ~IsOpen(s) /\ (req[r].checked => session[s].day # today)

ChecksInAlone ==
    (\E r \in Requests : req[r].op = "checkIn") =>
        \A v \in VisitIds \ doubled : ~IsActive(v)

LeavesFree ==
    \A r \in Requests : req[r].op = "leaving" =>
        \A o \in OrderIds : HeldBy(req[r].visit, o) => draft[o].late

FieldDayInv ==
    /\ TypeOK /\ RequestsExist
    /\ DaysPast /\ StartsAlone /\ DaysApart
    /\ ChecksInAlone /\ OneActiveVisit
    /\ DayClosesVisits
    /\ LeavesFree
=============================================================================

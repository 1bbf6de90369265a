--------------------------- MODULE Sessions_proof ---------------------------
(***************************************************************************)
(* Type correctness of Sessions; that revocation is final, that a password *)
(* reset leaves no earlier session, that no rotated token is forgotten and *)
(* that the token a device stores is honoured; that a token presented too  *)
(* late ends its session; and that Sessions implements TokenChain, for     *)
(* every set of devices, sessions and requests.                            *)
(***************************************************************************)
EXTENDS Sessions, TLAPS

USE DEF user, device, history

\* What a request is follows from its op.
LEMMA KindOfRequest ==
  ASSUME NEW q \in RequestStates
  PROVE  /\ q.op = "login" => q \in LoginReq
         /\ q.op = "welcome" => q \in WelcomeReq
         /\ q.op = "refresh" => q \in RefreshReq
         /\ q.op = "rotate" => q \in RotateReq
         /\ q.op = "answer" => q \in AnswerReq
         /\ q.op \in {"refused", "failed", "leave"} => q \in NoAnswer
         /\ q.op = "logout" => q \in LogoutReq
         /\ q.op = "reset" => q \in ResetReq
BY DEF RequestStates, Idle, LoginReq, WelcomeReq, RefreshReq, RotateReq, AnswerReq,
       NoAnswer, LogoutReq, ResetReq

\* A request with a token has a client and a token of some session.
LEMMA TokenRequest ==
  ASSUME NEW q \in RequestStates, q.op \in TokenOps
  PROVE  q.client \in Clients /\ q.token \in Tokens
         /\ q.token.sess \in SessionIds /\ q.token.num \in Nat
<1>1. q \in WelcomeReq \cup RefreshReq \cup RotateReq \cup AnswerReq \cup LogoutReq
  BY KindOfRequest DEF TokenOps
<1>2. q.client \in Clients /\ q.token \in Tokens
  BY <1>1 DEF WelcomeReq, RefreshReq, RotateReq, AnswerReq, LogoutReq
<1>3. QED
  BY <1>2 DEF Tokens

\* Retiring a token keeps the list a list, and within its bound.
LEMMA RetireBounded ==
  ASSUME NEW q \in Seq(Nat), Len(q) <= MaxRotated, NEW n \in Nat
  PROVE  /\ Retire(q, n) \in Seq(Nat)
         /\ Len(Retire(q, n)) = IF Len(q) < MaxRotated THEN Len(q) + 1 ELSE MaxRotated
         /\ \A i \in 1..Len(Retire(q, n)) :
              Retire(q, n)[i] = IF i = Len(Retire(q, n)) THEN n
                                ELSE IF Len(q) < MaxRotated THEN q[i] ELSE q[i + 1]
<1>1. CASE Len(q) < MaxRotated
  BY <1>1, SessionsAssumption DEF Retire
<1>2. CASE ~(Len(q) < MaxRotated)
  <2>1. Len(q) = MaxRotated /\ q # << >>
    BY <1>2, SessionsAssumption
  <2>2. Tail(q) \in Seq(Nat) /\ Len(Tail(q)) = MaxRotated - 1
        /\ \A i \in 1..(MaxRotated - 1) : Tail(q)[i] = q[i + 1]
    BY <2>1, SessionsAssumption
  <2>3. QED
    BY <1>2, <2>1, <2>2, SessionsAssumption DEF Retire
<1>3. QED
  BY <1>1, <1>2

\* The initial state.
LEMMA InitCorrect == Init => SessionsInv
<1> SUFFICES ASSUME Init PROVE SessionsInv
  OBVIOUS
<1>1. \A r \in Requests : req[r].op = "idle"
  BY DEF Init, Idle
<1>2. req \in [Requests -> RequestStates]
  BY DEF Init, RequestStates
<1>3. /\ session \in [SessionIds -> Documents \cup {None}]
      /\ stored \in [Clients -> Tokens \cup {None}]
      /\ waiting \in [Clients -> Requests \cup {None}]
      /\ \A s \in SessionIds : session[s] = None
  BY DEF Init
<1>4. faults \in 0..MaxFaults
  BY SessionsAssumption DEF Init
<1>5. TypeOK
  BY <1>2, <1>3, <1>4 DEF Init, TypeOK
<1>6. QED
  BY <1>1, <1>5 DEF Init, SessionsInv, StoredAgrees, RequestsAgree, WaitingAgrees, ReadAgrees, TokenOps

\* What Rotate writes when no other rotation has come first.
LEMMA RotateWrites ==
  ASSUME SessionsInv, NEW r \in Requests, Rotate(r),
         Unchanged(req[r].doc, session[req[r].token.sess])
  PROVE  LET s == req[r].token.sess
             n == req[r].token.num
             now == session[s]
         IN /\ s \in SessionIds /\ n \in Nat /\ now \in Documents
            /\ session' = [session EXCEPT ![s] = session'[s]]
            /\ session'[s] \in Documents
            /\ session'[s].device = now.device
            /\ session'[s].current = now.current + 1
            /\ session'[s].previous = (IF now.current = n THEN n ELSE now.previous)
            /\ session'[s].rotated = Retire(now.rotated, now.current)
            /\ session'[s].revoked = now.revoked
            /\ session'[s].opened = now.opened
            /\ n \in {now.current, now.previous}
            /\ Len(session'[s].rotated) <= MaxRotated
<1> DEFINE s == req[r].token.sess
<1> DEFINE n == req[r].token.num
<1> DEFINE d == req[r].doc
<1>0. TypeOK /\ RequestsAgree /\ ReadAgrees
  BY DEF SessionsInv
<1>1. req[r].op = "rotate" /\ session' = [session EXCEPT ![s] = Written(d, session[s], n)]
  BY DEF Rotate
<1>2. req[r] \in RequestStates
  BY <1>0 DEF TypeOK
<1>3. s \in SessionIds /\ n \in Nat /\ d \in Documents
  BY <1>1, <1>2, TokenRequest, KindOfRequest DEF TokenOps, RotateReq
<1>4. session[s] # None
  BY <1>0, <1>1 DEF RequestsAgree, TokenOps
<1>5. session[s] \in Documents
  BY <1>0, <1>3, <1>4 DEF TypeOK
<1>6. d.current = session[s].current /\ d.rotated = session[s].rotated
      /\ n \in {session[s].current, session[s].previous}
  BY <1>0, <1>1 DEF Unchanged, ReadAgrees
<1>7. session'[s] = Written(d, session[s], n)
  BY <1>0, <1>1, <1>3 DEF TypeOK
<1>8. session[s].rotated \in Seq(Nat) /\ Len(session[s].rotated) <= MaxRotated
      /\ session[s].current \in Nat
  BY <1>0, <1>3, <1>4, <1>5 DEF TypeOK, Documents
<1>9. Retire(session[s].rotated, session[s].current) \in Seq(Nat)
      /\ Len(Retire(session[s].rotated, session[s].current)) <= MaxRotated
  BY <1>8, RetireBounded, SessionsAssumption
<1>10. session'[s] = [session[s] EXCEPT !.rotated = Retire(session[s].rotated, session[s].current),
                        !.current = session[s].current + 1,
                        !.previous = IF session[s].current = n THEN n ELSE session[s].previous,
                        !.fresh = IF session[s].current = n THEN TRUE ELSE session[s].fresh]
  BY <1>6, <1>7 DEF Written
<1>11. session[s].previous \in Nat \cup {None} /\ session[s].fresh \in BOOLEAN
  BY <1>5 DEF Documents
<1>12. /\ session'[s] \in Documents
       /\ session'[s].device = session[s].device
       /\ session'[s].current = session[s].current + 1
       /\ session'[s].previous = (IF session[s].current = n THEN n ELSE session[s].previous)
       /\ session'[s].rotated = Retire(session[s].rotated, session[s].current)
       /\ session'[s].revoked = session[s].revoked
       /\ session'[s].opened = session[s].opened
  <2> DEFINE now   == session[s]
  <2> DEFINE rot   == Retire(session[s].rotated, session[s].current)
  <2> DEFINE cur   == session[s].current + 1
  <2> DEFINE prev  == IF session[s].current = n THEN n ELSE session[s].previous
  <2> DEFINE fresh == IF session[s].current = n THEN TRUE ELSE session[s].fresh
  <2>1. fresh \in BOOLEAN
    <3>1. CASE session[s].current = n
      BY <3>1, Zenon
    <3>2. CASE session[s].current # n
      BY <3>2, <1>11, Zenon
    <3>3. QED
      BY <3>1, <3>2
  <2>2. now \in Documents /\ rot \in Seq(Nat) /\ cur \in Nat /\ prev \in Nat \cup {None}
    BY <1>3, <1>5, <1>8, <1>9, <1>11
  <2>3. session'[s] = [now EXCEPT !.rotated = rot, !.current = cur, !.previous = prev,
                                  !.fresh = fresh]
    BY <1>10
  <2> HIDE DEF now, rot, cur, prev, fresh
  <2>4. session'[s] \in Documents
    BY <2>1, <2>2, <2>3 DEF Documents
  <2>5. /\ session'[s].device = now.device /\ session'[s].current = cur
        /\ session'[s].previous = prev /\ session'[s].rotated = rot
        /\ session'[s].revoked = now.revoked /\ session'[s].opened = now.opened
    BY <2>2, <2>3 DEF Documents
  <2>6. QED
    BY <2>4, <2>5, Zenon DEF now, rot, cur, prev
<1>13. QED
  BY <1>1, <1>3, <1>5, <1>6, <1>7, <1>9, <1>12

-----------------------------------------------------------------------------
\* What no step takes from a session: its device, the password that opened
\* it, its revocation, and the tokens it counts unless a rotation adds one.
Kept(s) ==
  session[s] # None =>
    /\ session'[s] # None
    /\ session'[s].device = session[s].device
    /\ session'[s].opened = session[s].opened
    /\ session'[s].current >= session[s].current
    /\ session[s].revoked => session'[s].revoked
    /\ session'[s].current = session[s].current =>
          /\ session'[s].rotated = session[s].rotated
          /\ session'[s].previous = session[s].previous

\* The steps a session's tokens take: none, the first one, or a rotation.
NewTokens(s) ==
  \/ session'[s] = None
  \/ session[s] # None /\ session'[s].current = session[s].current
  \/ /\ session[s] = None /\ \E r \in Requests : LoginSave(r)
     /\ session'[s].current = 0 /\ session'[s].rotated = << >>
  \/ /\ session[s] # None /\ session[s].current \in Nat
     /\ session'[s].current = session[s].current + 1
     /\ session'[s].rotated = Retire(session[s].rotated, session[s].current)

Grows(s) == Kept(s) /\ NewTokens(s)

SessionTypes ==
  /\ session \in [SessionIds -> Documents \cup {None}]
  /\ \A s \in SessionIds : session[s] # None => Len(session[s].rotated) <= MaxRotated

\* A session of which `revoked` and `fresh` alone change, and not back from revoked.
FlagsOnly(s) ==
  \E x, y \in BOOLEAN : (session[s].revoked => x)
     /\ session'[s] = [session[s] EXCEPT !.revoked = x, !.fresh = y]

LEMMA FlagsGrow ==
  ASSUME SessionsInv,
         session' \in [SessionIds -> Documents \cup {None}],
         \A s \in SessionIds : session[s] # None => FlagsOnly(s),
         \A s \in SessionIds : session[s] = None => session'[s] = None
  PROVE  SessionTypes' /\ \A s \in SessionIds : Grows(s)
<1>1. ASSUME NEW s \in SessionIds, session[s] # None
      PROVE  Grows(s) /\ session'[s].rotated = session[s].rotated
  <2>1. session[s] \in Documents
    BY <1>1 DEF SessionsInv, TypeOK
  <2>2. PICK x, y \in BOOLEAN : (session[s].revoked => x)
               /\ session'[s] = [session[s] EXCEPT !.revoked = x, !.fresh = y]
    BY <1>1 DEF FlagsOnly
  <2>3. session[s].revoked => session'[s].revoked
    <3>1. session'[s].revoked = x
      BY <2>1, <2>2 DEF Documents
    <3>2. QED
      BY <2>2, <3>1, Zenon
  <2>4. /\ session'[s].device = session[s].device /\ session'[s].opened = session[s].opened
        /\ session'[s].current = session[s].current
        /\ session'[s].rotated = session[s].rotated
        /\ session'[s].previous = session[s].previous /\ session[s].current \in Nat
    BY <2>1, <2>2 DEF Documents
  <2>5. session'[s] \in Documents
    BY <2>1, <2>2 DEF Documents
  <2>6. session'[s] # None
    BY <2>5, NoneAssumption
  <2>7. session'[s].current >= session[s].current
    BY <2>4
  <2>8. QED
    BY <2>3, <2>4, <2>6, <2>7, <1>1, Zenon DEF Grows, Kept, NewTokens
<1>2. QED
  BY <1>1 DEF SessionTypes, SessionsInv, TypeOK, Grows, Kept, NewTokens

LEMMA SessionsGrow ==
  ASSUME SessionsInv, [Next]_vars
  PROVE  SessionTypes' /\ \A s \in SessionIds : Grows(s)
<1>a. TypeOK /\ RequestsAgree
  BY DEF SessionsInv
<1>u. CASE UNCHANGED session
  BY <1>u, <1>a DEF SessionTypes, TypeOK, Grows, Kept, NewTokens, Documents
<1>1. ASSUME NEW r \in Requests, LoginSave(r) PROVE SessionTypes' /\ \A s \in SessionIds : Grows(s)
  <2>1. req[r] \in LoginReq
    BY <1>1, <1>a, KindOfRequest DEF LoginSave, TypeOK
  <2>2. PICK s \in SessionIds :
          /\ session[s] = None
          /\ session' = [session EXCEPT ![s] =
                [device |-> req[r].client, current |-> 0, previous |-> None,
                 rotated |-> << >>, fresh |-> FALSE,
                 revoked |-> FALSE, opened |-> req[r].opened]]
    BY <1>1 DEF LoginSave
  <2>3. session'[s] \in Documents /\ session'[s].rotated = << >> /\ session'[s].current = 0
    BY <2>1, <2>2, <1>a DEF LoginReq, Documents, TypeOK
  <2>4. \A t \in SessionIds \ {s} : session'[t] = session[t]
    BY <2>2, <1>a DEF TypeOK
  <2>5. \A t \in SessionIds : Grows(t)
    BY <1>1, <2>2, <2>3, <2>4, <1>a DEF Grows, Kept, NewTokens, TypeOK, Documents
  <2>6. session' \in [SessionIds -> Documents \cup {None}]
    BY <2>2, <2>3, <1>a DEF TypeOK
  <2>7. \A t \in SessionIds : session'[t] # None => Len(session'[t].rotated) <= MaxRotated
    BY <2>3, <2>4, <1>a, SessionsAssumption DEF TypeOK
  <2>8. QED
    BY <2>5, <2>6, <2>7 DEF SessionTypes
<1>2. ASSUME NEW s \in SessionIds, session[s] # None, NEW x \in BOOLEAN,
             session[s].revoked => x,
             session' = [session EXCEPT ![s].revoked = x]
      PROVE  SessionTypes' /\ \A t \in SessionIds : Grows(t)
  <2>1. session[s] \in Documents
    BY <1>2, <1>a DEF TypeOK
  <2>2. [session[s] EXCEPT !.revoked = x] \in Documents
    BY <2>1, <1>2 DEF Documents
  <2>3. session' \in [SessionIds -> Documents \cup {None}]
    BY <1>2, <2>2, <1>a DEF TypeOK
  <2>4. \A t \in SessionIds : session[t] # None => FlagsOnly(t)
    <3> SUFFICES ASSUME NEW t \in SessionIds, session[t] # None
                 PROVE FlagsOnly(t)
      OBVIOUS
    <3>1. session[t] \in Documents
      BY <1>a DEF TypeOK
    <3>2. session[t].revoked \in BOOLEAN /\ session[t].fresh \in BOOLEAN
      BY <3>1 DEF Documents
    <3>3. CASE t = s
      <4>1. session'[t] = [session[t] EXCEPT !.revoked = x, !.fresh = session[t].fresh]
        BY <3>1, <3>3, <1>2, <1>a DEF TypeOK, Documents
      <4>2. QED
        BY <4>1, <3>2, <3>3, <1>2 DEF FlagsOnly
    <3>4. CASE t # s
      <4>1. session'[t] = session[t]
        BY <3>4, <1>2, <1>a DEF TypeOK
      <4>2. session'[t] = [session[t] EXCEPT !.revoked = session[t].revoked, !.fresh = session[t].fresh]
        BY <4>1, <3>1 DEF Documents
      <4>3. QED
        BY <4>2, <3>2 DEF FlagsOnly
    <3>5. QED
      BY <3>3, <3>4
  <2>5. \A t \in SessionIds : session[t] = None => session'[t] = None
    BY <1>2, <1>a DEF TypeOK
  <2>6. QED
    BY <2>3, <2>4, <2>5, FlagsGrow
<1>3. ASSUME NEW r \in Requests, Refuse(r) PROVE SessionTypes' /\ \A s \in SessionIds : Grows(s)
  <2> DEFINE s == req[r].token.sess
  <2> DEFINE x == session[s].revoked \/ \E i \in DOMAIN session[s].rotated :
                                            session[s].rotated[i] = req[r].token.num
  <2>1. req[r].op = "refresh" /\ session' = [session EXCEPT ![s].revoked = x]
    BY <1>3 DEF Refuse
  <2>2. s \in SessionIds /\ session[s] # None
    BY <2>1, <1>a, TokenRequest DEF TypeOK, RequestsAgree, TokenOps
  <2>3. x \in BOOLEAN /\ (session[s].revoked => x)
    <3>1. session[s].revoked \in BOOLEAN
      BY <2>2, <1>a DEF TypeOK, Documents
    <3>2. QED
      BY <3>1, Zenon
  <2> HIDE DEF x
  <2>4. QED
    BY <2>1, <2>2, <2>3, <1>2
<1>4. ASSUME NEW r \in Requests, Logout(r) PROVE SessionTypes' /\ \A s \in SessionIds : Grows(s)
  <2> DEFINE s == req[r].token.sess
  <2> DEFINE x == session[s].revoked \/ session[s].current = req[r].token.num
  <2>1. req[r].op = "logout" /\ session' = [session EXCEPT ![s].revoked = x]
    BY <1>4 DEF Logout
  <2>2. s \in SessionIds /\ session[s] # None
    BY <2>1, <1>a, TokenRequest DEF TypeOK, RequestsAgree, TokenOps
  <2>3. x \in BOOLEAN /\ (session[s].revoked => x)
    <3>1. session[s].revoked \in BOOLEAN
      BY <2>2, <1>a DEF TypeOK, Documents
    <3>2. QED
      BY <3>1, Zenon
  <2> HIDE DEF x
  <2>4. QED
    BY <2>1, <2>2, <2>3, <1>2
<1>5. ASSUME NEW s \in SessionIds, RevokeSession(s)
      PROVE  SessionTypes' /\ \A t \in SessionIds : Grows(t)
  BY <1>5, <1>2 DEF RevokeSession, Live
<1>6. ASSUME NEW s \in SessionIds, GraceEnds(s)
      PROVE  SessionTypes' /\ \A t \in SessionIds : Grows(t)
  <2>1. session[s] # None /\ session' = [session EXCEPT ![s].fresh = FALSE]
    BY <1>6 DEF GraceEnds
  <2>2. session[s] \in Documents
    BY <2>1, <1>a DEF TypeOK
  <2>3. [session[s] EXCEPT !.fresh = FALSE] \in Documents
    BY <2>2 DEF Documents
  <2>4. session' \in [SessionIds -> Documents \cup {None}]
    BY <2>1, <2>3, <1>a DEF TypeOK
  <2>5. \A t \in SessionIds : session[t] # None => FlagsOnly(t)
    <3> SUFFICES ASSUME NEW t \in SessionIds, session[t] # None
                 PROVE FlagsOnly(t)
      OBVIOUS
    <3>1. session[t] \in Documents
      BY <1>a DEF TypeOK
    <3>2. session[t].revoked \in BOOLEAN /\ session[t].fresh \in BOOLEAN
      BY <3>1 DEF Documents
    <3>3. CASE t = s
      <4>1. session'[t] = [session[t] EXCEPT !.revoked = session[t].revoked, !.fresh = FALSE]
        BY <3>1, <3>3, <2>1, <1>a DEF TypeOK, Documents
      <4>2. QED
        BY <4>1, <3>2 DEF FlagsOnly
    <3>4. CASE t # s
      <4>1. session'[t] = session[t]
        BY <3>4, <2>1, <1>a DEF TypeOK
      <4>2. session'[t] = [session[t] EXCEPT !.revoked = session[t].revoked, !.fresh = session[t].fresh]
        BY <4>1, <3>1 DEF Documents
      <4>3. QED
        BY <4>2, <3>2 DEF FlagsOnly
    <3>5. QED
      BY <3>3, <3>4
  <2>6. \A t \in SessionIds : session[t] = None => session'[t] = None
    BY <2>1, <1>a DEF TypeOK
  <2>7. QED
    BY <2>4, <2>5, <2>6, FlagsGrow
<1>7. ASSUME NEW r \in Requests, ResetRevoke(r)
      PROVE  SessionTypes' /\ \A t \in SessionIds : Grows(t)
  <2>1. \A t \in SessionIds : session'[t] = Revoked(t)
    BY <1>7 DEF ResetRevoke
  <2>2. \A t \in SessionIds : session[t] = None => session'[t] = None
    BY <2>1 DEF Revoked
  <2>3. ASSUME NEW t \in SessionIds, session[t] # None
        PROVE  session'[t] \in Documents /\ FlagsOnly(t)
    <3>1. session[t] \in Documents
      BY <2>3, <1>a DEF TypeOK
    <3>2. session'[t] = [session[t] EXCEPT !.revoked = TRUE]
      BY <2>1, <2>3 DEF Revoked
    <3>3. session'[t] \in Documents /\ session[t].fresh \in BOOLEAN
      BY <3>1, <3>2 DEF Documents
    <3>4. session'[t] = [session[t] EXCEPT !.revoked = TRUE, !.fresh = session[t].fresh]
      BY <3>1, <3>2 DEF Documents
    <3>5. QED
      BY <3>3, <3>4 DEF FlagsOnly
  <2>4. session' \in [SessionIds -> Documents \cup {None}]
    BY <1>7, <2>1, <2>2, <2>3 DEF ResetRevoke
  <2>5. QED
    BY <2>2, <2>3, <2>4, FlagsGrow
<1>8. ASSUME NEW r \in Requests, Rotate(r)
      PROVE  SessionTypes' /\ \A t \in SessionIds : Grows(t)
  <2>1. CASE Unchanged(req[r].doc, session[req[r].token.sess])
    <3> DEFINE s == req[r].token.sess
    <3>1. /\ s \in SessionIds /\ session[s] \in Documents
          /\ session' = [session EXCEPT ![s] = session'[s]]
          /\ session'[s] \in Documents
          /\ session'[s].device = session[s].device
          /\ session'[s].current = session[s].current + 1
          /\ session'[s].revoked = session[s].revoked
          /\ session'[s].opened = session[s].opened
          /\ session'[s].rotated = Retire(session[s].rotated, session[s].current)
          /\ Len(session'[s].rotated) <= MaxRotated
      BY <1>8, <2>1, RotateWrites
    <3>2. \A t \in SessionIds \ {s} : session'[t] = session[t]
      BY <3>1, <1>a DEF TypeOK
    <3>3. session' \in [SessionIds -> Documents \cup {None}]
      BY <3>1, <1>a DEF TypeOK
    <3>4. SessionTypes'
      BY <3>1, <3>2, <3>3, <1>a DEF SessionTypes, TypeOK
    <3>5. \A t \in SessionIds \ {s} : Grows(t)
      BY <3>2, <1>a DEF Grows, Kept, NewTokens, TypeOK, Documents
    <3>6. Grows(s)
      <4>1. session[s].current \in Nat
        BY <3>1 DEF Documents
      <4>2. session[s].revoked => session'[s].revoked
        BY <3>1, Zenon
      <4>3. session'[s].current >= session[s].current
            /\ ~(session'[s].current = session[s].current)
        BY <3>1, <4>1
      <4>4. session'[s] # None
        BY <3>1, NoneAssumption
      <4>5. QED
        BY <3>1, <4>1, <4>2, <4>3, <4>4, NoneAssumption DEF Grows, Kept, NewTokens
    <3>7. QED
      BY <3>4, <3>5, <3>6
  <2>2. CASE ~Unchanged(req[r].doc, session[req[r].token.sess])
    BY <1>8, <2>2, <1>u DEF Rotate
  <2>3. QED
    BY <2>1, <2>2
<1>9. QED
  BY <1>u, <1>1, <1>3, <1>4, <1>5, <1>6, <1>7, <1>8
     DEF Next, Handle, vars, LoginRead, Welcome, Send, Find, GateClosed, Deliver, DeliverError,
         GiveUp, Interrupt, LogoutSend, ClearTokens, ResetRead, ResetPassword, ResetSpend

-----------------------------------------------------------------------------
\* A request fits the sessions as a step leaves them.
Fits(q) ==
  /\ q.op \in TokenOps =>
        /\ session'[q.token.sess] # None
        /\ session'[q.token.sess].device = q.client
        /\ q.token.num <= session'[q.token.sess].current
  /\ q.op = "rotate" =>
        LET d == q.doc
            now == session'[q.token.sess]
        IN /\ d.current <= now.current
           /\ d.current = now.current => d.rotated = now.rotated /\ d.previous = now.previous
           /\ q.token.num \in {d.current, d.previous}

\* A step keeps what all requests agree on when those it changes fit.
LEMMA RequestsCorrect ==
  ASSUME SessionsInv, \A s \in SessionIds : Grows(s), SessionTypes',
         req' \in [Requests -> RequestStates],
         \A t \in Requests : req'[t] # req[t] => Fits(req'[t])
  PROVE  RequestsAgree' /\ ReadAgrees'
<1>1. ASSUME NEW t \in Requests, req[t].op \in TokenOps
      PROVE  LET s == req[t].token.sess IN
             /\ s \in SessionIds /\ session[s] # None /\ session'[s] # None
             /\ session'[s].device = req[t].client
             /\ req[t].token.num <= session'[s].current
             /\ session[s].current \in Nat /\ session'[s].current \in Nat
             /\ session[s].current <= session'[s].current
             /\ session'[s].current = session[s].current =>
                  /\ session'[s].rotated = session[s].rotated
                  /\ session'[s].previous = session[s].previous
  <2> DEFINE s == req[t].token.sess
  <2>1. s \in SessionIds /\ req[t].token.num \in Nat
    BY <1>1, TokenRequest DEF SessionsInv, TypeOK
  <2>2. session[s] # None /\ session[s].device = req[t].client
        /\ req[t].token.num <= session[s].current
    BY <1>1 DEF SessionsInv, RequestsAgree
  <2>3. Grows(s)
    BY <2>1
  <2>4. session'[s] # None /\ session[s] \in Documents /\ session'[s] \in Documents
    BY <2>1, <2>2, <2>3 DEF Grows, Kept, SessionsInv, TypeOK, SessionTypes
  <2>5. session[s].current \in Nat /\ session'[s].current \in Nat
    BY <2>4 DEF Documents
  <2>6. /\ session'[s].device = session[s].device
        /\ session[s].current <= session'[s].current
        /\ session'[s].current = session[s].current =>
             /\ session'[s].rotated = session[s].rotated
             /\ session'[s].previous = session[s].previous
    BY <2>2, <2>3 DEF Grows, Kept
  <2>7. req[t].token.num <= session'[s].current
    BY <2>1, <2>2, <2>5, <2>6
  <2>8. QED
    BY <2>1, <2>2, <2>4, <2>5, <2>6, <2>7
<1>2. RequestsAgree'
  <2> SUFFICES ASSUME NEW t \in Requests, req'[t].op \in TokenOps
               PROVE  /\ session'[req'[t].token.sess] # None
                      /\ session'[req'[t].token.sess].device = req'[t].client
                      /\ req'[t].token.num <= session'[req'[t].token.sess].current
    BY DEF RequestsAgree
  <2>1. CASE req'[t] # req[t]
    BY <2>1 DEF Fits
  <2>2. CASE req'[t] = req[t]
    BY <2>2, <1>1
  <2>3. QED
    BY <2>1, <2>2
<1>3. ReadAgrees'
  <2> SUFFICES ASSUME NEW t \in Requests, req'[t].op = "rotate"
               PROVE  LET d == req'[t].doc
                          now == session'[req'[t].token.sess]
                      IN /\ d.current <= now.current
                         /\ d.current = now.current => d.rotated = now.rotated /\ d.previous = now.previous
                         /\ req'[t].token.num \in {d.current, d.previous}
    BY DEF ReadAgrees
  <2>1. CASE req'[t] # req[t]
    BY <2>1 DEF Fits
  <2>2. CASE req'[t] = req[t]
    <3>1. req'[t] = req[t] /\ req[t].op = "rotate" /\ req[t].op \in TokenOps
      BY <2>2 DEF TokenOps
    <3>2. req[t] \in RotateReq
      BY <3>1, KindOfRequest DEF SessionsInv, TypeOK
    <3>3. req[t].doc.current \in Nat
      BY <3>2 DEF RotateReq, Documents
    <3>4. LET d == req[t].doc
              now == session[req[t].token.sess]
          IN /\ d.current <= now.current
             /\ d.current = now.current => d.rotated = now.rotated /\ d.previous = now.previous
             /\ req[t].token.num \in {d.current, d.previous}
      BY <3>1 DEF SessionsInv, ReadAgrees
    <3> DEFINE d == req[t].doc  was == session[req[t].token.sess]  now == session'[req[t].token.sess]
    <3>5. /\ was.current \in Nat /\ now.current \in Nat /\ was.current <= now.current
          /\ now.current = was.current => now.rotated = was.rotated /\ now.previous = was.previous
      BY <3>1, <1>1
    <3>6. d.current <= now.current
      BY <3>3, <3>4, <3>5
    <3>7. d.current = now.current => d.rotated = now.rotated /\ d.previous = now.previous
      BY <3>3, <3>4, <3>5
    <3>8. QED
      BY <2>2, <3>4, <3>6, <3>7
  <2>3. QED
    BY <2>1, <2>2
<1>4. QED
  BY <1>2, <1>3

\* The stored tokens agree when they change to None or to an answer's token.
LEMMA StoredCorrect ==
  ASSUME SessionsInv, \A s \in SessionIds : Grows(s), SessionTypes',
         stored' \in [Clients -> Tokens \cup {None}],
         \A c \in Clients : stored'[c] # None /\ stored'[c] # stored[c] =>
            \E r \in Requests : req[r].op \in TokenOps /\ req[r].client = c
                                  /\ stored'[c] = req[r].token
  PROVE  StoredAgrees'
<1> SUFFICES ASSUME NEW c \in Clients, stored'[c] # None
             PROVE  /\ session'[stored'[c].sess] # None
                    /\ session'[stored'[c].sess].device = c
                    /\ stored'[c].num <= session'[stored'[c].sess].current
  BY DEF StoredAgrees
<1> DEFINE s == stored'[c].sess
<1>1. s \in SessionIds /\ stored'[c].num \in Nat
  BY DEF Tokens
<1>2. session[s] # None /\ session[s].device = c /\ stored'[c].num <= session[s].current
  <2>1. CASE stored'[c] = stored[c]
    BY <2>1 DEF SessionsInv, StoredAgrees
  <2>2. CASE stored'[c] # stored[c]
    BY <2>2 DEF SessionsInv, RequestsAgree
  <2>3. QED
    BY <2>1, <2>2
<1>3. Grows(s)
  BY <1>1
<1>4. session'[s] # None /\ session[s] \in Documents /\ session'[s] \in Documents
  BY <1>1, <1>2, <1>3 DEF Grows, Kept, SessionsInv, TypeOK, SessionTypes
<1>5. session[s].current \in Nat /\ session'[s].current \in Nat
  BY <1>4 DEF Documents
<1>6. QED
  BY <1>1, <1>2, <1>3, <1>4, <1>5 DEF Grows, Kept

\* A device waits on an exchange of its own, also when that moves on or stops.
LEMMA WaitingCorrect ==
  ASSUME SessionsInv, NEW r \in Requests, NEW q \in RequestStates, req' = [req EXCEPT ![r] = q],
         \/ Stop(r)
         \/ /\ UNCHANGED waiting
            /\ \/ req[r].op \notin ExchangeOps
               \/ q.op \in ExchangeOps /\ q.client = req[r].client
  PROVE  waiting' \in [Clients -> Requests \cup {None}] /\ WaitingAgrees'
<1>1. waiting' \in [Clients -> Requests \cup {None}]
  BY DEF Stop, SessionsInv, TypeOK
<1>2. ASSUME NEW c \in Clients, waiting'[c] # None
      PROVE  req'[waiting'[c]].op \in ExchangeOps /\ req'[waiting'[c]].client = c
  <2>1. waiting'[c] = waiting[c] /\ waiting[c] \in Requests
    BY <1>2 DEF Stop, SessionsInv, TypeOK
  <2>2. req[waiting[c]].op \in ExchangeOps /\ req[waiting[c]].client = c
    BY <1>2, <2>1 DEF SessionsInv, WaitingAgrees
  <2>3. CASE waiting[c] # r
    BY <2>1, <2>2, <2>3 DEF SessionsInv, TypeOK
  <2>4. CASE waiting[c] = r
    <3>1. q.op \in ExchangeOps /\ q.client = req[r].client
      BY <1>2, <2>1, <2>2, <2>4 DEF Stop
    <3>2. QED
      BY <2>1, <2>2, <2>4, <3>1 DEF SessionsInv, TypeOK
  <2>5. QED
    BY <2>3, <2>4
<1>3. QED
  BY <1>1, <1>2 DEF WaitingAgrees

-----------------------------------------------------------------------------
\* The parts a step proves one by one make up the invariant.
LEMMA Together ==
  ASSUME SessionTypes', StoredAgrees', RequestsAgree', ReadAgrees', WaitingAgrees',
         req' \in [Requests -> RequestStates],
         stored' \in [Clients -> Tokens \cup {None}],
         waiting' \in [Clients -> Requests \cup {None}],
         password' \in Nat /\ used' \in SUBSET Links /\ faults' \in 0..MaxFaults,
         overtaken' \in SUBSET SessionIds /\ stale' \in SUBSET SessionIds /\ cut' \in BOOLEAN
  PROVE  SessionsInv'
BY DEF SessionTypes, SessionsInv, TypeOK

\* In every reachable state the variables have their types, devices and
\* requests carry tokens of their own sessions, and a document read for a
\* rotation is the session's unless another rotation was saved since.
THEOREM TypeCorrect == Spec => [](TypeOK /\ SessionsInv)
<1>1. SessionsInv /\ [Next]_vars => SessionsInv'
  <2> SUFFICES ASSUME SessionsInv, [Next]_vars PROVE SessionsInv'
    OBVIOUS
  <2>a. TypeOK /\ StoredAgrees /\ RequestsAgree /\ WaitingAgrees /\ ReadAgrees
    BY DEF SessionsInv
  <2>b. SessionTypes' /\ \A s \in SessionIds : Grows(s)
    BY SessionsGrow
  <2>c. \A r \in Requests : req[r] \in RequestStates
    BY <2>a DEF TypeOK
  <2>d. UNCHANGED stored => StoredAgrees' /\ stored' \in [Clients -> Tokens \cup {None}]
    BY <2>a, <2>b, StoredCorrect DEF TypeOK
  <2>e. Idle \in RequestStates /\ Idle.op = "idle"
    BY DEF Idle, RequestStates
  <2>f. ASSUME NEW r \in Requests, NEW q \in RequestStates, req' = [req EXCEPT ![r] = q], Fits(q)
        PROVE  req' \in [Requests -> RequestStates] /\ RequestsAgree' /\ ReadAgrees'
    <3>1. req' \in [Requests -> RequestStates]
      BY <2>f, <2>a DEF TypeOK
    <3>2. \A t \in Requests : req'[t] # req[t] => Fits(req'[t])
      BY <2>f, <2>a DEF TypeOK
    <3>3. QED
      BY <3>1, <3>2, <2>b, RequestsCorrect
  <2>g. \A q : q.op \notin TokenOps => Fits(q)
    BY DEF Fits, TokenOps
  <2>h. UNCHANGED req => req' \in [Requests -> RequestStates] /\ RequestsAgree' /\ ReadAgrees'
    BY <2>a, <2>b, RequestsCorrect DEF TypeOK
  <2>i. UNCHANGED <<req, waiting>> =>
          waiting' \in [Clients -> Requests \cup {None}] /\ WaitingAgrees'
    BY <2>a DEF TypeOK, WaitingAgrees
  <2>1. CASE UNCHANGED vars
    BY <2>1, <2>a, <2>b, <2>d, <2>h, <2>i, Together DEF vars, TypeOK
  <2>2. ASSUME NEW r \in Requests, NEW c \in Clients, LoginRead(r, c) PROVE SessionsInv'
    <3> DEFINE q == [op |-> "login", client |-> c, opened |-> password]
    <3>1. q \in RequestStates /\ q.op \notin TokenOps
      BY <2>a DEF RequestStates, LoginReq, TokenOps, TypeOK
    <3>2. req[r].op \notin ExchangeOps
      BY <2>2, <2>e DEF LoginRead, Open, ExchangeOps
    <3>3. req' = [req EXCEPT ![r] = q]
      BY <2>2 DEF LoginRead, Open
    <3> HIDE DEF q
    <3>4. QED
      BY <2>2, <3>1, <3>2, <3>3, <2>a, <2>b, <2>d, <2>f, <2>g, WaitingCorrect, Together
         DEF LoginRead, TypeOK
  <2>3. ASSUME NEW r \in Requests, NEW k \in Links, ResetRead(r, k) PROVE SessionsInv'
    <3> DEFINE q == [op |-> "reset", link |-> k, phase |-> "password"]
    <3>1. q \in RequestStates /\ q.op \notin TokenOps
      BY DEF RequestStates, ResetReq, TokenOps
    <3>2. req[r].op \notin ExchangeOps
      BY <2>3, <2>e DEF ResetRead, Open, ExchangeOps
    <3>3. req' = [req EXCEPT ![r] = q]
      BY <2>3 DEF ResetRead, Open
    <3> HIDE DEF q
    <3>4. QED
      BY <2>3, <3>1, <3>2, <3>3, <2>a, <2>b, <2>d, <2>f, <2>g, WaitingCorrect, Together
         DEF ResetRead, TypeOK
  <2>4. ASSUME NEW r \in Requests, NEW c \in Clients, LogoutSend(c, r) PROVE SessionsInv'
    <3> DEFINE q == [op |-> "logout", client |-> c, token |-> stored[c]]
    <3>1. stored[c] \in Tokens /\ stored[c] # None
      BY <2>4, <2>a DEF LogoutSend, TypeOK
    <3>2. q \in RequestStates
      BY <3>1 DEF RequestStates, LogoutReq
    <3>3. Fits(q)
      <4>1. q.op # "rotate" /\ q.token = stored[c] /\ q.client = c
        OBVIOUS
      <4>2. UNCHANGED session
        BY <2>4 DEF LogoutSend
      <4>3. QED
        BY <4>1, <4>2, <3>1, <2>a DEF Fits, StoredAgrees
    <3>4. req[r].op \notin ExchangeOps
      BY <2>4, <2>e DEF LogoutSend, Open, ExchangeOps
    <3>5. req' = [req EXCEPT ![r] = q]
      BY <2>4 DEF LogoutSend, Open
    <3> HIDE DEF q
    <3>6. QED
      BY <2>4, <3>2, <3>3, <3>4, <3>5, <2>a, <2>b, <2>d, <2>f, WaitingCorrect, Together
         DEF LogoutSend, TypeOK
  <2>5. ASSUME NEW r \in Requests, NEW c \in Clients, Send(c, r) PROVE SessionsInv'
    <3> DEFINE q == [op |-> "refresh", client |-> c, token |-> stored[c]]
    <3>1. stored[c] \in Tokens /\ stored[c] # None
      BY <2>5, <2>a DEF Send, TypeOK
    <3>2. q \in RequestStates
      BY <3>1 DEF RequestStates, RefreshReq
    <3>3. Fits(q)
      <4>1. q.op # "rotate" /\ q.token = stored[c] /\ q.client = c
        OBVIOUS
      <4>2. UNCHANGED session
        BY <2>5 DEF Send
      <4>3. QED
        BY <4>1, <4>2, <3>1, <2>a DEF Fits, StoredAgrees
    <3>4. q.op \in ExchangeOps /\ q.client = c
      BY DEF ExchangeOps
    <3>5. req[r].op \notin ExchangeOps
      BY <2>5, <2>e DEF Send, Open, ExchangeOps
    <3>6. req' = [req EXCEPT ![r] = q] /\ waiting' = [waiting EXCEPT ![c] = r]
      BY <2>5 DEF Send, Open
    <3> HIDE DEF q
    <3>7. waiting' \in [Clients -> Requests \cup {None}]
      BY <3>6, <2>a DEF TypeOK
    <3>8. WaitingAgrees'
      <4> SUFFICES ASSUME NEW b \in Clients, waiting'[b] # None
                   PROVE  req'[waiting'[b]].op \in ExchangeOps /\ req'[waiting'[b]].client = b
        BY DEF WaitingAgrees
      <4>1. CASE b = c
        BY <4>1, <3>4, <3>6, <2>a DEF TypeOK
      <4>2. CASE b # c
        <5>1. waiting'[b] = waiting[b] /\ waiting[b] \in Requests /\ waiting[b] # r
          BY <4>2, <3>5, <3>6, <2>a DEF TypeOK, WaitingAgrees
        <5>2. QED
          BY <5>1, <3>6, <2>a DEF TypeOK, WaitingAgrees
      <4>3. QED
        BY <4>1, <4>2
    <3>9. QED
      BY <2>5, <3>2, <3>3, <3>6, <3>7, <3>8, <2>a, <2>b, <2>d, <2>f, Together DEF Send, TypeOK
  <2>6. ASSUME NEW c \in Clients, GiveUp(c) PROVE SessionsInv'
    <3>1. waiting' \in [Clients -> Requests \cup {None}] /\ WaitingAgrees'
      BY <2>6, <2>a DEF GiveUp, TypeOK, WaitingAgrees
    <3>2. faults' \in 0..MaxFaults
      BY <2>6, <2>a, SessionsAssumption DEF GiveUp, TypeOK
    <3>3. QED
      BY <2>6, <3>1, <3>2, <2>a, <2>b, <2>d, <2>h, Together DEF GiveUp, TypeOK
  <2>7. ASSUME NEW s \in SessionIds, RevokeSession(s) PROVE SessionsInv'
    BY <2>7, <2>a, <2>b, <2>d, <2>h, <2>i, Together DEF RevokeSession, TypeOK
  <2>8. ASSUME NEW s \in SessionIds, GraceEnds(s) PROVE SessionsInv'
    BY <2>8, <2>a, <2>b, <2>d, <2>h, <2>i, Together DEF GraceEnds, TypeOK
  <2>9. ASSUME NEW r \in Requests, LoginSave(r) PROVE SessionsInv'
    <3>1. req[r] \in LoginReq
      BY <2>9, <2>c, KindOfRequest DEF LoginSave
    <3>2. PICK s \in SessionIds :
            /\ session' = [session EXCEPT ![s] =
                  [device |-> req[r].client, current |-> 0, previous |-> None,
                   rotated |-> << >>, fresh |-> FALSE,
                   revoked |-> FALSE, opened |-> req[r].opened]]
            /\ Turn(r, [op |-> "welcome", client |-> req[r].client,
                        token |-> [sess |-> s, num |-> 0]])
            /\ stale' = IF req[r].opened # password THEN stale \cup {s} ELSE stale
      BY <2>9 DEF LoginSave
    <3> DEFINE q == [op |-> "welcome", client |-> req[r].client, token |-> [sess |-> s, num |-> 0]]
    <3>3. q \in RequestStates
      BY <3>1 DEF LoginReq, WelcomeReq, Tokens, RequestStates
    <3>4. session'[s].device = req[r].client /\ session'[s].current = 0
      BY <3>2, <2>a DEF TypeOK
    <3>5. session'[s] # None
      <4>1. session'[s] \in Documents
        BY <3>1, <3>2, <2>a DEF TypeOK, LoginReq, Documents
      <4>2. QED
        BY <4>1, NoneAssumption
    <3>6. Fits(q)
      BY <3>4, <3>5 DEF Fits
    <3>7. req[r].op \notin ExchangeOps
      BY <3>1 DEF LoginReq, ExchangeOps
    <3>8. req' = [req EXCEPT ![r] = q]
      BY <3>2 DEF Turn
    <3>9. stale' \in SUBSET SessionIds
      BY <3>2, <2>a DEF TypeOK
    <3> HIDE DEF q
    <3>10. QED
      BY <2>9, <3>3, <3>6, <3>7, <3>8, <3>9, <2>a, <2>b, <2>d, <2>f, WaitingCorrect, Together
         DEF LoginSave, TypeOK
  <2>10. ASSUME NEW r \in Requests, Welcome(r) PROVE SessionsInv'
    <3>1. req[r].op \in TokenOps /\ req[r].op \notin ExchangeOps
      BY <2>10 DEF Welcome, TokenOps, ExchangeOps
    <3>2. req[r].client \in Clients /\ req[r].token \in Tokens
      BY <3>1, <2>c, TokenRequest
    <3>3. stored' \in [Clients -> Tokens \cup {None}] /\ StoredAgrees'
      <4>1. stored' = [stored EXCEPT ![req[r].client] = req[r].token]
        BY <2>10 DEF Welcome
      <4>2. \A c \in Clients : stored'[c] # stored[c] => c = req[r].client /\ stored'[c] = req[r].token
        BY <4>1, <3>2, <2>a DEF TypeOK
      <4>3. stored' \in [Clients -> Tokens \cup {None}]
        BY <4>1, <3>2, <2>a DEF TypeOK
      <4>4. QED
        BY <4>2, <4>3, <3>1, <2>b, StoredCorrect
    <3>4. req' = [req EXCEPT ![r] = Idle] /\ Fits(Idle)
      BY <2>10, <2>e, <2>g DEF Welcome, Done, TokenOps
    <3>5. QED
      BY <2>10, <3>1, <3>3, <3>4, <2>a, <2>b, <2>e, <2>f, WaitingCorrect, Together
         DEF Welcome, TypeOK
  <2>11. ASSUME NEW r \in Requests, Find(r) PROVE SessionsInv'
    <3> DEFINE t == req[r].token
    <3> DEFINE q == [op |-> "rotate", client |-> req[r].client, token |-> t, doc |-> session[t.sess]]
    <3>1. req[r].op = "refresh" /\ Accepted(t.sess, t.num) /\ Turn(r, q) /\ UNCHANGED session
      BY <2>11 DEF Find
    <3>2. req[r].op \in TokenOps /\ req[r].op \in ExchangeOps
      BY <3>1 DEF TokenOps, ExchangeOps
    <3>3. req[r].client \in Clients /\ t \in Tokens /\ t.sess \in SessionIds /\ t.num \in Nat
      BY <3>2, <2>c, TokenRequest
    <3>4. session[t.sess] # None /\ session[t.sess] \in Documents
          /\ session[t.sess].device = req[r].client /\ t.num <= session[t.sess].current
      BY <3>2, <3>3, <2>a DEF RequestsAgree, TypeOK
    <3>5. q \in RequestStates
      BY <3>3, <3>4 DEF RotateReq, RequestStates
    <3>6. session[t.sess].current \in Nat /\ t.num \in {session[t.sess].current, session[t.sess].previous}
      BY <3>1, <3>4 DEF Accepted, InGrace, Documents
    <3>7. Fits(q)
      BY <3>1, <3>4, <3>6 DEF Fits
    <3>8. q.op \in ExchangeOps /\ q.client = req[r].client
      BY DEF ExchangeOps
    <3>9. req' = [req EXCEPT ![r] = q]
      BY <3>1 DEF Turn
    <3> HIDE DEF q
    <3>10. QED
      BY <2>11, <3>5, <3>7, <3>8, <3>9, <2>a, <2>b, <2>d, <2>f, WaitingCorrect, Together
         DEF Find, TypeOK
  <2>12. ASSUME NEW r \in Requests, GateClosed(r) PROVE SessionsInv'
    <3> DEFINE q == [op |-> "refused", client |-> req[r].client]
    <3>1. req[r].op \in TokenOps
      BY <2>12 DEF GateClosed, TokenOps
    <3>2. req[r].client \in Clients
      BY <3>1, <2>c, TokenRequest
    <3>3. q \in RequestStates /\ q.op \notin TokenOps /\ q.op \in ExchangeOps
          /\ q.client = req[r].client
      BY <3>2 DEF NoAnswer, RequestStates, TokenOps, ExchangeOps
    <3>4. req' = [req EXCEPT ![r] = q]
      BY <2>12 DEF GateClosed, Turn
    <3> HIDE DEF q
    <3>5. QED
      BY <2>12, <3>3, <3>4, <2>a, <2>b, <2>d, <2>f, <2>g, WaitingCorrect, Together
         DEF GateClosed, TypeOK
  <2>13. ASSUME NEW r \in Requests, Refuse(r) PROVE SessionsInv'
    <3> DEFINE q == [op |-> "refused", client |-> req[r].client]
    <3>1. req[r].op \in TokenOps
      BY <2>13 DEF Refuse, TokenOps
    <3>2. req[r].client \in Clients
      BY <3>1, <2>c, TokenRequest
    <3>3. q \in RequestStates /\ q.op \notin TokenOps /\ q.op \in ExchangeOps
          /\ q.client = req[r].client
      BY <3>2 DEF NoAnswer, RequestStates, TokenOps, ExchangeOps
    <3>4. req' = [req EXCEPT ![r] = q]
      BY <2>13 DEF Refuse, Turn
    <3> HIDE DEF q
    <3>5. QED
      BY <2>13, <3>3, <3>4, <2>a, <2>b, <2>d, <2>f, <2>g, WaitingCorrect, Together
         DEF Refuse, TypeOK
  <2>14. ASSUME NEW r \in Requests, Rotate(r) PROVE SessionsInv'
    <3> DEFINE s == req[r].token.sess
    <3>1. req[r].op \in TokenOps /\ req[r].op = "rotate"
      BY <2>14 DEF Rotate, TokenOps
    <3>2. req[r].client \in Clients /\ s \in SessionIds
      BY <3>1, <2>c, TokenRequest
    <3>3. overtaken' \in SUBSET SessionIds
      BY <2>14, <3>2, <2>a DEF Rotate, TypeOK
    <3>4. CASE Unchanged(req[r].doc, session[s])
      <4> DEFINE q == [op |-> "answer", client |-> req[r].client,
                       token |-> [sess |-> s, num |-> session[s].current + 1]]
      <4>1. /\ session[s] \in Documents
            /\ session'[s] \in Documents
            /\ session'[s].device = session[s].device
            /\ session'[s].current = session[s].current + 1
        BY <2>14, <3>4, RotateWrites
      <4>2. session[s].current \in Nat
        BY <4>1 DEF Documents
      <4>3. session[s].device = req[r].client
        BY <3>1, <2>a DEF RequestsAgree
      <4>4. q \in RequestStates
        <5>1. [sess |-> s, num |-> session[s].current + 1] \in Tokens
          BY <3>2, <4>2 DEF Tokens
        <5>2. QED
          BY <3>2, <5>1 DEF AnswerReq, RequestStates
      <4>5. session'[s] # None
        BY <4>1, NoneAssumption
      <4>6. Fits(q)
        BY <4>1, <4>2, <4>3, <4>5 DEF Fits
      <4>7. q.op \in ExchangeOps /\ q.client = req[r].client
        BY DEF ExchangeOps
      <4>8. req' = [req EXCEPT ![r] = q]
        BY <2>14, <3>4 DEF Rotate, Turn
      <4> HIDE DEF q
      <4>9. QED
        BY <2>14, <3>3, <4>4, <4>6, <4>7, <4>8, <2>a, <2>b, <2>d, <2>f, WaitingCorrect, Together
           DEF Rotate, TypeOK
    <3>5. CASE ~Unchanged(req[r].doc, session[s])
      <4> DEFINE q == [op |-> "failed", client |-> req[r].client]
      <4>1. q \in RequestStates /\ q.op \notin TokenOps /\ q.op \in ExchangeOps
            /\ q.client = req[r].client
        BY <3>2 DEF NoAnswer, RequestStates, TokenOps, ExchangeOps
      <4>2. req' = [req EXCEPT ![r] = q]
        BY <2>14, <3>5 DEF Rotate, Turn
      <4> HIDE DEF q
      <4>3. QED
        BY <2>14, <3>3, <4>1, <4>2, <2>a, <2>b, <2>d, <2>f, <2>g, WaitingCorrect, Together
           DEF Rotate, TypeOK
    <3>6. QED
      BY <3>4, <3>5
  <2>15. ASSUME NEW r \in Requests, Deliver(r) PROVE SessionsInv'
    <3>1. req[r].op \in TokenOps
      BY <2>15 DEF Deliver, TokenOps
    <3>2. req[r].client \in Clients /\ req[r].token \in Tokens
      BY <3>1, <2>c, TokenRequest
    <3>3. stored' \in [Clients -> Tokens \cup {None}] /\ StoredAgrees'
      <4>1. stored' = [stored EXCEPT ![req[r].client] = req[r].token] \/ stored' = stored
        BY <2>15 DEF Deliver
      <4>2. \A c \in Clients : stored'[c] # stored[c] => c = req[r].client /\ stored'[c] = req[r].token
        BY <4>1, <3>2, <2>a DEF TypeOK
      <4>3. stored' \in [Clients -> Tokens \cup {None}]
        BY <4>1, <3>2, <2>a DEF TypeOK
      <4>4. QED
        BY <4>2, <4>3, <3>1, <2>b, StoredCorrect
    <3>4. req' = [req EXCEPT ![r] = Idle] /\ Fits(Idle) /\ Stop(r)
      BY <2>15, <2>e, <2>g DEF Deliver, Done, TokenOps
    <3>5. QED
      BY <2>15, <3>3, <3>4, <2>a, <2>b, <2>e, <2>f, WaitingCorrect, Together DEF Deliver, TypeOK
  <2>16. ASSUME NEW r \in Requests, DeliverError(r) PROVE SessionsInv'
    <3>1. \A c \in Clients : stored'[c] # stored[c] => stored'[c] = None
      BY <2>16, <2>a DEF DeliverError, TypeOK
    <3>2. stored' \in [Clients -> Tokens \cup {None}]
      BY <2>16, <2>a DEF DeliverError, TypeOK
    <3>3. StoredAgrees'
      BY <3>1, <3>2, <2>b, StoredCorrect
    <3>4. req' = [req EXCEPT ![r] = Idle] /\ Fits(Idle)
      BY <2>16, <2>e, <2>g DEF DeliverError, Done, TokenOps
    <3>5. Stop(r)
      BY <2>16 DEF DeliverError, ExchangeOps
    <3>6. QED
      BY <2>16, <3>2, <3>3, <3>4, <3>5, <2>a, <2>b, <2>e, <2>f, WaitingCorrect, Together
         DEF DeliverError, TypeOK
  <2>17. ASSUME NEW r \in Requests, ClearTokens(r) PROVE SessionsInv'
    <3>1. \A c \in Clients : stored'[c] # stored[c] => stored'[c] = None
      BY <2>17, <2>a DEF ClearTokens, TypeOK
    <3>2. stored' \in [Clients -> Tokens \cup {None}]
      BY <2>17, <2>a DEF ClearTokens, TypeOK
    <3>3. StoredAgrees'
      BY <3>1, <3>2, <2>b, StoredCorrect
    <3>4. req' = [req EXCEPT ![r] = Idle] /\ Fits(Idle)
      BY <2>17, <2>e, <2>g DEF ClearTokens, Done, TokenOps
    <3>5. req[r].op \notin ExchangeOps
      BY <2>17 DEF ClearTokens, ExchangeOps
    <3>6. QED
      BY <2>17, <3>2, <3>3, <3>4, <3>5, <2>a, <2>b, <2>e, <2>f, WaitingCorrect, Together
         DEF ClearTokens, TypeOK
  <2>18. ASSUME NEW r \in Requests, Interrupt(r) PROVE SessionsInv'
    <3>1. PICK q \in RequestStates : req' = [req EXCEPT ![r] = q] /\ q.op \notin TokenOps
      <4>1. CASE req[r].op = "logout"
        <5>1. req[r].client \in Clients
          BY <4>1, <2>c, TokenRequest DEF TokenOps
        <5>2. [op |-> "leave", client |-> req[r].client] \in RequestStates
          BY <5>1 DEF NoAnswer, RequestStates
        <5>3. QED
          BY <2>18, <4>1, <5>2 DEF Interrupt, Turn, TokenOps
      <4>2. CASE req[r].op # "logout"
        BY <2>18, <4>2, <2>e DEF Interrupt, Done, TokenOps
      <4>3. QED
        BY <4>1, <4>2
    <3>2. faults' \in 0..MaxFaults
      BY <2>18, <2>a, SessionsAssumption DEF Interrupt, TypeOK
    <3>3. cut' \in BOOLEAN
      BY <2>18, <2>a, Zenon DEF Interrupt, TypeOK
    <3>4. Stop(r) /\ UNCHANGED <<user, session, stored, overtaken, stale>>
      BY <2>18 DEF Interrupt
    <3>5. QED
      BY <3>1, <3>2, <3>3, <3>4, <2>a, <2>b, <2>d, <2>f, <2>g, WaitingCorrect, Together DEF TypeOK
  <2>19. ASSUME NEW r \in Requests, Logout(r) PROVE SessionsInv'
    <3> DEFINE q == [op |-> "leave", client |-> req[r].client]
    <3>1. req[r].op \in TokenOps /\ req[r].op \notin ExchangeOps
      BY <2>19 DEF Logout, TokenOps, ExchangeOps
    <3>2. req[r].client \in Clients
      BY <3>1, <2>c, TokenRequest
    <3>3. q \in RequestStates /\ q.op \notin TokenOps
      BY <3>2 DEF NoAnswer, RequestStates, TokenOps
    <3>4. req' = [req EXCEPT ![r] = q]
      BY <2>19 DEF Logout, Turn
    <3> HIDE DEF q
    <3>5. QED
      BY <2>19, <3>1, <3>3, <3>4, <2>a, <2>b, <2>d, <2>f, <2>g, WaitingCorrect, Together
         DEF Logout, TypeOK
  <2>20. ASSUME NEW r \in Requests, ResetPassword(r) PROVE SessionsInv'
    <3> DEFINE q == [req[r] EXCEPT !.phase = "used"]
    <3>1. req[r] \in ResetReq /\ req[r].op \notin ExchangeOps
      BY <2>20, <2>c, KindOfRequest DEF ResetPassword, ExchangeOps
    <3>2. q \in ResetReq
      BY <3>1 DEF ResetReq
    <3>3. q \in RequestStates /\ q.op \notin TokenOps
      BY <3>2 DEF ResetReq, RequestStates, TokenOps
    <3>4. req' = [req EXCEPT ![r] = q]
      BY <2>20 DEF ResetPassword, Turn
    <3>5. password' \in Nat /\ used' \in SUBSET Links
      BY <2>20, <3>1, <2>a DEF ResetPassword, TypeOK, ResetReq
    <3> HIDE DEF q
    <3>6. QED
      BY <2>20, <3>1, <3>3, <3>4, <3>5, <2>a, <2>b, <2>d, <2>f, <2>g, WaitingCorrect, Together
         DEF ResetPassword, TypeOK
  <2>21. ASSUME NEW r \in Requests, ResetSpend(r) PROVE SessionsInv'
    <3> DEFINE q == [req[r] EXCEPT !.phase = "revoke"]
    <3>1. req[r] \in ResetReq /\ req[r].op \notin ExchangeOps
      BY <2>21, <2>c, KindOfRequest DEF ResetSpend, ExchangeOps
    <3>2. q \in ResetReq
      BY <3>1 DEF ResetReq
    <3>3. q \in RequestStates /\ q.op \notin TokenOps
      BY <3>2 DEF ResetReq, RequestStates, TokenOps
    <3>4. req' = [req EXCEPT ![r] = q]
      BY <2>21 DEF ResetSpend, Turn
    <3>5. password' \in Nat /\ used' \in SUBSET Links
      BY <2>21, <3>1, <2>a DEF ResetSpend, TypeOK, ResetReq
    <3> HIDE DEF q
    <3>6. QED
      BY <2>21, <3>1, <3>3, <3>4, <3>5, <2>a, <2>b, <2>d, <2>f, <2>g, WaitingCorrect, Together
         DEF ResetSpend, TypeOK
  <2>22. ASSUME NEW r \in Requests, ResetRevoke(r) PROVE SessionsInv'
    <3>1. req' = [req EXCEPT ![r] = Idle] /\ Fits(Idle) /\ req[r].op \notin ExchangeOps
      BY <2>22, <2>e, <2>g DEF ResetRevoke, Done, TokenOps, ExchangeOps
    <3>2. QED
      BY <2>22, <3>1, <2>a, <2>b, <2>d, <2>e, <2>f, WaitingCorrect, Together DEF ResetRevoke, TypeOK
  <2>23. QED
    BY <2>1, <2>2, <2>3, <2>4, <2>5, <2>6, <2>7, <2>8, <2>9, <2>10, <2>11, <2>12, <2>13, <2>14,
       <2>15, <2>16, <2>17, <2>18, <2>19, <2>20, <2>21, <2>22 DEF Next, Handle
<1>2. SessionsInv => TypeOK
  BY DEF SessionsInv
<1>3. QED
  BY <1>1, <1>2, InitCorrect, PTL DEF Spec

\* A revoked session stays revoked, whatever a refresh has read before.
THEOREM RevokedForGood == Spec => RevocationIsFinal
<1>1. SessionsInv /\ [Next]_vars =>
        [\A s \in SessionIds : session[s] # None /\ session[s].revoked => session'[s].revoked]_vars
  <2> SUFFICES ASSUME SessionsInv, [Next]_vars, NEW s \in SessionIds,
                      session[s] # None, session[s].revoked
               PROVE  session'[s].revoked
    OBVIOUS
  <2>1. Grows(s)
    BY SessionsGrow
  <2>2. QED
    BY <2>1 DEF Grows, Kept
<1>2. Spec => []SessionsInv
  BY TypeCorrect, PTL
<1>3. QED
  BY <1>1, <1>2, PTL DEF Spec, RevocationIsFinal

-----------------------------------------------------------------------------
\* The latest tokens before a number, in order.
InOrder(list, num) ==
  /\ Len(list) \in {num, MaxRotated} /\ Len(list) <= num
  /\ \A i \in 1..Len(list) : list[i] = num - Len(list) + i - 1

\* Retiring the next token keeps the order.
LEMMA RetireInOrder ==
  ASSUME NEW p \in Seq(Nat), NEW k \in Nat, Len(p) <= MaxRotated, InOrder(p, k)
  PROVE  InOrder(Retire(p, k), k + 1)
<1>1. Len(p) \in {k, MaxRotated} /\ Len(p) <= k /\ \A i \in 1..Len(p) : p[i] = k - Len(p) + i - 1
  BY DEF InOrder
<1>2. Len(p) \in Nat /\ MaxRotated \in Nat \ {0}
  BY SessionsAssumption
<1>3. PICK q \in Seq(Nat) : q = Retire(p, k)
  BY RetireBounded
<1>4. /\ Len(q) = IF Len(p) < MaxRotated THEN Len(p) + 1 ELSE MaxRotated
      /\ \A i \in 1..Len(q) : q[i] = IF i = Len(q) THEN k
                                      ELSE IF Len(p) < MaxRotated THEN p[i] ELSE p[i + 1]
  BY <1>3, RetireBounded
<1>5. Len(q) \in {k + 1, MaxRotated} /\ Len(q) <= k + 1
  BY <1>1, <1>2, <1>4
<1>6. ASSUME NEW i \in 1..Len(q) PROVE q[i] = k + 1 - Len(q) + i - 1
  <2>1. CASE i = Len(q)
    <3>1. q[i] = k
      BY <2>1, <1>4
    <3>2. Len(q) \in Nat
      BY <1>3
    <3>3. QED
      BY <2>1, <3>1, <3>2
  <2>2. CASE i # Len(q) /\ Len(p) < MaxRotated
    <3>1. i \in 1..Len(p) /\ q[i] = p[i] /\ Len(q) = Len(p) + 1
      BY <2>2, <1>2, <1>4
    <3>2. QED
      BY <3>1, <1>1, <1>2
  <2>3. CASE i # Len(q) /\ ~(Len(p) < MaxRotated)
    <3>1. i + 1 \in 1..Len(p) /\ q[i] = p[i + 1] /\ Len(q) = Len(p)
      BY <2>3, <1>2, <1>4
    <3>2. QED
      BY <3>1, <1>1, <1>2
  <2>4. QED
    BY <2>1, <2>2, <2>3
<1>7. InOrder(q, k + 1)
  BY <1>5, <1>6 DEF InOrder
<1>8. QED
  BY <1>3, <1>7

\* A rotation keeps the rotated tokens the latest ones, in order.
LEMMA RotationKeepsOrder ==
  ASSUME SessionsInv, [Next]_vars, RotatedInOrder
  PROVE  RotatedInOrder'
<1>1. SUFFICES ASSUME NEW s \in SessionIds, session'[s] # None
               PROVE  InOrder(session'[s].rotated, session'[s].current)
  BY DEF RotatedInOrder, InOrder
<1>2. Grows(s)
  BY SessionsGrow
<1>3. CASE session[s] # None /\ session'[s].current = session[s].current
  BY <1>2, <1>3 DEF Grows, Kept, RotatedInOrder, InOrder
<1>4. CASE session'[s].current = 0 /\ session'[s].rotated = << >>
  BY <1>4, SessionsAssumption DEF InOrder
<1>5. CASE /\ session[s] # None /\ session[s].current \in Nat
           /\ session'[s].current = session[s].current + 1
           /\ session'[s].rotated = Retire(session[s].rotated, session[s].current)
  <2>1. session[s].rotated \in Seq(Nat) /\ Len(session[s].rotated) <= MaxRotated
    BY <1>5 DEF SessionsInv, TypeOK, Documents
  <2>2. InOrder(session[s].rotated, session[s].current)
    BY <1>5 DEF RotatedInOrder, InOrder
  <2>3. QED
    BY <1>5, <2>1, <2>2, RetireInOrder
<1>6. QED
  BY <1>1, <1>2, <1>3, <1>4, <1>5 DEF Grows, NewTokens

\* Every token a session has had is current, known to be rotated out, or older
\* than the history that is kept.
THEOREM NoneForgotten == Spec => []IssuedIsKnown
<1>1. Init => RotatedInOrder
  BY DEF Init, RotatedInOrder
<1>2. SessionsInv /\ RotatedInOrder => IssuedIsKnown
  <2> SUFFICES ASSUME SessionsInv, RotatedInOrder, NEW s \in SessionIds, session[s] # None,
                      NEW n \in 0..session[s].current,
                      n # session[s].current, ~(n < session[s].current - MaxRotated)
               PROVE  \E i \in DOMAIN session[s].rotated : session[s].rotated[i] = n
    BY DEF IssuedIsKnown
  <2> DEFINE p == session[s].rotated
  <2> DEFINE k == session[s].current
  <2>1. p \in Seq(Nat) /\ k \in Nat
    BY DEF SessionsInv, TypeOK, Documents
  <2>2. Len(p) \in {k, MaxRotated} /\ Len(p) <= k /\ \A i \in 1..Len(p) : p[i] = k - Len(p) + i - 1
    BY DEF RotatedInOrder
  <2>3. n \in Nat /\ n < k /\ n >= k - MaxRotated
    BY <2>1, SessionsAssumption
  <2> HIDE DEF p, k
  <2>4. n - k + Len(p) + 1 \in 1..Len(p)
    BY <2>1, <2>2, <2>3, SessionsAssumption
  <2>5. p[n - k + Len(p) + 1] = n
    BY <2>1, <2>2, <2>3, <2>4
  <2>6. DOMAIN p = 1..Len(p)
    BY <2>1
  <2>7. QED
    BY <2>4, <2>5, <2>6 DEF p
<1>3. Spec => []SessionsInv
  BY TypeCorrect, PTL
<1>4. QED
  BY <1>1, <1>2, <1>3, RotationKeepsOrder, PTL DEF Spec

-----------------------------------------------------------------------------
MidReset(r) == req[r].op = "reset" /\ req[r].phase # "password"
OldOnesOut  == \A s \in SessionIds : Live(s) /\ s \notin stale => session[s].opened = password

\* A step other than a login's save or a reset's brings no older session back.
LEMMA StaysOut ==
  ASSUME SessionsInv, [Next]_vars, OldOnesOut, UNCHANGED <<password, stale>>,
         ~\E r \in Requests : LoginSave(r)
  PROVE  OldOnesOut'
<1> SUFFICES ASSUME NEW s \in SessionIds, session'[s] # None, ~session'[s].revoked, s \notin stale
             PROVE  session'[s].opened = password
  BY DEF OldOnesOut, Live
<1>1. Grows(s)
  BY SessionsGrow
<1>2. session[s] # None
  BY <1>1 DEF Grows, NewTokens
<1>3. QED
  BY <1>1, <1>2 DEF Grows, Kept, OldOnesOut, Live

\* Once a password reset is through, no session lives that an earlier password
\* opened, unless its login was under way or a reset was cut off.
THEOREM ResetEnds == Spec => []ResetKicksOut
<1>1. Init => ResetKicksOut
  BY DEF Init, ResetKicksOut, Live
<1>2. SessionsInv /\ ResetKicksOut /\ [Next]_vars => ResetKicksOut'
  <2> SUFFICES ASSUME SessionsInv, ResetKicksOut, [Next]_vars PROVE ResetKicksOut'
    OBVIOUS
  <2>a. TypeOK /\ SessionTypes' /\ \A s \in SessionIds : Grows(s)
    BY SessionsGrow DEF SessionsInv
  <2>b. cut' \/ (\E r \in Requests : MidReset(r)') \/ OldOnesOut' => ResetKicksOut'
    BY DEF ResetKicksOut, MidReset, OldOnesOut
  <2>c. cut \/ (\E r \in Requests : MidReset(r)) \/ OldOnesOut
    BY DEF ResetKicksOut, MidReset, OldOnesOut
  <2>1. ASSUME NEW r \in Requests, ResetRevoke(r) PROVE OldOnesOut'
    <3> SUFFICES ASSUME NEW s \in SessionIds PROVE ~Live(s)'
      BY DEF OldOnesOut
    <3>1. session'[s] = Revoked(s)
      BY <2>1 DEF ResetRevoke
    <3>2. CASE session[s] = None
      BY <3>1, <3>2 DEF Revoked, Live
    <3>3. CASE session[s] # None
      <4>1. session[s] \in Documents
        BY <3>3, <2>a DEF TypeOK
      <4>2. session'[s].revoked = TRUE
        BY <3>1, <3>3, <4>1 DEF Revoked, Documents
      <4>3. QED
        BY <4>2 DEF Live
    <3>4. QED
      BY <3>2, <3>3
  <2>2. ASSUME NEW r \in Requests, ResetPassword(r) PROVE MidReset(r)'
    <3>1. req[r] \in ResetReq /\ req' = [req EXCEPT ![r] = [req[r] EXCEPT !.phase = "used"]]
      BY <2>2, <2>a, KindOfRequest DEF ResetPassword, Turn, TypeOK
    <3>2. req'[r].op = "reset" /\ req'[r].phase = "used"
      BY <3>1, <2>a DEF ResetReq, TypeOK
    <3>3. QED
      BY <3>2 DEF MidReset
  <2>3. CASE ~(\E r \in Requests : ResetRevoke(r) \/ ResetPassword(r))
    <3>0. UNCHANGED password
      BY <2>3 DEF Next, Handle, vars, user, LoginRead, Welcome, Send, Find, GateClosed, Refuse, Rotate,
         Deliver, DeliverError, GiveUp, Interrupt, LogoutSend, Logout, ClearTokens, ResetRead, LoginSave,
         ResetSpend, RevokeSession, GraceEnds
    <3>c. cut => cut'
      <4>1. ASSUME NEW r \in Requests, Interrupt(r), cut PROVE cut'
        BY <4>1, Zenon DEF Interrupt
      <4>2. CASE UNCHANGED cut
        BY <4>2
      <4>3. (\E r \in Requests : Interrupt(r)) \/ UNCHANGED cut
        BY <2>3 DEF Next, Handle, vars, history, LoginRead, Welcome, Send, Find, GateClosed, Refuse, Rotate,
           Deliver, DeliverError, GiveUp, LogoutSend, Logout, ClearTokens, ResetRead, LoginSave,
           ResetSpend, RevokeSession, GraceEnds
      <4>4. QED
        BY <4>1, <4>2, <4>3
    <3>1. UNCHANGED password /\ (cut => cut')
      BY <3>0, <3>c
    <3>2. CASE cut
      BY <3>1, <3>2, <2>b
    <3>3. ASSUME NEW r \in Requests, MidReset(r), ~cut' PROVE MidReset(r)'
      <4>1. req[r] \in ResetReq
        BY <3>3, <2>a, KindOfRequest DEF MidReset, TypeOK
      <4>2. CASE req'[r] = req[r]
        BY <3>3, <4>2 DEF MidReset
      <4>3. CASE ResetSpend(r)
        BY <4>1, <4>3, <2>a DEF ResetSpend, Turn, MidReset, ResetReq, TypeOK
      <4>4. CASE Interrupt(r)
        BY <3>3, <4>4 DEF Interrupt, MidReset
      <4>5. ASSUME NEW t \in Requests, NEW q, req' = [req EXCEPT ![t] = q], t # r
            PROVE  req'[r] = req[r]
        BY <4>5, <2>a DEF TypeOK
      <4>6. req[r].op = "reset" /\ req[r] # Idle
        BY <4>1 DEF ResetReq, Idle
      <4>7. ASSUME NEW t \in Requests,
                   LoginSave(t) \/ Welcome(t) \/ Find(t) \/ GateClosed(t) \/ Refuse(t) \/ Rotate(t)
            PROVE  req'[r] = req[r]
        BY <4>5, <4>6, <4>7 DEF LoginSave, Welcome, Find, GateClosed, Refuse, Rotate, Turn, Done
      <4>8. ASSUME NEW t \in Requests, Deliver(t) \/ DeliverError(t) \/ Logout(t) \/ ClearTokens(t)
            PROVE  req'[r] = req[r]
        BY <4>5, <4>6, <4>8 DEF Deliver, DeliverError, Logout, ClearTokens, Turn, Done
      <4>9. ASSUME NEW t \in Requests, t # r, ResetSpend(t) \/ Interrupt(t)
            PROVE  req'[r] = req[r]
        BY <4>5, <4>9 DEF ResetSpend, Interrupt, Turn, Done
      <4>10. ASSUME NEW t \in Requests,
                    \/ \E c \in Clients : LoginRead(t, c) \/ Send(c, t) \/ LogoutSend(c, t)
                    \/ \E k \in Links : ResetRead(t, k)
             PROVE  req'[r] = req[r]
        BY <4>5, <4>6, <4>10 DEF LoginRead, Send, LogoutSend, ResetRead, Open
      <4>11. CASE \/ \E c \in Clients : GiveUp(c)
                  \/ \E s \in SessionIds : RevokeSession(s) \/ GraceEnds(s)
                  \/ UNCHANGED vars
        BY <4>2, <4>11 DEF GiveUp, RevokeSession, GraceEnds, vars
      <4>12. QED
        BY <4>2, <4>3, <4>4, <4>7, <4>8, <4>9, <4>10, <4>11, <2>3 DEF Next, Handle
    <3>4. ASSUME OldOnesOut, NEW r \in Requests, LoginSave(r) PROVE OldOnesOut'
      <4>1. req[r] \in LoginReq
        BY <3>4, <2>a, KindOfRequest DEF LoginSave, TypeOK
      <4>2. PICK s \in SessionIds :
              /\ session' = [session EXCEPT ![s] =
                    [device |-> req[r].client, current |-> 0, previous |-> None,
                     rotated |-> << >>, fresh |-> FALSE,
                     revoked |-> FALSE, opened |-> req[r].opened]]
              /\ stale' = IF req[r].opened # password THEN stale \cup {s} ELSE stale
        BY <3>4 DEF LoginSave
      <4>3. session'[s].opened = req[r].opened
        BY <4>2, <2>a DEF TypeOK
      <4>4. \A t \in SessionIds : t # s => session'[t] = session[t]
        BY <4>2, <2>a DEF TypeOK
      <4>5. QED
        BY <3>1, <3>4, <4>2, <4>3, <4>4 DEF OldOnesOut, Live
    <3>5. CASE OldOnesOut /\ ~\E r \in Requests : LoginSave(r)
      <4>1. UNCHANGED stale
        BY <2>3, <3>5 DEF Next, Handle, vars, LoginRead, Welcome, Send, Find, GateClosed, Refuse, Rotate,
           Deliver, DeliverError, GiveUp, Interrupt, LogoutSend, Logout, ClearTokens, ResetRead,
           ResetSpend, RevokeSession, GraceEnds
      <4>2. QED
        BY <3>1, <3>5, <4>1, <2>b, StaysOut
    <3>6. QED
      BY <3>2, <3>3, <3>4, <3>5, <2>b, <2>c
  <2>4. QED
    BY <2>1, <2>2, <2>3, <2>b
<1>3. Spec => []SessionsInv
  BY TypeCorrect, PTL
<1>4. QED
  BY <1>1, <1>2, <1>3, PTL DEF Spec

-----------------------------------------------------------------------------
(* The token a device stores is honoured.                                  *)

KeepsTokens(s) ==
  session[s] # None =>
     session'[s].current = session[s].current /\ session'[s].previous = session[s].previous

Rotates(r) == Rotate(r) /\ Unchanged(req[r].doc, session[req[r].token.sess])

\* Only a rotation changes the tokens of a session.
LEMMA TokensKept ==
  ASSUME SessionsInv, [Next]_vars, ~\E r \in Requests : Rotates(r)
  PROVE  \A s \in SessionIds : KeepsTokens(s)
<1>a. /\ session \in [SessionIds -> Documents \cup {None}]
      /\ \A r \in Requests : req[r] \in RequestStates
  BY DEF SessionsInv, TypeOK
<1>u. CASE UNCHANGED session
  BY <1>u DEF KeepsTokens
<1>1. ASSUME NEW t, NEW x, session' = [session EXCEPT ![t].revoked = x]
      PROVE  \A s \in SessionIds : KeepsTokens(s)
  BY <1>1, <1>a DEF KeepsTokens, Documents
<1>2. ASSUME NEW t \in SessionIds, GraceEnds(t) PROVE \A s \in SessionIds : KeepsTokens(s)
  BY <1>2, <1>a DEF GraceEnds, KeepsTokens, Documents
<1>3. ASSUME NEW r \in Requests, ResetRevoke(r) PROVE \A s \in SessionIds : KeepsTokens(s)
  BY <1>3, <1>a DEF ResetRevoke, Revoked, KeepsTokens, Documents
<1>4. ASSUME NEW r \in Requests, LoginSave(r) PROVE \A s \in SessionIds : KeepsTokens(s)
  BY <1>4, <1>a DEF LoginSave, KeepsTokens
<1>5. ASSUME NEW r \in Requests, Refuse(r) \/ Logout(r) PROVE \A s \in SessionIds : KeepsTokens(s)
  BY <1>5, <1>1 DEF Refuse, Logout
<1>6. ASSUME NEW t \in SessionIds, RevokeSession(t) PROVE \A s \in SessionIds : KeepsTokens(s)
  BY <1>6, <1>1 DEF RevokeSession
<1>7. ASSUME NEW r \in Requests, Rotate(r) PROVE \A s \in SessionIds : KeepsTokens(s)
  BY <1>7, <1>u DEF Rotate, Rotates
<1>8. QED
  BY <1>u, <1>2, <1>3, <1>4, <1>5, <1>6, <1>7
     DEF Next, Handle, vars, LoginRead, Welcome, Send, Find, GateClosed, Deliver, DeliverError,
         GiveUp, Interrupt, LogoutSend, ClearTokens, ResetRead, ResetPassword, ResetSpend

\* A request that goes on with the token it has.
Carried(q) ==
  /\ req[q].op \in TokenOps
  /\ req'[q].token = req[q].token /\ req'[q].client = req[q].client
  /\ req'[q].op \in {"refresh", "rotate"} => req[q].op \in {"refresh", "rotate"}
  /\ req'[q].op \in {"answer", "welcome"} => req'[q].op = req[q].op

\* A step that issues and stores no token and starts no exchange.
Calm ==
  /\ \A s \in SessionIds : KeepsTokens(s)
  /\ UNCHANGED overtaken
  /\ \A c \in Clients : stored'[c] = None \/ stored'[c] = stored[c]
  /\ \A c \in Clients : waiting'[c] = None \/ waiting'[c] = waiting[c]
  /\ \A q \in Requests : req'[q].op \in TokenOps =>
        \/ Carried(q)
        \/ req'[q].op = "logout" /\ \E c \in Clients : stored[c] # None /\ req'[q].token = stored[c]

\* What types and agreement say of a stored token and of one on its way.
LEMMA StoredFacts ==
  ASSUME SessionsInv, NEW c \in Clients, stored[c] # None
  PROVE  /\ stored[c].sess \in SessionIds /\ stored[c].num \in Nat
         /\ session[stored[c].sess] # None /\ session[stored[c].sess].device = c
         /\ session[stored[c].sess].current \in Nat
         /\ stored[c].num <= session[stored[c].sess].current
<1>1. stored[c] \in Tokens
  BY DEF SessionsInv, TypeOK
<1>2. /\ session[stored[c].sess] # None /\ session[stored[c].sess].device = c
      /\ stored[c].num <= session[stored[c].sess].current
  BY DEF SessionsInv, StoredAgrees
<1>3. session[stored[c].sess] \in Documents
  BY <1>1, <1>2 DEF SessionsInv, TypeOK, Tokens
<1>4. QED
  BY <1>1, <1>2, <1>3 DEF Tokens, Documents

LEMMA RequestFacts ==
  ASSUME SessionsInv, NEW r \in Requests, req[r].op \in TokenOps
  PROVE  /\ req[r].token.sess \in SessionIds /\ req[r].token.num \in Nat
         /\ req[r].client \in Clients
         /\ session[req[r].token.sess] # None
         /\ session[req[r].token.sess].device = req[r].client
         /\ session[req[r].token.sess].current \in Nat
         /\ req[r].token.num <= session[req[r].token.sess].current
<1>1. req[r].client \in Clients /\ req[r].token.sess \in SessionIds /\ req[r].token.num \in Nat
  BY TokenRequest DEF SessionsInv, TypeOK
<1>2. /\ session[req[r].token.sess] # None
      /\ session[req[r].token.sess].device = req[r].client
      /\ req[r].token.num <= session[req[r].token.sess].current
  BY DEF SessionsInv, RequestsAgree
<1>3. session[req[r].token.sess] \in Documents
  BY <1>1, <1>2 DEF SessionsInv, TypeOK
<1>4. QED
  BY <1>1, <1>2, <1>3 DEF Documents

LEMMA CalmStep ==
  ASSUME SessionsInv, HonouredInv, Calm
  PROVE  HonouredInv'
<1>a. HeldIsHonoured /\ WelcomeIsFirst /\ StoredLatest /\ AwaitedLatest /\ AnswerLatest
  BY DEF HonouredInv
<1>b. \A c \in Clients : stored'[c] # None =>
         /\ stored'[c] = stored[c] /\ stored[c] # None /\ stored[c].sess \in SessionIds
         /\ session'[stored[c].sess].current = session[stored[c].sess].current
         /\ session'[stored[c].sess].previous = session[stored[c].sess].previous
  BY StoredFacts DEF Calm, KeepsTokens
<1>c. ASSUME NEW q \in Requests, req'[q].op \in TokenOps \ {"logout"}
      PROVE  /\ req[q].op \in TokenOps /\ req'[q].token = req[q].token
             /\ req'[q].client = req[q].client
             /\ session'[req[q].token.sess].current = session[req[q].token.sess].current
             /\ session'[req[q].token.sess].previous = session[req[q].token.sess].previous
             /\ Awaited(q)' => Awaited(q)
             /\ req'[q].op \in {"refresh", "rotate"} => req[q].op \in {"refresh", "rotate"}
             /\ req'[q].op \in {"answer", "welcome"} => req'[q].op = req[q].op
  <2>1. Carried(q)
    BY <1>c DEF Calm
  <2>2. req[q].token.sess \in SessionIds /\ session[req[q].token.sess] # None
        /\ req[q].client \in Clients
    BY <2>1, RequestFacts DEF Carried
  <2>3. KeepsTokens(req[q].token.sess)
    BY <2>2 DEF Calm
  <2>4. Awaited(q)' => Awaited(q)
    BY <2>1, <2>2, SessionsAssumption DEF Awaited, Carried, Calm
  <2>5. QED
    BY <2>1, <2>2, <2>3, <2>4 DEF Carried, KeepsTokens
<1>d. \A q \in Requests : \A s : Presents(q, s)' => Presents(q, s) /\ req'[q].token = req[q].token
  BY <1>c DEF Presents, TokenOps
<1>1. HeldIsHonoured'
  BY <1>a, <1>b DEF HeldIsHonoured, Calm
<1>2. WelcomeIsFirst'
  <2> SUFFICES ASSUME NEW r \in Requests, req'[r].op = "welcome"
               PROVE  /\ req'[r].token.num = session'[req'[r].token.sess].current
                      /\ \A c \in Clients : stored'[c] # None => stored'[c].sess # req'[r].token.sess
                      /\ \A q \in Requests : req'[q].op \in TokenOps /\ q # r
                            => req'[q].token.sess # req'[r].token.sess
    BY DEF WelcomeIsFirst
  <2>1. /\ req[r].op = "welcome" /\ req'[r].token = req[r].token
        /\ session'[req[r].token.sess].current = session[req[r].token.sess].current
    BY <1>c DEF TokenOps
  <2>2. \A c \in Clients : stored[c] # None => stored[c].sess # req[r].token.sess
    BY <1>a, <2>1 DEF WelcomeIsFirst
  <2>3. ASSUME NEW q \in Requests, req'[q].op \in TokenOps, q # r
        PROVE  req'[q].token.sess # req'[r].token.sess
    <3>1. CASE Carried(q)
      BY <1>a, <2>1, <2>3, <3>1 DEF WelcomeIsFirst, Carried
    <3>2. CASE \E c \in Clients : stored[c] # None /\ req'[q].token = stored[c]
      BY <2>1, <2>2, <3>2
    <3>3. QED
      BY <2>3, <3>1, <3>2 DEF Calm
  <2>4. QED
    BY <1>a, <1>b, <2>1, <2>2, <2>3 DEF WelcomeIsFirst
<1>3. StoredLatest'
  BY <1>a, <1>b, <1>d DEF StoredLatest, Calm
<1>4. AwaitedLatest'
  <2> SUFFICES ASSUME NEW r \in Requests, NEW s \in SessionIds, s \notin overtaken,
                      Presents(r, s)', Awaited(r)'
               PROVE  /\ req'[r].token.num \in {session'[s].current, session'[s].previous}
                      /\ \A c \in Clients : stored'[c] # None /\ stored'[c].sess = s
                            => stored'[c].num = req'[r].token.num
                      /\ \A q \in Requests : Presents(q, s)' => req'[q].token.num <= req'[r].token.num
    BY DEF AwaitedLatest, Calm
  <2>1. /\ Presents(r, s) /\ Awaited(r) /\ req'[r].token = req[r].token
        /\ session'[s].current = session[s].current /\ session'[s].previous = session[s].previous
    BY <1>c, <1>d DEF Presents, TokenOps
  <2>2. /\ req[r].token.num \in {session[s].current, session[s].previous}
        /\ \A c \in Clients : stored[c] # None /\ stored[c].sess = s
              => stored[c].num = req[r].token.num
        /\ \A q \in Requests : Presents(q, s) => req[q].token.num <= req[r].token.num
    BY <1>a, <2>1 DEF AwaitedLatest
  <2>3. QED
    BY <1>b, <1>d, <2>1, <2>2
<1>5. AnswerLatest'
  <2> SUFFICES ASSUME NEW r \in Requests, NEW s \in SessionIds, s \notin overtaken,
                      req'[r].op = "answer", req'[r].token.sess = s, Awaited(r)'
               PROVE  /\ req'[r].token.num = session'[s].current
                      /\ \A q \in Requests : Presents(q, s)' => req'[q].token.num < req'[r].token.num
    BY DEF AnswerLatest, Calm
  <2>1. /\ req[r].op = "answer" /\ req[r].token.sess = s /\ Awaited(r) /\ req'[r].token = req[r].token
        /\ session'[s].current = session[s].current
    BY <1>c DEF TokenOps
  <2>2. /\ req[r].token.num = session[s].current
        /\ \A q \in Requests : Presents(q, s) => req[q].token.num < req[r].token.num
    BY <1>a, <2>1 DEF AnswerLatest
  <2>3. QED
    BY <1>d, <2>1, <2>2
<1>6. QED
  BY <1>1, <1>2, <1>3, <1>4, <1>5 DEF HonouredInv

\* A login's session is known to nobody but its answer.
LEMMA LoginHonoured ==
  ASSUME SessionsInv, HonouredInv, NEW r \in Requests, LoginSave(r)
  PROVE  HonouredInv'
<1>a. HeldIsHonoured /\ WelcomeIsFirst /\ StoredLatest /\ AwaitedLatest /\ AnswerLatest
  BY DEF HonouredInv
<1>1. PICK s \in SessionIds :
         /\ session[s] = None
         /\ session' = [session EXCEPT ![s] =
                [device |-> req[r].client, current |-> 0, previous |-> None,
                 rotated |-> << >>, fresh |-> FALSE, revoked |-> FALSE,
                 opened |-> req[r].opened]]
         /\ req' = [req EXCEPT ![r] = [op |-> "welcome", client |-> req[r].client,
                                       token |-> [sess |-> s, num |-> 0]]]
  BY DEF LoginSave, Turn
<1>2. UNCHANGED <<stored, waiting, overtaken>>
  BY DEF LoginSave, device
<1>3. session'[s].current = 0 /\ \A t \in SessionIds : t # s => session'[t] = session[t]
  BY <1>1 DEF SessionsInv, TypeOK
<1>4. /\ req'[r].op = "welcome" /\ req'[r].token.sess = s /\ req'[r].token.num = 0
      /\ \A q \in Requests : q # r => req'[q] = req[q]
  BY <1>1 DEF SessionsInv, TypeOK
<1>5. \A c \in Clients : stored[c] # None => stored[c].sess \in SessionIds /\ stored[c].sess # s
  BY <1>1, StoredFacts
<1>6. \A q \in Requests : req[q].op \in TokenOps =>
         req[q].token.sess \in SessionIds /\ req[q].token.sess # s
  BY <1>1, RequestFacts
<1>7. \A q \in Requests : \A t : Presents(q, t)' =>
         /\ Presents(q, t) /\ req'[q] = req[q] /\ t # s /\ t \in SessionIds
  BY <1>4, <1>6 DEF Presents, TokenOps
<1>8. HeldIsHonoured'
  BY <1>a, <1>2, <1>3, <1>5 DEF HeldIsHonoured
<1>9. WelcomeIsFirst'
  <2> SUFFICES ASSUME NEW x \in Requests, req'[x].op = "welcome"
               PROVE  /\ req'[x].token.num = session'[req'[x].token.sess].current
                      /\ \A c \in Clients : stored[c] # None => stored[c].sess # req'[x].token.sess
                      /\ \A q \in Requests : req'[q].op \in TokenOps /\ q # x
                            => req'[q].token.sess # req'[x].token.sess
    BY <1>2 DEF WelcomeIsFirst
  <2>1. CASE x = r
    BY <1>3, <1>4, <1>5, <1>6, <2>1
  <2>2. CASE x # r
    <3>1. req'[x] = req[x] /\ req[x].token.sess # s /\ req[x].token.sess \in SessionIds
      BY <1>4, <1>6, <2>2 DEF TokenOps
    <3>2. QED
      BY <1>a, <1>3, <1>4, <2>2, <3>1 DEF WelcomeIsFirst
  <2>3. QED
    BY <2>1, <2>2
<1>10. StoredLatest'
  BY <1>a, <1>2, <1>7 DEF StoredLatest
<1>11. AwaitedLatest'
  BY <1>a, <1>2, <1>3, <1>7 DEF AwaitedLatest, Awaited
<1>12. AnswerLatest'
  <2> SUFFICES ASSUME NEW x \in Requests, NEW t \in SessionIds \ overtaken,
                      req'[x].op = "answer", req'[x].token.sess = t, Awaited(x)'
               PROVE  /\ req'[x].token.num = session'[t].current
                      /\ \A q \in Requests : Presents(q, t)' => req'[q].token.num < req'[x].token.num
    BY <1>2 DEF AnswerLatest
  <2>1. x # r /\ req'[x] = req[x] /\ t # s /\ Awaited(x)
    BY <1>2, <1>4, <1>6 DEF TokenOps, Awaited
  <2>2. QED
    BY <1>a, <1>3, <1>7, <2>1 DEF AnswerLatest
<1>13. QED
  BY <1>8, <1>9, <1>10, <1>11, <1>12 DEF HonouredInv

\* The answer to a login is the first a device hears of the session.
LEMMA WelcomeHonoured ==
  ASSUME SessionsInv, HonouredInv, NEW r \in Requests, Welcome(r)
  PROVE  HonouredInv'
<1>a. HeldIsHonoured /\ WelcomeIsFirst /\ StoredLatest /\ AwaitedLatest /\ AnswerLatest
  BY DEF HonouredInv
<1> DEFINE s == req[r].token.sess
           c == req[r].client
<1>1. req[r].op = "welcome" /\ stored' = [stored EXCEPT ![c] = req[r].token]
      /\ UNCHANGED <<session, waiting, overtaken>>
  BY DEF Welcome, history
<1>2. c \in Clients /\ s \in SessionIds
  BY <1>1, RequestFacts DEF TokenOps
<1>3. stored'[c] = req[r].token /\ \A b \in Clients : b # c => stored'[b] = stored[b]
  BY <1>1, <1>2 DEF SessionsInv, TypeOK
<1>4. \A q \in Requests : req'[q] = req[q] \/ (q = r /\ req'[q].op = "idle")
  BY DEF Welcome, Done, Idle, SessionsInv, TypeOK
<1>5. /\ req[r].token.num = session[s].current
      /\ \A b \in Clients : stored[b] # None => stored[b].sess # s
      /\ \A q \in Requests : req[q].op \in TokenOps /\ q # r => req[q].token.sess # s
  BY <1>a, <1>1 DEF WelcomeIsFirst
<1>6. \A q \in Requests : \A t : Presents(q, t)' => Presents(q, t) /\ req'[q] = req[q] /\ t # s
  BY <1>1, <1>4, <1>5 DEF Presents, TokenOps
<1>7. HeldIsHonoured'
  BY <1>a, <1>1, <1>3, <1>5 DEF HeldIsHonoured
<1>8. WelcomeIsFirst'
  <2> SUFFICES ASSUME NEW x \in Requests, req'[x].op = "welcome"
               PROVE  /\ req'[x].token.num = session'[req'[x].token.sess].current
                      /\ \A b \in Clients : stored'[b] # None => stored'[b].sess # req'[x].token.sess
                      /\ \A q \in Requests : req'[q].op \in TokenOps /\ q # x
                            => req'[q].token.sess # req'[x].token.sess
    BY DEF WelcomeIsFirst
  <2>1. x # r /\ req'[x] = req[x] /\ req[x].token.sess # s
    BY <1>1, <1>4, <1>5 DEF TokenOps, Welcome, Done, Idle, SessionsInv, TypeOK
  <2>2. \A q \in Requests : req'[q].op \in TokenOps => req'[q] = req[q]
    BY <1>4 DEF TokenOps
  <2>3. QED
    BY <1>a, <1>1, <1>3, <2>1, <2>2 DEF WelcomeIsFirst
<1>9. StoredLatest'
  BY <1>a, <1>1, <1>3, <1>6 DEF StoredLatest
<1>10. AwaitedLatest'
  BY <1>a, <1>1, <1>3, <1>6 DEF AwaitedLatest, Awaited
<1>11. AnswerLatest'
  BY <1>a, <1>1, <1>4, <1>6 DEF AnswerLatest, Awaited
<1>12. QED
  BY <1>7, <1>8, <1>9, <1>10, <1>11 DEF HonouredInv

\* A device that asks for an exchange presents the token it stores.
LEMMA SendHonoured ==
  ASSUME SessionsInv, HonouredInv, NEW r \in Requests, NEW c \in Clients, Send(c, r)
  PROVE  HonouredInv'
<1>a. HeldIsHonoured /\ WelcomeIsFirst /\ StoredLatest /\ AwaitedLatest /\ AnswerLatest
  BY DEF HonouredInv
<1> DEFINE s == stored[c].sess
<1>1. /\ stored[c] # None /\ waiting[c] = None /\ req[r] = Idle
      /\ UNCHANGED <<session, stored, overtaken>>
  BY DEF Send, Open, history
<1>2. /\ req'[r].op = "refresh" /\ req'[r].client = c /\ req'[r].token = stored[c]
      /\ \A q \in Requests : q # r => req'[q] = req[q]
  BY DEF Send, Open, SessionsInv, TypeOK
<1>3. waiting'[c] = r /\ \A b \in Clients : b # c => waiting'[b] = waiting[b]
  BY DEF Send, SessionsInv, TypeOK
<1>4. s \in SessionIds /\ stored[c].num \in Nat /\ session[s].device = c
  BY <1>1, StoredFacts
<1>5. \A b \in Clients : stored[b] # None /\ stored[b].sess = s => b = c
  BY <1>4, StoredFacts
<1>6. ASSUME NEW q \in Requests, q # r, req[q].op \in TokenOps, Awaited(q)'
      PROVE  Awaited(q) /\ req[q].token.sess # s
  <2>1. req[q].client \in Clients /\ session[req[q].token.sess].device = req[q].client
    BY <1>6, RequestFacts
  <2>2. waiting'[req[q].client] = q
    BY <1>2, <1>6 DEF Awaited
  <2>3. req[q].client # c /\ waiting[req[q].client] = q
    BY <1>3, <1>6, <2>1, <2>2
  <2>4. QED
    BY <1>4, <2>1, <2>3 DEF Awaited
<1>7. \A q \in Requests : \A t : Presents(q, t)' =>
         \/ q = r /\ t = s
         \/ q # r /\ Presents(q, t) /\ req'[q] = req[q]
  BY <1>2 DEF Presents
<1>8. HeldIsHonoured'
  BY <1>a, <1>1 DEF HeldIsHonoured
<1>9. WelcomeIsFirst'
  <2> SUFFICES ASSUME NEW x \in Requests, req'[x].op = "welcome"
               PROVE  /\ req'[x].token.num = session'[req'[x].token.sess].current
                      /\ \A b \in Clients : stored[b] # None => stored[b].sess # req'[x].token.sess
                      /\ \A q \in Requests : req'[q].op \in TokenOps /\ q # x
                            => req'[q].token.sess # req'[x].token.sess
    BY <1>1 DEF WelcomeIsFirst
  <2>1. x # r /\ req'[x] = req[x]
    BY <1>2
  <2>2. QED
    BY <1>a, <1>1, <1>2, <2>1 DEF WelcomeIsFirst
<1>10. StoredLatest'
  <2> SUFFICES ASSUME NEW b \in Clients, NEW q \in Requests, NEW t, stored[b] # None,
                      t = stored[b].sess, t \notin overtaken, Presents(q, t)'
               PROVE  req'[q].token.num <= stored[b].num
    BY <1>1 DEF StoredLatest, Presents
  <2>1. CASE q = r
    BY <1>2, <1>4, <1>5, <1>7, <2>1
  <2>2. CASE q # r
    BY <1>a, <1>7, <2>2 DEF StoredLatest
  <2>3. QED
    BY <2>1, <2>2
<1>11. AwaitedLatest'
  <2> SUFFICES ASSUME NEW x \in Requests, NEW t \in SessionIds, t \notin overtaken,
                      Presents(x, t)', Awaited(x)'
               PROVE  /\ req'[x].token.num \in {session[t].current, session[t].previous}
                      /\ \A b \in Clients : stored[b] # None /\ stored[b].sess = t
                            => stored[b].num = req'[x].token.num
                      /\ \A q \in Requests : Presents(q, t)' => req'[q].token.num <= req'[x].token.num
    BY <1>1 DEF AwaitedLatest
  <2>1. CASE x = r
    <3>1. t = s
      BY <1>7, <2>1
    <3>2. \A q \in Requests : Presents(q, t)' => req'[q].token.num <= stored[c].num
      BY <1>a, <1>1, <1>2, <1>4, <1>7, <3>1 DEF StoredLatest
    <3>3. QED
      BY <1>a, <1>1, <1>2, <1>5, <2>1, <3>1, <3>2 DEF HeldIsHonoured
  <2>2. CASE x # r
    <3>1. Presents(x, t) /\ req'[x] = req[x]
      BY <1>7, <2>2
    <3>2. Awaited(x) /\ t # s
      BY <1>6, <2>2, <3>1 DEF Presents, TokenOps
    <3>3. QED
      BY <1>a, <1>7, <3>1, <3>2 DEF AwaitedLatest
  <2>3. QED
    BY <2>1, <2>2
<1>12. AnswerLatest'
  <2> SUFFICES ASSUME NEW x \in Requests, NEW t \in SessionIds, t \notin overtaken,
                      req'[x].op = "answer", req'[x].token.sess = t, Awaited(x)'
               PROVE  /\ req'[x].token.num = session[t].current
                      /\ \A q \in Requests : Presents(q, t)' => req'[q].token.num < req'[x].token.num
    BY <1>1 DEF AnswerLatest
  <2>1. x # r /\ req'[x] = req[x]
    BY <1>2
  <2>2. Awaited(x) /\ t # s
    BY <1>6, <2>1 DEF TokenOps
  <2>3. QED
    BY <1>a, <1>7, <2>1, <2>2 DEF AnswerLatest
<1>13. QED
  BY <1>8, <1>9, <1>10, <1>11, <1>12 DEF HonouredInv

\* The answer a device waits for carries its session's current token.
LEMMA DeliverHonoured ==
  ASSUME SessionsInv, HonouredInv, NEW r \in Requests, Deliver(r), Awaited(r)
  PROVE  HonouredInv'
<1>a. HeldIsHonoured /\ WelcomeIsFirst /\ StoredLatest /\ AwaitedLatest /\ AnswerLatest
  BY DEF HonouredInv
<1> DEFINE s == req[r].token.sess
           c == req[r].client
<1>1. /\ req[r].op = "answer" /\ waiting[c] = r
      /\ stored' = [stored EXCEPT ![c] = req[r].token]
      /\ UNCHANGED <<session, overtaken>>
  BY DEF Deliver, Awaited, history
<1>2. /\ c \in Clients /\ s \in SessionIds /\ req[r].token.num \in Nat
      /\ session[s].device = c
  BY <1>1, RequestFacts DEF TokenOps
<1>3. stored'[c] = req[r].token /\ \A b \in Clients : b # c => stored'[b] = stored[b]
  BY <1>1, <1>2 DEF SessionsInv, TypeOK
<1>4. /\ req'[r] = Idle
      /\ \A q \in Requests : q # r => req'[q] = req[q]
  BY DEF Deliver, Done, SessionsInv, TypeOK
<1>5. ASSUME NEW q \in Requests, req'[q].op \in TokenOps
      PROVE  /\ q # r /\ req'[q] = req[q]
             /\ Awaited(q)' => Awaited(q) /\ req[q].token.sess # s
  <2>1. q # r /\ req'[q] = req[q]
    BY <1>4, <1>5 DEF Idle, TokenOps
  <2>2. req[q].client \in Clients /\ session[req[q].token.sess].device = req[q].client
    BY <1>5, <2>1, RequestFacts
  <2>3. Awaited(q)' => Awaited(q)
    BY <2>1, <2>2, SessionsAssumption DEF Awaited, Deliver, Stop
  <2>4. Awaited(q) => req[q].token.sess # s
    BY <1>1, <1>2, <2>1, <2>2 DEF Awaited
  <2>5. QED
    BY <2>1, <2>3, <2>4
<1>6. \A q \in Requests : \A t : Presents(q, t)' => Presents(q, t) /\ req'[q] = req[q]
  BY <1>5 DEF Presents, TokenOps
<1>7. s \notin overtaken =>
         /\ req[r].token.num = session[s].current
         /\ \A q \in Requests : Presents(q, s) => req[q].token.num < req[r].token.num
  BY <1>a, <1>1, <1>2 DEF AnswerLatest, Awaited
<1>8. HeldIsHonoured'
  BY <1>a, <1>1, <1>3, <1>7 DEF HeldIsHonoured
<1>9. WelcomeIsFirst'
  <2> SUFFICES ASSUME NEW x \in Requests, req'[x].op = "welcome"
               PROVE  /\ req'[x].token.num = session'[req'[x].token.sess].current
                      /\ \A b \in Clients : stored'[b] # None => stored'[b].sess # req'[x].token.sess
                      /\ \A q \in Requests : req'[q].op \in TokenOps /\ q # x
                            => req'[q].token.sess # req'[x].token.sess
    BY DEF WelcomeIsFirst
  <2>1. x # r /\ req'[x] = req[x] /\ \A q \in Requests : req'[q].op \in TokenOps => req'[q] = req[q]
    BY <1>5 DEF TokenOps
  <2>2. req[x].token.sess # s
    BY <1>a, <1>1, <2>1 DEF WelcomeIsFirst, TokenOps
  <2>3. QED
    BY <1>a, <1>1, <1>3, <2>1, <2>2 DEF WelcomeIsFirst
<1>10. StoredLatest'
  <2> SUFFICES ASSUME NEW b \in Clients, NEW q \in Requests, NEW t, stored'[b] # None,
                      t = stored'[b].sess, t \notin overtaken, Presents(q, t)'
               PROVE  req'[q].token.num <= stored'[b].num
    BY <1>1 DEF StoredLatest, Presents
  <2>1. Presents(q, t) /\ req'[q] = req[q]
    BY <1>6
  <2>2. CASE b = c
    <3>1. req[q].token.num \in Nat
      BY <2>1, RequestFacts DEF Presents, TokenOps
    <3>2. QED
      BY <1>2, <1>3, <1>7, <2>1, <2>2, <3>1
  <2>3. CASE b # c
    BY <1>a, <1>3, <2>1, <2>3 DEF StoredLatest
  <2>4. QED
    BY <2>2, <2>3
<1>11. AwaitedLatest'
  <2> SUFFICES ASSUME NEW x \in Requests, NEW t \in SessionIds, t \notin overtaken,
                      Presents(x, t)', Awaited(x)'
               PROVE  /\ req'[x].token.num \in {session[t].current, session[t].previous}
                      /\ \A b \in Clients : stored'[b] # None /\ stored'[b].sess = t
                            => stored'[b].num = req'[x].token.num
                      /\ \A q \in Requests : Presents(q, t)' => req'[q].token.num <= req'[x].token.num
    BY <1>1 DEF AwaitedLatest
  <2>1. Presents(x, t) /\ req'[x] = req[x] /\ Awaited(x) /\ t # s
    BY <1>5 DEF Presents, TokenOps
  <2>2. \A b \in Clients : stored'[b] # None /\ stored'[b].sess = t => stored'[b] = stored[b]
    BY <1>3, <2>1
  <2>3. QED
    BY <1>a, <1>6, <2>1, <2>2 DEF AwaitedLatest
<1>12. AnswerLatest'
  <2> SUFFICES ASSUME NEW x \in Requests, NEW t \in SessionIds, t \notin overtaken,
                      req'[x].op = "answer", req'[x].token.sess = t, Awaited(x)'
               PROVE  /\ req'[x].token.num = session[t].current
                      /\ \A q \in Requests : Presents(q, t)' => req'[q].token.num < req'[x].token.num
    BY <1>1 DEF AnswerLatest
  <2>1. req'[x] = req[x] /\ Awaited(x)
    BY <1>5 DEF TokenOps
  <2>2. QED
    BY <1>a, <1>6, <2>1 DEF AnswerLatest
<1>13. QED
  BY <1>8, <1>9, <1>10, <1>11, <1>12 DEF HonouredInv

\* A rotation retires the token its device stores, unless it overtakes it.
LEMMA RotateHonoured ==
  ASSUME SessionsInv, HonouredInv, NEW r \in Requests, Rotates(r)
  PROVE  HonouredInv'
<1>a. HeldIsHonoured /\ WelcomeIsFirst /\ StoredLatest /\ AwaitedLatest /\ AnswerLatest
  BY DEF HonouredInv
<1> DEFINE s == req[r].token.sess
           n == req[r].token.num
           c == req[r].client
           cur == session[s].current
<1>1. /\ req[r].op = "rotate" /\ req[r].doc.current = cur
      /\ UNCHANGED <<stored, waiting>>
      /\ overtaken' = IF ~Awaited(r) /\ cur # n THEN overtaken \cup {s} ELSE overtaken
  BY Zenon DEF Rotates, Rotate, Unchanged, device
<1>2. /\ c \in Clients /\ s \in SessionIds /\ n \in Nat /\ cur \in Nat /\ n <= cur
      /\ session[s].device = c
  BY <1>1, RequestFacts DEF TokenOps
<1>3. /\ session'[s].current = cur + 1
      /\ session'[s].previous = (IF cur = n THEN n ELSE session[s].previous)
      /\ n \in {cur, session[s].previous}
      /\ session' = [session EXCEPT ![s] = session'[s]]
  BY RotateWrites DEF Rotates
<1>4. \A t \in SessionIds : t # s => session'[t] = session[t]
  BY <1>3 DEF SessionsInv, TypeOK
<1>5. req' = [req EXCEPT ![r] = [op |-> "answer", client |-> c,
                                 token |-> [sess |-> s, num |-> cur + 1]]]
  BY Zenon DEF Rotates, Rotate, Turn
<1>6. /\ req'[r].op = "answer" /\ req'[r].client = c
      /\ req'[r].token.sess = s /\ req'[r].token.num = cur + 1
      /\ \A q \in Requests : q # r => req'[q] = req[q]
  BY <1>5 DEF SessionsInv, TypeOK
<1>7. Presents(r, s)
  BY <1>1 DEF Presents
<1>8. ASSUME NEW q \in Requests, q # r, req[q].op \in TokenOps, Awaited(q)'
      PROVE  Awaited(q) /\ (req[q].token.sess = s => ~Awaited(r))
  <2>1. req[q].client \in Clients /\ session[req[q].token.sess].device = req[q].client
    BY <1>8, RequestFacts
  <2>2. waiting[req[q].client] = q
    BY <1>1, <1>6, <1>8 DEF Awaited
  <2>3. QED
    BY <1>2, <1>8, <2>1, <2>2 DEF Awaited
<1>9. \A q \in Requests : \A t : Presents(q, t)' => q # r /\ Presents(q, t) /\ req'[q] = req[q]
  BY <1>6 DEF Presents
<1>10. \A q \in Requests : Presents(q, s) => req[q].token.num \in Nat /\ req[q].token.num <= cur
  BY RequestFacts DEF Presents, TokenOps
<1>11. s \notin overtaken' => s \notin overtaken /\ (Awaited(r) \/ cur = n)
  BY <1>1
<1>12. ASSUME s \notin overtaken', NEW b \in Clients, stored[b] # None, stored[b].sess = s
       PROVE  stored[b].num = n
  <2>1. stored[b].num \in Nat /\ stored[b].num <= cur
    BY <1>12, StoredFacts
  <2>2. CASE Awaited(r)
    BY <1>a, <1>2, <1>7, <1>11, <1>12, <2>2 DEF AwaitedLatest
  <2>3. CASE cur = n
    BY <1>a, <1>2, <1>7, <1>11, <1>12, <2>1, <2>3 DEF StoredLatest
  <2>4. QED
    BY <1>11, <1>12, <2>2, <2>3
<1>13. \A t \in SessionIds : t # s /\ t \notin overtaken' => t \notin overtaken
  BY <1>1
<1>14. HeldIsHonoured'
  <2> SUFFICES ASSUME NEW b \in Clients, stored[b] # None, stored[b].sess \notin overtaken'
               PROVE  stored[b].num \in {session'[stored[b].sess].current, session'[stored[b].sess].previous}
    BY <1>1 DEF HeldIsHonoured
  <2>1. stored[b].sess \in SessionIds
    BY StoredFacts
  <2>2. CASE stored[b].sess = s
    BY <1>3, <1>12, <2>2
  <2>3. CASE stored[b].sess # s
    BY <1>a, <1>4, <1>13, <2>1, <2>3 DEF HeldIsHonoured
  <2>4. QED
    BY <2>2, <2>3
<1>15. WelcomeIsFirst'
  <2> SUFFICES ASSUME NEW x \in Requests, req'[x].op = "welcome"
               PROVE  /\ req'[x].token.num = session'[req'[x].token.sess].current
                      /\ \A b \in Clients : stored[b] # None => stored[b].sess # req'[x].token.sess
                      /\ \A q \in Requests : req'[q].op \in TokenOps /\ q # x
                            => req'[q].token.sess # req'[x].token.sess
    BY <1>1 DEF WelcomeIsFirst
  <2>1. x # r /\ req'[x] = req[x] /\ req[x].op \in TokenOps
    BY <1>6 DEF TokenOps
  <2>2. req[x].token.sess # s /\ req[x].token.sess \in SessionIds
    BY <1>a, <1>1, <2>1, RequestFacts DEF WelcomeIsFirst, TokenOps
  <2>3. QED
    BY <1>a, <1>4, <1>6, <2>1, <2>2 DEF WelcomeIsFirst
<1>16. StoredLatest'
  <2> SUFFICES ASSUME NEW b \in Clients, NEW q \in Requests, NEW t, stored[b] # None,
                      t = stored[b].sess, t \notin overtaken', Presents(q, t)'
               PROVE  req'[q].token.num <= stored[b].num
    BY <1>1 DEF StoredLatest, Presents
  <2>1. t \notin overtaken
    BY <1>1
  <2>2. QED
    BY <1>a, <1>9, <2>1 DEF StoredLatest
<1>17. AwaitedLatest'
  <2> SUFFICES ASSUME NEW x \in Requests, NEW t \in SessionIds, t \notin overtaken',
                      Presents(x, t)', Awaited(x)'
               PROVE  /\ req'[x].token.num \in {session'[t].current, session'[t].previous}
                      /\ \A b \in Clients : stored[b] # None /\ stored[b].sess = t
                            => stored[b].num = req'[x].token.num
                      /\ \A q \in Requests : Presents(q, t)' => req'[q].token.num <= req'[x].token.num
    BY <1>1 DEF AwaitedLatest
  <2>1. x # r /\ Presents(x, t) /\ req'[x] = req[x]
    BY <1>9
  <2>2. Awaited(x) /\ (t = s => ~Awaited(r))
    BY <1>8, <2>1 DEF Presents, TokenOps
  <2>3. t \notin overtaken
    BY <1>1
  <2>4. /\ req[x].token.num \in {session[t].current, session[t].previous}
        /\ \A b \in Clients : stored[b] # None /\ stored[b].sess = t
              => stored[b].num = req[x].token.num
        /\ \A q \in Requests : Presents(q, t) => req[q].token.num <= req[x].token.num
    BY <1>a, <2>1, <2>2, <2>3 DEF AwaitedLatest
  <2>5. req[x].token.num \in {session'[t].current, session'[t].previous}
    <3>1. CASE t = s
      <4>1. cur = n
        BY <1>11, <2>2, <3>1
      <4>2. req[x].token.num = n
        BY <1>2, <1>7, <1>10, <2>1, <2>4, <3>1, <4>1
      <4>3. QED
        BY <1>3, <3>1, <4>1, <4>2
    <3>2. CASE t # s
      BY <1>4, <2>4, <3>2
    <3>3. QED
      BY <3>1, <3>2
  <2>6. QED
    BY <1>9, <2>1, <2>4, <2>5
<1>18. AnswerLatest'
  <2> SUFFICES ASSUME NEW x \in Requests, NEW t \in SessionIds, t \notin overtaken',
                      req'[x].op = "answer", req'[x].token.sess = t, Awaited(x)'
               PROVE  /\ req'[x].token.num = session'[t].current
                      /\ \A q \in Requests : Presents(q, t)' => req'[q].token.num < req'[x].token.num
    BY <1>1 DEF AnswerLatest
  <2>0. t \notin overtaken
    BY <1>1
  <2>1. CASE x = r
    <3>1. t = s /\ req'[x].token.num = cur + 1
      BY <1>6, <2>1
    <3>2. \A q \in Requests : Presents(q, t)' => req'[q].token.num < cur + 1
      BY <1>2, <1>9, <1>10, <3>1
    <3>3. QED
      BY <1>3, <3>1, <3>2
  <2>2. CASE x # r
    <3>1. req'[x] = req[x] /\ req[x].op = "answer" /\ req[x].token.sess = t
      BY <1>6, <2>2
    <3>2. Awaited(x) /\ (t = s => ~Awaited(r))
      BY <1>8, <2>2, <3>1 DEF TokenOps
    <3>3. /\ req[x].token.num = session[t].current
          /\ \A q \in Requests : Presents(q, t) => req[q].token.num < req[x].token.num
      BY <1>a, <2>0, <3>1, <3>2 DEF AnswerLatest
    <3>4. t # s
      BY <1>2, <1>7, <1>11, <3>2, <3>3
    <3>5. QED
      BY <1>4, <1>9, <3>1, <3>3, <3>4
  <2>3. QED
    BY <2>1, <2>2
<1>19. QED
  BY <1>14, <1>15, <1>16, <1>17, <1>18 DEF HonouredInv

\* Every other step neither issues nor stores a token.
LEMMA OthersCalm ==
  ASSUME SessionsInv, [Next]_vars,
         ~\E r \in Requests : Rotates(r) \/ LoginSave(r) \/ Welcome(r) \/ (Deliver(r) /\ Awaited(r)),
         ~\E c \in Clients, r \in Requests : Send(c, r)
  PROVE  Calm
<1>a. /\ stored \in [Clients -> Tokens \cup {None}] /\ waiting \in [Clients -> Requests \cup {None}]
      /\ req \in [Requests -> RequestStates]
  BY DEF SessionsInv, TypeOK
<1>1. \A s \in SessionIds : KeepsTokens(s)
  BY TokensKept
<1>2. UNCHANGED overtaken
  <2>1. ASSUME NEW r \in Requests, Rotate(r) PROVE UNCHANGED overtaken
    BY <2>1 DEF Rotate, Rotates
  <2>2. QED
    BY <2>1 DEF Next, Handle, vars, history, LoginRead, Find, GateClosed, Refuse, Deliver, DeliverError,
         GiveUp, Interrupt, LogoutSend, Logout, ClearTokens, ResetRead, ResetPassword, ResetSpend,
         ResetRevoke, RevokeSession, GraceEnds
<1>3. \A c \in Clients : stored'[c] = None \/ stored'[c] = stored[c]
  <2>1. ASSUME NEW r \in Requests, Deliver(r) PROVE UNCHANGED stored
    BY <2>1 DEF Deliver
  <2>2. ASSUME NEW r \in Requests, DeliverError(r) \/ ClearTokens(r)
        PROVE  \A c \in Clients : stored'[c] = None \/ stored'[c] = stored[c]
    BY <2>2, <1>a DEF DeliverError, ClearTokens
  <2>3. QED
    BY <2>1, <2>2 DEF Next, Handle, vars, device, LoginRead, Find, GateClosed, Refuse, Rotate,
         GiveUp, Interrupt, LogoutSend, Logout, ResetRead, ResetPassword, ResetSpend,
         ResetRevoke, RevokeSession, GraceEnds
<1>4. \A c \in Clients : waiting'[c] = None \/ waiting'[c] = waiting[c]
  <2>1. ASSUME NEW r \in Requests, Deliver(r) \/ DeliverError(r) \/ Interrupt(r)
        PROVE  \A c \in Clients : waiting'[c] = None \/ waiting'[c] = waiting[c]
    BY <2>1 DEF Deliver, DeliverError, Interrupt, Stop
  <2>2. ASSUME NEW b \in Clients, GiveUp(b)
        PROVE  \A c \in Clients : waiting'[c] = None \/ waiting'[c] = waiting[c]
    BY <2>2, <1>a DEF GiveUp
  <2>3. QED
    BY <2>1, <2>2 DEF Next, Handle, vars, device, LoginRead, Find, GateClosed, Refuse, Rotate,
         LogoutSend, Logout, ClearTokens, ResetRead, ResetPassword, ResetSpend,
         ResetRevoke, RevokeSession, GraceEnds
<1>5. ASSUME NEW q \in Requests, req'[q].op \in TokenOps
      PROVE  \/ Carried(q)
             \/ req'[q].op = "logout" /\ \E c \in Clients : stored[c] # None /\ req'[q].token = stored[c]
  <2>1. CASE req'[q] = req[q]
    BY <1>5, <2>1 DEF Carried, TokenOps
  <2>2. ASSUME NEW r \in Requests, NEW x, req' = [req EXCEPT ![r] = x], x.op \notin TokenOps
        PROVE  req'[q] = req[q]
    BY <2>2, <1>5, <1>a
  <2>3. ASSUME NEW r \in Requests, Find(r) PROVE Carried(q)
    <3>1. /\ req[r].op = "refresh"
          /\ req' = [req EXCEPT ![r] = [op |-> "rotate", client |-> req[r].client, token |-> req[r].token,
                                        doc |-> session[req[r].token.sess]]]
      BY <2>3 DEF Find, Turn
    <3>2. QED
      BY <1>5, <1>a, <3>1 DEF Carried, TokenOps
  <2>4. ASSUME NEW r \in Requests, NEW c \in Clients, LogoutSend(c, r), req'[q] # req[q]
        PROVE  req'[q].op = "logout" /\ \E b \in Clients : stored[b] # None /\ req'[q].token = stored[b]
    <3>1. q = r /\ req'[q] = [op |-> "logout", client |-> c, token |-> stored[c]]
      BY <2>4, <1>a DEF LogoutSend, Open
    <3>2. stored[c] # None
      BY <2>4 DEF LogoutSend
    <3>3. QED
      BY <3>1, <3>2
  <2>5. ASSUME NEW r \in Requests,
               \/ GateClosed(r) \/ Refuse(r) \/ Deliver(r) \/ DeliverError(r) \/ Logout(r) \/ ClearTokens(r)
               \/ ResetRevoke(r) \/ Interrupt(r) \/ Rotate(r) \/ \E c \in Clients : LoginRead(r, c)
               \/ \E k \in Links : ResetRead(r, k)
        PROVE  req'[q] = req[q]
    BY <2>2, <2>5 DEF GateClosed, Refuse, Deliver, DeliverError, Logout, ClearTokens, ResetRevoke,
         Interrupt, Rotate, Rotates, LoginRead, ResetRead, Open, Turn, Done, Idle, TokenOps
  <2>6. ASSUME NEW r \in Requests, ResetPassword(r) \/ ResetSpend(r) PROVE req'[q] = req[q]
    <3>1. req[r] \in ResetReq
      BY <2>6, <1>a, KindOfRequest DEF ResetPassword, ResetSpend
    <3>2. \A y \in {"used", "revoke"} : [req[r] EXCEPT !.phase = y].op \notin TokenOps
      BY <3>1 DEF ResetReq, TokenOps
    <3>3. QED
      BY <2>2, <2>6, <3>2 DEF ResetPassword, ResetSpend, Turn
  <2>7. QED
    BY <2>1, <2>3, <2>4, <2>5, <2>6
       DEF Next, Handle, vars, GiveUp, RevokeSession, GraceEnds
<1>6. QED
  BY <1>1, <1>2, <1>3, <1>4, <1>5 DEF Calm

\* HeldIsHonoured: no order of refreshes, lost answers and retries leaves on
\* a device a token its session would take for a stolen one, unless an
\* exchange given up on took the one retry the grace window allows.
THEOREM Honours == Spec => []HeldIsHonoured
<1>1. Init => HonouredInv
  BY DEF Init, HonouredInv, HeldIsHonoured, WelcomeIsFirst, StoredLatest, AwaitedLatest, AnswerLatest,
         Presents, Idle
<1>2. SessionsInv /\ HonouredInv /\ [Next]_vars => HonouredInv'
  <2> SUFFICES ASSUME SessionsInv, HonouredInv, [Next]_vars PROVE HonouredInv'
    OBVIOUS
  <2>1. CASE \E r \in Requests : Rotates(r)
    BY <2>1, RotateHonoured
  <2>2. CASE \E r \in Requests : LoginSave(r)
    BY <2>2, LoginHonoured
  <2>3. CASE \E r \in Requests : Welcome(r)
    BY <2>3, WelcomeHonoured
  <2>4. CASE \E r \in Requests : Deliver(r) /\ Awaited(r)
    BY <2>4, DeliverHonoured
  <2>5. CASE \E c \in Clients, r \in Requests : Send(c, r)
    BY <2>5, SendHonoured
  <2>6. QED
    BY <2>1, <2>2, <2>3, <2>4, <2>5, OthersCalm, CalmStep
<1>3. HonouredInv => HeldIsHonoured
  BY DEF HonouredInv
<1>4. Spec => []SessionsInv
  BY TypeCorrect, PTL
<1>5. QED
  BY <1>1, <1>2, <1>3, <1>4, PTL DEF Spec

-----------------------------------------------------------------------------
\* What is read of a session when its stage is told.
SameNumber(s) ==
  /\ session'[s] = None <=> session[s] = None
  /\ session[s] # None => session'[s].current = session[s].current

SameStanding(s) == SameNumber(s) /\ (session[s] # None => session'[s].revoked = session[s].revoked)

\* Stages and numbers, one session at a time.
LEMMA StageIs ==
  /\ stage \in [SessionIds -> Chain!Stages] /\ number = [s \in SessionIds |-> number[s]]
  /\ \A s \in SessionIds :
       /\ session[s] = None => stage[s] = "none" /\ number[s] = 0
       /\ session[s] # None => number[s] = session[s].current
       /\ session[s] # None /\ ~session[s].revoked => stage[s] = "open"
       /\ session[s] # None /\ session[s].revoked /\ LastExchange(s) => stage[s] = "closing"
       /\ session[s] # None /\ session[s].revoked /\ ~LastExchange(s) => stage[s] = "closed"
BY DEF stage, number, Chain!Stages

LEMMA StageIsNext ==
  /\ stage' \in [SessionIds -> Chain!Stages] /\ number' = [s \in SessionIds |-> number'[s]]
  /\ \A s \in SessionIds :
       /\ session'[s] = None => stage'[s] = "none" /\ number'[s] = 0
       /\ session'[s] # None => number'[s] = session'[s].current
       /\ session'[s] # None /\ ~session'[s].revoked => stage'[s] = "open"
       /\ session'[s] # None /\ session'[s].revoked /\ LastExchange(s)' => stage'[s] = "closing"
       /\ session'[s] # None /\ session'[s].revoked /\ ~LastExchange(s)' => stage'[s] = "closed"
BY DEF stage, number, Chain!Stages

\* Numbers that no session changes.
LEMMA NumbersKept ==
  ASSUME \A s \in SessionIds : SameNumber(s)
  PROVE  UNCHANGED number
BY DEF number, SameNumber

\* A step that starts and ends no rotation can only revoke.
LEMMA RevokingStep ==
  ASSUME \A s \in SessionIds :
            SameNumber(s) /\ (session[s] # None /\ session[s].revoked => session'[s].revoked),
         \A q \in Requests : req[q].op = "rotate" \/ req'[q].op = "rotate" => req'[q] = req[q]
  PROVE  Chain!Revoke
<1>1. ASSUME NEW s \in SessionIds, session[s] # None
      PROVE  LastExchange(s)' <=> LastExchange(s)
  BY <1>1 DEF LastExchange, SameNumber
<1>2. ASSUME NEW s \in SessionIds, stage'[s] # stage[s]
      PROVE  stage[s] = "open" /\ stage'[s] \in {"closing", "closed"}
  <2>1. session[s] # None /\ session'[s] # None
    BY <1>2, StageIs, StageIsNext DEF SameNumber
  <2>2. ~session[s].revoked
    BY <1>1, <1>2, <2>1, StageIs, StageIsNext
  <2>3. stage[s] = "open"
    BY <2>1, <2>2, StageIs
  <2>4. session'[s].revoked
    BY <1>2, <2>1, <2>3, StageIsNext
  <2>5. QED
    BY <2>1, <2>3, <2>4, StageIsNext
<1>3. QED
  BY <1>2, StageIsNext, NumbersKept DEF Chain!Revoke

\* A step that ends or starts one rotation, and changes no session.
LEMMA QuietStep ==
  ASSUME SessionsInv, NEW r \in Requests,
         \A s \in SessionIds : SameStanding(s),
         \A q \in Requests \ {r} : req'[q] = req[q],
         req'[r].op = "rotate" => Live(req'[r].token.sess)
  PROVE  UNCHANGED <<stage, number>> \/ \E s \in SessionIds : Chain!Lapse(s)
<1>1. UNCHANGED number
  BY NumbersKept DEF SameStanding
<1>2. ASSUME NEW s \in SessionIds, session[s] # None, session[s].revoked, LastExchange(s)'
      PROVE  LastExchange(s)
  <2>1. PICK q \in Requests : /\ req'[q].op = "rotate" /\ req'[q].token.sess = s
                              /\ req'[q].doc.current = session'[s].current
    BY <1>2 DEF LastExchange
  <2>2. q # r
    BY <1>2, <2>1 DEF Live
  <2>3. QED
    BY <1>2, <2>1, <2>2 DEF LastExchange, SameStanding, SameNumber
<1>3. ASSUME NEW s \in SessionIds, session[s] # None, LastExchange(s),
             ~(req[r].op = "rotate" /\ req[r].token.sess = s)
      PROVE  LastExchange(s)'
  BY <1>3 DEF LastExchange, SameStanding, SameNumber
<1>4. ASSUME NEW s \in SessionIds, ~(req[r].op = "rotate" /\ req[r].token.sess = s)
      PROVE  stage'[s] = stage[s]
  <2>1. CASE session[s] = None
    BY <2>1, StageIs, StageIsNext DEF SameStanding, SameNumber
  <2>2. CASE session[s] # None
    <3>1. session'[s] # None /\ session'[s].revoked = session[s].revoked
      BY <2>2 DEF SameStanding, SameNumber
    <3>2. session[s].revoked => (LastExchange(s)' <=> LastExchange(s))
      BY <1>2, <1>3, <1>4, <2>2
    <3>3. QED
      BY <2>2, <3>1, <3>2, StageIs, StageIsNext
  <2>3. QED
    BY <2>1, <2>2
<1>5. CASE req[r].op # "rotate"
  <2>1. \A s \in SessionIds : stage'[s] = stage[s]
    BY <1>4, <1>5
  <2>2. QED
    BY <1>1, <2>1, StageIs, StageIsNext
<1>6. CASE req[r].op = "rotate"
  <2>1. PICK s \in SessionIds : s = req[r].token.sess /\ session[s] # None
    BY <1>6, RequestFacts DEF TokenOps
  <2>2. \A t \in SessionIds \ {s} : stage'[t] = stage[t]
    BY <1>4, <2>1
  <2>3. session'[s] # None /\ session'[s].revoked = session[s].revoked
    BY <2>1 DEF SameStanding, SameNumber
  <2>4. stage'[s] = stage[s] \/ (stage[s] = "closing" /\ stage'[s] = "closed")
    BY <1>2, <2>1, <2>3, StageIs, StageIsNext
  <2>5. CASE stage'[s] = stage[s]
    BY <1>1, <2>2, <2>5, StageIs, StageIsNext
  <2>6. CASE stage[s] = "closing" /\ stage'[s] = "closed"
    <3>1. stage' = [stage EXCEPT ![s] = "closed"]
      BY <2>2, <2>6, StageIs, StageIsNext
    <3>2. QED
      BY <1>1, <2>6, <3>1 DEF Chain!Lapse, Chain!Goes
  <2>7. QED
    BY <2>4, <2>5, <2>6
<1>7. QED
  BY <1>5, <1>6

\* A session opens with its first token.
LEMMA OpeningStep ==
  ASSUME SessionsInv, NEW r \in Requests, LoginSave(r)
  PROVE  \E s \in SessionIds : Chain!Open(s)
<1>1. PICK s \in SessionIds :
        /\ session[s] = None
        /\ session' = [session EXCEPT ![s] =
              [device |-> req[r].client, current |-> 0, previous |-> None,
               rotated |-> << >>, fresh |-> FALSE, revoked |-> FALSE,
               opened |-> req[r].opened]]
        /\ req' = [req EXCEPT ![r] = [op |-> "welcome", client |-> req[r].client,
                                      token |-> [sess |-> s, num |-> 0]]]
  BY DEF LoginSave, Turn
<1>2. session \in [SessionIds -> Documents \cup {None}] /\ req \in [Requests -> RequestStates]
  BY DEF SessionsInv, TypeOK
<1>3. req[r] \in LoginReq
  BY <1>2, KindOfRequest DEF LoginSave
<1>4. session'[s] # None /\ session'[s].current = 0 /\ ~session'[s].revoked
  <2>1. session'[s] = [device |-> req[r].client, current |-> 0, previous |-> None,
                       rotated |-> << >>, fresh |-> FALSE, revoked |-> FALSE,
                       opened |-> req[r].opened]
    BY <1>1, <1>2
  <2>2. session'[s] \in Documents
    BY <1>3, <2>1 DEF LoginReq, Documents
  <2>3. session'[s] # None
    BY <2>2, NoneAssumption
  <2>4. session'[s].current = 0 /\ session'[s].revoked = FALSE
    BY <2>1
  <2>5. QED
    BY <2>3, <2>4
<1>5. stage[s] = "none" /\ stage'[s] = "open" /\ number'[s] = number[s]
  BY <1>1, <1>4, StageIs, StageIsNext
<1>6. \A t \in SessionIds \ {s} : session'[t] = session[t]
  BY <1>1, <1>2
<1>7. req[r].op # "rotate" /\ req'[r].op # "rotate" /\ \A q \in Requests \ {r} : req'[q] = req[q]
  BY <1>1, <1>2 DEF LoginSave
<1>8. \A t \in SessionIds \ {s} : LastExchange(t)' <=> LastExchange(t)
  BY <1>6, <1>7 DEF LastExchange
<1>9. \A t \in SessionIds \ {s} : stage'[t] = stage[t] /\ number'[t] = number[t]
  BY <1>6, <1>8, StageIs, StageIsNext
<1>10. stage' = [stage EXCEPT ![s] = "open"] /\ number' = number
  BY <1>5, <1>9, StageIs, StageIsNext
<1>11. QED
  BY <1>5, <1>10 DEF Chain!Open, Chain!Goes

\* A rotation renews an open session, and is the last of a revoked one: whoever
\* else had read the document has read what is no longer the latest.
LEMMA RenewingStep ==
  ASSUME SessionsInv, NEW r \in Requests, Rotates(r)
  PROVE  \E s \in SessionIds : Chain!Renew(s) \/ Chain!LastToken(s)
<1>1. Rotate(r) /\ Unchanged(req[r].doc, session[req[r].token.sess])
  BY DEF Rotates
<1>2. req[r].op = "rotate" /\ session \in [SessionIds -> Documents \cup {None}]
      /\ req \in [Requests -> RequestStates]
  BY <1>1 DEF Rotate, SessionsInv, TypeOK
<1>3. PICK s \in SessionIds : s = req[r].token.sess /\ session[s] # None
  BY <1>2, RequestFacts DEF TokenOps
<1>4. /\ session' = [session EXCEPT ![s] = session'[s]]
      /\ session'[s] \in Documents
      /\ session'[s].current = session[s].current + 1
      /\ session'[s].revoked = session[s].revoked
      /\ session[s] \in Documents
  BY <1>1, <1>3, RotateWrites
<1>5. session'[s] # None /\ session[s].current \in Nat /\ session'[s].current \in Nat
  BY <1>4, NoneAssumption DEF Documents
<1>6. req'[r].op = "answer" /\ \A q \in Requests \ {r} : req'[q] = req[q]
  BY <1>1, <1>2 DEF Rotate, Turn
<1>7. \A t \in SessionIds \ {s} : session'[t] = session[t]
  BY <1>2, <1>4
<1>8. \A t \in SessionIds \ {s} : LastExchange(t)' <=> LastExchange(t)
  BY <1>3, <1>6, <1>7 DEF LastExchange
<1>9. \A t \in SessionIds \ {s} : stage'[t] = stage[t] /\ number'[t] = number[t]
  BY <1>7, <1>8, StageIs, StageIsNext
<1>10. number' = [number EXCEPT ![s] = @ + 1]
  <2>1. number'[s] = number[s] + 1
    BY <1>3, <1>4, <1>5, StageIs, StageIsNext
  <2>2. QED
    BY <1>9, <2>1, StageIs, StageIsNext
<1>11. CASE ~session[s].revoked
  <2>1. stage[s] = "open" /\ stage'[s] = "open"
    BY <1>3, <1>4, <1>5, <1>11, StageIs, StageIsNext
  <2>2. stage' = [stage EXCEPT ![s] = "open"]
    BY <1>9, <2>1, StageIs, StageIsNext
  <2>3. QED
    BY <1>10, <2>1, <2>2 DEF Chain!Renew, Chain!Goes, Chain!Issues
<1>12. CASE session[s].revoked
  <2>1. LastExchange(s)
    BY <1>1, <1>2, <1>3 DEF LastExchange, Unchanged
  <2>2. ~LastExchange(s)'
    <3> SUFFICES ASSUME NEW q \in Requests, req'[q].op = "rotate", req'[q].token.sess = s,
                        req'[q].doc.current = session[s].current + 1
                 PROVE  FALSE
      BY <1>4 DEF LastExchange
    <3>1. q # r /\ req'[q] = req[q]
      BY <1>6
    <3>2. req[q].op = "rotate" /\ req[q].token.sess = s
          /\ req[q].doc.current = session[s].current + 1
      BY <3>1
    <3>3. req[q].doc.current <= session[s].current
      BY <3>2 DEF SessionsInv, ReadAgrees
    <3>4. QED
      BY <1>5, <3>2, <3>3
  <2>3. stage[s] = "closing" /\ stage'[s] = "closed"
    BY <1>3, <1>4, <1>5, <1>12, <2>1, <2>2, StageIs, StageIsNext
  <2>4. stage' = [stage EXCEPT ![s] = "closed"]
    BY <1>9, <2>3, StageIs, StageIsNext
  <2>5. QED
    BY <1>10, <2>3, <2>4 DEF Chain!LastToken, Chain!Goes, Chain!Issues
<1>13. QED
  BY <1>11, <1>12

\* Only reading and saving a rotation, or losing it, changes what is in rotation.
LEMMA RotationsKept ==
  ASSUME SessionsInv, [Next]_vars,
         ~\E r \in Requests : Rotate(r) \/ Find(r) \/ Interrupt(r)
  PROVE  \A q \in Requests : req[q].op = "rotate" \/ req'[q].op = "rotate" => req'[q] = req[q]
<1>a. req \in [Requests -> RequestStates]
  BY DEF SessionsInv, TypeOK
<1>u. CASE UNCHANGED req
  BY <1>u
<1>1. ASSUME NEW r \in Requests, NEW x, req' = [req EXCEPT ![r] = x],
             req[r].op # "rotate", x.op # "rotate"
      PROVE  \A q \in Requests : req[q].op = "rotate" \/ req'[q].op = "rotate" => req'[q] = req[q]
  BY <1>1, <1>a
<1>2. ASSUME NEW r \in Requests, NEW x, Open(r, x), x.op # "rotate"
      PROVE  \A q \in Requests : req[q].op = "rotate" \/ req'[q].op = "rotate" => req'[q] = req[q]
  BY <1>2, <1>1 DEF Open, Idle
<1>3. ASSUME NEW r \in Requests, ResetPassword(r) \/ ResetSpend(r)
      PROVE  \A q \in Requests : req[q].op = "rotate" \/ req'[q].op = "rotate" => req'[q] = req[q]
  <2>1. req[r] \in ResetReq
    BY <1>3, <1>a, KindOfRequest DEF ResetPassword, ResetSpend
  <2>2. PICK x : x.op = "reset" /\ req' = [req EXCEPT ![r] = x]
    BY <1>3, <2>1 DEF ResetPassword, ResetSpend, Turn, ResetReq
  <2>3. QED
    BY <1>1, <1>3, <2>2 DEF ResetPassword, ResetSpend
<1>4. ASSUME NEW r \in Requests,
             \/ LoginSave(r) \/ Refuse(r) \/ GateClosed(r) \/ Logout(r)
             \/ Welcome(r) \/ Deliver(r) \/ DeliverError(r) \/ ClearTokens(r) \/ ResetRevoke(r)
      PROVE  \A q \in Requests : req[q].op = "rotate" \/ req'[q].op = "rotate" => req'[q] = req[q]
  <2>1. PICK x : x.op # "rotate" /\ req' = [req EXCEPT ![r] = x]
    BY <1>4 DEF LoginSave, Refuse, GateClosed, Logout, Welcome, Deliver, DeliverError,
                ClearTokens, ResetRevoke, Turn, Done, Idle
  <2>2. req[r].op # "rotate"
    BY <1>4 DEF LoginSave, Refuse, GateClosed, Logout, Welcome, Deliver, DeliverError,
                ClearTokens, ResetRevoke
  <2>3. QED
    BY <1>1, <2>1, <2>2
<1>5. ASSUME NEW r \in Requests,
             \/ \E c \in Clients : LoginRead(r, c) \/ Send(c, r) \/ LogoutSend(c, r)
             \/ \E k \in Links : ResetRead(r, k)
      PROVE  \A q \in Requests : req[q].op = "rotate" \/ req'[q].op = "rotate" => req'[q] = req[q]
  <2>1. ASSUME NEW c \in Clients, LoginRead(r, c) PROVE \E x : Open(r, x) /\ x.op # "rotate"
    BY <2>1 DEF LoginRead
  <2>2. ASSUME NEW c \in Clients, Send(c, r) PROVE \E x : Open(r, x) /\ x.op # "rotate"
    BY <2>2 DEF Send
  <2>3. ASSUME NEW c \in Clients, LogoutSend(c, r) PROVE \E x : Open(r, x) /\ x.op # "rotate"
    BY <2>3 DEF LogoutSend
  <2>4. ASSUME NEW k \in Links, ResetRead(r, k) PROVE \E x : Open(r, x) /\ x.op # "rotate"
    BY <2>4 DEF ResetRead
  <2>5. PICK x : Open(r, x) /\ x.op # "rotate"
    BY <1>5, <2>1, <2>2, <2>3, <2>4
  <2>6. QED
    BY <1>2, <2>5
<1>6. QED
  BY <1>u, <1>3, <1>4, <1>5 DEF Next, Handle, vars, GiveUp, RevokeSession, GraceEnds

\* Every step is one of TokenChain, or changes nothing it sees.
LEMMA ChainStep ==
  ASSUME SessionsInv, [Next]_vars
  PROVE  Chain!Next \/ UNCHANGED <<stage, number>>
<1>a. \A s \in SessionIds : Grows(s)
  BY SessionsGrow
<1>b. req \in [Requests -> RequestStates]
  BY DEF SessionsInv, TypeOK
<1>1. ASSUME NEW r \in Requests, LoginSave(r) PROVE Chain!Next
  BY <1>1, OpeningStep DEF Chain!Next
<1>2. ASSUME NEW r \in Requests, Rotates(r) PROVE Chain!Next
  BY <1>2, RenewingStep DEF Chain!Next
<1>3. ASSUME NEW r \in Requests, Find(r) \/ Interrupt(r) \/ (Rotate(r) /\ ~Rotates(r))
      PROVE  Chain!Next \/ UNCHANGED <<stage, number>>
  <2>1. UNCHANGED session
    BY <1>3 DEF Find, Interrupt, Rotate, Rotates
  <2>2. \A s \in SessionIds : SameStanding(s)
    BY <2>1 DEF SameStanding, SameNumber
  <2>3. PICK x : req' = [req EXCEPT ![r] = x]
    BY <1>3 DEF Find, Interrupt, Rotate, Rotates, Turn, Done
  <2>4. \A q \in Requests \ {r} : req'[q] = req[q]
    BY <1>b, <2>3
  <2>5. req'[r].op = "rotate" => Live(req'[r].token.sess)
    <3>1. CASE Find(r)
      BY <1>b, <2>1, <3>1 DEF Find, Turn, Accepted, Live
    <3>2. CASE Interrupt(r)
      BY <1>b, <3>2 DEF Interrupt, Turn, Done, Idle
    <3>3. CASE Rotate(r) /\ ~Rotates(r)
      BY <1>b, <3>3 DEF Rotate, Rotates, Turn
    <3>4. QED
      BY <1>3, <3>1, <3>2, <3>3
  <2>6. UNCHANGED <<stage, number>> \/ \E s \in SessionIds : Chain!Lapse(s)
    BY <2>2, <2>4, <2>5, QuietStep
  <2>7. QED
    BY <2>6 DEF Chain!Next
<1>4. CASE ~\E r \in Requests : LoginSave(r) \/ Rotate(r) \/ Find(r) \/ Interrupt(r)
  <2>1. \A s \in SessionIds : KeepsTokens(s)
    BY <1>4, TokensKept DEF Rotates
  <2>2. ASSUME NEW s \in SessionIds
        PROVE  SameNumber(s) /\ (session[s] # None /\ session[s].revoked => session'[s].revoked)
    BY <1>4, <1>a, <2>1 DEF SameNumber, KeepsTokens, Grows, Kept, NewTokens
  <2>3. \A q \in Requests : req[q].op = "rotate" \/ req'[q].op = "rotate" => req'[q] = req[q]
    BY <1>4, RotationsKept
  <2>4. Chain!Revoke
    BY <2>2, <2>3, RevokingStep
  <2>5. QED
    BY <2>4 DEF Chain!Next
<1>5. QED
  BY <1>1, <1>2, <1>3, <1>4

\* A revoked session hands out at most one more token.
THEOREM ChainImplemented == Spec => ImplementsTokenChain
<1>1. Init => Chain!Init
  BY DEF Init, stage, number, Chain!Init
<1>2. SessionsInv /\ [Next]_vars => [Chain!Next]_<<stage, number>>
  BY ChainStep
<1>3. Spec => []SessionsInv
  BY TypeCorrect, PTL
<1>4. QED
  BY <1>1, <1>2, <1>3, PTL DEF Spec, ImplementsTokenChain, Chain!Spec

-----------------------------------------------------------------------------
\* A token that comes back after its grace window buys nothing, and ends its
\* session.
LEMMA ReuseStep ==
  ASSUME SessionsInv, RotatedInOrder, [Next]_vars, NEW r \in Requests, Reused(r), req'[r] # req[r]
  PROVE  \/ faults' > faults
         \/ req'[r].op = "refused" /\ session'[req[r].token.sess].revoked
<1>a. req \in [Requests -> RequestStates] /\ session \in [SessionIds -> Documents \cup {None}]
      /\ faults \in Nat
  BY SessionsAssumption DEF SessionsInv, TypeOK
<1>b. req[r].op = "refresh"
  BY DEF Reused
<1>c. PICK s \in SessionIds, n \in Nat :
        /\ s = req[r].token.sess /\ n = req[r].token.num
        /\ session[s] # None /\ session[s].current \in Nat
  BY <1>b, RequestFacts DEF TokenOps
<1>d. /\ n \in session[s].current - MaxRotated .. session[s].current - 1
      /\ ~InGrace(s, n)
  BY <1>c DEF Reused
<1>e. n # session[s].current /\ ~Accepted(s, n)
  BY <1>c, <1>d, SessionsAssumption DEF Accepted
<1>f. \E i \in DOMAIN session[s].rotated : session[s].rotated[i] = n
  <2> DEFINE p == session[s].rotated
  <2> DEFINE k == session[s].current
  <2>1. p \in Seq(Nat) /\ k \in Nat
    BY <1>a, <1>c DEF Documents
  <2>2. Len(p) \in {k, MaxRotated} /\ Len(p) <= k /\ \A i \in 1..Len(p) : p[i] = k - Len(p) + i - 1
    BY <1>c DEF RotatedInOrder
  <2>3. n \in Nat /\ n < k /\ n >= k - MaxRotated
    BY <1>c, <1>d, SessionsAssumption
  <2> HIDE DEF p, k
  <2>4. n - k + Len(p) + 1 \in 1..Len(p)
    BY <2>1, <2>2, <2>3, SessionsAssumption
  <2>5. p[n - k + Len(p) + 1] = n
    BY <2>1, <2>2, <2>3, <2>4
  <2>6. DOMAIN p = 1..Len(p)
    BY <2>1
  <2>7. QED
    BY <2>4, <2>5, <2>6 DEF p
<1>1. Refuse(r) \/ Interrupt(r)
  <2>1. ~Find(r) /\ ~GateClosed(r)
    BY <1>c, <1>e DEF Find, GateClosed
  <2>2. ASSUME NEW q \in Requests \ {r}, NEW x, req' = [req EXCEPT ![q] = x] PROVE FALSE
    BY <1>a, <2>2
  <2>3. ASSUME NEW q \in Requests, Handle(q) PROVE Refuse(r) \/ Interrupt(r)
    <3>1. CASE q = r
      BY <1>b, <2>1, <2>3, <3>1
         DEF Handle, LoginSave, Welcome, Rotate, Deliver, DeliverError, Logout, ClearTokens,
             ResetPassword, ResetSpend, ResetRevoke
    <3>2. CASE q # r
      <4>1. PICK x : req' = [req EXCEPT ![q] = x]
        BY <2>3
           DEF Handle, LoginSave, Welcome, Find, Refuse, GateClosed, Rotate, Deliver,
               DeliverError, Logout, ClearTokens, ResetPassword, ResetSpend, ResetRevoke,
               Interrupt, Turn, Done
      <4>2. QED
        BY <2>2, <3>2, <4>1
    <3>3. QED
      BY <3>1, <3>2
  <2>4. ASSUME NEW q \in Requests,
               \/ \E c \in Clients : LoginRead(q, c) \/ Send(c, q) \/ LogoutSend(c, q)
               \/ \E k \in Links : ResetRead(q, k)
        PROVE  FALSE
    <3>1. PICK x : Open(q, x)
      BY <2>4 DEF LoginRead, Send, LogoutSend, ResetRead
    <3>2. q # r
      BY <1>b, <3>1 DEF Open, Idle
    <3>3. QED
      BY <2>2, <3>1, <3>2 DEF Open
  <2>5. req' # req
    OBVIOUS
  <2>6. QED
    BY <2>3, <2>4, <2>5 DEF Next, vars, GiveUp, RevokeSession, GraceEnds
<1>2. CASE Interrupt(r)
  BY <1>2, <1>a DEF Interrupt
<1>3. CASE Refuse(r)
  <2>1. req'[r].op = "refused"
    BY <1>3, <1>a DEF Refuse, Turn
  <2>2. session' = [session EXCEPT ![s].revoked = TRUE]
    BY <1>3, <1>c, <1>f DEF Refuse
  <2>3. session[s] \in Documents
    BY <1>a, <1>c
  <2>4. session'[s].revoked = TRUE
    BY <1>a, <2>2, <2>3 DEF Documents
  <2>5. QED
    BY <1>c, <2>1, <2>4
<1>4. QED
  BY <1>1, <1>2, <1>3

THEOREM ReuseEnds == Spec => ReuseDetected
<1>1. Init => RotatedInOrder
  BY DEF Init, RotatedInOrder
<1>2. Spec => []SessionsInv
  BY TypeCorrect, PTL
<1>3. SessionsInv /\ RotatedInOrder /\ [Next]_vars
        => [\A r \in Requests : Reused(r) /\ req'[r] # req[r] =>
              \/ faults' > faults
              \/ req'[r].op = "refused" /\ session'[req[r].token.sess].revoked]_vars
  BY ReuseStep
<1>4. QED
  BY <1>1, <1>2, <1>3, RotationKeepsOrder, PTL DEF Spec, ReuseDetected

=============================================================================

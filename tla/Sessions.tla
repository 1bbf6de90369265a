------------------------------ MODULE Sessions ------------------------------
(***************************************************************************)
(* Sessions and their refresh tokens: AuthService on the server (login,    *)
(* refresh, logout, revokeSession, resetPassword) and, on the device, the  *)
(* api client's interceptor, which renews the token it stores, gives up    *)
(* on slow answers and tries again.                                        *)
(*                                                                         *)
(* Each await of a handler that another request could notice ends a step.  *)
(* The lookups that refuse a refresh look for things that never come back, *)
(* so a refusal is one step, at the last of them.                          *)
(***************************************************************************)
EXTENDS Integers, Sequences

CONSTANTS
    Clients,    \* devices of one user, each with its own token storage
    SessionIds, \* session documents; bounds how many logins there can be
    Links,      \* password reset links; bounds how many are mailed
    Requests,   \* HTTP requests that can be on their way at once
    MaxRotated, \* MAX_ROTATED_TOKENS
    MaxTokens,  \* bound: rotations of one session
    MaxFaults,  \* bound: interrupted requests and answers given up on
    None

ASSUME SessionsAssumption ==
    /\ MaxRotated \in Nat \ {0} /\ MaxTokens \in Nat /\ MaxFaults \in Nat
    /\ None \notin Nat /\ None \notin Requests

VARIABLES
    password, used,     \* the user: which password it is, reset links spent
    session,            \* session documents
    stored,             \* the token each device stores
    waiting,            \* isRefreshing: the exchange each device waits for
    req,                \* requests and answers on their way
    faults,
    overtaken, stale, cut   \* history, see the properties

user == <<password, used>>
device == <<stored, waiting>>
history == <<overtaken, stale, cut>>
vars == <<user, session, device, req, faults, history>>

-----------------------------------------------------------------------------
\* A session's tokens are numbered in the order their hashes are saved, which
\* is also what the document's __v counts.  `fresh`: rotatedAt lies within
\* REFRESH_REUSE_GRACE_MS.  `opened`: history, the password that opened it.
Documents == [device : Clients, current : Nat, previous : Nat \cup {None},
              rotated : Seq(Nat), fresh : BOOLEAN, revoked : BOOLEAN, opened : Nat]
Tokens    == [sess : SessionIds, num : Nat]

ASSUME NoneAssumption == None \notin Documents \cup Tokens

Idle == [op |-> "idle"]
LoginReq   == [op : {"login"}, client : Clients, opened : Nat]
WelcomeReq == [op : {"welcome"}, client : Clients, token : Tokens]
RefreshReq == [op : {"refresh"}, client : Clients, token : Tokens]
RotateReq  == [op : {"rotate"}, client : Clients, token : Tokens, doc : Documents]
AnswerReq  == [op : {"answer"}, client : Clients, token : Tokens]
NoAnswer   == [op : {"refused", "failed", "leave"}, client : Clients]
LogoutReq  == [op : {"logout"}, client : Clients, token : Tokens]
ResetReq   == [op : {"reset"}, link : Links, phase : {"password", "used", "revoke"}]
RequestStates == {Idle} \cup LoginReq \cup WelcomeReq \cup RefreshReq \cup RotateReq
                     \cup AnswerReq \cup NoAnswer \cup LogoutReq \cup ResetReq

TypeOK ==
    /\ password \in Nat /\ used \in SUBSET Links
    /\ session \in [SessionIds -> Documents \cup {None}]
    /\ \A s \in SessionIds : session[s] # None => Len(session[s].rotated) <= MaxRotated
    /\ stored \in [Clients -> Tokens \cup {None}]
    /\ waiting \in [Clients -> Requests \cup {None}]
    /\ req \in [Requests -> RequestStates]
    /\ faults \in 0..MaxFaults
    /\ overtaken \in SUBSET SessionIds /\ stale \in SUBSET SessionIds /\ cut \in BOOLEAN

Init ==
    /\ password = 0 /\ used = {}
    /\ session = [s \in SessionIds |-> None]
    /\ stored = [c \in Clients |-> None]
    /\ waiting = [c \in Clients |-> None]
    /\ req = [r \in Requests |-> Idle]
    /\ faults = 0
    /\ overtaken = {} /\ stale = {} /\ cut = FALSE

Open(r, q) == req[r] = Idle /\ req' = [req EXCEPT ![r] = q]
Turn(r, q) == req' = [req EXCEPT ![r] = q]
Done(r)    == req' = [req EXCEPT ![r] = Idle]

Live(s) == session[s] # None /\ ~session[s].revoked

-----------------------------------------------------------------------------
(* AuthService.login: the user and the password are read, then the gates,  *)
(* and the session is saved after that.                                    *)

LoginRead(r, c) ==
    /\ stored[c] = None
    /\ Open(r, [op |-> "login", client |-> c, opened |-> password])
    /\ UNCHANGED <<user, session, device, faults, history>>

LoginSave(r) ==
    /\ req[r].op = "login"
    /\ \E s \in SessionIds :
          /\ session[s] = None
          /\ session' = [session EXCEPT ![s] =
                [device |-> req[r].client, current |-> 0, previous |-> None,
                 rotated |-> << >>, fresh |-> FALSE, revoked |-> FALSE,
                 opened |-> req[r].opened]]
          /\ Turn(r, [op |-> "welcome", client |-> req[r].client,
                      token |-> [sess |-> s, num |-> 0]])
          /\ stale' = IF req[r].opened # password THEN stale \cup {s} ELSE stale
    /\ UNCHANGED <<user, device, faults, overtaken, cut>>

Welcome(r) ==
    /\ req[r].op = "welcome"
    /\ stored' = [stored EXCEPT ![req[r].client] = req[r].token]
    /\ Done(r)
    /\ UNCHANGED <<user, session, waiting, faults, history>>

-----------------------------------------------------------------------------
(* AuthService.refresh.                                                    *)

\* The interceptor, on a 401: one exchange at a time, with the stored token.
Send(c, r) ==
    /\ stored[c] # None /\ waiting[c] = None
    /\ Open(r, [op |-> "refresh", client |-> c, token |-> stored[c]])
    /\ waiting' = [waiting EXCEPT ![c] = r]
    /\ UNCHANGED <<user, session, stored, faults, history>>

\* The token just rotated out is accepted once more while the window is open.
InGrace(s, n) == session[s].previous = n /\ session[s].fresh
\* Fault: the query does not ask for revokedAt: null.
AcceptsRevoked(s, n) == session[s] # None /\ (session[s].current = n \/ InGrace(s, n))

Accepted(s, n) == Live(s) /\ (session[s].current = n \/ InGrace(s, n))

Find(r) ==
    /\ req[r].op = "refresh"
    /\ LET t == req[r].token IN
          /\ Accepted(t.sess, t.num) 
          /\ Turn(r, [op |-> "rotate", client |-> req[r].client, token |-> t,
                      doc |-> session[t.sess]])
    /\ UNCHANGED <<user, session, device, faults, history>>

\* The session has expired, or the user or the organization may not log in:
\* administrators and time decide, so it may be so whenever it is read.
GateClosed(r) ==
    /\ req[r].op = "refresh"
    /\ Accepted(req[r].token.sess, req[r].token.num)
    /\ Turn(r, [op |-> "refused", client |-> req[r].client])
    /\ UNCHANGED <<user, session, device, faults, history>>

\* A token known to have been rotated out revokes its session.
Refuse(r) ==
    /\ req[r].op = "refresh"
    /\ LET s == req[r].token.sess
           n == req[r].token.num
       IN /\ ~Accepted(s, n)
          /\ session' = [session EXCEPT ![s].revoked =
                @ \/ \E i \in DOMAIN session[s].rotated : session[s].rotated[i] = n]
    /\ Turn(r, [op |-> "refused", client |-> req[r].client])
    /\ UNCHANGED <<user, device, faults, history>>

\* Fault: the list of rotated tokens is not cut.
Unsliced(rotated, n) == Append(rotated, n)

\* [...rotated, retiring].slice(-MAX_ROTATED_TOKENS)
Retire(rotated, n) ==
    Append(IF Len(rotated) < MaxRotated THEN rotated ELSE Tail(rotated), n)

\* Fault: two refreshes that read the same document both save it.
Overwrites(doc, now) == TRUE

\* A save that replaces the array is refused when another has come first.
Unchanged(doc, now) == doc.current = now.current

\* Fault: a refresh in the grace window moves the window on.
MovesWindow(doc, now, n) ==
    [now EXCEPT !.rotated = Retire(doc.rotated, doc.current),
                !.current = now.current + 1,
                !.previous = doc.current,
                !.fresh = TRUE]

\* What $set writes: `revoked` is not written, and a refresh in the grace
\* window leaves the window where it is.
Written(doc, now, n) ==
    [now EXCEPT !.rotated = Retire(doc.rotated, doc.current),
                !.current = now.current + 1,
                !.previous = IF doc.current = n THEN n ELSE @,
                !.fresh = IF doc.current = n THEN TRUE ELSE @]

Awaited(r) == waiting[req[r].client] = r

Rotate(r) ==
    /\ req[r].op = "rotate"
    /\ LET s == req[r].token.sess
           n == req[r].token.num
           d == req[r].doc
       IN IF Unchanged(d, session[s])
            THEN /\ session[s].current < MaxTokens
                 /\ session' = [session EXCEPT ![s] = Written(d, @, n)]
                 /\ Turn(r, [op |-> "answer", client |-> req[r].client,
                             token |-> [sess |-> s, num |-> session[s].current + 1]])
                 /\ overtaken' = IF ~Awaited(r) /\ d.current # n
                                    THEN overtaken \cup {s} ELSE overtaken
            ELSE /\ Turn(r, [op |-> "failed", client |-> req[r].client])
                 /\ UNCHANGED <<session, overtaken>>
    /\ UNCHANGED <<user, device, faults, stale, cut>>

-----------------------------------------------------------------------------
(* The interceptor's answers.                                              *)

Stop(r) ==
    waiting' = [c \in Clients |-> IF waiting[c] = r THEN None ELSE waiting[c]]

\* setTokens, or nothing when the client has given up on this exchange.
Deliver(r) ==
    /\ req[r].op = "answer"
    /\ stored' = IF Awaited(r) THEN [stored EXCEPT ![req[r].client] = req[r].token]
                               ELSE stored
    /\ Stop(r) /\ Done(r)
    /\ UNCHANGED <<user, session, faults, history>>

\* A definitive 401 ends the session on the device; a 500 leaves the tokens.
DeliverError(r) ==
    /\ req[r].op \in {"refused", "failed"}
    /\ stored' = IF Awaited(r) /\ req[r].op = "refused"
                    THEN [stored EXCEPT ![req[r].client] = None] ELSE stored
    /\ Stop(r) /\ Done(r)
    /\ UNCHANGED <<user, session, faults, history>>

\* The 30 s timeout: the request goes on without its client.
GiveUp(c) ==
    /\ waiting[c] # None
    /\ faults < MaxFaults
    /\ faults' = faults + 1
    /\ waiting' = [waiting EXCEPT ![c] = None]
    /\ UNCHANGED <<user, session, stored, req, history>>

\* A request or its answer is lost, or the server dies under it.
Interrupt(r) ==
    /\ req[r] # Idle
    /\ faults < MaxFaults
    /\ faults' = faults + 1
    /\ IF req[r].op = "logout" THEN Turn(r, [op |-> "leave", client |-> req[r].client])
                               ELSE Done(r)
    /\ Stop(r)
    /\ cut' = (cut \/ (req[r].op = "reset" /\ req[r].phase # "password"))
    /\ UNCHANGED <<user, session, stored, overtaken, stale>>

-----------------------------------------------------------------------------
(* Logout, and the other ends of a session.                                *)

LogoutSend(c, r) ==
    /\ stored[c] # None
    /\ Open(r, [op |-> "logout", client |-> c, token |-> stored[c]])
    /\ UNCHANGED <<user, session, device, faults, history>>

\* Finds the session by its current token alone, and always answers success.
Logout(r) ==
    /\ req[r].op = "logout"
    /\ LET t == req[r].token IN
          session' = [session EXCEPT ![t.sess].revoked = @ \/ session[t.sess].current = t.num]
    /\ Turn(r, [op |-> "leave", client |-> req[r].client])
    /\ UNCHANGED <<user, device, faults, history>>

ClearTokens(r) ==
    /\ req[r].op = "leave"
    /\ stored' = [stored EXCEPT ![req[r].client] = None]
    /\ Done(r)
    /\ UNCHANGED <<user, session, waiting, faults, history>>

RevokeSession(s) ==
    /\ Live(s)
    /\ session' = [session EXCEPT ![s].revoked = TRUE]
    /\ UNCHANGED <<user, device, req, faults, history>>

ResetRead(r, k) ==
    /\ k \notin used
    /\ Open(r, [op |-> "reset", link |-> k, phase |-> "password"])
    /\ UNCHANGED <<user, session, device, faults, history>>

ResetPassword(r) ==
    /\ req[r].op = "reset" /\ req[r].phase = "password"
    /\ password' = password + 1
    /\ Turn(r, [req[r] EXCEPT !.phase = "used"])
    /\ UNCHANGED <<used, session, device, faults, history>>

ResetSpend(r) ==
    /\ req[r].op = "reset" /\ req[r].phase = "used"
    /\ used' = used \cup {req[r].link}
    /\ Turn(r, [req[r] EXCEPT !.phase = "revoke"])
    /\ UNCHANGED <<password, session, device, faults, history>>

Revoked(s) == IF session[s] = None THEN None ELSE [session[s] EXCEPT !.revoked = TRUE]

\* Fault: updateOne instead of updateMany.
RevokesOne(r) ==
    /\ req[r].op = "reset" /\ req[r].phase = "revoke"
    /\ \E s \in SessionIds : session' = [session EXCEPT ![s] = Revoked(s)]
    /\ cut' = FALSE
    /\ Done(r)
    /\ UNCHANGED <<user, device, faults, overtaken, stale>>

ResetRevoke(r) ==
    /\ req[r].op = "reset" /\ req[r].phase = "revoke"
    /\ session' = [s \in SessionIds |-> Revoked(s)]
    /\ cut' = FALSE
    /\ Done(r)
    /\ UNCHANGED <<user, device, faults, overtaken, stale>>

\* REFRESH_REUSE_GRACE_MS after the last normal rotation.
GraceEnds(s) ==
    /\ session[s] # None /\ session[s].fresh
    /\ session' = [session EXCEPT ![s].fresh = FALSE]
    /\ UNCHANGED <<user, device, req, faults, history>>

-----------------------------------------------------------------------------
Handle(r) ==
    \/ LoginSave(r) \/ Welcome(r) \/ Find(r) \/ Refuse(r) \/ GateClosed(r) \/ Rotate(r)
    \/ Deliver(r) \/ DeliverError(r) \/ Logout(r) \/ ClearTokens(r)
    \/ ResetPassword(r) \/ ResetSpend(r) \/ ResetRevoke(r) \/ Interrupt(r)

Next ==
    \/ \E r \in Requests :
          \/ Handle(r)
          \/ \E c \in Clients : LoginRead(r, c) \/ Send(c, r) \/ LogoutSend(c, r)
          \/ \E k \in Links : ResetRead(r, k)
    \/ \E c \in Clients : GiveUp(c)
    \/ \E s \in SessionIds : RevokeSession(s) \/ GraceEnds(s)

Spec == Init /\ [][Next]_vars

-----------------------------------------------------------------------------
(* Properties.                                                             *)

\* The token a device stores is its session's current one or the one just
\* rotated out, so that only the end of the grace window can lose it: through
\* lost answers, refused saves and retries of them, until an exchange nobody
\* waits for any more takes the retry the window allows (overtaken).
HeldIsHonoured ==
    \A c \in Clients : stored[c] # None =>
        LET s == stored[c].sess IN
            s \notin overtaken => stored[c].num \in {session[s].current, session[s].previous}

\* Every token a session has had is its current one, or is known to have been
\* rotated out, or lies MAX_ROTATED_TOKENS rotations back: none is forgotten
\* when two refreshes rotate at once.
IssuedIsKnown ==
    \A s \in SessionIds : session[s] # None =>
        \A n \in 0..session[s].current :
            \/ n = session[s].current
            \/ \E i \in DOMAIN session[s].rotated : session[s].rotated[i] = n
            \/ n < session[s].current - MaxRotated

\* No refresh, whatever it had read, brings a revoked session back.
RevocationIsFinal ==
    [][\A s \in SessionIds : session[s] # None /\ session[s].revoked => session'[s].revoked]_vars

\* A password reset leaves no session that an earlier password opened, except
\* one whose login had checked that password before and was saved after
\* (stale), and those of a reset that was cut off before it revoked them.
ResetKicksOut ==
    \/ cut
    \/ \E r \in Requests : req[r].op = "reset" /\ req[r].phase # "password"
    \/ \A s \in SessionIds : Live(s) /\ s \notin stale => session[s].opened = password

\* A token that was rotated out at most MAX_ROTATED_TOKENS rotations ago and
\* comes back outside the grace window buys nothing: unless the request is lost,
\* it is refused and its session ends revoked, whatever rotates meanwhile.
Reused(r) ==
    /\ req[r].op = "refresh"
    /\ LET s == req[r].token.sess
           n == req[r].token.num
       IN n \in session[s].current - MaxRotated .. session[s].current - 1 /\ ~InGrace(s, n)

ReuseDetected ==
    [][\A r \in Requests : Reused(r) /\ req'[r] # req[r] =>
          \/ faults' > faults
          \/ req'[r].op = "refused" /\ session'[req[r].token.sess].revoked]_vars

\* Sessions implements TokenChain: a revoked session hands out at most one more
\* token, to a refresh that had read the session before, however many had.  A
\* rotation is still to come while its copy of the document is the latest.
LastExchange(s) ==
    \E r \in Requests :
        req[r].op = "rotate" /\ req[r].token.sess = s /\ req[r].doc.current = session[s].current

stage == [s \in SessionIds |->
    IF session[s] = None THEN "none" ELSE IF ~session[s].revoked THEN "open"
    ELSE IF LastExchange(s) THEN "closing" ELSE "closed"]
number == [s \in SessionIds |-> IF session[s] = None THEN 0 ELSE session[s].current]

Chain == INSTANCE TokenChain
ImplementsTokenChain == Chain!Spec

-----------------------------------------------------------------------------
(* What makes these inductive.  A device only ever presents tokens of its  *)
(* own sessions; a document read for a rotation is the session's until     *)
(* another rotation is saved; and of a session that was not overtaken, no  *)
(* exchange presents a later token than the device stores or awaits.       *)

TokenOps    == {"welcome", "refresh", "rotate", "answer", "logout"}
ExchangeOps == {"refresh", "rotate", "answer", "refused", "failed"}

StoredAgrees ==
    \A c \in Clients : stored[c] # None =>
        /\ session[stored[c].sess] # None
        /\ session[stored[c].sess].device = c
        /\ stored[c].num <= session[stored[c].sess].current

RequestsAgree ==
    \A r \in Requests : req[r].op \in TokenOps =>
        /\ session[req[r].token.sess] # None
        /\ session[req[r].token.sess].device = req[r].client
        /\ req[r].token.num <= session[req[r].token.sess].current

WaitingAgrees ==
    \A c \in Clients : waiting[c] # None =>
        req[waiting[c]].op \in ExchangeOps /\ req[waiting[c]].client = c

ReadAgrees ==
    \A r \in Requests : req[r].op = "rotate" =>
        LET d == req[r].doc
            now == session[req[r].token.sess]
        IN /\ d.current <= now.current
           /\ d.current = now.current => d.rotated = now.rotated /\ d.previous = now.previous
           /\ req[r].token.num \in {d.current, d.previous}

\* The rotated tokens are the latest MAX_ROTATED_TOKENS, in order.
RotatedInOrder ==
    \A s \in SessionIds : session[s] # None =>
        LET n == Len(session[s].rotated) IN
            /\ n \in {session[s].current, MaxRotated} /\ n <= session[s].current
            /\ \A i \in 1..n : session[s].rotated[i] = session[s].current - n + i - 1

\* A session is new to its device until the answer to its login arrives.
WelcomeIsFirst ==
    \A r \in Requests : req[r].op = "welcome" =>
        /\ req[r].token.num = session[req[r].token.sess].current
        /\ \A c \in Clients : stored[c] # None => stored[c].sess # req[r].token.sess
        /\ \A q \in Requests : req[q].op \in TokenOps /\ q # r
              => req[q].token.sess # req[r].token.sess

Presents(q, s) == req[q].op \in {"refresh", "rotate"} /\ req[q].token.sess = s

StoredLatest ==
    \A c \in Clients, q \in Requests :
        stored[c] # None /\ stored[c].sess \notin overtaken /\ Presents(q, stored[c].sess)
            => req[q].token.num <= stored[c].num

AwaitedLatest ==
    \A r \in Requests, s \in SessionIds \ overtaken : Presents(r, s) /\ Awaited(r) =>
        /\ req[r].token.num \in {session[s].current, session[s].previous}
        /\ \A c \in Clients : stored[c] # None /\ stored[c].sess = s => stored[c].num = req[r].token.num
        /\ \A q \in Requests : Presents(q, s) => req[q].token.num <= req[r].token.num

AnswerLatest ==
    \A r \in Requests, s \in SessionIds \ overtaken :
        req[r].op = "answer" /\ req[r].token.sess = s /\ Awaited(r) =>
            /\ req[r].token.num = session[s].current
            /\ \A q \in Requests : Presents(q, s) => req[q].token.num < req[r].token.num

SessionsInv == TypeOK /\ StoredAgrees /\ RequestsAgree /\ WaitingAgrees /\ ReadAgrees

HonouredInv ==
    HeldIsHonoured /\ WelcomeIsFirst /\ StoredLatest /\ AwaitedLatest /\ AnswerLatest
=============================================================================

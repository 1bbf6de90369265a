------------------------------ MODULE TokenChain ------------------------------
(***************************************************************************)
(* The refresh tokens of a session, as its owner counts on them: one after *)
(* another while it is open, at most one more once it is revoked, for an   *)
(* exchange that was under way, and none after that.                       *)
(***************************************************************************)
EXTENDS Naturals

CONSTANT SessionIds

VARIABLES
    stage,      \* how far each session is from its end
    number      \* the number of its latest token

Stages == {"none", "open", "closing", "closed"}

TypeOK == stage \in [SessionIds -> Stages] /\ number \in [SessionIds -> Nat]

Init ==
    /\ stage = [s \in SessionIds |-> "none"]
    /\ number = [s \in SessionIds |-> 0]

Goes(s, from, to) == stage[s] = from /\ stage' = [stage EXCEPT ![s] = to]
Issues(s)         == number' = [number EXCEPT ![s] = @ + 1]

Open(s)      == Goes(s, "none", "open") /\ UNCHANGED number
Renew(s)     == Goes(s, "open", "open") /\ Issues(s)
LastToken(s) == Goes(s, "closing", "closed") /\ Issues(s)
Lapse(s)     == Goes(s, "closing", "closed") /\ UNCHANGED number

\* Any number of sessions are revoked at once.
Revoke ==
    /\ stage' \in [SessionIds -> Stages]
    /\ \A s \in SessionIds : stage'[s] # stage[s] =>
          stage[s] = "open" /\ stage'[s] \in {"closing", "closed"}
    /\ UNCHANGED number

Next == Revoke \/ \E s \in SessionIds : Open(s) \/ Renew(s) \/ LastToken(s) \/ Lapse(s)

Spec == Init /\ [][Next]_<<stage, number>>
=============================================================================

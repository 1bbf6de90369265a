------------------------------ MODULE OrderLife ------------------------------
(***************************************************************************)
(* The life of an order, as users count on it: it is entered, accepted,    *)
(* shipped and delivered, each once and in this order, or it is closed     *)
(* before it is shipped.                                                   *)
(***************************************************************************)
CONSTANT Orders

VARIABLES
    phase,      \* where each order is in its life
    sound       \* no write has yet replaced a value its writer never read

Arrivals == {"Delivered", "Partial_Delivery"}
Closings == {"Rejected", "Cancelled"}
Phases   == {"new", "open", "accepted", "shipped"} \cup Arrivals \cup Closings

TypeOK == phase \in [Orders -> Phases] /\ sound \in BOOLEAN

\* A part of the system may meet its orders when they are entered.
Init == phase \in [Orders -> {"new", "open"}] /\ sound = TRUE

Goes(o, from, to) == phase[o] \in from /\ phase' = [phase EXCEPT ![o] = to]

Enter(o)  == Goes(o, {"new"}, "open")
Accept(o) == Goes(o, {"open"}, "accepted")
Ship(o)   == Goes(o, {"accepted"}, "shipped")
Arrive(o) == \E end \in Arrivals : Goes(o, {"shipped"}, end)
Close(o)  == \E end \in Closings : Goes(o, {"open", "accepted"}, end)

Next == \E o \in Orders : Enter(o) \/ Accept(o) \/ Ship(o) \/ Arrive(o) \/ Close(o)

\* What is promised ends with the first unsound write.
Spec == Init /\ [][sound' => sound /\ Next]_<<phase, sound>>
=============================================================================

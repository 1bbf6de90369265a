------------------------------- MODULE WorkDay -------------------------------
(***************************************************************************)
(* A representative's work, as managers and payroll count on it: one day   *)
(* begun at a time and once a date, and one outlet visited at a time.      *)
(***************************************************************************)
EXTENDS Naturals

CONSTANT Outlets

VARIABLES
    today,
    begun,      \* the dates on which a day was begun
    onDuty,
    at,         \* the outlet being visited, if any
    sound       \* no two requests of one kind have yet overlapped

TypeOK ==
    /\ today \in Nat /\ begun \in SUBSET (0..today)
    /\ onDuty \in BOOLEAN /\ sound \in BOOLEAN
    /\ at \in SUBSET Outlets

Init == today = 0 /\ begun = {} /\ onDuty = FALSE /\ at = {} /\ sound = TRUE

Begin ==
    /\ ~onDuty /\ today \notin begun
    /\ onDuty' = TRUE
    /\ begun' = begun \cup {today}
    /\ UNCHANGED <<today, at>>

End ==
    /\ onDuty
    /\ onDuty' = FALSE
    /\ UNCHANGED <<today, begun, at>>

CheckIn ==
    /\ at = {}
    /\ \E l \in Outlets : at' = {l}
    /\ UNCHANGED <<today, begun, onDuty>>

CheckOut ==
    /\ at # {}
    /\ at' = {}
    /\ UNCHANGED <<today, begun, onDuty>>

Midnight ==
    /\ today' = today + 1
    /\ UNCHANGED <<begun, onDuty, at>>

Next == Begin \/ End \/ CheckIn \/ CheckOut \/ Midnight

\* What is promised ends with the first overlap.
Spec == Init /\ [][sound' => sound /\ Next]_<<today, begun, onDuty, at, sound>>
=============================================================================

------------------------------ MODULE Stockroom ------------------------------
(***************************************************************************)
(* What the stock promises the life of an order: accepting it takes units  *)
(* from the free stock and holds them, shipping it takes exactly those     *)
(* units out, closing it puts exactly those back, and nothing else moves   *)
(* units but a count of the free stock.                                    *)
(***************************************************************************)
EXTENDS OrderLife, Integers

CONSTANTS
    Batches,
    Holdings    \* what one order may hold, functions from batches to units

VARIABLES
    free,       \* units of each batch that no order holds
    held,       \* units of each batch that each order holds
    reserved,   \* units of each batch that orders hold
    shipped, received

stock  == <<free, held, reserved, shipped, received>>
rooms  == <<phase, sound, stock>>
Nothing == [b \in Batches |-> 0]

RoomInit ==
    /\ Init
    /\ free \in [Batches -> Nat] /\ received = free
    /\ held = [o \in Orders |-> Nothing]
    /\ reserved = Nothing /\ shipped = Nothing

Plus(f, g)  == [b \in Batches |-> f[b] + g[b]]
Minus(f, g) == [b \in Batches |-> f[b] - g[b]]

EnterOrder(o) == Enter(o) /\ UNCHANGED stock

Hold(o, a) ==
    /\ Accept(o)
    /\ \A b \in Batches : a[b] <= free[b]
    /\ held' = [held EXCEPT ![o] = a]
    /\ free' = Minus(free, a) /\ reserved' = Plus(reserved, a)
    /\ UNCHANGED <<shipped, received>>

ShipHeld(o) ==
    /\ Ship(o)
    /\ held' = [held EXCEPT ![o] = Nothing]
    /\ reserved' = Minus(reserved, held[o]) /\ shipped' = Plus(shipped, held[o])
    /\ UNCHANGED <<free, received>>

LetGo(o) ==
    /\ Close(o)
    /\ held' = [held EXCEPT ![o] = Nothing]
    /\ reserved' = Minus(reserved, held[o]) /\ free' = Plus(free, held[o])
    /\ UNCHANGED <<shipped, received>>

ArriveOrder(o) == Arrive(o) /\ UNCHANGED stock

\* The free units of a batch are counted anew, come in or are written off.
Count(b) ==
    /\ free' \in [Batches -> Nat]
    /\ \A c \in Batches \ {b} : free'[c] = free[c]
    /\ received' = [received EXCEPT ![b] = @ + (free'[b] - free[b])]
    /\ UNCHANGED <<phase, held, reserved, shipped>>

RoomNext ==
    \/ \E o \in Orders :
          \/ EnterOrder(o) \/ ShipHeld(o) \/ LetGo(o) \/ ArriveOrder(o)
          \/ \E a \in Holdings : Hold(o, a)
    \/ \E b \in Batches : Count(b)

RoomSpec == RoomInit /\ [][sound' => sound /\ RoomNext]_rooms
=============================================================================

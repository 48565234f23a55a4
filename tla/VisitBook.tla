----------------------------- MODULE VisitBook -----------------------------
(***************************************************************************)
(* What the booking service promises a client and a station, whatever      *)
(* handlers, tasks and locks it is made of: a visit is asked for on a free *)
(* slot, may be moved to another free slot only until it is confirmed, is  *)
(* confirmed before it is carried out, and once completed or canceled it   *)
(* stays so; a slot is never given to two visits; only canceled visits are *)
(* ever deleted, and their keys are not used again.                        *)
(***************************************************************************)
CONSTANTS Bookings, Slots, NoSlot

VARIABLES state,  \* the stage each visit is in
          place   \* the slot each visit is on

vars == <<state, place>>

Open == {"pending", "confirmed", "in_progress"}
Kept == Open \cup {"completed"}
State == Kept \cup {"none", "canceled", "gone"}

Free(s) == \A b \in Bookings : state[b] \in Kept => place[b] # s

Init ==
    /\ state = [b \in Bookings |-> "none"]
    /\ place = [b \in Bookings |-> NoSlot]

Ask(b, s) ==
    /\ state[b] = "none"
    /\ Free(s)
    /\ state' = [state EXCEPT ![b] = "pending"]
    /\ place' = [place EXCEPT ![b] = s]

Confirm(b) ==
    /\ state[b] = "pending"
    /\ state' = [state EXCEPT ![b] = "confirmed"]
    /\ UNCHANGED place

\* The client accepts another time: moved and confirmed at once.
Move(b, s) ==
    /\ state[b] = "pending"
    /\ Free(s)
    /\ state' = [state EXCEPT ![b] = "confirmed"]
    /\ place' = [place EXCEPT ![b] = s]

Begin(b) ==
    /\ state[b] = "confirmed"
    /\ state' = [state EXCEPT ![b] = "in_progress"]
    /\ UNCHANGED place

Complete(b) ==
    /\ state[b] = "in_progress"
    /\ state' = [state EXCEPT ![b] = "completed"]
    /\ UNCHANGED place

\* One visit by somebody's choice, or every overdue one at once.
Cancel(bs) ==
    /\ \A b \in bs : state[b] \in Open
    /\ state' = [b \in Bookings |-> IF b \in bs THEN "canceled" ELSE state[b]]
    /\ UNCHANGED place

Delete(bs) ==
    /\ \A b \in bs : state[b] = "canceled"
    /\ state' = [b \in Bookings |-> IF b \in bs THEN "gone" ELSE state[b]]
    /\ place' = [b \in Bookings |-> IF b \in bs THEN NoSlot ELSE place[b]]

Next ==
    \/ \E b \in Bookings : Confirm(b) \/ Begin(b) \/ Complete(b)
    \/ \E b \in Bookings, s \in Slots : Ask(b, s) \/ Move(b, s)
    \/ \E bs \in SUBSET Bookings : Cancel(bs) \/ Delete(bs)

Spec == Init /\ [][Next]_vars

\* No two visits that are not canceled are on one slot: what the promise comes
\* down to for a client who drives to the station.
OneVisitPerSlot ==
    \A b1, b2 \in Bookings :
        b1 # b2 /\ state[b1] \in Kept /\ state[b2] \in Kept => place[b1] # place[b2]
=============================================================================

----------------------------- MODULE MCBookings -----------------------------
(***************************************************************************)
(* Instances of Bookings for TLC, with one worker (handlers one at a time) *)
(* or two (handlers overlap).                                              *)
(***************************************************************************)
EXTENDS Bookings, TLC

\* Overlapping handlers: both slots start at hour 1 and are on one post, so
\* they are alike, and a request made at hour 0 is overdue at hour 2.
AlikeStart == [s \in Slots |-> 1]

\* One slot fought over: it can still be booked when the first request for it is
\* overdue.
LateStart == [s \in Slots |-> 2]

\* One at a time: some slot starts at hour 2, so that a client may cancel, and
\* a request made at hour 2 is overdue at hour 4.
EarlySlot == CHOOSE s \in Slots : TRUE
SpreadStart == [s \in Slots |-> IF s = EarlySlot THEN 1 ELSE 2]

OnePost == [s \in Slots |-> CHOOSE bay \in Bays : TRUE]

AlikeSymmetry ==
    UNION {Permutations(Clients), Permutations(Slots), Permutations(Bookings),
           Permutations(Procs)}
=============================================================================

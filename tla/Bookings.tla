------------------------------ MODULE Bookings ------------------------------
(***************************************************************************)
(* Online booking of a service station: apps/bookings with the views that  *)
(* call it (stations/views.py, stations/owner_views.py,                    *)
(* users/cabinet_views.py, erp/views.py).                                  *)
(*                                                                         *)
(* The database is PostgreSQL at READ COMMITTED and requests are not       *)
(* wrapped in transactions, so a handler is one of two kinds:              *)
(*   - a handler that re-reads its rows under SELECT ... FOR UPDATE inside *)
(*     transaction.atomic() is one step: the rows it tests are locked;     *)
(*   - a handler that loads an object, tests it and saves it later is two  *)
(*     steps, a read that leaves a request in flight and a save that acts  *)
(*     on what was read.  Between them any other process may act.          *)
(* Procs are the web workers and Celery workers, each with at most one     *)
(* request in flight.  With one process the handlers run one at a time.    *)
(*                                                                         *)
(* Time is counted in hours.  Authorisation is abstracted: an action is    *)
(* taken by an actor the view lets in.                                     *)
(*                                                                         *)
(* A definition under the comment "Mutant" is no part of the system: it is *)
(* a defect a property has to notice in place of the definition after it.  *)
(***************************************************************************)
EXTENDS Integers

CONSTANTS Clients,   \* users who book
          Slots,     \* TimeSlot rows generated for the station
          Bays,      \* the station's posts
          Bookings,  \* primary keys a Booking row may get
          Procs,     \* web and Celery workers
          Start,     \* the hour each slot starts at
          BayOf,     \* the post of each slot
          MaxTime,   \* bound on the clock
          NoOne,     \* no holder of a slot
          NoSlot,    \* SQL NULL in a slot column
          NoBay      \* no post: the request is not about one

ASSUME ConstantsAssumption ==
    /\ Start \in [Slots -> Nat]
    /\ BayOf \in [Slots -> Bays]
    /\ MaxTime \in Nat
    /\ NoOne \notin Clients
    /\ NoSlot \notin Slots
    /\ NoBay \notin Bays

VARIABLES now,           \* the clock
          slots,         \* TimeSlot rows that exist
          available,     \* TimeSlot.is_available
          hold,          \* Redis key slot_hold:{slot}
          status,        \* Booking.status; "none" not created, "gone" deleted
          slotOf,        \* Booking.slot
          proposed,      \* Booking.reschedule_proposed_slot
          deadline,      \* Booking.sto_confirm_deadline
          req,           \* the request each process has read for, not yet saved
          everConfirmed  \* history: bookings that have been confirmed

bookingVars == <<status, slotOf, proposed, deadline, everConfirmed>>
slotVars == <<slots, available>>
vars == <<now, slotVars, hold, bookingVars, req>>

-----------------------------------------------------------------------------
\* Statuses (BookingStatus).

Active == {"pending", "confirmed", "in_progress"}
Live == Active \cup {"completed"}
RowStatus == Live \cup {"canceled"}
Status == RowStatus \cup {"none", "gone"}

HasRow(b) == status[b] \in RowStatus

StoConfirmDeadlineHours == 1
ClientCancelMinHoursBefore == 2

\* Requests in flight.

Ops == {"idle", "submit", "status", "expire", "block", "delete_slots"}

Request == [op : Ops, ids : SUBSET Bookings, to : Status, clears : BOOLEAN,
            slot : Slots \cup {NoSlot}, client : Clients \cup {NoOne},
            bay : Bays \cup {NoBay}]

Idle == [op |-> "idle", ids |-> {}, to |-> "none", clears |-> FALSE,
         slot |-> NoSlot, client |-> NoOne, bay |-> NoBay]

\* A status to save on the bookings ids; clears: the proposal is dropped too.
StatusRequest(op, ids, to, clears) ==
    [Idle EXCEPT !.op = op, !.ids = ids, !.to = to, !.clears = clears]
SlotRequest(op, s, c) == [Idle EXCEPT !.op = op, !.slot = s, !.client = c]
BayRequest(bay) == [Idle EXCEPT !.op = "delete_slots", !.bay = bay]

Begin(p, r) == req[p] = Idle /\ req' = [req EXCEPT ![p] = r]
End(p, op) == req[p].op = op /\ req' = [req EXCEPT ![p] = Idle]

\* A locked handler needs a process free for its one step.
Served == (\E p \in Procs : req[p] = Idle) /\ UNCHANGED req

-----------------------------------------------------------------------------
Init ==
    /\ now = 0
    /\ slots = Slots
    /\ available = [s \in Slots |-> TRUE]
    /\ hold = [s \in Slots |-> NoOne]
    /\ status = [b \in Bookings |-> "none"]
    /\ slotOf = [b \in Bookings |-> NoSlot]
    /\ proposed = [b \in Bookings |-> NoSlot]
    /\ deadline = [b \in Bookings |-> 0]
    /\ req = [p \in Procs |-> Idle]
    /\ everConfirmed = {}

-----------------------------------------------------------------------------
\* Rules shared by the handlers.

\* Mutant: a closed slot is offered.
OnOfferThoughClosed(s) == s \in slots /\ Start[s] >= now
OnOffer(s) == s \in slots /\ Start[s] >= now /\ available[s]

\* Mutant: the hold is not looked at.
HoldIgnored(s, c) == TRUE
HoldAllows(s, c) == hold[s] \in {NoOne, c}

\* Mutant: proposals reserve nothing.
ReservedForgotten(s, exclude) == FALSE

\* A pending booking is offered the slot.
Reserved(s, exclude) ==
    \E b \in Bookings \ exclude : status[b] = "pending" /\ proposed[b] = s

\* Mutant: a completed visit frees its slot.
TakenIfActive(s) == \E b \in Bookings : status[b] \in Active /\ slotOf[b] = s

\* A booking that is not canceled is on the slot.
Taken(s) == \E b \in Bookings : status[b] \in Live /\ slotOf[b] = s

\* slot_is_bookable; c is NoOne when the caller passes no for_user, and
\* exclude holds the booking of exclude_reschedule_for_booking_id.
SlotIsBookable(s, c, exclude) ==
    /\ OnOffer(s)
    /\ HoldAllows(s, c)
    /\ ~Reserved(s, exclude)
    /\ ~Taken(s)

\* Mutant: the partial unique index is missing.
NoUniqueIndex(st) == TRUE

\* The partial unique index booking_slot_unique_active, on the statuses a
\* statement would leave behind.
UniqueActive(st) ==
    \A b1, b2 \in Bookings :
        b1 # b2 /\ st[b1] \in Active /\ st[b2] \in Active
            => slotOf[b1] # slotOf[b2]

\* Mutant: work may start on a pending booking.
CanTransitionSkipping(cur, new) ==
    \/ new \in {"confirmed", "in_progress"} /\ cur = "pending"
    \/ new = "completed" /\ cur = "in_progress"
    \/ new = "canceled" /\ cur \in Active

\* can_booking_transition_to and _erp_can_set_booking_status agree.
CanTransition(cur, new) ==
    \/ new = "confirmed" /\ cur = "pending"
    \/ new = "in_progress" /\ cur = "confirmed"
    \/ new = "completed" /\ cur = "in_progress"
    \/ new = "canceled" /\ cur \in Active

\* UPDATE ... SET status = to WHERE pk IN ids: it touches existing rows only.
Updated(ids, to) ==
    [b \in Bookings |-> IF b \in ids /\ HasRow(b) THEN to ELSE status[b]]

WithoutProposal(ids) ==
    [b \in Bookings |-> IF b \in ids THEN NoSlot ELSE proposed[b]]

\* The UPDATE of a request about a status, or the IntegrityError that leaves
\* the table as it was.
SaveStatus(r) ==
    LET after == Updated(r.ids, r.to)
    IN  \/ /\ UniqueActive(after)
           /\ status' = after
           /\ proposed' = IF r.clears THEN WithoutProposal(r.ids) ELSE proposed
           /\ everConfirmed' = everConfirmed \cup
                                 {b \in r.ids : after[b] = "confirmed"}
           /\ UNCHANGED <<slotOf, deadline>>
        \/ /\ ~UniqueActive(after)
           /\ UNCHANGED bookingVars

-----------------------------------------------------------------------------
\* The client: hold, request, cancel, answer a proposal.

\* Mutant: the key is set to the slot, not to the user.
AcquireHoldSwapped(c, s) ==
    /\ hold[s] \in {NoOne, c}
    /\ hold' = [hold EXCEPT ![s] = s]

\* acquire_or_refresh_slot_hold: SET NX EX, or EXPIRE when it is the user's own.
AcquireHold(c, s) ==
    /\ hold[s] \in {NoOne, c}
    /\ hold' = [hold EXCEPT ![s] = c]

\* booking_form_partial: the hold is taken before the slot is tested, so it is
\* taken on a slot that cannot be booked too.  A submit whose form does not
\* validate has the same effect.
OpenBookingForm(c, s) ==
    /\ Served
    /\ s \in slots
    /\ AcquireHold(c, s)
    /\ UNCHANGED <<now, slotVars, bookingVars>>

\* The TTL of the key passes (SLOT_HOLD_TTL_SECONDS).
HoldExpires(s) ==
    /\ hold[s] # NoOne
    /\ hold' = [hold EXCEPT ![s] = NoOne]
    /\ UNCHANGED <<now, slotVars, bookingVars, req>>

\* booking_submit up to the call of create_booking_request.
BookingSubmit(p, c, s) ==
    /\ AcquireHold(c, s)
    /\ SlotIsBookable(s, c, {})
    /\ Begin(p, SlotRequest("submit", s, c))
    /\ UNCHANGED <<now, slotVars, bookingVars>>

\* create_booking_request: the slot is locked and tested again, the row is
\* inserted and the hold on the slot deleted; or the request is refused.  The
\* key in Redis is no part of the lock: the step is taken at the test, and a
\* change of the key before the transaction ends falls before or after it.
CreateBookingRequest(p) ==
    LET s == req[p].slot
        c == req[p].client
    IN  /\ End(p, "submit")
        /\ \/ /\ SlotIsBookable(s, c, {})
              /\ \E b \in Bookings :
                    /\ status[b] = "none"
                    /\ status' = [status EXCEPT ![b] = "pending"]
                    /\ slotOf' = [slotOf EXCEPT ![b] = s]
                    /\ deadline' = [deadline EXCEPT ![b] = now + StoConfirmDeadlineHours]
              /\ hold' = [hold EXCEPT ![s] = NoOne]
              /\ UNCHANGED <<proposed, everConfirmed>>
           \/ /\ ~SlotIsBookable(s, c, {})
              /\ UNCHANGED <<bookingVars, hold>>
        /\ UNCHANGED <<now, slotVars>>

\* client_booking_cancel loads the booking; client_cancel_booking_precheck.
ClientCancelRead(p, b) ==
    /\ status[b] \in Active
    /\ Start[slotOf[b]] - now >= ClientCancelMinHoursBefore
    /\ Begin(p, StatusRequest("status", {b}, "canceled", TRUE))
    /\ UNCHANGED <<now, slotVars, hold, bookingVars>>

\* Mutant: a proposal can be accepted in any status.
AnswerableWhenever(b) == HasRow(b) /\ proposed[b] # NoSlot
AnswerableProposal(b) == status[b] = "pending" /\ proposed[b] # NoSlot

\* client_accept_reschedule: booking and proposed slot are locked.
ClientAcceptReschedule(b) ==
    /\ Served
    /\ AnswerableProposal(b)
    /\ SlotIsBookable(proposed[b], NoOne, {b})
    /\ slotOf' = [slotOf EXCEPT ![b] = proposed[b]]
    /\ proposed' = [proposed EXCEPT ![b] = NoSlot]
    /\ status' = [status EXCEPT ![b] = "confirmed"]
    /\ everConfirmed' = everConfirmed \cup {b}
    /\ UNCHANGED <<now, slotVars, hold, deadline>>

\* client_decline_reschedule asks for a proposal, not for a pending booking.
ClientDeclineReschedule(b) ==
    /\ Served
    /\ HasRow(b)
    /\ proposed[b] # NoSlot
    /\ proposed' = [proposed EXCEPT ![b] = NoSlot]
    /\ UNCHANGED <<now, slotVars, hold, status, slotOf, deadline, everConfirmed>>

-----------------------------------------------------------------------------
\* The owner of the station and the ERP administrator.

\* booking_confirm, booking_reject, booking_start and booking_complete load
\* the booking; can_booking_transition_to tests what was loaded.  Only a cancel
\* drops the proposal.
OwnerTransitionRead(p, b, to) ==
    /\ CanTransition(status[b], to)
    /\ Begin(p, StatusRequest("status", {b}, to, to = "canceled"))
    /\ UNCHANGED <<now, slotVars, hold, bookingVars>>

\* booking_set_status and booking_emergency_cancel of the ERP: the same tests,
\* but the proposal is never dropped.
ErpSetStatusRead(p, b, to) ==
    /\ CanTransition(status[b], to)
    /\ Begin(p, StatusRequest("status", {b}, to, FALSE))
    /\ UNCHANGED <<now, slotVars, hold, bookingVars>>

\* The save of client_cancel_booking, apply_owner_booking_transition,
\* booking_set_status and booking_emergency_cancel.
StatusSave(p) ==
    /\ End(p, "status")
    /\ SaveStatus(req[p])
    /\ UNCHANGED <<now, slotVars, hold>>

\* owner_propose_booking_reschedule: booking and new slot are locked.
OwnerProposeReschedule(b, s) ==
    /\ Served
    /\ status[b] = "pending"
    /\ s # slotOf[b]
    /\ SlotIsBookable(s, NoOne, {b})
    /\ proposed' = [proposed EXCEPT ![b] = s]
    /\ UNCHANGED <<now, slotVars, hold, status, slotOf, deadline, everConfirmed>>

\* slot_toggle_block, action block: test, then save.
SlotBlockRead(p, s) ==
    /\ s \in slots
    /\ ~Taken(s)
    /\ Begin(p, SlotRequest("block", s, NoOne))
    /\ UNCHANGED <<now, slotVars, hold, bookingVars>>

SlotBlockSave(p) ==
    LET s == req[p].slot
    IN  /\ End(p, "block")
        /\ available' = [available EXCEPT ![s] = IF s \in slots THEN FALSE ELSE @]
        /\ UNCHANGED <<now, slots, hold, bookingVars>>

\* slot_toggle_block, action unblock, tests nothing.
SlotUnblock(s) ==
    /\ Served
    /\ s \in slots
    /\ available' = [available EXCEPT ![s] = TRUE]
    /\ UNCHANGED <<now, slots, hold, bookingVars>>

BaySlots(bay) == {s \in slots : BayOf[s] = bay}
BookedIn(ss, statuses) == {b \in Bookings : status[b] \in statuses /\ slotOf[b] \in ss}

\* bay_delete refuses a post with a booking of any status.
BayDeleteRead(p, bay) ==
    /\ BaySlots(bay) # {}
    /\ BookedIn(BaySlots(bay), RowStatus) = {}
    /\ Begin(p, BayRequest(bay))
    /\ UNCHANGED <<now, slotVars, hold, bookingVars>>

\* master_delete refuses only bookings that are not canceled (a master of the
\* station here has one post).
MasterDeleteRead(p, bay) ==
    /\ BaySlots(bay) # {}
    /\ BookedIn(BaySlots(bay), Live) = {}
    /\ Begin(p, BayRequest(bay))
    /\ UNCHANGED <<now, slotVars, hold, bookingVars>>

\* The delete cascades over Booking.slot and nulls reschedule_proposed_slot.
\* Columns of a row that is gone go back to their initial values.
DeleteSlotsSave(p) ==
    LET dead == BaySlots(req[p].bay)
        lost == BookedIn(dead, RowStatus)
    IN  /\ End(p, "delete_slots")
        /\ slots' = slots \ dead
        /\ available' = [s \in Slots |-> available[s] /\ s \notin dead]
        /\ status' = [b \in Bookings |-> IF b \in lost THEN "gone" ELSE status[b]]
        /\ slotOf' = [b \in Bookings |-> IF b \in lost THEN NoSlot ELSE slotOf[b]]
        /\ proposed' = [b \in Bookings |->
                          IF b \in lost \/ proposed[b] \in dead
                          THEN NoSlot ELSE proposed[b]]
        /\ deadline' = [b \in Bookings |-> IF b \in lost THEN 0 ELSE deadline[b]]
        /\ UNCHANGED <<now, hold, everConfirmed>>

-----------------------------------------------------------------------------
\* Celery: expire_unconfirmed_bookings every ten minutes.

\* Mutant: the deadline is compared the wrong way.
OverdueBackwards == {b \in Bookings : status[b] = "pending" /\ deadline[b] > now}
Overdue == {b \in Bookings : status[b] = "pending" /\ deadline[b] < now}

\* The keys are read outside the transaction of the UPDATE.
ExpireRead(p) ==
    /\ Overdue # {}
    /\ Begin(p, StatusRequest("expire", Overdue, "canceled", TRUE))
    /\ UNCHANGED <<now, slotVars, hold, bookingVars>>

\* No key read: return 0.
ExpireNothing ==
    /\ Overdue = {}
    /\ Served
    /\ UNCHANGED <<now, slotVars, hold, bookingVars>>

\* UPDATE by primary key: the status is not tested again.
ExpireSave(p) ==
    /\ End(p, "expire")
    /\ SaveStatus(req[p])
    /\ UNCHANGED <<now, slotVars, hold>>

-----------------------------------------------------------------------------
\* The environment.

Tick ==
    /\ now < MaxTime
    /\ now' = now + 1
    /\ UNCHANGED <<slotVars, hold, bookingVars, req>>

\* A worker dies, times out or loses its connection before its save.
Crash(p) ==
    /\ req[p] # Idle
    /\ req' = [req EXCEPT ![p] = Idle]
    /\ UNCHANGED <<now, slotVars, hold, bookingVars>>

Save(p) ==
    \/ CreateBookingRequest(p)
    \/ StatusSave(p)
    \/ SlotBlockSave(p)
    \/ DeleteSlotsSave(p)
    \/ ExpireSave(p)

Read(p) ==
    \/ \E c \in Clients, s \in Slots : BookingSubmit(p, c, s)
    \/ \E b \in Bookings : ClientCancelRead(p, b)
    \/ \E b \in Bookings, to \in RowStatus : OwnerTransitionRead(p, b, to)
    \/ \E b \in Bookings, to \in RowStatus : ErpSetStatusRead(p, b, to)
    \/ \E s \in Slots : SlotBlockRead(p, s)
    \/ \E bay \in Bays : BayDeleteRead(p, bay) \/ MasterDeleteRead(p, bay)
    \/ ExpireRead(p)

Locked ==
    \/ \E c \in Clients, s \in Slots : OpenBookingForm(c, s)
    \/ \E b \in Bookings : ClientAcceptReschedule(b)
    \/ \E b \in Bookings : ClientDeclineReschedule(b)
    \/ \E b \in Bookings, s \in Slots : OwnerProposeReschedule(b, s)
    \/ \E s \in Slots : SlotUnblock(s)
    \/ ExpireNothing

Next ==
    \/ \E p \in Procs : Read(p) \/ Save(p) \/ Crash(p)
    \/ Locked
    \/ \E s \in Slots : HoldExpires(s)
    \/ Tick

Spec == Init /\ [][Next]_vars

\* Time passes; a request in flight ends; beat keeps queuing the expiry task,
\* a worker picks it up again and again, and not every run of it is killed.
Fairness ==
    /\ WF_vars(Tick)
    /\ \A p \in Procs : WF_vars(Save(p) \/ Crash(p))
    /\ \A p \in Procs : SF_vars(ExpireRead(p)) /\ SF_vars(ExpireSave(p))

FairSpec == Spec /\ Fairness
-----------------------------------------------------------------------------
\* Properties.

\* Every variable keeps to the values the columns and keys can hold, and a
\* booking that has a row is on a slot.
TypeOK ==
    /\ now \in 0..MaxTime
    /\ slots \subseteq Slots
    /\ available \in [Slots -> BOOLEAN]
    /\ hold \in [Slots -> Clients \cup {NoOne}]
    /\ status \in [Bookings -> Status]
    /\ slotOf \in [Bookings -> Slots \cup {NoSlot}]
    /\ proposed \in [Bookings -> Slots \cup {NoSlot}]
    /\ deadline \in [Bookings -> Nat]
    /\ req \in [Procs -> Request]
    /\ everConfirmed \subseteq Bookings
    /\ \A b \in Bookings : HasRow(b) => slotOf[b] \in Slots

\* However requests overlap, at most one pending, confirmed or running booking
\* is on a slot: the lock of create and accept and the partial unique index
\* together stop a stale confirm from reviving a booking whose slot was resold.
OneActivePerSlot ==
    \A b1, b2 \in Bookings :
        b1 # b2 /\ status[b1] \in Active /\ status[b2] \in Active
            => slotOf[b1] # slotOf[b2]

\* Work is started and finished only on a booking that was confirmed at some
\* time, although the owner and the ERP save what they decided on a stale read.
VisitWasConfirmed ==
    \A b \in Bookings : status[b] \in {"in_progress", "completed"} => b \in everConfirmed

\* Once confirmed, a booking keeps the slot the client was told of, although
\* confirming leaves an unanswered proposal that may be answered later.
ConfirmedVisitNotMoved ==
    [][\A b \in Bookings :
         status[b] \in {"confirmed", "in_progress", "completed"}
            => slotOf'[b] = slotOf[b] \/ status'[b] = "gone"]_vars

\* A request is accepted only if no other client holds the slot when it is tested
\* under the lock: a client whose hold lapsed after the form was submitted and was
\* taken over by another is refused.
HoldRespected ==
    [][\A p \in Procs, b \in Bookings :
         /\ req[p].op = "submit" /\ req'[p] = Idle
         /\ status[b] = "none" /\ status'[b] = "pending"
         => hold[slotOf'[b]] \in {NoOne, req[p].client}]_vars

\* With handlers one at a time, a slot offered to a pending booking is kept for
\* it: no booking that is not canceled is on it and nobody else is offered it.
ReservedSlotFree ==
    \A b1, b2 \in Bookings :
        b1 # b2 /\ status[b1] = "pending" /\ proposed[b1] # NoSlot
            => /\ status[b2] \in Live => proposed[b1] # slotOf[b2]
               /\ status[b2] = "pending" => proposed[b1] # proposed[b2]

\* With handlers one at a time, a slot the owner closed has no booking on it.
ClosedSlotHasNoVisit ==
    \A b \in Bookings : status[b] \in Live => available[slotOf[b]]

\* With handlers one at a time, the service keeps the promise of VisitBook.
Promise == INSTANCE VisitBook WITH state <- status, place <- slotOf
KeepsPromise == Promise!Spec

\* No client waits for ever for an answer: an unconfirmed request is confirmed,
\* canceled by somebody, or canceled by the expiry task once it is overdue.
RequestIsAnswered ==
    \A b \in Bookings : (status[b] = "pending") ~> (status[b] # "pending")

\* The docstring of expire_unconfirmed_bookings_now: the task moves pending
\* bookings with a passed deadline to canceled (and no others).
ExpiryCancelsOnlyPending ==
    [][\A p \in Procs, b \in Bookings :
         /\ req[p].op = "expire"
         /\ req'[p] = Idle
         /\ status'[b] # status[b]
         => status[b] = "pending"]_vars

\* The docstring of can_booking_transition_to: a booking may be canceled before
\* it is completed, so a completed or canceled booking stays what it is.
FinalStatusStays ==
    [][\A b \in Bookings :
         status[b] \in {"completed", "canceled"} => status'[b] \in {status[b], "gone"}]_vars
=============================================================================

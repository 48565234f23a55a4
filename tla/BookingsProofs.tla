--------------------------- MODULE BookingsProofs ---------------------------
(***************************************************************************)
(* Theorems about Bookings for every set of clients, slots, keys and       *)
(* processes: whatever overlaps whatever.                                  *)
(***************************************************************************)
EXTENDS Bookings, TLAPS

\* Every state of the system keeps to the types of its columns and keys.
THEOREM TypeCorrect == Spec => []TypeOK
<1>1. Init => TypeOK
  BY ConstantsAssumption
  DEF Init, TypeOK, Request, Idle, Ops, Status, RowStatus, Live, Active, HasRow
<1>2. TypeOK /\ [Next]_vars => TypeOK'
  <2> SUFFICES ASSUME TypeOK, [Next]_vars PROVE TypeOK'
    OBVIOUS
  <2> USE ConstantsAssumption DEF TypeOK, HasRow, RowStatus, Live, Active, Status,
          bookingVars, slotVars
  <2>1. ASSUME NEW p \in Procs, Read(p) PROVE TypeOK'
    <3>1. UNCHANGED <<now, slots, available, status, slotOf, proposed, deadline,
                      everConfirmed>>
      BY <2>1 DEF Read, BookingSubmit, ClientCancelRead, OwnerTransitionRead,
           ErpSetStatusRead, SlotBlockRead, BayDeleteRead, MasterDeleteRead, ExpireRead
    <3>2. hold' \in [Slots -> Clients \cup {NoOne}]
      BY <2>1 DEF Read, BookingSubmit, AcquireHold, ClientCancelRead,
           OwnerTransitionRead, ErpSetStatusRead, SlotBlockRead, BayDeleteRead,
           MasterDeleteRead, ExpireRead
    <3>3. \E r \in Request : req' = [req EXCEPT ![p] = r]
      <4> USE DEF Begin, StatusRequest, SlotRequest, BayRequest, Idle, Request, Ops
      <4>2. \A op \in {"status", "expire"}, ids \in SUBSET Bookings, to \in RowStatus,
              clears \in BOOLEAN : StatusRequest(op, ids, to, clears) \in Request
        OBVIOUS
      <4>3. \A bay \in Bays : BayRequest(bay) \in Request
        OBVIOUS
      <4>4. \A op \in {"submit", "block"}, s \in Slots, c \in Clients \cup {NoOne} :
              SlotRequest(op, s, c) \in Request
        OBVIOUS
      <4> HIDE DEF StatusRequest, SlotRequest, BayRequest, Idle, Request, Ops
      <4>5. CASE \E c \in Clients, s \in Slots : BookingSubmit(p, c, s)
        BY <4>5, <4>4 DEF BookingSubmit
      <4>6. CASE \E b \in Bookings : ClientCancelRead(p, b)
        BY <4>6, <4>2 DEF ClientCancelRead
      <4>7. CASE \E b \in Bookings, to \in RowStatus :
                   OwnerTransitionRead(p, b, to) \/ ErpSetStatusRead(p, b, to)
        BY <4>7, <4>2 DEF OwnerTransitionRead, ErpSetStatusRead
      <4>8. CASE \E s \in Slots : SlotBlockRead(p, s)
        BY <4>8, <4>4 DEF SlotBlockRead
      <4>9. CASE \E bay \in Bays : BayDeleteRead(p, bay) \/ MasterDeleteRead(p, bay)
        BY <4>9, <4>3 DEF BayDeleteRead, MasterDeleteRead
      <4>10. CASE ExpireRead(p)
        BY <4>10, <4>2 DEF ExpireRead, Overdue
      <4>11. QED
        BY <2>1, <4>5, <4>6, <4>7, <4>8, <4>9, <4>10 DEF Read
    <3>4. QED
      BY <3>1, <3>2, <3>3
  <2>2. ASSUME NEW p \in Procs, Save(p) PROVE TypeOK'
    <3>1. Idle \in Request
      BY DEF Idle, Request, Ops
    <3>2. CASE CreateBookingRequest(p)
      <4> DEFINE s == req[p].slot
      <4>1. req' = [req EXCEPT ![p] = Idle] /\ UNCHANGED <<now, slots, available>>
        BY <3>2 DEF CreateBookingRequest, End
      <4>2. CASE ~SlotIsBookable(s, req[p].client, {})
        BY <3>1, <3>2, <4>1, <4>2 DEF CreateBookingRequest
      <4>3. CASE SlotIsBookable(s, req[p].client, {})
        <5>1. s \in Slots
          BY <4>3 DEF SlotIsBookable, OnOffer
        <5>2. PICK b \in Bookings :
                /\ status' = [status EXCEPT ![b] = "pending"]
                /\ slotOf' = [slotOf EXCEPT ![b] = s]
                /\ deadline' = [deadline EXCEPT ![b] = now + StoConfirmDeadlineHours]
          BY <3>2, <4>3 DEF CreateBookingRequest
        <5>3. /\ hold' = [hold EXCEPT ![s] = NoOne]
              /\ UNCHANGED <<proposed, everConfirmed>>
          BY <3>2, <4>3 DEF CreateBookingRequest
        <5>4. now + StoConfirmDeadlineHours \in Nat
          BY DEF StoConfirmDeadlineHours
        <5> HIDE DEF s
        <5>5. QED
          BY <3>1, <4>1, <5>1, <5>2, <5>3, <5>4
      <4>4. QED
        BY <4>2, <4>3
    <3>3. ASSUME StatusSave(p) \/ ExpireSave(p) PROVE TypeOK'
      <4> DEFINE r == req[p]
      <4>1. r.ids \subseteq Bookings /\ r.to \in Status
        BY DEF Request
      <4>2. SaveStatus(r) /\ UNCHANGED <<now, slots, available, hold>>
        BY <3>3 DEF StatusSave, ExpireSave
      <4>3. req' = [req EXCEPT ![p] = Idle]
        BY <3>3 DEF StatusSave, ExpireSave, End
      <4> HIDE DEF r
      <4>4. CASE UNCHANGED bookingVars
        BY <3>1, <4>2, <4>3, <4>4
      <4>5. CASE status' = Updated(r.ids, r.to) /\ ~UNCHANGED bookingVars
        <5>1. /\ proposed' \in {WithoutProposal(r.ids), proposed}
              /\ everConfirmed' \subseteq everConfirmed \cup r.ids
              /\ UNCHANGED <<slotOf, deadline>>
          BY <4>2, <4>5 DEF SaveStatus
        <5>2. proposed' \in [Bookings -> Slots \cup {NoSlot}]
          BY <5>1 DEF WithoutProposal
        <5>3. status' \in [Bookings -> Status]
          BY <4>1, <4>5 DEF Updated
        <5>4. \A b \in Bookings : HasRow(b)' => HasRow(b)
          BY <4>5 DEF Updated
        <5>5. QED
          BY <3>1, <4>1, <4>2, <4>3, <5>1, <5>2, <5>3, <5>4
      <4>6. QED
        BY <4>2, <4>4, <4>5 DEF SaveStatus
    <3>4. CASE SlotBlockSave(p)
      BY <3>1, <3>4 DEF SlotBlockSave, End
    <3>5. CASE DeleteSlotsSave(p)
      BY <3>1, <3>5 DEF DeleteSlotsSave, End, BaySlots, BookedIn
    <3>6. QED
      BY <2>2, <3>2, <3>3, <3>4, <3>5 DEF Save
  <2>3. ASSUME NEW p \in Procs, Crash(p) PROVE TypeOK'
    BY <2>3 DEF Crash, Idle, Request, Ops
  <2>4. ASSUME Locked PROVE TypeOK'
    <3>1. CASE \E c \in Clients, s \in Slots : OpenBookingForm(c, s)
      BY <3>1 DEF OpenBookingForm, AcquireHold, Served
    <3>2. CASE \E b \in Bookings : ClientAcceptReschedule(b)
      BY <3>2 DEF ClientAcceptReschedule, AnswerableProposal, Served
    <3>3. CASE \E b \in Bookings : ClientDeclineReschedule(b)
      BY <3>3 DEF ClientDeclineReschedule, Served
    <3>4. CASE \E b \in Bookings, s \in Slots : OwnerProposeReschedule(b, s)
      BY <3>4 DEF OwnerProposeReschedule, Served
    <3>5. CASE \E s \in Slots : SlotUnblock(s)
      BY <3>5 DEF SlotUnblock, Served
    <3>6. CASE ExpireNothing
      BY <3>6 DEF ExpireNothing, Served
    <3>7. QED
      BY <2>4, <3>1, <3>2, <3>3, <3>4, <3>5, <3>6 DEF Locked
  <2>5. ASSUME NEW s \in Slots, HoldExpires(s) PROVE TypeOK'
    BY <2>5 DEF HoldExpires
  <2>6. CASE Tick
    BY <2>6 DEF Tick
  <2>7. CASE UNCHANGED vars
    BY <2>7 DEF vars
  <2>8. QED
    BY <2>1, <2>2, <2>3, <2>4, <2>5, <2>6, <2>7 DEF Next
<1>3. QED
  BY <1>1, <1>2, PTL DEF Spec

-----------------------------------------------------------------------------
\* The steps that write booking rows; every other step leaves them alone.
LEMMA BookingSteps ==
    [Next]_vars =>
        \/ UNCHANGED bookingVars
        \/ \E p \in Procs : \/ CreateBookingRequest(p)
                            \/ StatusSave(p)
                            \/ ExpireSave(p)
                            \/ DeleteSlotsSave(p)
        \/ \E b \in Bookings : ClientAcceptReschedule(b) \/ ClientDeclineReschedule(b)
        \/ \E b \in Bookings, s \in Slots : OwnerProposeReschedule(b, s)
<1> SUFFICES ASSUME [Next]_vars, ~UNCHANGED bookingVars
             PROVE  \/ \E p \in Procs : \/ CreateBookingRequest(p)
                                        \/ StatusSave(p)
                                        \/ ExpireSave(p)
                                        \/ DeleteSlotsSave(p)
                    \/ \E b \in Bookings :
                         ClientAcceptReschedule(b) \/ ClientDeclineReschedule(b)
                    \/ \E b \in Bookings, s \in Slots : OwnerProposeReschedule(b, s)
  OBVIOUS
<1>1. ~(\E p \in Procs : Read(p) \/ Crash(p) \/ SlotBlockSave(p))
  BY DEF Read, BookingSubmit, ClientCancelRead, OwnerTransitionRead, ErpSetStatusRead,
         SlotBlockRead, BayDeleteRead, MasterDeleteRead, ExpireRead, Crash, SlotBlockSave
<1>2. ~(\E s \in Slots : HoldExpires(s) \/ SlotUnblock(s)) /\ ~Tick /\ ~ExpireNothing
  BY DEF HoldExpires, SlotUnblock, Tick, ExpireNothing
<1>3. ~(\E c \in Clients, s \in Slots : OpenBookingForm(c, s)) /\ ~UNCHANGED vars
  BY DEF OpenBookingForm, vars
<1>4. QED
  BY <1>1, <1>2, <1>3 DEF Next, Locked, Save

\* What a locked insert does to the table: one new pending row, without a
\* proposal, on a slot with no other booking that is not canceled.
LEMMA CreateEffect ==
    ASSUME TypeOK, NEW p \in Procs, CreateBookingRequest(p), ~UNCHANGED bookingVars
    PROVE  \E b \in Bookings, s \in Slots :
              /\ status[b] = "none" /\ ~Taken(s)
              /\ status' = [status EXCEPT ![b] = "pending"]
              /\ slotOf' = [slotOf EXCEPT ![b] = s]
              /\ UNCHANGED <<proposed, everConfirmed>>
<1>1. SlotIsBookable(req[p].slot, req[p].client, {})
  BY DEF CreateBookingRequest
<1>2. req[p].slot \in Slots /\ ~Taken(req[p].slot)
  BY <1>1 DEF SlotIsBookable, OnOffer, TypeOK
<1>3. QED
  BY <1>1, <1>2 DEF CreateBookingRequest

\* However requests overlap, no slot carries two active bookings.
THEOREM OneActive == Spec => []OneActivePerSlot
<1>1. Init => OneActivePerSlot
  BY DEF Init, OneActivePerSlot, Active
<1>2. TypeOK /\ OneActivePerSlot /\ [Next]_vars => OneActivePerSlot'
  <2> SUFFICES ASSUME TypeOK, OneActivePerSlot, [Next]_vars, ~UNCHANGED bookingVars
               PROVE  OneActivePerSlot'
    BY DEF OneActivePerSlot, bookingVars
  <2> USE DEF OneActivePerSlot
  <2>1. ASSUME NEW p \in Procs, CreateBookingRequest(p) PROVE OneActivePerSlot'
    BY <2>1, CreateEffect DEF Taken, Live, TypeOK
  <2>2. ASSUME NEW p \in Procs, StatusSave(p) \/ ExpireSave(p) PROVE OneActivePerSlot'
    <3>1. SaveStatus(req[p])
      BY <2>2 DEF StatusSave, ExpireSave
    <3>2. UniqueActive(status') /\ slotOf' = slotOf
      BY <3>1 DEF SaveStatus
    <3>3. QED
      BY <3>2 DEF UniqueActive
  <2>3. ASSUME NEW p \in Procs, DeleteSlotsSave(p) PROVE OneActivePerSlot'
    <3>1. \A b \in Bookings :
            status'[b] \in Active => status[b] \in Active /\ slotOf'[b] = slotOf[b]
      BY <2>3 DEF DeleteSlotsSave, Active
    <3>2. QED
      BY <3>1
  <2>4. ASSUME NEW b \in Bookings, ClientAcceptReschedule(b) PROVE OneActivePerSlot'
    <3>1. /\ ~Taken(proposed[b])
          /\ status' = [status EXCEPT ![b] = "confirmed"]
          /\ slotOf' = [slotOf EXCEPT ![b] = proposed[b]]
      BY <2>4 DEF ClientAcceptReschedule, SlotIsBookable
    <3>2. QED
      BY <3>1 DEF Taken, Live, TypeOK
  <2>5. ASSUME NEW b \in Bookings, NEW s \in Slots, OwnerProposeReschedule(b, s)
        PROVE  OneActivePerSlot'
    BY <2>5 DEF OwnerProposeReschedule
  <2>6. ASSUME NEW b \in Bookings, ClientDeclineReschedule(b) PROVE OneActivePerSlot'
    BY <2>6 DEF ClientDeclineReschedule
  <2>7. QED
    BY <2>1, <2>2, <2>3, <2>4, <2>5, <2>6, BookingSteps
<1>3. QED
  BY <1>1, <1>2, TypeCorrect, PTL DEF Spec

-----------------------------------------------------------------------------
\* VisitWasConfirmed is not inductive: a status saved from a stale read is as
\* good as what the request in flight remembers.  So requests are sound too.
RequestsSound ==
    \A p \in Procs :
        /\ req[p].to \in {"none", "confirmed", "in_progress", "completed", "canceled"}
        /\ req[p].to = "none" => req[p].ids = {}
        /\ req[p].to \in {"in_progress", "completed"} => req[p].ids \subseteq everConfirmed

ConfirmedOnce ==
    \A b \in Bookings :
        status[b] \in {"confirmed", "in_progress", "completed"} => b \in everConfirmed

\* A read leaves the tables as they are and a sound request in flight.
LEMMA ReadIsSound ==
    ASSUME TypeOK, ConfirmedOnce, RequestsSound, NEW p \in Procs, Read(p)
    PROVE  RequestsSound' /\ UNCHANGED bookingVars
<1> DEFINE Sound(r) ==
      /\ r.to \in {"none", "confirmed", "in_progress", "completed", "canceled"}
      /\ r.to = "none" => r.ids = {}
      /\ r.to \in {"in_progress", "completed"} => r.ids \subseteq everConfirmed
<1> USE DEF Begin, StatusRequest, SlotRequest, BayRequest, Idle
<1>1. UNCHANGED bookingVars
  BY DEF Read, BookingSubmit, ClientCancelRead, OwnerTransitionRead, ErpSetStatusRead,
         SlotBlockRead, BayDeleteRead, MasterDeleteRead, ExpireRead
<1>2. ASSUME NEW c \in Clients, NEW s \in Slots, BookingSubmit(p, c, s)
      PROVE  \E r : Sound(r) /\ req' = [req EXCEPT ![p] = r]
  BY <1>2 DEF BookingSubmit
<1>3. ASSUME NEW s \in Slots, SlotBlockRead(p, s)
      PROVE  \E r : Sound(r) /\ req' = [req EXCEPT ![p] = r]
  BY <1>3 DEF SlotBlockRead
<1>4. ASSUME NEW bay \in Bays, BayDeleteRead(p, bay) \/ MasterDeleteRead(p, bay)
      PROVE  \E r : Sound(r) /\ req' = [req EXCEPT ![p] = r]
  BY <1>4 DEF BayDeleteRead, MasterDeleteRead
<1>5. CASE ExpireRead(p) \/ \E b \in Bookings : ClientCancelRead(p, b)
  <2>1. \E r : Sound(r) /\ req' = [req EXCEPT ![p] = r]
    BY <1>5 DEF ExpireRead, ClientCancelRead
  <2>2. QED
    BY <1>1, <2>1 DEF RequestsSound, bookingVars, TypeOK
<1>6. ASSUME NEW b \in Bookings, NEW to \in RowStatus,
             OwnerTransitionRead(p, b, to) \/ ErpSetStatusRead(p, b, to)
      PROVE  \E r : Sound(r) /\ req' = [req EXCEPT ![p] = r]
  <2>1. CanTransition(status[b], to)
    BY <1>6 DEF OwnerTransitionRead, ErpSetStatusRead
  <2>2. /\ to \in {"confirmed", "in_progress", "completed", "canceled"}
        /\ to \in {"in_progress", "completed"} => b \in everConfirmed
    BY <2>1 DEF CanTransition, ConfirmedOnce
  <2>3. \E clears \in BOOLEAN :
          req' = [req EXCEPT ![p] = StatusRequest("status", {b}, to, clears)]
    BY <1>6 DEF OwnerTransitionRead, ErpSetStatusRead
  <2>4. QED
    BY <2>2, <2>3
<1>7. QED
  BY <1>1, <1>2, <1>3, <1>4, <1>5, <1>6 DEF Read, RequestsSound, bookingVars, TypeOK

\* What a save of statuses does to the table, when it does anything: rows get
\* the status the request asks for, and a confirmed row is remembered.
LEMMA SaveEffect ==
    ASSUME TypeOK, NEW p \in Procs, SaveStatus(req[p]), ~UNCHANGED bookingVars
    PROVE  /\ \A b \in Bookings :
                status'[b] # status[b]
                  => HasRow(b) /\ b \in req[p].ids /\ status'[b] = req[p].to
           /\ \A b \in Bookings :
                b \in req[p].ids /\ status'[b] = "confirmed" => b \in everConfirmed'
           /\ everConfirmed \subseteq everConfirmed'
           /\ \A b \in Bookings : proposed'[b] \in {proposed[b], NoSlot}
           /\ UNCHANGED slotOf
<1>1. status' = Updated(req[p].ids, req[p].to) /\ UNCHANGED slotOf
  BY DEF SaveStatus
<1>2. everConfirmed' = everConfirmed \cup {b \in req[p].ids : status'[b] = "confirmed"}
  BY <1>1 DEF SaveStatus
<1>3. proposed' \in {WithoutProposal(req[p].ids), proposed}
  BY DEF SaveStatus
<1>4. \A b \in Bookings : proposed'[b] \in {proposed[b], NoSlot}
  BY <1>3 DEF WithoutProposal
<1>5. \A b \in Bookings :
        status'[b] # status[b]
          => HasRow(b) /\ b \in req[p].ids /\ status'[b] = req[p].to
  BY <1>1 DEF Updated
<1>6. QED
  BY <1>1, <1>2, <1>4, <1>5

\* The three facts that make the history of confirmations inductive.
LEMMA SoundInvariant == Spec => [](RequestsSound /\ ConfirmedOnce)
<1> DEFINE Inv == RequestsSound /\ ConfirmedOnce
<1>1. Init => Inv
  BY DEF Init, RequestsSound, ConfirmedOnce, Idle
<1>2. TypeOK /\ Inv /\ [Next]_vars => Inv'
  <2> SUFFICES ASSUME TypeOK, Inv, [Next]_vars PROVE Inv'
    OBVIOUS
  <2>1. ASSUME NEW p \in Procs, Read(p) PROVE Inv'
    BY <2>1, ReadIsSound DEF ConfirmedOnce, bookingVars
  <2>2. ASSUME ~(\E p \in Procs : Read(p)), everConfirmed \subseteq everConfirmed'
        PROVE  RequestsSound'
    <3>1. \A p \in Procs : req'[p] \in {req[p], Idle}
      BY <2>2 DEF Next, Save, Locked, CreateBookingRequest, StatusSave, SlotBlockSave,
           DeleteSlotsSave, ExpireSave, Crash, End, OpenBookingForm,
           ClientAcceptReschedule, ClientDeclineReschedule, OwnerProposeReschedule,
           SlotUnblock, ExpireNothing, HoldExpires, Tick, Served, vars, TypeOK
    <3>2. QED
      BY <2>2, <3>1 DEF RequestsSound, Idle
  <2>3. CASE UNCHANGED bookingVars /\ ~(\E p \in Procs : Read(p))
    BY <2>2, <2>3 DEF ConfirmedOnce, bookingVars
  <2>4. ASSUME NEW p \in Procs, CreateBookingRequest(p), ~UNCHANGED bookingVars
        PROVE  ConfirmedOnce' /\ everConfirmed \subseteq everConfirmed'
    BY <2>4, CreateEffect DEF ConfirmedOnce, TypeOK
  <2>5. ASSUME NEW p \in Procs, StatusSave(p) \/ ExpireSave(p), ~UNCHANGED bookingVars
        PROVE  ConfirmedOnce' /\ everConfirmed \subseteq everConfirmed'
    <3>1. SaveStatus(req[p])
      BY <2>5 DEF StatusSave, ExpireSave
    <3>2. QED
      BY <2>5, <3>1, SaveEffect DEF ConfirmedOnce, RequestsSound
  <2>6. ASSUME NEW p \in Procs, DeleteSlotsSave(p)
        PROVE  ConfirmedOnce' /\ everConfirmed \subseteq everConfirmed'
    BY <2>6 DEF DeleteSlotsSave, ConfirmedOnce
  <2>7. ASSUME NEW b \in Bookings, ClientAcceptReschedule(b)
        PROVE  ConfirmedOnce' /\ everConfirmed \subseteq everConfirmed'
    BY <2>7 DEF ClientAcceptReschedule, ConfirmedOnce, TypeOK
  <2>8. ASSUME NEW b \in Bookings, ClientDeclineReschedule(b)
        PROVE  ConfirmedOnce' /\ everConfirmed \subseteq everConfirmed'
    BY <2>8 DEF ClientDeclineReschedule, ConfirmedOnce
  <2>9. ASSUME NEW b \in Bookings, NEW s \in Slots, OwnerProposeReschedule(b, s)
        PROVE  ConfirmedOnce' /\ everConfirmed \subseteq everConfirmed'
    BY <2>9 DEF OwnerProposeReschedule, ConfirmedOnce
  <2>10. QED
    BY <2>1, <2>2, <2>3, <2>4, <2>5, <2>6, <2>7, <2>8, <2>9, BookingSteps
<1>3. QED
  BY <1>1, <1>2, TypeCorrect, PTL DEF Spec

\* No work without a confirmation, however stale what the owner decided on is.
THEOREM WasConfirmed == Spec => []VisitWasConfirmed
<1>1. ConfirmedOnce => VisitWasConfirmed
  BY DEF ConfirmedOnce, VisitWasConfirmed
<1>2. QED
  BY <1>1, SoundInvariant, PTL

-----------------------------------------------------------------------------
\* A confirmed booking keeps its slot: an unanswered proposal left behind by
\* the confirmation cannot move it, and no save of a status touches the slot.
THEOREM NotMoved == Spec => ConfirmedVisitNotMoved
<1> DEFINE Kept ==
      \A b \in Bookings : status[b] \in {"confirmed", "in_progress", "completed"}
                            => slotOf'[b] = slotOf[b] \/ status'[b] = "gone"
<1>1. TypeOK /\ [Next]_vars => Kept
  <2> SUFFICES ASSUME TypeOK, [Next]_vars, ~UNCHANGED bookingVars PROVE Kept
    BY DEF bookingVars
  <2>1. ASSUME NEW p \in Procs, CreateBookingRequest(p) PROVE Kept
    BY <2>1, CreateEffect DEF TypeOK
  <2>2. ASSUME NEW p \in Procs, StatusSave(p) \/ ExpireSave(p) PROVE Kept
    BY <2>2, SaveEffect DEF StatusSave, ExpireSave
  <2>3. ASSUME NEW p \in Procs, DeleteSlotsSave(p) PROVE Kept
    BY <2>3 DEF DeleteSlotsSave
  <2>4. ASSUME NEW b \in Bookings, ClientAcceptReschedule(b) PROVE Kept
    BY <2>4 DEF ClientAcceptReschedule, AnswerableProposal, TypeOK
  <2>5. ASSUME NEW b \in Bookings, ClientDeclineReschedule(b) PROVE Kept
    BY <2>5 DEF ClientDeclineReschedule
  <2>6. ASSUME NEW b \in Bookings, NEW s \in Slots, OwnerProposeReschedule(b, s) PROVE Kept
    BY <2>6 DEF OwnerProposeReschedule
  <2>7. QED
    BY <2>1, <2>2, <2>3, <2>4, <2>5, <2>6, BookingSteps
<1>2. TypeOK /\ [Next]_vars => [Kept]_vars
  BY <1>1
<1>3. QED
  BY <1>2, TypeCorrect, PTL DEF Spec, ConfirmedVisitNotMoved

-----------------------------------------------------------------------------
\* A client whose hold was taken over is refused, wherever the take-over falls
\* between the submit and the insert.
THEOREM HoldIsRespected == Spec => HoldRespected
<1> DEFINE Accepted(p, b) == /\ req[p].op = "submit" /\ req'[p] = Idle
                             /\ status[b] = "none" /\ status'[b] = "pending"
<1>1. ASSUME TypeOK, [Next]_vars, NEW p \in Procs, NEW b \in Bookings, Accepted(p, b)
      PROVE  hold[slotOf'[b]] \in {NoOne, req[p].client}
  <2>1. PICK q \in Procs : CreateBookingRequest(q)
    <3>1. ~UNCHANGED bookingVars
      BY <1>1 DEF bookingVars
    <3>2. ~(\E q \in Procs : StatusSave(q) \/ ExpireSave(q))
      BY <1>1, <3>1, SaveEffect DEF StatusSave, ExpireSave, HasRow, RowStatus, Live, Active
    <3>3. ~(\E q \in Procs : DeleteSlotsSave(q))
      BY <1>1 DEF DeleteSlotsSave
    <3>4. ~(\E c \in Bookings : ClientAcceptReschedule(c) \/ ClientDeclineReschedule(c))
      BY <1>1 DEF ClientAcceptReschedule, ClientDeclineReschedule, AnswerableProposal, TypeOK
    <3>5. ~(\E c \in Bookings, s \in Slots : OwnerProposeReschedule(c, s))
      BY <1>1 DEF OwnerProposeReschedule
    <3>6. QED
      BY <1>1, <3>1, <3>2, <3>3, <3>4, <3>5, BookingSteps
  <2>2. q = p
    BY <1>1, <2>1 DEF CreateBookingRequest, End, TypeOK, Idle
  <2>3. SlotIsBookable(req[p].slot, req[p].client, {})
    BY <1>1, <2>1, <2>2 DEF CreateBookingRequest, bookingVars
  <2>4. slotOf'[b] = req[p].slot
    BY <1>1, <2>1, <2>2, <2>3 DEF CreateBookingRequest, TypeOK
  <2>5. QED
    BY <2>3, <2>4 DEF SlotIsBookable, HoldAllows
<1>2. TypeOK /\ [Next]_vars =>
        [\A p \in Procs, b \in Bookings :
           Accepted(p, b) => hold[slotOf'[b]] \in {NoOne, req[p].client}]_vars
  BY <1>1
<1>3. QED
  BY <1>2, TypeCorrect, PTL DEF Spec, HoldRespected

-----------------------------------------------------------------------------
\* No two pending bookings are offered the same slot.
ProposalsDistinct ==
    \A b1, b2 \in Bookings :
        /\ b1 # b2 /\ status[b1] = "pending" /\ status[b2] = "pending"
        /\ proposed[b1] # NoSlot
        => proposed[b1] # proposed[b2]

\* It takes the fact that a key not used yet has no proposal.
FreshHasNoProposal == \A b \in Bookings : status[b] = "none" => proposed[b] = NoSlot

\* However proposals, answers, expiry and cancellations overlap, no two clients
\* are asked to move to one slot.
THEOREM DistinctProposals == Spec => []ProposalsDistinct
<1> DEFINE Inv == ProposalsDistinct /\ FreshHasNoProposal
<1>1. Init => Inv
  BY DEF Init, ProposalsDistinct, FreshHasNoProposal
<1>2. TypeOK /\ RequestsSound /\ Inv /\ [Next]_vars => Inv'
  <2> SUFFICES ASSUME TypeOK, RequestsSound, Inv, [Next]_vars, ~UNCHANGED bookingVars
               PROVE  Inv'
    BY DEF ProposalsDistinct, FreshHasNoProposal, bookingVars
  <2> USE DEF ProposalsDistinct, FreshHasNoProposal
  <2>1. ASSUME NEW p \in Procs, CreateBookingRequest(p) PROVE Inv'
    BY <2>1, CreateEffect DEF TypeOK
  <2>2. ASSUME NEW p \in Procs, StatusSave(p) \/ ExpireSave(p) PROVE Inv'
    <3>1. SaveStatus(req[p])
      BY <2>2 DEF StatusSave, ExpireSave
    <3>2. \A b \in Bookings : status'[b] \in {"none", "pending"} => status[b] = status'[b]
      <4> SUFFICES ASSUME NEW b \in Bookings, status'[b] # status[b]
                   PROVE  status'[b] \notin {"none", "pending"}
        OBVIOUS
      <4>1. b \in req[p].ids /\ status'[b] = req[p].to
        BY <3>1, SaveEffect
      <4>2. QED
        BY <4>1 DEF RequestsSound
    <3>3. \A b \in Bookings : proposed'[b] \in {proposed[b], NoSlot}
      BY <3>1, SaveEffect
    <3>4. QED
      BY <3>2, <3>3
  <2>3. ASSUME NEW p \in Procs, DeleteSlotsSave(p) PROVE Inv'
    <3>1. \A b \in Bookings : status'[b] \in {"none", "pending"} => status[b] = status'[b]
      BY <2>3 DEF DeleteSlotsSave
    <3>2. \A b \in Bookings : proposed'[b] \in {proposed[b], NoSlot}
      BY <2>3 DEF DeleteSlotsSave
    <3>3. QED
      BY <3>1, <3>2
  <2>4. ASSUME NEW b \in Bookings, ClientAcceptReschedule(b) PROVE Inv'
    BY <2>4 DEF ClientAcceptReschedule, TypeOK
  <2>5. ASSUME NEW b \in Bookings, ClientDeclineReschedule(b) PROVE Inv'
    BY <2>5 DEF ClientDeclineReschedule, TypeOK
  <2>6. ASSUME NEW b \in Bookings, NEW s \in Slots, OwnerProposeReschedule(b, s) PROVE Inv'
    <3>1. ~Reserved(s, {b}) /\ proposed' = [proposed EXCEPT ![b] = s] /\ status[b] = "pending"
      BY <2>6 DEF OwnerProposeReschedule, SlotIsBookable
    <3>2. status' = status
      BY <2>6 DEF OwnerProposeReschedule
    <3>3. QED
      BY <3>1, <3>2, ConstantsAssumption DEF Reserved, TypeOK
  <2>7. QED
    BY <2>1, <2>2, <2>3, <2>4, <2>5, <2>6, BookingSteps
<1>3. QED
  BY <1>1, <1>2, TypeCorrect, SoundInvariant, PTL DEF Spec

-----------------------------------------------------------------------------
\* One handler at a time: what the request in flight read is still so when it
\* saves, because no other handler is served in between.
SnapshotFresh ==
    \A p \in Procs :
        /\ req[p].op = "status" =>
             \E b \in Bookings : req[p].ids = {b} /\ CanTransition(status[b], req[p].to)
        /\ req[p].op = "expire" =>
             /\ req[p].to = "canceled"
             /\ \A b \in req[p].ids : status[b] = "pending"
        /\ req[p].op = "delete_slots" => BookedIn(BaySlots(req[p].bay), Live) = {}
        /\ req[p].op = "block" => ~Taken(req[p].slot)

LEMMA SnapshotStaysFresh ==
    ASSUME \A p, q \in Procs : p = q
    PROVE  Spec => []SnapshotFresh
<1> DEFINE Fresh(r) ==
      /\ r.op = "status" =>
           \E b \in Bookings : r.ids = {b} /\ CanTransition(status[b], r.to)
      /\ r.op = "expire" => r.to = "canceled" /\ \A b \in r.ids : status[b] = "pending"
      /\ r.op = "delete_slots" => BookedIn(BaySlots(r.bay), Live) = {}
      /\ r.op = "block" => ~Taken(r.slot)
<1>1. Init => SnapshotFresh
  BY DEF Init, SnapshotFresh, Idle
<1>2. TypeOK /\ SnapshotFresh /\ [Next]_vars => SnapshotFresh'
  <2> SUFFICES ASSUME TypeOK, SnapshotFresh, [Next]_vars PROVE SnapshotFresh'
    OBVIOUS
  <2>1. ASSUME NEW p \in Procs, Read(p) PROVE SnapshotFresh'
    <3>1. UNCHANGED <<status, slotOf, slots>>
      BY <2>1 DEF Read, BookingSubmit, ClientCancelRead, OwnerTransitionRead,
           ErpSetStatusRead, SlotBlockRead, BayDeleteRead, MasterDeleteRead, ExpireRead,
           bookingVars, slotVars
    <3>2. \E r : Fresh(r) /\ req' = [req EXCEPT ![p] = r]
      <4> USE DEF Begin, StatusRequest, SlotRequest, BayRequest, Idle
      <4>1. CASE \E c \in Clients, s \in Slots : BookingSubmit(p, c, s)
        BY <4>1 DEF BookingSubmit
      <4>2. CASE \E s \in Slots : SlotBlockRead(p, s)
        BY <4>2 DEF SlotBlockRead
      <4>3. CASE \E bay \in Bays : BayDeleteRead(p, bay) \/ MasterDeleteRead(p, bay)
        <5>1. PICK bay \in Bays : /\ BookedIn(BaySlots(bay), Live) = {}
                                  /\ req' = [req EXCEPT ![p] = BayRequest(bay)]
          BY <4>3 DEF BayDeleteRead, MasterDeleteRead, BookedIn, RowStatus
        <5>2. Fresh(BayRequest(bay))
          BY <5>1
        <5>3. QED
          BY <5>1, <5>2
      <4>4. CASE \E b \in Bookings, to \in RowStatus :
                   OwnerTransitionRead(p, b, to) \/ ErpSetStatusRead(p, b, to)
        BY <4>4 DEF OwnerTransitionRead, ErpSetStatusRead
      <4>5. CASE \E b \in Bookings : ClientCancelRead(p, b)
        BY <4>5 DEF ClientCancelRead, CanTransition
      <4>6. CASE ExpireRead(p)
        BY <4>6 DEF ExpireRead, Overdue
      <4>7. QED
        BY <2>1, <4>1, <4>2, <4>3, <4>4, <4>5, <4>6 DEF Read
    <3>3. QED
      BY <3>1, <3>2 DEF SnapshotFresh, BookedIn, BaySlots, Taken, TypeOK
  <2>2. ASSUME NEW p \in Procs, Save(p) \/ Crash(p) PROVE SnapshotFresh'
    <3>1. req'[p] = Idle
      BY <2>2 DEF Save, Crash, CreateBookingRequest, StatusSave, SlotBlockSave,
           DeleteSlotsSave, ExpireSave, End, TypeOK
    <3>2. \A q \in Procs : req'[q] = Idle
      BY <3>1
    <3>3. QED
      BY <3>2 DEF SnapshotFresh, Idle
  <2>3. ASSUME Locked PROVE SnapshotFresh'
    <3>1. Served
      BY <2>3 DEF Locked, OpenBookingForm, ClientAcceptReschedule, ClientDeclineReschedule,
           OwnerProposeReschedule, SlotUnblock, ExpireNothing
    <3>2. \A q \in Procs : req'[q] = Idle
      BY <3>1 DEF Served
    <3>3. QED
      BY <3>2 DEF SnapshotFresh, Idle
  <2>4. CASE UNCHANGED vars \/ Tick \/ \E s \in Slots : HoldExpires(s)
    <3>1. UNCHANGED <<status, slotOf, slots, req>>
      BY <2>4 DEF vars, Tick, HoldExpires, bookingVars, slotVars
    <3>2. QED
      BY <3>1 DEF SnapshotFresh, BookedIn, BaySlots, Taken
  <2>5. QED
    BY <2>1, <2>2, <2>3, <2>4 DEF Next
<1>3. QED
  BY <1>1, <1>2, TypeCorrect, PTL DEF Spec

\* With handlers one at a time the service implements VisitBook: slots are
\* exclusive, confirmed visits stay put, and final statuses are final.
THEOREM SerialKeepsPromise ==
    ASSUME \A p, q \in Procs : p = q
    PROVE  Spec => KeepsPromise
<1> USE DEF Promise!Open, Promise!Kept
<1>1. Init => Promise!Init
  BY DEF Init, Promise!Init
<1>2. TypeOK /\ SnapshotFresh /\ [Next]_vars => [Promise!Next]_<<status, slotOf>>
  <2> SUFFICES ASSUME TypeOK, SnapshotFresh, [Next]_vars, ~UNCHANGED bookingVars
               PROVE  [Promise!Next]_<<status, slotOf>>
    BY DEF bookingVars
  <2>1. ASSUME NEW p \in Procs, CreateBookingRequest(p) PROVE Promise!Next
    <3>1. PICK b \in Bookings, s \in Slots :
            /\ status[b] = "none" /\ ~Taken(s)
            /\ status' = [status EXCEPT ![b] = "pending"]
            /\ slotOf' = [slotOf EXCEPT ![b] = s]
      BY <2>1, CreateEffect
    <3>2. Promise!Ask(b, s)
      BY <3>1 DEF Promise!Ask, Promise!Free, Taken, Live, Active
    <3>3. QED
      BY <3>2 DEF Promise!Next
  <2>2. ASSUME NEW p \in Procs, StatusSave(p) PROVE Promise!Next
    <3>1. PICK b \in Bookings : req[p].ids = {b} /\ CanTransition(status[b], req[p].to)
      BY <2>2 DEF StatusSave, End, SnapshotFresh
    <3>2. status' = Updated({b}, req[p].to) /\ UNCHANGED slotOf
      BY <2>2, <3>1 DEF StatusSave, SaveStatus
    <3>3. status' = [status EXCEPT ![b] = req[p].to]
      BY <3>1, <3>2 DEF CanTransition, Updated, HasRow, RowStatus, Live, Active, TypeOK
    <3>4. CASE req[p].to = "canceled"
      <4>1. status[b] \in Active
        BY <3>1, <3>4 DEF CanTransition
      <4>2. Promise!Cancel({b})
        BY <3>2, <3>3, <3>4, <4>1 DEF Promise!Cancel, Active, TypeOK
      <4>3. QED
        BY <4>2 DEF Promise!Next
    <3>5. CASE req[p].to # "canceled"
      <4>1. Promise!Confirm(b) \/ Promise!Begin(b) \/ Promise!Complete(b)
        BY <3>1, <3>2, <3>3, <3>5 DEF CanTransition, Promise!Confirm, Promise!Begin,
             Promise!Complete
      <4>2. QED
        BY <4>1 DEF Promise!Next
    <3>6. QED
      BY <3>4, <3>5
  <2>3. ASSUME NEW p \in Procs, ExpireSave(p) PROVE Promise!Next
    <3>1. /\ req[p].ids \in SUBSET Bookings /\ req[p].to = "canceled"
          /\ \A b \in req[p].ids : status[b] = "pending"
      BY <2>3 DEF ExpireSave, End, SnapshotFresh, TypeOK, Request
    <3>2. status' = Updated(req[p].ids, "canceled") /\ UNCHANGED slotOf
      BY <2>3, <3>1 DEF ExpireSave, SaveStatus
    <3>3. Promise!Cancel(req[p].ids)
      BY <3>1, <3>2 DEF Promise!Cancel, Updated, HasRow, RowStatus, Live, Active
    <3>4. QED
      BY <3>1, <3>3 DEF Promise!Next
  <2>4. ASSUME NEW p \in Procs, DeleteSlotsSave(p) PROVE Promise!Next
    <3> DEFINE lost == BookedIn(BaySlots(req[p].bay), RowStatus)
    <3>1. BookedIn(BaySlots(req[p].bay), Live) = {}
      BY <2>4 DEF DeleteSlotsSave, End, SnapshotFresh
    <3>2. \A b \in lost : status[b] = "canceled"
      BY <3>1 DEF BookedIn, RowStatus
    <3>3. /\ status' = [b \in Bookings |-> IF b \in lost THEN "gone" ELSE status[b]]
          /\ slotOf' = [b \in Bookings |-> IF b \in lost THEN NoSlot ELSE slotOf[b]]
      BY <2>4 DEF DeleteSlotsSave
    <3>4. lost \in SUBSET Bookings
      BY DEF BookedIn
    <3> HIDE DEF lost
    <3>5. Promise!Delete(lost)
      BY <3>2, <3>3 DEF Promise!Delete
    <3>6. QED
      BY <3>4, <3>5 DEF Promise!Next
  <2>5. ASSUME NEW b \in Bookings, ClientAcceptReschedule(b) PROVE Promise!Next
    <3>1. /\ status[b] = "pending" /\ proposed[b] \in Slots /\ ~Taken(proposed[b])
          /\ status' = [status EXCEPT ![b] = "confirmed"]
          /\ slotOf' = [slotOf EXCEPT ![b] = proposed[b]]
      BY <2>5 DEF ClientAcceptReschedule, AnswerableProposal, SlotIsBookable, TypeOK
    <3>2. Promise!Move(b, proposed[b])
      BY <3>1 DEF Promise!Move, Promise!Free, Taken, Live, Active
    <3>3. QED
      BY <3>1, <3>2 DEF Promise!Next
  <2>6. ASSUME NEW b \in Bookings, ClientDeclineReschedule(b)
        PROVE  UNCHANGED <<status, slotOf>>
    BY <2>6 DEF ClientDeclineReschedule
  <2>7. ASSUME NEW b \in Bookings, NEW s \in Slots, OwnerProposeReschedule(b, s)
        PROVE  UNCHANGED <<status, slotOf>>
    BY <2>7 DEF OwnerProposeReschedule
  <2>8. QED
    BY <2>1, <2>2, <2>3, <2>4, <2>5, <2>6, <2>7, BookingSteps
<1>3. QED
  BY <1>1, <1>2, TypeCorrect, SnapshotStaysFresh, PTL
  DEF Spec, KeepsPromise, Promise!Spec, Promise!vars

\* What the promise comes down to: with handlers one at a time no two bookings
\* that are not canceled, completed ones included, are ever on one slot.  The
\* partial unique index says so only of active ones.
THEOREM SerialOneVisitPerSlot ==
    ASSUME \A p, q \in Procs : p = q
    PROVE  Spec => []Promise!OneVisitPerSlot
<1> USE DEF Promise!OneVisitPerSlot, Promise!Open, Promise!Kept
<1> DEFINE Typed == status \in [Bookings -> Status] /\ slotOf \in [Bookings -> Slots \cup {NoSlot}]
<1>1. Init => Promise!OneVisitPerSlot
  BY DEF Init
<1>2. /\ Typed /\ Promise!OneVisitPerSlot /\ [Promise!Next]_<<status, slotOf>>
      => Promise!OneVisitPerSlot'
  <2> SUFFICES ASSUME Typed, Promise!OneVisitPerSlot, Promise!Next
               PROVE  Promise!OneVisitPerSlot'
    OBVIOUS
  <2>1. ASSUME NEW b \in Bookings, Promise!Confirm(b) \/ Promise!Begin(b) \/ Promise!Complete(b)
        PROVE  Promise!OneVisitPerSlot'
    BY <2>1 DEF Promise!Confirm, Promise!Begin, Promise!Complete
  <2>2. ASSUME NEW b \in Bookings, NEW s \in Slots, Promise!Ask(b, s) \/ Promise!Move(b, s)
        PROVE  Promise!OneVisitPerSlot'
    BY <2>2 DEF Promise!Ask, Promise!Move, Promise!Free
  <2>3. ASSUME NEW bs \in SUBSET Bookings, Promise!Cancel(bs) \/ Promise!Delete(bs)
        PROVE  Promise!OneVisitPerSlot'
    <3>1. \A b \in Bookings : status'[b] \in Promise!Kept =>
                                status[b] \in Promise!Kept /\ slotOf'[b] = slotOf[b]
      BY <2>3 DEF Promise!Cancel, Promise!Delete
    <3>2. QED
      BY <3>1
  <2>4. QED
    BY <2>1, <2>2, <2>3 DEF Promise!Next
<1>3. TypeOK => Typed
  BY DEF TypeOK
<1>4. QED
  BY <1>1, <1>2, <1>3, TypeCorrect, SerialKeepsPromise, PTL
  DEF Spec, KeepsPromise, Promise!Spec, Promise!vars

-----------------------------------------------------------------------------
\* With handlers one at a time a save of a status brings no booking back to life,
\* whatever the status it writes.
LEMMA SaveRevivesNothing ==
    ASSUME TypeOK, SnapshotFresh, NEW p \in Procs, StatusSave(p) \/ ExpireSave(p)
    PROVE  \A b \in Bookings : /\ status'[b] \in Live => status[b] \in Live
                               /\ status'[b] = "pending" => status[b] = "pending"
                               /\ slotOf'[b] = slotOf[b]
                               /\ proposed'[b] \in {proposed[b], NoSlot}
<1>1. SaveStatus(req[p])
  BY DEF StatusSave, ExpireSave
<1>2. ASSUME NEW b \in Bookings, status'[b] # status[b]
      PROVE  status[b] \in Live /\ status'[b] # "pending"
  <2>1. HasRow(b) /\ b \in req[p].ids /\ status'[b] = req[p].to
    BY <1>1, <1>2, SaveEffect DEF bookingVars
  <2>2. CASE req[p].op = "status"
    BY <2>1, <2>2 DEF SnapshotFresh, CanTransition, Live, Active
  <2>3. CASE req[p].op = "expire"
    BY <2>1, <2>3 DEF SnapshotFresh, Live, Active
  <2>4. QED
    BY <2>2, <2>3 DEF StatusSave, ExpireSave, End
<1>3. CASE UNCHANGED bookingVars
  BY <1>3 DEF bookingVars
<1>4. QED
  BY <1>1, <1>2, <1>3, SaveEffect

\* A slot offered to a pending booking is kept for it.
OfferedSlotFree ==
    \A b1, b2 \in Bookings :
        b1 # b2 /\ status[b1] = "pending" /\ proposed[b1] # NoSlot /\ status[b2] \in Live
            => proposed[b1] # slotOf[b2]

\* With handlers one at a time the station keeps a slot it offered: an answer, a
\* request, an expiry or a deleted post in between finds it reserved.
THEOREM SerialReservedSlotFree ==
    ASSUME \A p, q \in Procs : p = q
    PROVE  Spec => []ReservedSlotFree
<1> DEFINE Inv == OfferedSlotFree /\ FreshHasNoProposal
<1>1. Init => Inv
  BY DEF Init, OfferedSlotFree, FreshHasNoProposal
<1>2. TypeOK /\ SnapshotFresh /\ Inv /\ [Next]_vars => Inv'
  <2> SUFFICES ASSUME TypeOK, SnapshotFresh, Inv, [Next]_vars, ~UNCHANGED bookingVars
               PROVE  Inv'
    BY DEF OfferedSlotFree, FreshHasNoProposal, bookingVars
  <2> USE DEF OfferedSlotFree, FreshHasNoProposal
  <2>1. ASSUME NEW p \in Procs, CreateBookingRequest(p) PROVE Inv'
    <3>1. PICK b \in Bookings, s \in Slots :
            /\ status[b] = "none" /\ ~Taken(s)
            /\ status' = [status EXCEPT ![b] = "pending"]
            /\ slotOf' = [slotOf EXCEPT ![b] = s]
            /\ UNCHANGED proposed /\ ~Reserved(s, {})
      BY <2>1 DEF CreateBookingRequest, SlotIsBookable, OnOffer, TypeOK, bookingVars
    <3>2. QED
      BY <3>1 DEF Reserved, TypeOK
  <2>2. ASSUME NEW p \in Procs, StatusSave(p) \/ ExpireSave(p) PROVE Inv'
    <3>1. \A b \in Bookings : status'[b] = "none" => status[b] = "none"
      <4> SUFFICES ASSUME NEW b \in Bookings, status'[b] # status[b]
                   PROVE  status'[b] # "none"
        OBVIOUS
      <4>1. b \in req[p].ids /\ status'[b] = req[p].to
        BY <2>2, SaveEffect DEF StatusSave, ExpireSave
      <4>2. QED
        BY <2>2, <4>1 DEF StatusSave, ExpireSave, End, SnapshotFresh, CanTransition
    <3>2. QED
      BY <2>2, <3>1, SaveRevivesNothing
  <2>3. ASSUME NEW p \in Procs, DeleteSlotsSave(p) PROVE Inv'
    <3>1. \A b \in Bookings : /\ status'[b] \in {status[b], "gone"}
                              /\ status'[b] # "gone" => slotOf'[b] = slotOf[b]
                              /\ proposed'[b] \in {proposed[b], NoSlot}
      BY <2>3 DEF DeleteSlotsSave, TypeOK
    <3>2. QED
      BY <3>1 DEF Live, Active
  <2>4. ASSUME NEW b \in Bookings, ClientAcceptReschedule(b) PROVE Inv'
    <3>1. /\ status' = [status EXCEPT ![b] = "confirmed"]
          /\ slotOf' = [slotOf EXCEPT ![b] = proposed[b]]
          /\ proposed' = [proposed EXCEPT ![b] = NoSlot]
          /\ ~Reserved(proposed[b], {b})
      BY <2>4 DEF ClientAcceptReschedule, SlotIsBookable
    <3>2. QED
      BY <3>1 DEF Reserved, TypeOK
  <2>5. ASSUME NEW b \in Bookings, ClientDeclineReschedule(b) PROVE Inv'
    BY <2>5 DEF ClientDeclineReschedule, TypeOK
  <2>6. ASSUME NEW b \in Bookings, NEW s \in Slots, OwnerProposeReschedule(b, s) PROVE Inv'
    <3>1. /\ ~Taken(s) /\ status[b] = "pending"
          /\ proposed' = [proposed EXCEPT ![b] = s] /\ UNCHANGED <<status, slotOf>>
      BY <2>6 DEF OwnerProposeReschedule, SlotIsBookable
    <3>2. QED
      BY <3>1 DEF Taken, TypeOK
  <2>7. QED
    BY <2>1, <2>2, <2>3, <2>4, <2>5, <2>6, BookingSteps
<1>3. Inv /\ ProposalsDistinct => ReservedSlotFree
  BY DEF OfferedSlotFree, ProposalsDistinct, ReservedSlotFree
<1>4. QED
  BY <1>1, <1>2, <1>3, TypeCorrect, SnapshotStaysFresh, DistinctProposals, PTL DEF Spec

\* With handlers one at a time no booking that is not canceled is on a slot its
\* owner has closed: none is closed with a booking on it, none is booked closed.
THEOREM SerialClosedSlotHasNoVisit ==
    ASSUME \A p, q \in Procs : p = q
    PROVE  Spec => []ClosedSlotHasNoVisit
<1>1. Init => ClosedSlotHasNoVisit
  BY DEF Init, ClosedSlotHasNoVisit, Live, Active
<1>2. TypeOK /\ SnapshotFresh /\ ClosedSlotHasNoVisit /\ [Next]_vars => ClosedSlotHasNoVisit'
  <2> SUFFICES ASSUME TypeOK, SnapshotFresh, ClosedSlotHasNoVisit, [Next]_vars
               PROVE  ClosedSlotHasNoVisit'
    OBVIOUS
  <2>0. \A b \in Bookings : status[b] \in Live => slotOf[b] \in Slots /\ available[slotOf[b]]
    BY DEF TypeOK, HasRow, RowStatus, ClosedSlotHasNoVisit
  <2>1. ASSUME NEW p \in Procs, SlotBlockSave(p) PROVE ClosedSlotHasNoVisit'
    <3>1. ~Taken(req[p].slot)
      BY <2>1 DEF SlotBlockSave, End, SnapshotFresh
    <3>2. UNCHANGED <<status, slotOf>>
          /\ available' = [available EXCEPT ![req[p].slot] =
                             IF req[p].slot \in slots THEN FALSE ELSE @]
      BY <2>1 DEF SlotBlockSave, bookingVars
    <3>3. QED
      BY <2>0, <3>1, <3>2 DEF Taken, TypeOK, ClosedSlotHasNoVisit
  <2>2. ASSUME NEW s \in Slots, SlotUnblock(s) PROVE ClosedSlotHasNoVisit'
    BY <2>0, <2>2 DEF SlotUnblock, bookingVars, TypeOK, ClosedSlotHasNoVisit
  <2>3. ASSUME NEW p \in Procs, DeleteSlotsSave(p) PROVE ClosedSlotHasNoVisit'
    <3> DEFINE dead == BaySlots(req[p].bay)
               lost == BookedIn(dead, RowStatus)
    <3>1. /\ available' = [s \in Slots |-> available[s] /\ s \notin dead]
          /\ status' = [b \in Bookings |-> IF b \in lost THEN "gone" ELSE status[b]]
          /\ slotOf' = [b \in Bookings |-> IF b \in lost THEN NoSlot ELSE slotOf[b]]
      BY <2>3 DEF DeleteSlotsSave
    <3>2. ASSUME NEW b \in Bookings, status'[b] \in Live PROVE available'[slotOf'[b]]
      <4>1. b \notin lost
        BY <3>1, <3>2 DEF Live, Active
      <4>2. status[b] \in Live /\ slotOf'[b] = slotOf[b]
        BY <3>1, <3>2, <4>1
      <4>3. slotOf[b] \notin dead
        BY <4>1, <4>2 DEF BookedIn, RowStatus
      <4> HIDE DEF dead, lost
      <4>4. QED
        BY <2>0, <3>1, <4>2, <4>3
    <3>3. QED
      BY <3>2 DEF ClosedSlotHasNoVisit
  <2>4. ASSUME NEW p \in Procs, CreateBookingRequest(p), ~UNCHANGED bookingVars
        PROVE  ClosedSlotHasNoVisit'
    <3>1. PICK b \in Bookings, s \in Slots :
            /\ status' = [status EXCEPT ![b] = "pending"]
            /\ slotOf' = [slotOf EXCEPT ![b] = s]
            /\ UNCHANGED available /\ available[s]
      BY <2>4 DEF CreateBookingRequest, SlotIsBookable, OnOffer, TypeOK, bookingVars, slotVars
    <3>2. QED
      BY <2>0, <3>1 DEF TypeOK, ClosedSlotHasNoVisit
  <2>5. ASSUME NEW b \in Bookings, ClientAcceptReschedule(b) PROVE ClosedSlotHasNoVisit'
    <3>1. /\ status' = [status EXCEPT ![b] = "confirmed"]
          /\ slotOf' = [slotOf EXCEPT ![b] = proposed[b]]
          /\ UNCHANGED available /\ available[proposed[b]]
      BY <2>5 DEF ClientAcceptReschedule, SlotIsBookable, OnOffer, slotVars
    <3>2. QED
      BY <2>0, <3>1 DEF TypeOK, ClosedSlotHasNoVisit
  <2>6. ASSUME NEW p \in Procs, StatusSave(p) \/ ExpireSave(p) PROVE ClosedSlotHasNoVisit'
    <3>1. UNCHANGED available
      BY <2>6 DEF StatusSave, ExpireSave, slotVars
    <3>2. QED
      BY <2>0, <2>6, <3>1, SaveRevivesNothing DEF ClosedSlotHasNoVisit
  <2>7. CASE UNCHANGED <<status, slotOf, available>>
    BY <2>7 DEF ClosedSlotHasNoVisit
  <2>8. QED
    <3>1. \/ UNCHANGED available
          \/ \E p \in Procs : SlotBlockSave(p) \/ DeleteSlotsSave(p)
          \/ \E s \in Slots : SlotUnblock(s)
      BY DEF Next, Read, Save, Crash, Locked, BookingSubmit, ClientCancelRead,
         OwnerTransitionRead, ErpSetStatusRead, SlotBlockRead, BayDeleteRead,
         MasterDeleteRead, ExpireRead, CreateBookingRequest, StatusSave, ExpireSave,
         OpenBookingForm, ClientAcceptReschedule, ClientDeclineReschedule,
         OwnerProposeReschedule, ExpireNothing, HoldExpires, Tick, vars, slotVars
    <3>2. ASSUME NEW b \in Bookings,
                 \/ ClientDeclineReschedule(b)
                 \/ \E s \in Slots : OwnerProposeReschedule(b, s)
          PROVE  UNCHANGED <<status, slotOf, available>>
      BY <3>2 DEF ClientDeclineReschedule, OwnerProposeReschedule, slotVars
    <3>3. QED
      BY <2>1, <2>2, <2>3, <2>4, <2>5, <2>6, <2>7, <3>1, <3>2, BookingSteps DEF bookingVars
<1>3. QED
  BY <1>1, <1>2, TypeCorrect, SnapshotStaysFresh, PTL DEF Spec
=============================================================================

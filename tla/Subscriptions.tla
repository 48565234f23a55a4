--------------------------- MODULE Subscriptions ---------------------------
(***************************************************************************)
(* The subscription of one station: the nightly charge                     *)
(* (apps/billing/tasks.py), the payment events of the webhook              *)
(* (billing/views.py), the two services that apply them                    *)
(* (billing/services.py) and what they decide about the station's place in *)
(* the catalogue and its online booking (apps/stations/visibility.py).     *)
(*                                                                         *)
(* The handlers lock nothing and open no transaction: a payment is applied *)
(* to the objects loaded before, the subscription is saved, then the       *)
(* station.  Time is counted in days.                                      *)
(***************************************************************************)
EXTENDS Workers, Integers, FiniteSets

CONSTANTS Payments,  \* events payment.succeeded about the station
          Period,    \* days a payment extends the subscription by (30)
          MaxDay,    \* bound on the days
          MaxFaults  \* bound on the database errors inside a charge

ASSUME PeriodAssumption ==
    Period \in Nat \ {0} /\ MaxDay \in Nat /\ MaxFaults \in Nat /\ IsFiniteSet(Payments)

VARIABLES today,
          sub,      \* the Subscription row
          station,  \* its station: subscription_paid_until, billing_blocked_at
          paidOn,   \* ProviderWebhookEvent rows, with the day they were made
          failures, \* charges in a row that raised
          faults

subVars == <<today, sub, station, paidOn, failures, faults>>

NoDate == -1   \* NULL
Dates == NoDate..(MaxDay + Period * (MaxDay + 2 + Cardinality(Payments)))

SubRow == [end : Dates, next : Dates, failed : 0..3, status : {"active", "past_due"}]
StationRow == [paidUntil : Dates, blocked : BOOLEAN]

Later(a, b) == IF a > b THEN a ELSE b

\* A request keeps the subscription as the handler has changed it in memory;
\* "task" says that the nightly charge runs it.
SubRequest == [op : {"sub_save", "station_save", "fail_save", "retry_save"},
               obj : SubRow, task : BOOLEAN]

SubscriptionsInit ==
    /\ today = 0
    /\ \E next \in {NoDate, 0} :
          sub = [end |-> NoDate, next |-> next, failed |-> 0, status |-> "active"]
    /\ station = [paidUntil |-> NoDate, blocked |-> FALSE]
    /\ paidOn = [e \in Payments |-> NoDate]
    /\ failures = 0
    /\ faults = 0

\* Bound: requests take seconds, so no request lasts over midnight.
NextDay ==
    /\ AllIdle
    /\ today < MaxDay
    /\ today' = today + 1
    /\ UNCHANGED <<sub, station, paidOn, failures, faults, workerVars>>

-----------------------------------------------------------------------------
\* apply_successful_payment, in memory: from the loaded end, or from today.
\* Mutant: an expired subscription is extended from its old end.
ExtendedFromOldEnd(row) ==
    LET end == Later(row.end, 0) + Period
    IN  [end |-> end, next |-> end, failed |-> 0, status |-> "active"]
\* Mutant: whatever was paid ahead is lost.
ExtendedFromToday(row) ==
    LET end == today + Period
    IN  [end |-> end, next |-> end, failed |-> 0, status |-> "active"]
Extended(row) ==
    LET end == Later(row.end, today) + Period
    IN  [end |-> end, next |-> end, failed |-> 0, status |-> "active"]

\* Subscription.mark_failure.
Failed(row) == [row EXCEPT !.failed = @ + 1, !.status = "past_due"]

LoadedSub(task) ==
    [op |-> "sub_save", obj |-> Extended(sub), task |-> task]

\* charge_due_subscriptions: whose charge is due.
\* Mutant: the ones whose last charge failed are left out.
DueWhenActive == sub.next # NoDate /\ sub.next <= today /\ sub.status = "active"
Due == sub.next # NoDate /\ sub.next <= today /\ sub.status \in {"active", "past_due"}

ChargeRead(p) ==
    /\ Due
    /\ Begin(p, LoadedSub(TRUE))
    /\ UNCHANGED subVars

\* yookassa_webhook about the station: an event is handled when its row is new.
SubscriptionPaid(p, e) ==
    /\ paidOn[e] = NoDate
    /\ paidOn' = [paidOn EXCEPT ![e] = today]
    /\ Begin(p, LoadedSub(FALSE))
    /\ UNCHANGED <<today, sub, station, failures, faults>>

SubSave(p) ==
    /\ At(p, "sub_save")
    /\ sub' = req[p].obj
    /\ Goto(p, "station_save")
    /\ UNCHANGED <<today, station, paidOn, failures, faults>>

StationSave(p) ==
    /\ At(p, "station_save")
    /\ station' = [paidUntil |-> req[p].obj.end, blocked |-> FALSE]
    /\ failures' = 0
    /\ End(p)
    /\ UNCHANGED <<today, sub, paidOn, faults>>

\* A save raises in the task: apply_failed_charge goes on with the object as
\* apply_successful_payment left it.
ChargeRaises(p) ==
    /\ req[p].op \in {"sub_save", "station_save"} /\ req[p].task
    /\ faults < MaxFaults
    /\ faults' = faults + 1
    /\ failures' = failures + 1
    /\ Continue(p, [req[p] EXCEPT !.op = "fail_save", !.obj = Failed(@)])
    /\ UNCHANGED <<today, sub, station, paidOn>>

\* apply_failed_charge: the third failure in a row blocks the station.
FailSave(p) ==
    LET failed == req[p].obj.failed
    IN  /\ At(p, "fail_save")
        /\ sub' = [sub EXCEPT !.failed = failed, !.status = "past_due"]
        /\ station' = [station EXCEPT !.blocked = @ \/ failed >= 3]
        /\ IF failed >= 3 THEN End(p) ELSE Goto(p, "retry_save")
        /\ UNCHANGED <<today, paidOn, failures, faults>>

\* Once more tomorrow.
RetrySave(p) ==
    /\ At(p, "retry_save")
    /\ sub' = [sub EXCEPT !.next = today + 1]
    /\ End(p)
    /\ UNCHANGED <<today, station, paidOn, failures, faults>>

-----------------------------------------------------------------------------
SubscriptionStep(p) ==
    SubSave(p) \/ StationSave(p) \/ FailSave(p) \/ RetrySave(p)

SubscriptionsCrash(p) == Crash(p) /\ UNCHANGED subVars

SubscriptionsNext ==
    \/ NextDay
    \/ \E p \in Procs :
          \/ ChargeRead(p) \/ ChargeRaises(p) \/ SubscriptionStep(p) \/ SubscriptionsCrash(p)
          \/ \E e \in Payments : SubscriptionPaid(p, e)

\* The beat starts the charge every night; a request once begun goes on.
SubscriptionsFairness ==
    \A p \in Procs : /\ WF_<<workerVars, subVars>>(ChargeRead(p))
                     /\ WF_<<workerVars, subVars>>(SubscriptionStep(p))

SubscriptionsSpec ==
    /\ WorkersInit /\ SubscriptionsInit
    /\ [][SubscriptionsNext]_<<workerVars, subVars>>
    /\ SubscriptionsFairness

-----------------------------------------------------------------------------
\* station_is_visible, for a Basic plan and no CATALOG_BYPASS_SUBSCRIPTION.
StationIsVisible == ~station.blocked /\ station.paidUntil >= today

\* station_accepts_online_booking.
AcceptsOnlineBooking ==
    ~station.blocked /\ (station.paidUntil = NoDate \/ station.paidUntil >= today)

\* subscription_rows_for_owner: the row of the station calls for attention.
NeedsAttention ==
    CASE station.paidUntil = NoDate -> TRUE
      [] station.paidUntil # NoDate /\ station.paidUntil < today -> TRUE
      [] OTHER -> ~StationIsVisible

SubscriptionsTypeOK ==
    /\ today \in 0..MaxDay
    /\ sub \in SubRow
    /\ station \in StationRow
    /\ paidOn \in [Payments -> Dates]
    /\ failures \in Nat /\ faults \in 0..MaxFaults
    /\ req \in [Procs -> SubRequest \cup {Idle}]

Handled == {e \in Payments : paidOn[e] # NoDate}

\* However charges and events overlap, a payment buys a whole period from the
\* day it comes in: for that long the station is in the catalogue and takes
\* bookings, unless a worker died over it.
PaymentBuysAPeriod ==
    AllIdle /\ crashes = 0 =>
        \A e \in Handled : today <= paidOn[e] + Period =>
            StationIsVisible /\ AcceptsOnlineBooking

\* One at a time, every event buys a period of its own, and at rest an active
\* subscription and its station agree on how far it is paid.
EveryPaymentExtends ==
    AllIdle =>
        /\ Handled # {} => sub.end >= Period * Cardinality(Handled)
        /\ sub.status = "active" => station.paidUntil = sub.end

\* The owner's row calls for attention just when the catalogue has dropped the station.
RowTellsVisibility == NeedsAttention <=> ~StationIsVisible

\* A charge whose date has come is made, or put off to another date on which it
\* is made in its turn.
ChargeIsMade == (sub.next # NoDate /\ sub.next <= today) ~> sub.next > today

\* services.py:40: "после 3 попыток блокируем СТО".
ThreeFailuresBlock == AllIdle /\ failures >= 3 => station.blocked
=============================================================================

----------------------------- MODULE ErpReports -----------------------------
(***************************************************************************)
(* The reports of the administrators and of an owner, which read the same  *)
(* rows in different ways.                                                 *)
(*                                                                         *)
(* On bookings: the funnel and the activity of the executors in the ERP    *)
(* (apps/erp/views.py), the dashboard and its export                       *)
(* (config/admin_views.py), the months of an owner (stations/sto_stats.py).*)
(* They go by the status a booking has now, or by the rows that            *)
(* django-simple-history keeps of every save of it.                        *)
(*                                                                         *)
(* On the revenue from subscriptions in the ERP: the dashboard with its    *)
(* chart, the billing report, and the page of each station with its chart. *)
(* Each sums PaymentIntent rows of its own query.  A payment is counted as *)
(* one, so a sum is a set of payments.                                     *)
(*                                                                         *)
(* And the lists of the ERP with their workbooks.                          *)
(***************************************************************************)
EXTENDS Integers, Sequences, FiniteSets

CONSTANTS Clients, \* users who may register
          VisitIds, \* bookings they may make
          Garages, \* executors, each of an owner of its own
          ReportSpan, \* 30 days
          WeekSpan, \* 7 days
          MonthLength, \* days in a month
          MonthsShown, \* 12 months
          MaxReportDay, \* bound on the days that pass
          MaxSaves \* bound on the history of a booking

ASSUME VisitReportsAssumption ==
    /\ ReportSpan \in Nat /\ WeekSpan \in 0..ReportSpan
    /\ MonthLength \in Nat \ {0} /\ MonthsShown \in Nat \ {0}
    /\ MaxReportDay \in Nat /\ MaxSaves \in Nat

CONSTANTS Intents, \* PaymentIntent rows there may be
          Payers, \* stations that pay
          RevenueSpan, \* 30 days
          MaxPayDay \* bound on the days that pass

ASSUME PaymentReportsAssumption == RevenueSpan \in Nat \ {0} /\ MaxPayDay \in Nat

VARIABLES onDay, \* timezone.localdate()
          joinedOn, \* User.date_joined, of the users there are
          bookingRow, \* Booking rows: client, station, created_at, status
          historyRows, \* HistoricalBooking rows of each booking: status and day
          reviewRow \* Review rows: created_at and moderation_status

visitReportVars == <<onDay, joinedOn, bookingRow, historyRows, reviewRow>>

Statuses == {"pending", "confirmed", "in_progress", "completed", "canceled"}
ReportDays == 0 .. MaxReportDay

VisitReportsInit ==
    /\ onDay = 0
    /\ joinedOn = << >> /\ bookingRow = << >> /\ historyRows = << >> /\ reviewRow = << >>

Put(f, k, v) == [x \in DOMAIN f \cup {k} |-> IF x = k THEN v ELSE f[x]]

-----------------------------------------------------------------------------
(* What the reports read comes about.                                      *)

Registers(c) ==
    /\ c \notin DOMAIN joinedOn
    /\ joinedOn' = Put(joinedOn, c, onDay)
    /\ UNCHANGED <<onDay, bookingRow, historyRows, reviewRow>>

\* Booking.save() writes the row and one more of its history.
SaveBooking(v, row) ==
    /\ bookingRow' = Put(bookingRow, v, row)
    /\ historyRows' = Put(historyRows, v, (IF v \in DOMAIN historyRows THEN historyRows[v] ELSE {})
                                    \cup {[status |-> row.status, day |-> onDay]})

MaySave(v) == Cardinality(historyRows[v]) < MaxSaves

Books(c, v, g) ==
    /\ c \in DOMAIN joinedOn /\ v \notin DOMAIN bookingRow
    /\ SaveBooking(v, [client |-> c, station |-> g, made |-> onDay, status |-> "pending"])
    /\ UNCHANGED <<onDay, joinedOn, reviewRow>>

\* _erp_can_set_booking_status, which the cabinet of the owner agrees with.
FollowsVisit(new) ==
    CASE new = "pending" -> {}
      [] new = "confirmed" -> {"pending"}
      [] new = "in_progress" -> {"confirmed"}
      [] new = "completed" -> {"in_progress"}
      [] new = "canceled" -> {"pending", "confirmed", "in_progress"}

SetsStatus(v, new) ==
    /\ v \in DOMAIN bookingRow /\ MaySave(v)
    /\ bookingRow[v].status \in FollowsVisit(new)
    /\ SaveBooking(v, [bookingRow[v] EXCEPT !.status = new])
    /\ UNCHANGED <<onDay, joinedOn, reviewRow>>

\* The form of Django admin offers every status.
AdminSaves(v, new) ==
    /\ v \in DOMAIN bookingRow /\ MaySave(v)
    /\ SaveBooking(v, [bookingRow[v] EXCEPT !.status = new])
    /\ UNCHANGED <<onDay, joinedOn, reviewRow>>

\* Requests nobody answered are cancelled by queryset.update(), past the history.
ExpiresUnseen(v) ==
    /\ v \in DOMAIN bookingRow /\ bookingRow[v].status = "pending"
    /\ bookingRow' = [bookingRow EXCEPT ![v].status = "canceled"]
    /\ UNCHANGED <<onDay, joinedOn, historyRows, reviewRow>>

ReviewsVisit(v) ==
    /\ v \in DOMAIN bookingRow \ DOMAIN reviewRow /\ bookingRow[v].status = "completed"
    /\ reviewRow' = Put(reviewRow, v, [made |-> onDay, moderation |-> "ok"])
    /\ UNCHANGED <<onDay, joinedOn, bookingRow, historyRows>>

Moderates(v, m) ==
    /\ v \in DOMAIN reviewRow /\ reviewRow[v].moderation # m
    /\ reviewRow' = [reviewRow EXCEPT ![v].moderation = m]
    /\ UNCHANGED <<onDay, joinedOn, bookingRow, historyRows>>

DayEnds ==
    /\ onDay < MaxReportDay
    /\ onDay' = onDay + 1
    /\ UNCHANGED <<joinedOn, bookingRow, historyRows, reviewRow>>

VisitReportsNext ==
    \/ \E c \in Clients : Registers(c) \/ \E v \in VisitIds, g \in Garages : Books(c, v, g)
    \/ \E v \in VisitIds, s \in Statuses : SetsStatus(v, s) \/ AdminSaves(v, s)
    \/ \E v \in VisitIds : ExpiresUnseen(v) \/ ReviewsVisit(v)
                             \/ \E m \in {"ok", "under_review", "hidden"} : Moderates(v, m)
    \/ DayEnds

VisitReportsSpec == VisitReportsInit /\ [][VisitReportsNext]_visitReportVars

-----------------------------------------------------------------------------
\* _parse_range: the ends of a period are put in order.
PeriodOf(a, b) == IF b < a THEN b .. a ELSE a .. b
LastDays == PeriodOf(onDay - ReportSpan, onDay)

\* _build_funnel, on the days of a period: a cohort of users, the bookings they
\* made, and what became of those bookings within the same period.
Cohort(days) == {c \in DOMAIN joinedOn : joinedOn[c] \in days}
CohortVisits(days) ==
    {v \in DOMAIN bookingRow : bookingRow[v].client \in Cohort(days) /\ bookingRow[v].made \in days}
Reached(v, statuses, days) == \E h \in historyRows[v] : h.status \in statuses /\ h.day \in days

\* Mutant: only those whose confirmation itself was saved.
ConfirmedVisitsLiteral(days) ==
    {v \in CohortVisits(days) : Reached(v, {"confirmed"}, days)}
ConfirmedVisits(days) ==
    {v \in CohortVisits(days) : Reached(v, {"confirmed", "in_progress", "completed"}, days)}
CompletedVisits(days) == {v \in CohortVisits(days) : Reached(v, {"completed"}, days)}
ReviewStands(v) == v \in DOMAIN reviewRow /\ reviewRow[v].moderation # "hidden"
ReviewedVisits(days) ==
    {v \in CohortVisits(days) : ReviewStands(v) /\ reviewRow[v].made \in days}

\* The five steps, as the users of each: the page and its workbook.
ClientsOf(visits) == {bookingRow[v].client : v \in visits}
FunnelSteps(days) ==
    <<Cohort(days), ClientsOf(CohortVisits(days)), ClientsOf(ConfirmedVisits(days)),
      ClientsOf(CompletedVisits(days)), ClientsOf(ReviewedVisits(days))>>

\* The copy of the funnel in the site of Django admin takes the bookings, and not
\* their keys, to look for reviews.
AdminFunnelSteps(days) ==
    LET made == {v \in DOMAIN bookingRow :
                    bookingRow[v].client \in Cohort(days) /\ bookingRow[v].made \in days}
        went(statuses) == ClientsOf({v \in made : Reached(v, statuses, days)})
    IN  <<Cohort(days), ClientsOf(made), went({"confirmed", "in_progress", "completed"}),
          went({"completed"}),
          ClientsOf({v \in made : ReviewStands(v) /\ reviewRow[v].made \in days})>>

\* _build_activity: the bookings of a station in a period, by their status of now.
ActivityVisits(g, days) ==
    {v \in DOMAIN bookingRow : bookingRow[v].station = g /\ bookingRow[v].made \in days}
ActivityIn(g, status, days) == {v \in ActivityVisits(g, days) : bookingRow[v].status = status}

\* The dashboard's last 30 days: bookings with a completed row in their history,
\* and those of them with a review.
DashboardCompleted ==
    {v \in DOMAIN bookingRow : Reached(v, {"completed"}, (onDay - ReportSpan) .. onDay)}
DashboardReviewed == {v \in DashboardCompleted : ReviewStands(v)}

\* Its bars of each day: the bookings made, and those of them in a status now.
BarOf(d) == {v \in DOMAIN bookingRow : bookingRow[v].made = d}
BarOfStatus(d, status) == {v \in BarOf(d) : bookingRow[v].status = status}

\* Its figures: the users who joined since a day, and the bars of each day; the
\* bookings, by status, of today and of a week; the users with a booking.
JoinedSince(d) == {c \in DOMAIN joinedOn : joinedOn[c] >= d}
RegistrationBar(d) == {c \in DOMAIN joinedOn : joinedOn[c] >= onDay - ReportSpan /\ joinedOn[c] = d}
AllBookings == DOMAIN bookingRow
BookingsIn(status) == {v \in DOMAIN bookingRow : bookingRow[v].status = status}
BookingsToday == {v \in DOMAIN bookingRow : bookingRow[v].made = onDay}
DoneToday == {v \in BookingsToday : bookingRow[v].status = "completed"}
CanceledToday == {v \in BookingsToday : bookingRow[v].status = "canceled"}
\* Mutant: the days are counted as the chart counts them.
BookingsOfWeekAsBars == {v \in DOMAIN bookingRow : bookingRow[v].made > onDay - WeekSpan}
BookingsOfWeek == {v \in DOMAIN bookingRow : bookingRow[v].made >= onDay - WeekSpan}
PendingBookings == {v \in DOMAIN bookingRow : bookingRow[v].status = "pending"}
UsersWithBooking == {c \in DOMAIN joinedOn : \E v \in DOMAIN bookingRow : bookingRow[v].client = c}

\* Its export counts once more.
ExportedBookings(status) ==
    {v \in DOMAIN bookingRow : status = "any" \/ bookingRow[v].status = status}

\* monthly_booking_series_for_owner: the bookings of each month but the canceled.
MonthOf(d) == d \div MonthLength
Months == {m \in 0 .. MonthOf(onDay) : m > MonthOf(onDay) - MonthsShown}
MonthBar(g, m) ==
    {v \in DOMAIN bookingRow :
        /\ bookingRow[v].station = g /\ bookingRow[v].status # "canceled"
        /\ \E first \in Months : bookingRow[v].made >= first * MonthLength
        /\ MonthOf(bookingRow[v].made) = m}

-----------------------------------------------------------------------------
VisitReportsTypeOK ==
    /\ onDay \in ReportDays
    /\ DOMAIN joinedOn \subseteq Clients /\ \A c \in DOMAIN joinedOn : joinedOn[c] \in 0 .. onDay
    /\ DOMAIN bookingRow \subseteq VisitIds /\ DOMAIN historyRows = DOMAIN bookingRow
    /\ DOMAIN reviewRow \subseteq DOMAIN bookingRow
    /\ \A v \in DOMAIN bookingRow :
          /\ bookingRow[v] \in [client : DOMAIN joinedOn, station : Garages,
                           made : 0 .. onDay, status : Statuses]
          /\ historyRows[v] \subseteq [status : Statuses, day : 0 .. onDay]

\* The users of a step of the funnel are among those of the step before, whatever statuses
\* an administrator has saved past the rules and whatever period is asked for, its
\* ends in either order: the steps are counted from three tables, each by its own
\* date.  The copy of the report in the other site says the same.
FunnelNarrows ==
    \A a, b \in ReportDays :
        LET steps == FunnelSteps(PeriodOf(a, b))
        IN  /\ steps = AdminFunnelSteps(PeriodOf(b, a))
            /\ \A i \in 2 .. 5 : steps[i] \subseteq steps[i - 1]

\* The reports tell of the same bookings: for a period that ends today, one the
\* activity calls completed by its status is completed in the funnel by its history,
\* if its client is of the cohort; and the dashboard leaves out none of the funnel's and
\* counts as made on a day what the activity does.
VisitReportsAgree ==
    /\ \A a \in 0 .. onDay : LET days == a .. onDay IN
          \A g \in Garages :
              ActivityIn(g, "completed", days) \cap CohortVisits(days) \subseteq CompletedVisits(days)
    /\ CompletedVisits(LastDays) \subseteq DashboardCompleted
    /\ ReviewedVisits(LastDays) \subseteq DashboardReviewed
    /\ \A d \in LastDays :
          /\ BarOf(d) = UNION {BarOfStatus(d, s) : s \in Statuses}
          /\ BarOf(d) = UNION {ActivityVisits(g, {d}) : g \in Garages}

\* The dashboard and its export count the same bookings, the figures add up, and they
\* are those of the funnel and of the activity; the months of an owner hold what the
\* activity says of his station, but for what was canceled.
DashboardAgrees ==
    /\ AllBookings = UNION {BookingsIn(s) : s \in Statuses} /\ AllBookings = ExportedBookings("any")
    /\ \A s \in Statuses : BookingsIn(s) = ExportedBookings(s)
    /\ PendingBookings = BookingsIn("pending")
    /\ BookingsToday = BarOf(onDay)
    /\ DoneToday = BarOfStatus(onDay, "completed") /\ CanceledToday = BarOfStatus(onDay, "canceled")
    /\ BookingsOfWeek = UNION {BarOf(d) : d \in (onDay - WeekSpan) .. onDay}
    /\ JoinedSince(onDay - WeekSpan) = UNION {RegistrationBar(d) : d \in (onDay - WeekSpan) .. onDay}
    /\ UsersWithBooking = FunnelSteps(0 .. onDay)[2]
    /\ \A g \in Garages, m \in Months :
          LET days == m * MonthLength .. (m + 1) * MonthLength - 1
          IN  MonthBar(g, m) = ActivityVisits(g, days) \ ActivityIn(g, "canceled", days)

\* Refuted by TLC (see README): the bookings the dashboard counts as completed in its
\* days were completed for the first time in them.
CompletedForTheFirstTime ==
    \A v \in DashboardCompleted : ~Reached(v, {"completed"}, 0 .. onDay - ReportSpan - 1)
-----------------------------------------------------------------------------
(* The revenue.                                                            *)

VARIABLES payDay, \* timezone.localdate()
          intent \* the rows there are: station, created_at, status

paymentReportVars == <<payDay, intent>>

IntentStatuses == {"pending", "succeeded", "failed", "canceled"}

PaymentReportsInit == payDay = 0 /\ intent = << >>

\* ensure_payment_intent, which only tests call, and the form of Django admin start a
\* payment, of this day.
IntentCreated(e, s) ==
    /\ e \notin DOMAIN intent
    /\ intent' = [x \in DOMAIN intent \cup {e} |->
                     IF x = e THEN [station |-> s, made |-> payDay, status |-> "pending"]
                     ELSE intent[x]]
    /\ UNCHANGED payDay

\* apply_successful_payment, at once or days later: created_at stays.
IntentSucceeds(e) ==
    /\ e \in DOMAIN intent
    /\ intent' = [intent EXCEPT ![e].status = "succeeded"]
    /\ UNCHANGED payDay

\* The form of Django admin offers every status; no handler sets the other two.
IntentEdited(e, status) ==
    /\ e \in DOMAIN intent
    /\ intent' = [intent EXCEPT ![e].status = status]
    /\ UNCHANGED payDay

PayDayEnds == payDay < MaxPayDay /\ payDay' = payDay + 1 /\ UNCHANGED intent

PaymentReportsNext ==
    \/ \E e \in Intents : \/ \E s \in Payers : IntentCreated(e, s)
                          \/ IntentSucceeds(e)
                          \/ \E status \in IntentStatuses : IntentEdited(e, status)
    \/ PayDayEnds

PaymentReportsSpec == PaymentReportsInit /\ [][PaymentReportsNext]_paymentReportVars

-----------------------------------------------------------------------------
MadeIn(days) == {e \in DOMAIN intent : intent[e].made \in days}
Succeeded(S) == {e \in S : intent[e].status = "succeeded"}
FailedLike(S) == {e \in S : intent[e].status \in {"failed", "canceled"}}

\* dashboard: the revenue since today - 30, and a bar for each of 30 days.
DashboardRevenue == Succeeded({e \in DOMAIN intent : intent[e].made >= payDay - RevenueSpan})
DashboardBar(i) == Succeeded(MadeIn({payDay - i}))

\* billing_report: the rows of the table and of the workbook follow the filters,
\* the revenue the period alone.
BillingRows(days, status) ==
    {e \in MadeIn(days) : status = "any" \/ intent[e].status = status}
BillingSheet(days, status) ==
    {e \in MadeIn(days) : status = "any" \/ intent[e].status = status}
BillingRevenue(days) == Succeeded(MadeIn(days))

\* station_detail: the sums and the bars of a station do not follow its filter.
OfStation(s) == {e \in DOMAIN intent : intent[e].station = s}
\* Mutant: the last day is left out.
StationSucceededBefore(s, from, to) == Succeeded(OfStation(s) \cap MadeIn(from .. to - 1))
StationSucceeded(s, from, to) == Succeeded(OfStation(s) \cap MadeIn(from .. to))
StationFailed(s, from, to) == FailedLike(OfStation(s) \cap MadeIn(from .. to))
StationRows(s, from, to, status) ==
    {e \in OfStation(s) \cap MadeIn(from .. to) : status = "any" \/ intent[e].status = status}
StationBar(s, from, to, d) == StationSucceeded(s, from, to) \cap MadeIn({d})
\* station_payments_xlsx takes neither period nor filter.
StationWorkbook(s) == OfStation(s)

-----------------------------------------------------------------------------
PaymentReportsTypeOK ==
    /\ payDay \in 0 .. MaxPayDay
    /\ DOMAIN intent \subseteq Intents
    /\ \A e \in DOMAIN intent :
          intent[e] \in [station : Payers, made : 0 .. payDay, status : IntentStatuses]

\* The revenue is one figure, wherever it is read: the dashboard's is that of the
\* billing report for the period it opens with, that is the sum of the stations',
\* the bars of a station add up to its sum, and what a page lists as succeeded and
\* as failed is what it has added up.  Sums add up when no payment is in two.
RevenueAgrees ==
    /\ DashboardRevenue = BillingRevenue((payDay - RevenueSpan) .. payDay)
    /\ \A from \in 0 .. payDay : \A to \in from .. payDay :
          /\ BillingRevenue(from .. to) = UNION {StationSucceeded(s, from, to) : s \in Payers}
          /\ BillingRows(from .. to, "succeeded") = BillingRevenue(from .. to)
          /\ \A status \in {"any"} \cup IntentStatuses :
                BillingRows(from .. to, status) = BillingSheet(from .. to, status)
          /\ \A s \in Payers :
                /\ \A o \in Payers \ {s} :
                      StationSucceeded(s, from, to) \cap StationSucceeded(o, from, to) = {}
                /\ StationSucceeded(s, from, to) = UNION {StationBar(s, from, to, d) : d \in from .. to}
                /\ \A c, d \in from .. to :
                      c # d => StationBar(s, from, to, c) \cap StationBar(s, from, to, d) = {}
                /\ StationRows(s, from, to, "any") \ StationRows(s, from, to, "pending")
                      = StationSucceeded(s, from, to) \cup StationFailed(s, from, to)
                /\ StationRows(s, from, to, "any") \subseteq StationWorkbook(s)

\* Refuted by TLC (see README): the bars of the dashboard add up to its revenue.
BarsAreRevenue == DashboardRevenue = UNION {DashboardBar(i) : i \in 0 .. RevenueSpan - 1}
-----------------------------------------------------------------------------
(* The lists: users, stations, bookings and reviews with a search and a    *)
(* filter, each with a workbook for download whose view repeats the query, *)
(* and the same rows once more on the page of a user and of a station.  A  *)
(* list takes its newest rows up to a limit, larger in a workbook.         *)

CONSTANTS ErpUsers, ErpStations, \* whom rows are of
          PageLimit, \* 500 rows of a list, 200 of a page
          SheetLimit, \* 5000 to 20000 rows of a workbook
          MaxRows \* bound on the rows there are

\* No station is called like a telephone, and nothing is searched for with "everything".
ASSUME ErpListsAssumption ==
    /\ PageLimit \in Nat /\ SheetLimit \in Nat /\ PageLimit <= SheetLimit /\ MaxRows \in Nat
    /\ ErpUsers \cap ErpStations = {} /\ "everything" \notin ErpUsers \cup ErpStations

VARIABLE erpRows \* the rows of the tables, the oldest first

RowKinds == {"user", "station", "booking", "review"}
\* active or moderated, as far as a filter goes.
RowStates == {"on", "off"}
Everything == "everything"

\* ofVisit: a review has a booking, or was written of a station without one.
ErpRow == [kind : RowKinds, user : ErpUsers, station : ErpStations,
           state : RowStates, ofVisit : BOOLEAN]

ErpListsInit == erpRows = << >>

RowAdded(row) ==
    /\ Len(erpRows) < MaxRows
    /\ row.kind # "review" => row.ofVisit
    /\ erpRows' = Append(erpRows, row)

\* A user is blocked, a station closed, a booking canceled, a review hidden.
RowChanged(i, state) ==
    /\ erpRows[i].state # state
    /\ erpRows' = [erpRows EXCEPT ![i].state = state]

ErpListsNext ==
    \/ \E row \in ErpRow : RowAdded(row)
    \/ \E i \in DOMAIN erpRows, state \in RowStates : RowChanged(i, state)

ErpListsSpec == ErpListsInit /\ [][ErpListsNext]_erpRows

-----------------------------------------------------------------------------
\* The search of each list: a user by his phone, a station by its name or its owner's
\* phone, a booking by its station or its client, a review by those of its booking.
\* Mutant: a booking by its station alone.
BookingFoundByStation(row, q) == q \in {Everything, row.station}
UserFound(row, q) == q \in {Everything, row.user}
StationFound(row, q) == q \in {Everything, row.user, row.station}
BookingFound(row, q) == q \in {Everything, row.user, row.station}
ReviewFound(row, q) == q = Everything \/ (row.ofVisit /\ q \in {row.user, row.station})

\* The rows of a kind in a state, and the newest of the rows a query finds, up to a
\* limit: a list is the set of its rows, since all are in the order of creation.
OfKind(kind, state) ==
    {i \in DOMAIN erpRows : erpRows[i].kind = kind /\ state \in {Everything, erpRows[i].state}}
Newest(found, limit) == {i \in found : Cardinality({j \in found : j >= i}) <= limit}

UsersPage(q, state) ==
    Newest({i \in OfKind("user", state) : UserFound(erpRows[i], q)}, PageLimit)
UsersSheet(q, state) ==
    Newest({i \in OfKind("user", state) : UserFound(erpRows[i], q)}, SheetLimit)
StationsPage(q, state) ==
    Newest({i \in OfKind("station", state) : StationFound(erpRows[i], q)}, PageLimit)
StationsSheet(q, state) ==
    Newest({i \in OfKind("station", state) : StationFound(erpRows[i], q)}, SheetLimit)
BookingsPage(q, state) ==
    Newest({i \in OfKind("booking", state) : BookingFound(erpRows[i], q)}, PageLimit)
\* Mutant: the workbook of a filtered list has all of it.
BookingsSheetUnfiltered(q, state) ==
    Newest({i \in OfKind("booking", Everything) : BookingFound(erpRows[i], q)}, SheetLimit)
BookingsSheet(q, state) ==
    Newest({i \in OfKind("booking", state) : BookingFound(erpRows[i], q)}, SheetLimit)
ReviewsPage(q, state) ==
    Newest({i \in OfKind("review", state) : ReviewFound(erpRows[i], q)}, PageLimit)
ReviewsSheet(q, state) ==
    Newest({i \in OfKind("review", state) : ReviewFound(erpRows[i], q)}, SheetLimit)

\* user_detail and its workbooks: a review is his by its booking, not its author.
UserRows(kind, u, limit) ==
    Newest({i \in OfKind(kind, Everything) : erpRows[i].user = u /\ erpRows[i].ofVisit}, limit)
UserDetail(kind, u) == UserRows(kind, u, PageLimit)
UserBookingsSheet(u) == UserRows("booking", u, SheetLimit)
UserReviewsSheet(u) == UserRows("review", u, SheetLimit)
\* station_detail and its workbooks.
StationRowsOf(kind, s, limit) ==
    Newest({i \in OfKind(kind, Everything) : erpRows[i].station = s}, limit)
StationDetail(kind, s) == StationRowsOf(kind, s, PageLimit)
StationBookingsSheet(s) == StationRowsOf("booking", s, SheetLimit)
StationReviewsSheet(s) == StationRowsOf("review", s, SheetLimit)

-----------------------------------------------------------------------------
ErpListsTypeOK == Len(erpRows) <= MaxRows /\ \A i \in DOMAIN erpRows : erpRows[i] \in ErpRow

\* A workbook begins with the rows of a page.
Continues(page, sheet) == page \subseteq sheet /\ \A i \in page, j \in sheet \ page : j < i

\* What is downloaded is what was looked at: a workbook begins with the rows of the
\* page it was asked for on; and a search in a list finds what the page of the user,
\* or of the station a booking is for, shows of the same table.
ListsAgree ==
    /\ \A q \in {Everything} \cup ErpUsers \cup ErpStations :
       \A state \in {Everything} \cup RowStates :
          /\ Continues(UsersPage(q, state), UsersSheet(q, state))
          /\ Continues(StationsPage(q, state), StationsSheet(q, state))
          /\ Continues(BookingsPage(q, state), BookingsSheet(q, state))
          /\ Continues(ReviewsPage(q, state), ReviewsSheet(q, state))
    /\ \A u \in ErpUsers :
          /\ BookingsPage(u, Everything) = UserDetail("booking", u)
          /\ ReviewsPage(u, Everything) = UserDetail("review", u)
          /\ Continues(UserDetail("booking", u), UserBookingsSheet(u))
          /\ Continues(UserDetail("review", u), UserReviewsSheet(u))
    /\ \A s \in ErpStations :
          /\ BookingsPage(s, Everything) = StationDetail("booking", s)
          /\ Continues(StationDetail("booking", s), StationBookingsSheet(s))
          /\ Continues(StationDetail("review", s), StationReviewsSheet(s))
=============================================================================

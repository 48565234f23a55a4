---------------------------- MODULE FreeWindows ----------------------------
(***************************************************************************)
(* What the pages say of the windows of one listed station as time passes: *)
(* the badges and the nearest window of its card (stations/selectors.py),  *)
(* the windows a client or the owner may choose (stations/views.py,        *)
(* bookings/slot_rules.py, owner_views.booking_reschedule_slots), the      *)
(* block of the home page (stations/homepage.py), and the tabs of the      *)
(* owner's dashboard (stations/owner_views.py).                            *)
(*                                                                         *)
(* Local time is ahead of UTC.  Time is counted in hours from the midnight *)
(* of the first day.                                                       *)
(***************************************************************************)
EXTENDS Integers, FiniteSets

CONSTANTS Windows,     \* primary keys of TimeSlot rows
          WindowStart, \* the local hour each begins
          DayLength,   \* hours in a day
          WeekLength,  \* days of a week; the first day is a Monday
          Ahead,       \* hours local time is ahead of UTC
          MaxHour      \* bound on the time that passes

ASSUME FreeWindowsAssumption ==
    /\ DayLength \in Nat \ {0} /\ WeekLength \in Nat \ {0} /\ Ahead \in 0..DayLength /\ MaxHour \in Nat
    /\ WindowStart \in [Windows -> Nat]

VARIABLES window, \* the rows, each with the booking that holds it and whether the pending
                  \* booking of another window proposes to move to it
          hour    \* the local time

windowVars == <<window, hour>>

BookedAs == {"nobody", "pending", "confirmed", "in_progress", "completed"}
Window == [available : BOOLEAN, booked : BookedAs, proposed : BOOLEAN]

DayOf(h) == h \div DayLength
Start(w) == WindowStart[w]
Today == DayOf(hour)

FreeWindowsInit ==
    /\ window = [w \in Windows |-> [available |-> TRUE, booked |-> "nobody", proposed |-> FALSE]]
    /\ hour = 0

-----------------------------------------------------------------------------
\* slot_is_bookable, nobody holding the window.  Mutant: whatever was proposed.
BookableOrProposed(w) ==
    /\ DayOf(Start(w)) >= Today /\ ~(DayOf(Start(w)) = Today /\ Start(w) < hour)
    /\ window[w].available /\ window[w].booked = "nobody"
Bookable(w) ==
    /\ DayOf(Start(w)) >= Today
    /\ ~(DayOf(Start(w)) = Today /\ Start(w) < hour)
    /\ window[w].available
    /\ ~window[w].proposed
    /\ window[w].booked = "nobody"

\* _bookable_slots, on the page of the station for a day.
OnOfferOn(d) == {w \in Windows : DayOf(Start(w)) = d /\ window[w].available /\ Bookable(w)}

\* _free_slot_exists_subquery.
FreeOn(d) ==
    {w \in Windows :
        /\ DayOf(Start(w)) = d /\ window[w].available /\ window[w].booked = "nobody"
        /\ d = Today => Start(w) > hour}
HasSlotsToday == FreeOn(Today) # {}
HasSlotsTomorrow == FreeOn(Today + 1) # {}

\* annotate_nearest_free_slot.  Mutant: today's windows that have begun count.
NearestAmongAll ==
    {w \in Windows : DayOf(Start(w)) >= Today /\ window[w].available /\ window[w].booked = "nobody"}
NearestAmong ==
    {w \in Windows :
        /\ DayOf(Start(w)) >= Today /\ window[w].available /\ window[w].booked = "nobody"
        /\ DayOf(Start(w)) > Today \/ Start(w) > hour}
Nearest == {w \in NearestAmong : \A o \in NearestAmong : Start(w) <= Start(o)}

\* _free_slots_window: what has begun is dropped by the date and the time of UTC.
UtcDay == IF hour < Ahead THEN -1 ELSE DayOf(hour - Ahead)
UtcTime == (hour - Ahead + DayLength) % DayLength
OnHomePage ==
    {w \in Windows :
        /\ DayOf(Start(w)) \in {Today, Today + 1} /\ window[w].available /\ window[w].booked = "nobody"
        /\ ~(DayOf(Start(w)) = Today /\ UtcDay = Today /\ UtcTime > Start(w) % DayLength)}

\* StoOwnerDashboardView: the bookings of today, of tomorrow, and those to come.
DayTab(d) == {w \in Windows : DayOf(Start(w)) = d /\ window[w].booked # "nobody"}
\* Mutant: the windows that have begun before this hour today are over.
UpcomingNotBegun ==
    {w \in Windows : window[w].booked \in {"pending", "confirmed"} /\ Start(w) >= hour}
Upcoming ==
    {w \in Windows :
        \/ window[w].booked = "pending"
        \/ window[w].booked = "confirmed" /\ Start(w) >= hour}

\* build_week_calendar_context: the windows of each day of a week, with who holds them.
MondayOf(d) == d - (d % WeekLength)
CalendarDay(anchor, i) == {w \in Windows : DayOf(Start(w)) = MondayOf(anchor) + i}
CalendarHeld(anchor) ==
    {w \in UNION {CalendarDay(anchor, i) : i \in 0 .. WeekLength - 1} : window[w].booked # "nobody"}

-----------------------------------------------------------------------------
\* The client books, the owner answers, the visit goes on.
Book ==
    \E w \in Windows :
        /\ Bookable(w)
        /\ window' = [window EXCEPT ![w].booked = "pending"]
        /\ UNCHANGED hour

Advance ==
    \E w \in Windows :
        /\ window[w].booked \in {"pending", "confirmed", "in_progress"}
        /\ window' = [window EXCEPT ![w].booked =
               CASE @ = "pending" -> "confirmed" [] @ = "confirmed" -> "in_progress"
                 [] @ = "in_progress" -> "completed"]
        /\ UNCHANGED hour

\* A canceled booking takes its proposal back.
Release ==
    \E w \in Windows :
        /\ window[w].booked \in {"pending", "confirmed"}
        /\ \E also \in SUBSET {v \in Windows \ {w} : window[v].proposed} :
              window' = [v \in Windows |->
                  IF v = w THEN [window[v] EXCEPT !.booked = "nobody"]
                  ELSE IF v \in also THEN [window[v] EXCEPT !.proposed = FALSE] ELSE window[v]]
        /\ UNCHANGED hour

\* The owner proposes to move a pending booking to a window on offer, or closes
\* and opens a window.
Propose ==
    \E w, v \in Windows :
        /\ w # v /\ window[w].booked = "pending" /\ Bookable(v)
        /\ window' = [window EXCEPT ![v].proposed = TRUE]
        /\ UNCHANGED hour

ToggleBlock ==
    \E w \in Windows :
        /\ window[w].available => window[w].booked = "nobody"
        /\ window' = [window EXCEPT ![w].available = ~@]
        /\ UNCHANGED hour

WindowHourPasses == hour < MaxHour /\ hour' = hour + 1 /\ UNCHANGED window

FreeWindowsNext == Book \/ Advance \/ Release \/ Propose \/ ToggleBlock \/ WindowHourPasses

FreeWindowsSpec == FreeWindowsInit /\ [][FreeWindowsNext]_windowVars

-----------------------------------------------------------------------------
FreeWindowsTypeOK == window \in [Windows -> Window] /\ hour \in 0..MaxHour

\* The badges of a card and its nearest window, which are three queries, never
\* contradict each other.
CardAgrees ==
    /\ HasSlotsToday <=> \E w \in Nearest : DayOf(Start(w)) = Today
    /\ ~HasSlotsToday /\ HasSlotsTomorrow => \E w \in Nearest : DayOf(Start(w)) = Today + 1

\* The badge and the page of the station differ on two counts only: a window
\* proposed to somebody else, and the one that begins this very moment.
BadgeIsOnOffer ==
    \A d \in {Today, Today + 1} :
        FreeOn(d) = {w \in OnOfferOn(d) : Start(w) # hour}
            \cup {w \in FreeOn(d) : window[w].proposed}

\* No booking of today or later that waits for the owner, or for its visit, is
\* missing from the dashboard, nor is a request that has waited for days.
LiveIsListed ==
    \A w \in Windows :
        \/ window[w].booked = "pending"
        \/ window[w].booked \in {"confirmed", "in_progress"} /\ DayOf(Start(w)) \in {Today, Today + 1}
        \/ window[w].booked = "confirmed" /\ DayOf(Start(w)) >= Today
        => w \in DayTab(Today) \cup DayTab(Today + 1) \cup Upcoming

\* The calendar of a week leaves no booking out that a tab of a day of it shows, shows
\* no window on two days, and the next week goes on where it ends.
CalendarIsWhole ==
    \A d \in 0 .. DayOf(MaxHour) :
        /\ DayTab(d) \subseteq CalendarHeld(d)
        /\ CalendarHeld(d) = UNION {DayTab(MondayOf(d) + i) : i \in 0 .. WeekLength - 1}
        /\ \A i, j \in 0 .. WeekLength - 1 : i # j => CalendarDay(d, i) \cap CalendarDay(d, j) = {}
        /\ CalendarHeld(d) \cap CalendarHeld(MondayOf(d) + WeekLength) = {}

\* The windows the home page offers can be chosen at once.
HomePageCanBeChosen == \A w \in OnHomePage : ~window[w].proposed => Bookable(w)
=============================================================================

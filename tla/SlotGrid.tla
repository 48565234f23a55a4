------------------------------ MODULE SlotGrid ------------------------------
(***************************************************************************)
(* The windows of one post on one day: generated from its working hours    *)
(* (apps/bookings/slot_generation.py) by a nightly task and by every page  *)
(* that shows them, and added by hand (apps/stations/owner_views.py).      *)
(*                                                                         *)
(* Nothing is locked: the unique constraint on post, day and start makes   *)
(* of two generators one row.  What happens to a window once it exists is  *)
(* in Bookings.                                                            *)
(***************************************************************************)
EXTENDS Workers, SequencesExt

CONSTANTS ClosingTime,  \* times of the day are 0 .. ClosingTime
          HoursOnOffer, \* WorkingHours rows an administrator may save
          DefaultHours, \* DEFAULT_OPENS_AT, DEFAULT_CLOSES_AT, DEFAULT_SLOT_MINUTES
          NoHours

Interval == {i \in [from : 0..ClosingTime, to : 0..ClosingTime] : i.from < i.to}
WorkingHours == [opens : 0..ClosingTime, closes : 0..ClosingTime, step : 1..ClosingTime,
                 breaks : SUBSET Interval]

ASSUME SlotGridAssumption ==
    /\ ClosingTime \in Nat \ {0}
    /\ HoursOnOffer \cup {DefaultHours} \subseteq WorkingHours
    /\ NoHours \notin WorkingHours

VARIABLES hours,     \* the WorkingHours row of the post for this weekday
          windows,   \* the TimeSlot rows of the post on this day
          generated  \* history: the hours of which a generator went through all windows

gridVars == <<hours, windows, generated>>

SlotGridInit ==
    /\ hours = NoHours
    /\ windows = {}
    /\ generated = {}

\* WorkingHours.clean.  A step of 0 also passes it, and the generator would not
\* end.
ValidHours(h) == h.opens < h.closes

-----------------------------------------------------------------------------
\* iter_slot_times_for_day.
Overlaps(w, breaks) == \E b \in breaks : w.from < b.to /\ w.to > b.from

Loop(h) ==
    LET from[cur \in 0..ClosingTime] ==
            LET w == [from |-> cur, to |-> cur + h.step]
            IN  IF w.to > h.closes THEN <<>>
                ELSE (IF Overlaps(w, h.breaks) THEN <<>> ELSE <<w>>) \o from[w.to]
    IN  from[h.opens]

\* Mutant: the first window that meets a break ends the day.
SlotTimesUntilBreak(h) ==
    LET s == Loop([h EXCEPT !.breaks = {}])
        n == CHOOSE k \in 0..Len(s) :
                 /\ \A i \in 1..k : ~Overlaps(s[i], h.breaks)
                 /\ k < Len(s) => Overlaps(s[k + 1], h.breaks)
    IN  SubSeq(s, 1, n)
SlotTimes(h) == IF h.opens >= h.closes THEN <<>> ELSE Loop(h)

\* What it promises: the windows of the grid that starts at the opening, end by
\* the closing and meet no break.
GridOf(h) ==
    {w \in Interval :
        /\ w.from >= h.opens /\ w.to <= h.closes
        /\ (w.from - h.opens) % h.step = 0 /\ w.to = w.from + h.step
        /\ \A b \in h.breaks : w.to <= b.from \/ b.to <= w.from}

-----------------------------------------------------------------------------
\* The hours are saved in the administration site.
HoursSaved(h) ==
    /\ ValidHours(h)
    /\ hours' = h
    /\ UNCHANGED <<windows, generated, workerVars>>

GenerateFrom(p, h) == Begin(p, [op |-> "slots", hours |-> h, left |-> SlotTimes(h)])

\* run_generate_weekly_slots: posts without hours are left out.
WeeklyRead(p) ==
    /\ hours # NoHours
    /\ GenerateFrom(p, hours)
    /\ UNCHANGED gridVars

\* run_generate_slots_for_station: ensure_default_working_hours_for_bay, then
\* the hours are read.
StationEnsured(p) ==
    /\ hours' = IF hours = NoHours THEN DefaultHours ELSE hours
    /\ Begin(p, [op |-> "slots_read"])
    /\ UNCHANGED <<windows, generated>>

StationRead(p) ==
    /\ At(p, "slots_read")
    /\ Continue(p, [op |-> "slots", hours |-> hours, left |-> SlotTimes(hours)])
    /\ UNCHANGED gridVars

Insert(w) == IF \E v \in windows : v.from = w.from THEN windows ELSE windows \cup {w}

\* create_slots_for_bay_day: get_or_create, the error of a race is caught.
SlotInserted(p) ==
    /\ At(p, "slots") /\ req[p].left # <<>>
    /\ windows' = Insert(Head(req[p].left))
    /\ Continue(p, [req[p] EXCEPT !.left = Tail(@)])
    /\ UNCHANGED <<hours, generated>>

SlotsDone(p) ==
    /\ At(p, "slots") /\ req[p].left = <<>>
    /\ generated' = generated \cup {req[p].hours}
    /\ End(p)
    /\ UNCHANGED <<hours, windows>>

\* TimeSlotCreateView, dashboard_quick_slot_today: any times, on the grid or not.
SlotByHand(w) ==
    /\ \A v \in windows : v.from # w.from
    /\ windows' = windows \cup {w}
    /\ UNCHANGED <<hours, generated, workerVars>>

-----------------------------------------------------------------------------
SlotGridStep(p) ==
    \/ WeeklyRead(p) \/ StationEnsured(p) \/ StationRead(p) \/ SlotInserted(p) \/ SlotsDone(p)

SlotGridCrash(p) == Crash(p) /\ UNCHANGED gridVars

SlotGridNext ==
    \/ \E h \in HoursOnOffer : HoursSaved(h)
    \/ \E w \in Interval : SlotByHand(w)
    \/ \E p \in Procs : SlotGridStep(p) \/ SlotGridCrash(p)

SlotGridSpec == WorkersInit /\ SlotGridInit /\ [][SlotGridNext]_<<workerVars, gridVars>>

-----------------------------------------------------------------------------
SlotGridTypeOK ==
    /\ hours \in HoursOnOffer \cup {DefaultHours, NoHours}
    /\ windows \subseteq Interval
    /\ generated \subseteq HoursOnOffer \cup {DefaultHours}
    /\ \A p \in Procs :
          \/ req[p] = Idle \/ At(p, "slots_read")
          \/ At(p, "slots") /\ req[p].hours \in HoursOnOffer \cup {DefaultHours} /\ ToSet(req[p].left) \subseteq Interval

\* However generators overlap, die and meet windows added by hand: the grid of
\* hours that a generator went through to the end has all its windows, none of
\* them twice.
GridIsFilled ==
    /\ \A h \in generated : \A w \in GridOf(h) : \E v \in windows : v.from = w.from
    /\ \A v, w \in windows : v.from = w.from => v = w
=============================================================================

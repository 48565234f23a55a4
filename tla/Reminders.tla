----------------------------- MODULE Reminders -----------------------------
(***************************************************************************)
(* The mail that reminds a client of a confirmed visit two hours before it *)
(* (apps/bookings/tasks.py, send_booking_reminders_2h), sent by a Celery   *)
(* beat every ten minutes to the visits that start in 1:50 to 2:10.        *)
(*                                                                         *)
(* The task loads its visits once and goes through them one by one; a mail *)
(* that cannot be sent is logged and left to the next beat.  Time is       *)
(* counted in units of five minutes.                                       *)
(***************************************************************************)
EXTENDS Workers

CONSTANTS Visits,
          VisitStart,  \* when each visit starts
          MaxClock     \* bound on the clock

ASSUME RemindersAssumption == VisitStart \in [Visits -> Nat] /\ MaxClock \in Nat

VARIABLES clock,
          beaten,      \* the beat of this time has been taken by a worker
          visit,       \* Booking.status of each visit and reminder_2h_sent_at
          confirmedAt, \* history: when each visit was confirmed
          mailed,      \* history: a reminder has been sent
          misfortunes  \* history: mails that failed, per visit

reminderVars == <<clock, beaten, visit, confirmedAt, mailed, misfortunes>>

BeatEvery == 2
IsBeat == clock % BeatEvery = 0

RemindersInit ==
    /\ clock = 0
    /\ beaten = FALSE
    /\ visit = [v \in Visits |-> [status |-> "pending", sent |-> FALSE]]
    /\ confirmedAt = [v \in Visits |-> 0]
    /\ mailed = [v \in Visits |-> FALSE]
    /\ misfortunes = [v \in Visits |-> 0]

-----------------------------------------------------------------------------
\* The rest of the booking's life, see Bookings.
VisitConfirmed(v) ==
    /\ visit[v].status = "pending"
    /\ visit' = [visit EXCEPT ![v].status = "confirmed"]
    /\ confirmedAt' = [confirmedAt EXCEPT ![v] = clock]
    /\ UNCHANGED <<clock, beaten, mailed, misfortunes, workerVars>>

VisitCanceled(v) ==
    /\ visit[v].status = "confirmed"
    /\ visit' = [visit EXCEPT ![v].status = "canceled"]
    /\ UNCHANGED <<clock, beaten, confirmedAt, mailed, misfortunes, workerVars>>

\* A beat waits for a free worker, the clock for the beat; what a worker then
\* takes for its mails may last.
ClockTicks ==
    /\ clock < MaxClock
    /\ IsBeat => beaten
    /\ clock' = clock + 1
    /\ beaten' = FALSE
    /\ UNCHANGED <<visit, confirmedAt, mailed, misfortunes, workerVars>>

-----------------------------------------------------------------------------
\* Mutant: the window is as long as the time between two beats.
InWindowOfOneBeat(v) == VisitStart[v] > clock + 24 /\ VisitStart[v] <= clock + 26
InWindow(v) == VisitStart[v] >= clock + 22 /\ VisitStart[v] <= clock + 26

RemindersRead(p) ==
    /\ IsBeat /\ ~beaten
    /\ beaten' = TRUE
    /\ Begin(p, [op |-> "remind", visits |->
           {v \in Visits : visit[v] = [status |-> "confirmed", sent |-> FALSE] /\ InWindow(v)}])
    /\ UNCHANGED <<clock, visit, confirmedAt, mailed, misfortunes>>

\* The visits are in no order.
ReminderMailed(p) ==
    /\ At(p, "remind")
    /\ \E v \in req[p].visits :
          /\ mailed' = [mailed EXCEPT ![v] = TRUE]
          /\ Continue(p, [op |-> "remind_mark", visit |-> v, visits |-> req[p].visits \ {v}])
    /\ UNCHANGED <<clock, beaten, visit, confirmedAt, misfortunes>>

ReminderFailed(p) ==
    /\ At(p, "remind")
    /\ \E v \in req[p].visits :
          /\ misfortunes' = [misfortunes EXCEPT ![v] = @ + 1]
          /\ Continue(p, [op |-> "remind", visits |-> req[p].visits \ {v}])
    /\ UNCHANGED <<clock, beaten, visit, confirmedAt, mailed>>

ReminderMarked(p) ==
    /\ At(p, "remind_mark")
    /\ visit' = [visit EXCEPT ![req[p].visit].sent = TRUE]
    /\ Continue(p, [op |-> "remind", visits |-> req[p].visits])
    /\ UNCHANGED <<clock, beaten, confirmedAt, mailed, misfortunes>>

RemindersDone(p) ==
    /\ At(p, "remind") /\ req[p].visits = {}
    /\ End(p)
    /\ UNCHANGED reminderVars

-----------------------------------------------------------------------------
RemindersStep(p) ==
    RemindersRead(p) \/ ReminderMailed(p) \/ ReminderFailed(p) \/ ReminderMarked(p) \/ RemindersDone(p)

RemindersCrash(p) == Crash(p) /\ UNCHANGED reminderVars

RemindersNext ==
    \/ \E v \in Visits : VisitConfirmed(v) \/ VisitCanceled(v)
    \/ ClockTicks
    \/ \E p \in Procs : RemindersStep(p) \/ RemindersCrash(p)

RemindersSpec == WorkersInit /\ RemindersInit /\ [][RemindersNext]_<<workerVars, reminderVars>>

-----------------------------------------------------------------------------
RemindersTypeOK ==
    /\ clock \in 0..MaxClock /\ beaten \in BOOLEAN
    /\ visit \in [Visits -> [status : {"pending", "confirmed", "canceled"}, sent : BOOLEAN]]
    /\ confirmedAt \in [Visits -> 0..MaxClock]
    /\ mailed \in [Visits -> BOOLEAN] /\ misfortunes \in [Visits -> Nat]
    /\ req \in [Procs -> [op : {"remind"}, visits : SUBSET Visits]
                           \cup [op : {"remind_mark"}, visit : Visits, visits : SUBSET Visits]
                           \cup {Idle}]

\* A visit confirmed before its window opens and not canceled has been reminded
\* of when the window is over, although one mail failed or one worker died: the
\* window spans two beats.
RemindedInTime ==
    \A v \in Visits :
        /\ AllIdle
        /\ clock > VisitStart[v] - 22
        /\ visit[v].status = "confirmed" /\ confirmedAt[v] < VisitStart[v] - 26
        /\ misfortunes[v] + crashes <= 1
        => mailed[v]
=============================================================================

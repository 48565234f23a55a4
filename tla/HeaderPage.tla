----------------------------- MODULE HeaderPage -----------------------------
(***************************************************************************)
(* The counter of unread chats in the header of a page, open in the        *)
(* browser of one user (static/js/app/header-inbox.js): the sum of what    *)
(* two sockets tell it (user_inbox_consumer.py,                            *)
(* sto_owner_inbox_consumer.py), which are never opened again, or of what  *)
(* the polling of /api/inbox/summary/ does as long as one of them is down. *)
(*                                                                         *)
(* A change of a count is told to the socket in the same step; Chats has   *)
(* the changes that are told late, and those that are not told at all.     *)
(***************************************************************************)
EXTENDS Naturals, Sequences, FiniteSets

CONSTANTS Approved, \* the user is an approved owner: the page opens the second socket
          Works,    \* the sockets the server answers
          MaxUnread \* bound on a count

ASSUME HeaderPageAssumption ==
    /\ Approved \in BOOLEAN /\ Works \subseteq {"user", "owner"} /\ MaxUnread \in Nat

VARIABLES unread,      \* what the server counts
          pill,        \* bookingUnread, stoDirectUnread
          inboxSock,   \* the sockets; "joined": to their groups, nothing sent yet
          inboxWire,   \* the counts on their way to the page
          checked,     \* the timers of 3 s and 3.5 s that have fired
          visible,
          pollTimer,   \* is set
          summary      \* the request of the polling in flight, pollBusy

headerVars == <<unread, pill, inboxSock, inboxWire, checked, visible, pollTimer, summary>>

Counts == 0..MaxUnread
Sockets == IF Approved THEN {"user", "owner"} ELSE {"user"}
NoSummary == [state |-> "none", counts |-> [c \in Sockets |-> 0]]
Sum(counts) == IF Approved THEN counts["user"] + counts["owner"] ELSE counts["user"]

\* The page is made with the sum as the first count.
HeaderInit ==
    /\ unread \in [Sockets -> Counts]
    /\ pill = [c \in Sockets |-> IF c = "user" THEN Sum(unread) ELSE 0]
    /\ inboxSock = [c \in Sockets |-> "connecting"]
    /\ inboxWire = [c \in Sockets |-> <<>>]
    /\ checked = {}
    /\ visible \in BOOLEAN
    /\ pollTimer = FALSE
    /\ summary = NoSummary

-----------------------------------------------------------------------------
\* What counts as told: broadcast_booking_inbox_refresh.
CountChanges ==
    \E c \in Sockets, n \in Counts :
        /\ n # unread[c]
        /\ unread' = [unread EXCEPT ![c] = n]
        /\ inboxWire' = IF inboxSock[c] \in {"joined", "open"} THEN [inboxWire EXCEPT ![c] = Append(@, n)] ELSE inboxWire
        \* Bound.
        /\ Len(inboxWire[c]) < 2
        /\ UNCHANGED <<pill, inboxSock, checked, visible, pollTimer, summary>>

-----------------------------------------------------------------------------
\* Mutant: whatever the second socket does.
NeedsHttpPollOfUser(socks) == socks["user"] # "open"
NeedsHttpPoll(socks) == \E c \in Sockets : socks[c] # "open"

\* pollInboxFromHttp.
SummaryAsked(socks) ==
    IF visible /\ NeedsHttpPoll(socks) /\ summary.state = "none"
    THEN [summary EXCEPT !.state = "asked"] ELSE summary

\* clearInboxPoll: the request is aborted, its answer is not looked at.
ClearInboxPoll == pollTimer' = FALSE /\ summary' = NoSummary

\* scheduleInboxPollIfNeeded.  Mutant: the polling that is going on is left alone.
ScheduleOrKeep(socks) ==
    IF ~NeedsHttpPoll(socks) THEN pollTimer' = FALSE /\ UNCHANGED summary
    ELSE pollTimer' = TRUE /\ summary' = IF pollTimer THEN summary ELSE SummaryAsked(socks)
ScheduleInboxPollIfNeeded(socks) ==
    IF ~NeedsHttpPoll(socks) THEN ClearInboxPoll
    ELSE pollTimer' = TRUE /\ summary' = IF pollTimer THEN summary ELSE SummaryAsked(socks)

\* The timers of 3 s and 3.5 s.
TimerFires(c) ==
    /\ c \notin checked
    /\ checked' = checked \cup {c}
    /\ IF inboxSock[c] # "open" THEN ScheduleInboxPollIfNeeded(inboxSock) ELSE UNCHANGED <<pollTimer, summary>>
    /\ UNCHANGED <<unread, pill, inboxSock, inboxWire, visible>>

\* visibilitychange.
PageHides ==
    /\ visible
    /\ visible' = FALSE
    /\ ClearInboxPoll
    /\ UNCHANGED <<unread, pill, inboxSock, inboxWire, checked>>

PageShows ==
    /\ ~visible
    /\ visible' = TRUE
    /\ IF NeedsHttpPoll(inboxSock)
       THEN /\ pollTimer' = TRUE
            /\ summary' = IF summary.state = "none" THEN [summary EXCEPT !.state = "asked"] ELSE summary
       ELSE ClearInboxPoll
    /\ UNCHANGED <<unread, pill, inboxSock, inboxWire, checked>>

-----------------------------------------------------------------------------
\* connect: the group, then the count, ahead of what was told since.
InboxJoins(c) ==
    /\ inboxSock[c] = "connecting" /\ c \in Works
    /\ inboxSock' = [inboxSock EXCEPT ![c] = "joined"]
    /\ UNCHANGED <<unread, pill, inboxWire, checked, visible, pollTimer, summary>>

InboxOpens(c) ==
    /\ inboxSock[c] = "joined"
    /\ inboxSock' = [inboxSock EXCEPT ![c] = "open"]
    /\ inboxWire' = [inboxWire EXCEPT ![c] = <<unread[c]>> \o @]
    /\ ScheduleInboxPollIfNeeded(inboxSock')
    /\ UNCHANGED <<unread, pill, checked, visible>>

InboxCloses(c) ==
    /\ inboxSock[c] # "closed"
    /\ inboxSock' = [inboxSock EXCEPT ![c] = "closed"]
    /\ inboxWire' = [inboxWire EXCEPT ![c] = <<>>]
    /\ ScheduleInboxPollIfNeeded(inboxSock')
    /\ UNCHANGED <<unread, pill, checked, visible>>

\* onmessage.
CountArrives(c) ==
    /\ inboxSock[c] = "open" /\ inboxWire[c] # <<>>
    /\ pill' = [pill EXCEPT ![c] = Head(inboxWire[c])]
    /\ inboxWire' = [inboxWire EXCEPT ![c] = Tail(@)]
    /\ UNCHANGED <<unread, inboxSock, checked, visible, pollTimer, summary>>

-----------------------------------------------------------------------------
SummaryTick ==
    /\ pollTimer
    /\ summary' = SummaryAsked(inboxSock) /\ summary' # summary
    /\ UNCHANGED <<unread, pill, inboxSock, inboxWire, checked, visible, pollTimer>>

\* HeaderInboxSummaryAPIView.  Mutant: the first count has the second in it.
ServedTwice == [unread EXCEPT !["user"] = Sum(unread)]
Served == unread

SummaryServed ==
    /\ summary.state = "asked"
    /\ summary' = [state |-> "served", counts |-> Served]
    /\ UNCHANGED <<unread, pill, inboxSock, inboxWire, checked, visible, pollTimer>>

SummaryAnswered ==
    /\ summary.state = "served"
    /\ pill' = summary.counts
    /\ summary' = NoSummary
    /\ UNCHANGED <<unread, inboxSock, inboxWire, checked, visible, pollTimer>>

\* Lost, or an error.
SummaryFails ==
    /\ summary.state # "none"
    /\ summary' = NoSummary
    /\ UNCHANGED <<unread, pill, inboxSock, inboxWire, checked, visible, pollTimer>>

-----------------------------------------------------------------------------
HeaderNext ==
    \/ CountChanges \/ PageHides \/ PageShows
    \/ SummaryTick \/ SummaryServed \/ SummaryAnswered \/ SummaryFails
    \/ \E c \in Sockets :
          TimerFires(c) \/ InboxJoins(c) \/ InboxOpens(c) \/ InboxCloses(c) \/ CountArrives(c)

\* Timers fire, sockets deliver what was sent, and not every request is lost.
HeaderFairness ==
    /\ \A c \in {"user", "owner"} \cap Sockets : WF_headerVars(TimerFires(c)) /\ WF_headerVars(CountArrives(c))
    /\ WF_headerVars(SummaryTick) /\ SF_headerVars(SummaryServed) /\ SF_headerVars(SummaryAnswered)

HeaderSpec == HeaderInit /\ [][HeaderNext]_headerVars /\ HeaderFairness

-----------------------------------------------------------------------------
HeaderTypeOK ==
    /\ unread \in [Sockets -> Counts]
    /\ pill \in [Sockets -> 0..2 * MaxUnread]
    /\ inboxSock \in [Sockets -> {"connecting", "joined", "open", "closed"}]
    /\ inboxWire \in [Sockets -> Seq(Counts)]
    /\ checked \subseteq Sockets
    /\ visible \in BOOLEAN /\ pollTimer \in BOOLEAN
    /\ summary \in [state : {"none", "asked", "served"}, counts : [Sockets -> Counts]]

\* A page that is looked at comes to show the count once it no longer changes,
\* whichever of its sockets never opened or were lost, and when.
HeaderSettles ==
    \A n \in 0..2 * MaxUnread : <>[](visible /\ Sum(unread) = n) => <>[](Sum(pill) = n)
=============================================================================

------------------------------ MODULE Support ------------------------------
(***************************************************************************)
(* The tickets one user writes to the support (apps/support/services.py,   *)
(* users/cabinet_views.py), the answers of the staff (erp/views.py), and   *)
(* what counts as unread on either side (apps/support/unread.py).          *)
(*                                                                         *)
(* Messages and readings are stamped with the time; no two stamps are the  *)
(* same.  The user writes once, when the ticket is made.                   *)
(***************************************************************************)
EXTENDS Workers, Integers, FiniteSets

CONSTANTS Tickets,       \* primary keys of SupportTicket rows, in order
          TicketLimit,   \* SUPPORT_MAX_NEW_TICKETS_PER_HOUR
          Hour,          \* in stamps
          MaxStamp       \* bound on the stamps

ASSUME SupportAssumption ==
    Tickets \subseteq Nat /\ TicketLimit \in Nat /\ Hour \in Nat /\ MaxStamp \in Nat

VARIABLES ticket, \* the rows: status, when it was made, when each side last read it,
                  \* when the staff replied
          seen,   \* the replies of each ticket its user was shown
          stamp   \* the last time stamp

supportVars == <<ticket, seen, stamp>>

Stamps == 0..MaxStamp
Never == 0  \* a null time of reading
NoTicket == [status |-> "none", made |-> 0, userRead |-> 0, staffRead |-> 0, replies |-> {}]
TicketStatus == {"open", "in_progress", "resolved", "closed"}
Ticket == [status : TicketStatus, made : Stamps, userRead : Stamps, staffRead : Stamps,
           replies : SUBSET Stamps]

SupportRequest ==
    [op : {"ticket_save"}]
      \cup [op : {"support_reply", "support_progress"}, of : Tickets, status : TicketStatus]
      \cup [op : {"support_list"}, of : Tickets]

SupportInit ==
    /\ ticket = [t \in Tickets |-> NoTicket]
    /\ seen = [t \in Tickets |-> {}]
    /\ stamp = 0

Opened == {t \in Tickets : ticket[t].status # "none"}
Tick == stamp < MaxStamp /\ stamp' = stamp + 1

-----------------------------------------------------------------------------
\* create_ticket_with_initial_message: the tickets of the last hour are counted,
\* then the ticket, the message and the acknowledgement are one transaction.
\* Mutant: one more than the limit.
WithinLimitLoosely(n) == n <= TicketLimit
WithinLimit(n) == n < TicketLimit

Recent == {t \in Opened : ticket[t].made + Hour > stamp}

TicketRead(p) ==
    /\ WithinLimit(Cardinality(Recent))
    /\ Begin(p, [op |-> "ticket_save"])
    /\ UNCHANGED supportVars

TicketSave(p) ==
    /\ At(p, "ticket_save")
    /\ Tick
    /\ \E t \in Tickets \ Opened :
          /\ \A o \in Tickets \ Opened : t <= o
          /\ ticket' = [ticket EXCEPT ![t] =
                 [status |-> "open", made |-> stamp', userRead |-> stamp', staffRead |-> Never,
                  replies |-> {}]]
    /\ End(p)
    /\ UNCHANGED seen

-----------------------------------------------------------------------------
\* ClientSupportDetailView marks the ticket as read, then lists the messages.
UserOpens(p, t) ==
    /\ t \in Opened
    /\ Tick
    /\ ticket' = [ticket EXCEPT ![t].userRead = stamp']
    /\ Begin(p, [op |-> "support_list", of |-> t])
    /\ UNCHANGED seen

UserLists(p) ==
    /\ At(p, "support_list")
    /\ seen' = [seen EXCEPT ![req[p].of] = ticket[req[p].of].replies]
    /\ End(p)
    /\ UNCHANGED <<ticket, stamp>>

\* support_ticket_detail.
StaffOpens(p, t) ==
    /\ t \in Opened /\ req[p] = Idle
    /\ Tick
    /\ ticket' = [ticket EXCEPT ![t].staffRead = stamp']
    /\ UNCHANGED <<seen, workerVars>>

\* support_ticket_reply: the message, then the status that was loaded decides.
ReplyRead(p, t) ==
    /\ t \in Opened
    /\ Begin(p, [op |-> "support_reply", of |-> t, status |-> ticket[t].status])
    /\ UNCHANGED supportVars

\* Mutant: a reply puts any ticket to work.
TakenUpAlways(status) == TRUE
TakenUp(status) == status = "open"

ReplySave(p) ==
    /\ At(p, "support_reply")
    /\ Tick
    /\ ticket' = [ticket EXCEPT ![req[p].of].replies = @ \cup {stamp'}]
    /\ IF TakenUp(req[p].status) THEN Goto(p, "support_progress") ELSE End(p)
    /\ UNCHANGED seen

ReplyProgress(p) ==
    /\ At(p, "support_progress")
    /\ ticket' = [ticket EXCEPT ![req[p].of].status = "in_progress"]
    /\ End(p)
    /\ UNCHANGED <<seen, stamp>>

\* support_ticket_set_status.
SetTicketStatus(p, t, status) ==
    /\ t \in Opened /\ req[p] = Idle
    /\ status \in {"resolved", "closed", "open"}
    /\ ticket' = [ticket EXCEPT ![t].status = status]
    /\ UNCHANGED <<seen, stamp, workerVars>>

\* Bound: no stamp or no key is left for what the handler saves.
SupportStops(p) ==
    /\ At(p, "ticket_save") \/ At(p, "support_reply")
    /\ stamp = MaxStamp \/ (At(p, "ticket_save") /\ Opened = Tickets)
    /\ End(p)
    /\ UNCHANGED supportVars

TimePasses ==
    /\ AllIdle /\ Tick
    /\ UNCHANGED <<ticket, seen, workerVars>>

-----------------------------------------------------------------------------
SupportStep(p) ==
    \/ TicketRead(p) \/ TicketSave(p) \/ UserLists(p) \/ ReplySave(p) \/ ReplyProgress(p)
    \/ SupportStops(p)
    \/ \E t \in Tickets : UserOpens(p, t) \/ StaffOpens(p, t) \/ ReplyRead(p, t)
    \/ \E t \in Tickets, status \in TicketStatus : SetTicketStatus(p, t, status)

SupportCrash(p) == Crash(p) /\ UNCHANGED supportVars

SupportNext == TimePasses \/ \E p \in Procs : SupportStep(p) \/ SupportCrash(p)

SupportSpec == WorkersInit /\ SupportInit /\ [][SupportNext]_<<workerVars, supportVars>>

-----------------------------------------------------------------------------
SupportTypeOK ==
    /\ ticket \in [Tickets -> Ticket \cup {NoTicket}]
    /\ seen \in [Tickets -> SUBSET Stamps]
    /\ stamp \in Stamps
    /\ req \in [Procs -> SupportRequest \cup {Idle}]

\* support_unread_tickets_for_user_qs: the last reply is later than the reading.
\* Mutant: the first reply.
FirstReply(t) == CHOOSE r \in ticket[t].replies : \A o \in ticket[t].replies : r <= o
LastReply(t) == CHOOSE r \in ticket[t].replies : \A o \in ticket[t].replies : o <= r

UnreadForUser ==
    {t \in Opened : ticket[t].replies # {} /\ (ticket[t].userRead = Never \/ LastReply(t) > ticket[t].userRead)}

\* One at a time, the badge of the cabinet is exact: a ticket counts as unread if
\* and only if it holds a reply its user was not shown.
UnreadIffUnshown == AllIdle => UnreadForUser = {t \in Opened : ~(ticket[t].replies \subseteq seen[t])}

\* One at a time, no more tickets are made in an hour than the limit.
TicketsWithinLimit ==
    AllIdle => \A now \in Stamps : Cardinality({t \in Opened : ticket[t].made \in (now - Hour) + 1..now}) <= TicketLimit

\* One at a time, a ticket that was settled is opened again by a decision of the
\* staff and by nothing else: not by one more reply.
SettledStays ==
    [][\A t \in Tickets :
          ticket[t].status \in {"resolved", "closed"} /\ ticket'[t].status \in {"open", "in_progress"}
              => \E p \in Procs : SetTicketStatus(p, t, "open")]_supportVars
=============================================================================

------------------------------- MODULE Calls -------------------------------
(***************************************************************************)
(* Voice calls: the REST handlers of apps/calls/api_views.py over Call     *)
(* rows (models.py), the events they send to the user's socket             *)
(* (realtime.py, consumer.py) and the state the page keeps                 *)
(* (static/js/app/calls.js), one page per user.                            *)
(*                                                                         *)
(* The test for a call in progress and the insert are two steps; an action *)
(* refreshes the row in a transaction but does not lock it.  Events are    *)
(* sent after the commit, reach a page in order, some time later, and are  *)
(* lost with its socket.                                                   *)
(***************************************************************************)
EXTENDS Workers, Sequences, FiniteSets

CONSTANTS Users,
          CallIds,   \* primary keys a Call row may get
          NoCall,    \* callId = 0 in the page
          MaxDrops   \* bound on the sockets that are lost

ASSUME NoCallAssumption == NoCall \notin CallIds /\ MaxDrops \in Nat

VARIABLES call,   \* the Call rows
          late,   \* calls that have rung for ring_timeout_sec
          page,   \* "current" and the overlay of each user's page
          inbox,  \* events on their way to each page
          drops

callVars == <<call, late, page, inbox, drops>>

LiveCall == {"ringing", "active"}
FinalCall == {"completed", "missed", "declined"}
NoRow == [caller |-> NoCall, receiver |-> NoCall, status |-> "none"]
CallRow == [caller : Users, receiver : Users, status : LiveCall \cup FinalCall] \cup {NoRow}

\* current.state, the buttons shown (setMode, hideOverlay), current.callId.
Page == [state : {"idle", "outgoing", "incoming", "active"},
         mode : {"hidden", "outgoing", "incoming", "active"},
         call : CallIds \cup {NoCall}]
IdlePage == [state |-> "idle", mode |-> "hidden", call |-> NoCall]

Event == [type : {"incoming", "accepted", "declined", "ended", "timeout"}, call : CallIds]
Told(type, c) == [type |-> type, call |-> c]

CallRequest ==
    [op : {"call_check", "call_create"}, user : Users, peer : Users]
      \cup [op : {"call_ring", "call_answer"}, user : Users, call : CallIds]
      \cup [op : {"act_read", "act_save", "act_tell"}, act : {"accept", "decline", "end"}, user : Users,
            call : CallIds, seen : LiveCall \cup FinalCall, late : BOOLEAN]

Act(act, u, c) ==
    [op |-> "act_read", act |-> act, user |-> u, call |-> c, seen |-> "ringing", late |-> FALSE]

CallsInit ==
    /\ call = [c \in CallIds |-> NoRow]
    /\ late = {}
    /\ page = [u \in Users |-> IdlePage]
    /\ inbox = [u \in Users |-> <<>>]
    /\ drops = 0

Party(c) == {call[c].caller, call[c].receiver}

\* The call any of these users is in.
\* Mutant: a call that still rings is not seen.
BusyWhenTalking(us) == {c \in CallIds : call[c].status = "active" /\ Party(c) \cap us # {}}
Busy(us) == {c \in CallIds : call[c].status \in LiveCall /\ Party(c) \cap us # {}}

-----------------------------------------------------------------------------
\* CallsInitiateAPIView.

\* Bound: a call that is asked for finds a primary key.
CallKeyLeft ==
    Cardinality(InFlight("call_check") \cup InFlight("call_create"))
        < Cardinality({c \in CallIds : call[c] = NoRow})

\* startOutgoingCall: the call buttons are under the overlay while it is shown.
ClickCall(p, u, v) ==
    /\ u # v /\ CallKeyLeft
    /\ page[u].mode = "hidden"
    /\ page' = [page EXCEPT ![u].mode = "outgoing"]
    /\ Begin(p, [op |-> "call_check", user |-> u, peer |-> v])
    /\ UNCHANGED <<call, late, inbox, drops>>

\* An answer that is not ok leaves its text on the overlay.
CallRefused(p) ==
    /\ At(p, "call_check")
    /\ Busy({req[p].user, req[p].peer}) # {}
    /\ page' = [page EXCEPT ![req[p].user].mode = "outgoing"]
    /\ End(p)
    /\ UNCHANGED <<call, late, inbox, drops>>

CallCheck(p) ==
    /\ At(p, "call_check")
    /\ Busy({req[p].user, req[p].peer}) = {}
    /\ Goto(p, "call_create")
    /\ UNCHANGED callVars

CallCreate(p) ==
    /\ At(p, "call_create")
    /\ \E c \in CallIds :
          /\ call[c] = NoRow
          /\ call' = [call EXCEPT ![c] = [caller |-> req[p].user, receiver |-> req[p].peer,
                                          status |-> "ringing"]]
          /\ Continue(p, [op |-> "call_ring", user |-> req[p].user, call |-> c])
    /\ UNCHANGED <<late, page, inbox, drops>>

Send(u, event) == [inbox EXCEPT ![u] = Append(@, event)]

\* Mutant: the caller is rung instead.
CallRingCaller(p) ==
    /\ At(p, "call_ring")
    /\ inbox' = Send(call[req[p].call].caller, Told("incoming", req[p].call))
    /\ Goto(p, "call_answer")
    /\ UNCHANGED <<call, late, page, drops>>
CallRing(p) ==
    /\ At(p, "call_ring")
    /\ inbox' = Send(call[req[p].call].receiver, Told("incoming", req[p].call))
    /\ Goto(p, "call_answer")
    /\ UNCHANGED <<call, late, page, drops>>

\* The page takes the call over, whatever has happened to it since the click.
CallAnswer(p) ==
    /\ At(p, "call_answer")
    /\ page' = [page EXCEPT ![req[p].user].state = "outgoing",
                            ![req[p].user].call = req[p].call]
    /\ End(p)
    /\ UNCHANGED <<call, late, inbox, drops>>

RingTimesOut(c) ==
    /\ call[c].status = "ringing"
    /\ late' = late \cup {c}
    /\ UNCHANGED <<call, page, inbox, drops, workerVars>>

-----------------------------------------------------------------------------
\* CallsActionAPIView.

\* Accepting and declining are for the receiver.
Allowed(r) == r.act = "end" \/ r.user = call[r.call].receiver
\* A call that has rung for too long is missed whatever is asked for, but for an
\* accept that is refused.
Expired(r) == r.seen = "ringing" /\ r.late /\ (r.act = "accept" => Allowed(r))
\* Mutant: whatever is asked for is saved.
DoneWhenever(r) == Allowed(r) /\ ~Expired(r)
Done(r) ==
    /\ Allowed(r) /\ ~Expired(r)
    /\ r.seen = "ringing" \/ (r.act = "end" /\ r.seen = "active")

Saved(r) ==
    CASE Expired(r) -> "missed"
      [] Done(r) /\ r.act = "accept" -> "active"
      [] Done(r) /\ r.act = "decline" -> "declined"
      [] Done(r) /\ r.act = "end" -> IF r.seen = "active" THEN "completed" ELSE "missed"
      [] OTHER -> call[r.call].status

\* Who is told what (the page has no use for "call.active").
\* Mutant: only the caller is told.
NewsForCaller(r) ==
    LET to(u, type) == IF u = call[r.call].caller THEN <<Told(type, r.call)>> ELSE <<>>
    IN  CASE Done(r) /\ r.act = "accept" -> [u \in Users |-> to(u, "accepted")]
          [] Done(r) -> [u \in Users |-> to(u, "ended")]
          [] OTHER -> [u \in Users |-> <<>>]
News(r) ==
    LET to(us, type) == [u \in Users |-> IF u \in us THEN <<Told(type, r.call)>> ELSE <<>>]
    IN  CASE Done(r) /\ r.act = "accept" -> to({call[r.call].caller}, "accepted")
          [] Done(r) /\ r.act = "decline" -> to(Party(r.call), "declined")
          [] Done(r) /\ r.act = "end" -> to(Party(r.call), "ended")
          [] Expired(r) /\ r.act = "accept" -> to({call[r.call].caller}, "timeout")
          [] OTHER -> to({}, "ended")

ActRead(p) ==
    LET c == req[p].call
    IN  /\ At(p, "act_read")
        /\ Continue(p, [req[p] EXCEPT !.op = "act_save", !.seen = call[c].status,
                                      !.late = (c \in late)])
        /\ UNCHANGED callVars

ActSave(p) ==
    /\ At(p, "act_save")
    /\ call' = [call EXCEPT ![req[p].call].status = Saved(req[p])]
    /\ Goto(p, "act_tell")
    /\ UNCHANGED <<late, page, inbox, drops>>

\* The events, and what the page does with the answer: an accepted call is
\* opened; after a decline, answered or refused, the page ends its call, which
\* is a request of its own.
ActTell(p) ==
    LET r == req[p]
        u == r.user
    IN  /\ At(p, "act_tell")
        /\ inbox' = [v \in Users |-> inbox[v] \o News(r)[v]]
        /\ \/ /\ r.act = "accept"
              /\ page' = [page EXCEPT ![u].state = IF Done(r) THEN "active" ELSE @,
                                      ![u].mode = IF Done(r) THEN "active" ELSE @]
              /\ End(p)
           \/ /\ r.act = "decline"
              /\ page' = [page EXCEPT ![u] = IdlePage]
              /\ Continue(p, IF page[u].call = NoCall THEN Idle ELSE Act("end", u, page[u].call))
           \/ /\ r.act = "end"
              /\ End(p)
              /\ UNCHANGED page
        /\ UNCHANGED <<call, late, drops>>

-----------------------------------------------------------------------------
\* The page.

\* The buttons of an incoming call.
Answer(p, u, act) ==
    /\ page[u].mode = "incoming" /\ page[u].call # NoCall
    /\ Begin(p, Act(act, u, page[u].call))
    /\ UNCHANGED callVars

\* endCall: the page forgets its call at once and posts an end for it, if it has
\* one; nothing is done about a post that is lost.
EndCall(p, u) ==
    /\ page' = [page EXCEPT ![u] = IdlePage]
    /\ \/ page[u].call # NoCall /\ Begin(p, Act("end", u, page[u].call))
       \/ UNCHANGED workerVars

HangUp(p, u) ==
    /\ page[u].mode \in {"outgoing", "active"}
    /\ EndCall(p, u)
    /\ UNCHANGED <<call, late, inbox, drops>>

\* handleWsEvent.  An end is taken for the end of whatever call the page has.
Deliver(p, u) ==
    /\ inbox[u] # <<>>
    /\ inbox' = [inbox EXCEPT ![u] = Tail(@)]
    /\ LET event == Head(inbox[u])
       IN  \/ /\ event.type = "incoming"
              /\ page' = IF page[u].state # "idle" THEN page
                         ELSE [page EXCEPT ![u] = [state |-> "incoming", mode |-> "incoming",
                                                   call |-> event.call]]
              /\ UNCHANGED workerVars
           \/ /\ event.type = "accepted"
              /\ page' = IF page[u].state # "outgoing" THEN page
                         ELSE [page EXCEPT ![u].state = "active", ![u].mode = "active"]
              /\ UNCHANGED workerVars
           \/ /\ event.type \in {"declined", "ended", "timeout"}
              /\ EndCall(p, u)
    /\ UNCHANGED <<call, late, drops>>

\* The socket is lost and made again: what was on its way is gone.
Reconnect(u) ==
    /\ inbox[u] # <<>> /\ drops < MaxDrops
    /\ drops' = drops + 1
    /\ inbox' = [inbox EXCEPT ![u] = <<>>]
    /\ UNCHANGED <<call, late, page, workerVars>>

-----------------------------------------------------------------------------
CallStep(p) ==
    \/ CallRefused(p) \/ CallCheck(p) \/ CallCreate(p) \/ CallRing(p) \/ CallAnswer(p)
    \/ ActRead(p) \/ ActSave(p) \/ ActTell(p)

CallsNext ==
    \/ \E c \in CallIds : RingTimesOut(c)
    \/ \E u \in Users : Reconnect(u)
    \/ \E p \in Procs :
          \/ CallStep(p)
          \/ \E u, v \in Users : ClickCall(p, u, v)
          \/ \E u \in Users :
                Answer(p, u, "accept") \/ Answer(p, u, "decline") \/ HangUp(p, u) \/ Deliver(p, u)

\* A request once begun goes on, an event on its way arrives.
CallsFairness ==
    \A p \in Procs : /\ WF_<<workerVars, callVars>>(CallStep(p))
                     /\ \A u \in Users : WF_<<workerVars, callVars>>(Deliver(p, u))

CallsSpec ==
    /\ WorkersInit /\ CallsInit
    /\ [][CallsNext]_<<workerVars, callVars>>
    /\ CallsFairness

-----------------------------------------------------------------------------
CallsTypeOK ==
    /\ call \in [CallIds -> CallRow]
    /\ late \subseteq CallIds
    /\ page \in [Users -> Page]
    /\ inbox \in [Users -> Seq(Event)]
    /\ drops \in 0..MaxDrops
    /\ req \in [Procs -> CallRequest \cup {Idle}]

\* However requests, events and clicks overlap, the room a page is about to join
\* or sits in is that of a call of its own user, and a page that rings rings for
\* a call to its user.
OwnCallOnly ==
    \A u \in Users : page[u].call # NoCall =>
        /\ u \in Party(page[u].call)
        /\ page[u].state = "incoming" => u = call[page[u].call].receiver

\* api_views.py:98: nobody is called who is in a call, and nobody calls out of
\* one, while requests are served one at a time.
OneLiveCall ==
    \A c, d \in CallIds :
        c # d /\ call[c].status \in LiveCall /\ call[d].status \in LiveCall
            => Party(c) \cap Party(d) = {}

\* One at a time, a call that has ended stays ended: no late accept revives it.
EndedCallStays ==
    [][\A c \in CallIds : call[c].status \in FinalCall => call'[c].status = call[c].status]_callVars

\* A page still shows a call that was declined or ended while it could be
\* answered.
PageBehind ==
    \E c \in CallIds, u \in Users : page[u].call = c /\ call[c].status \in FinalCall /\ c \notin late

\* While requests are served one at a time and no socket is lost, both pages
\* leave such a call.
EndedCallIsLeft == PageBehind ~> ~PageBehind
=============================================================================

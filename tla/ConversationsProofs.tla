------------------------- MODULE ConversationsProofs -------------------------
(***************************************************************************)
(* Theorems about the ways people talk to each other: calls, the support,  *)
(* chats, reviews and help on the road, and the mails that remind them.    *)
(* Calls keep theirs whatever overlaps whatever, and so do the one about   *)
(* whom a number is told and the one about the mails; the others take no   *)
(* locks either, and theirs are of one worker.                             *)
(***************************************************************************)
EXTENDS Calls, Support, Chats, Reviews, RoadHelp, Reminders, Integers, FiniteSetTheorems, TLAPS

USE DEF callVars, workerVars, supportVars

-----------------------------------------------------------------------------
(* Calls.                                                                  *)

Exists(c) == call[c] # NoRow

\* What a page holds is a call of its user, and one it rings for is to him;
PageSound(u) ==
    page[u].call # NoCall =>
        /\ Exists(page[u].call)
        /\ u \in Party(page[u].call)
        /\ page[u].state = "incoming" => u = call[page[u].call].receiver

\* what rings on its way to a page is a call to its user;
RingSound(u, event) ==
    event.type = "incoming" => Exists(event.call) /\ u = call[event.call].receiver
InboxSound(u) == \A i \in 1..Len(inbox[u]) : RingSound(u, inbox[u][i])

\* a handler goes on with a call that there is, and rings out for its caller.
RequestSound(p) ==
    /\ req[p].op \in {"call_ring", "call_answer"} =>
          Exists(req[p].call) /\ req[p].user = call[req[p].call].caller
    /\ req[p].op \in {"act_read", "act_save", "act_tell"} => Exists(req[p].call)

\* Types alone are not inductive: an action reads and saves a row it takes to be there.
CallsInv ==
    /\ CallsTypeOK
    /\ \A u \in Users : PageSound(u) /\ InboxSound(u)
    /\ \A p \in Procs : RequestSound(p)

-----------------------------------------------------------------------------
\* What the request of each step holds.
LEMMA RequestTyped ==
    ASSUME CallsTypeOK, NEW p \in Procs
    PROVE  /\ req[p].op \in {"call_check", "call_create"} =>
                 req[p] \in [op : {"call_check", "call_create"}, user : Users, peer : Users]
           /\ req[p].op \in {"call_ring", "call_answer"} =>
                 req[p] \in [op : {"call_ring", "call_answer"}, user : Users, call : CallIds]
           /\ req[p].op \in {"act_read", "act_save", "act_tell"} =>
                 req[p] \in [op : {"act_read", "act_save", "act_tell"}, act : {"accept", "decline", "end"},
                             user : Users, call : CallIds, seen : LiveCall \cup FinalCall, late : BOOLEAN]
<1>1. req[p] \in CallRequest \cup {Idle}
  BY DEF CallsTypeOK
<1>2. QED
  BY <1>1 DEF CallRequest, Idle

\* A step that leaves the worker `p` with the request `r`, or none.
LEMMA RequestsTyped ==
    ASSUME CallsTypeOK, NEW p \in Procs, NEW r \in CallRequest \cup {Idle}, req' = [req EXCEPT ![p] = r]
    PROVE  req' \in [Procs -> CallRequest \cup {Idle}]
BY DEF CallsTypeOK

\* A row that is there has a caller, a receiver and a status of its own.
LEMMA RowTyped ==
    ASSUME CallsTypeOK, NEW c \in CallIds, Exists(c)
    PROVE  call[c] \in [caller : Users, receiver : Users, status : LiveCall \cup FinalCall]
BY DEF CallsTypeOK, CallRow, Exists

\* The request of a button of a page.
LEMMA ActTyped ==
    ASSUME NEW act \in {"accept", "decline", "end"}, NEW u \in Users, NEW c \in CallIds
    PROVE  Act(act, u, c) \in CallRequest
<1>1. Act(act, u, c) \in [op : {"act_read", "act_save", "act_tell"}, act : {"accept", "decline", "end"},
                          user : Users, call : CallIds, seen : LiveCall \cup FinalCall, late : BOOLEAN]
  BY DEF Act, LiveCall
<1>2. QED
  BY <1>1 DEF CallRequest

\* Sequences of events: one more at the end,
LEMMA EventAppended ==
    ASSUME NEW s \in Seq(Event), NEW x \in Event
    PROVE  /\ Append(s, x) \in Seq(Event)
           /\ Len(Append(s, x)) = Len(s) + 1
           /\ \A i \in 1..Len(s) : Append(s, x)[i] = s[i]
           /\ Append(s, x)[Len(s) + 1] = x
OBVIOUS

\* the first and the others.
LEMMA RowTaken ==
    ASSUME NEW s \in Seq(Event), s # <<>>
    PROVE  /\ Head(s) = s[1] /\ Head(s) \in Event /\ 1 \in 1..Len(s)
           /\ Tail(s) \in Seq(Event)
           /\ \A i \in 1..Len(Tail(s)) : i + 1 \in 1..Len(s) /\ Tail(s)[i] = s[i + 1]
OBVIOUS

\* What an action sends to a user is nothing, or one event that does not ring.
LEMMA NewsTold ==
    ASSUME NEW r, r.call \in CallIds, NEW u \in Users
    PROVE  \/ News(r)[u] = <<>>
           \/ \E type \in {"accepted", "declined", "ended", "timeout"} : News(r)[u] = <<Told(type, r.call)>>
<1> DEFINE to(us, type) == [v \in Users |-> IF v \in us THEN <<Told(type, r.call)>> ELSE <<>>]
<1>1. \A us, type : to(us, type)[u] \in {<<>>, <<Told(type, r.call)>>}
  OBVIOUS
<1>2. CASE Done(r) /\ r.act = "accept"
  <2>1. News(r) = to({call[r.call].caller}, "accepted")
    BY <1>2 DEF News, Done
  <2>2. QED
    BY <1>1, <2>1
<1>3. CASE ~(Done(r) /\ r.act = "accept") /\ Done(r) /\ r.act = "decline"
  <2>1. News(r) = to(Party(r.call), "declined")
    BY <1>3 DEF News, Done
  <2>2. QED
    BY <1>1, <2>1
<1>4. CASE Done(r) /\ r.act = "end"
  <2>1. News(r) = to(Party(r.call), "ended")
    BY <1>4 DEF News, Done
  <2>2. QED
    BY <1>1, <2>1
<1>5. CASE ~Done(r) /\ Expired(r) /\ r.act = "accept"
  <2>1. News(r) = to({call[r.call].caller}, "timeout")
    BY <1>5 DEF News, Done
  <2>2. QED
    BY <1>1, <2>1
<1>6. CASE /\ ~(Done(r) /\ r.act \in {"accept", "decline", "end"})
           /\ ~(Expired(r) /\ r.act = "accept")
  <2>1. News(r) = to({}, "ended")
    BY <1>6 DEF News
  <2>2. QED
    BY <1>1, <2>1
<1>7. QED
  BY <1>2, <1>3, <1>4, <1>5, <1>6

-----------------------------------------------------------------------------
\* No step makes another call of a call: its parties are those it was made with.
Kept ==
    \A c \in CallIds : Exists(c) => /\ call'[c] # NoRow
                                    /\ call'[c].caller = call[c].caller
                                    /\ call'[c].receiver = call[c].receiver

\* So what a step does not touch stays sound: a page,
LEMMA PageCarried ==
    ASSUME CallsTypeOK, Kept, NEW u \in Users, PageSound(u), page'[u] = page[u]
    PROVE  PageSound(u)'
<1>1. page[u].call # NoCall => page[u].call \in CallIds
  BY DEF CallsTypeOK, Page
<1>2. QED
  BY <1>1 DEF PageSound, Kept, Exists, Party

\* what is on its way to it,
LEMMA InboxCarried ==
    ASSUME CallsTypeOK, Kept, NEW u \in Users, InboxSound(u), inbox'[u] = inbox[u]
    PROVE  InboxSound(u)'
<1>1. \A i \in 1..Len(inbox[u]) : inbox[u][i].call \in CallIds
  <2>1. inbox[u] \in Seq(Event)
    BY DEF CallsTypeOK
  <2>2. \A i \in 1..Len(inbox[u]) : inbox[u][i] \in Event
    BY <2>1
  <2>3. QED
    BY <2>2 DEF Event
<1>2. QED
  BY <1>1 DEF InboxSound, RingSound, Kept, Exists

\* and the requests of the other workers when `p` goes on with `r`.
LEMMA WorkerMoves ==
    ASSUME CallsTypeOK, Kept, \A q \in Procs : RequestSound(q),
           NEW p \in Procs, NEW r \in CallRequest \cup {Idle},
           req' = [req EXCEPT ![p] = r],
           r.op \in {"call_ring", "call_answer"} =>
               call'[r.call] # NoRow /\ r.user = call'[r.call].caller,
           r.op \in {"act_read", "act_save", "act_tell"} => call'[r.call] # NoRow
    PROVE  /\ req' \in [Procs -> CallRequest \cup {Idle}]
           /\ \A q \in Procs : RequestSound(q)'
<1>1. req' \in [Procs -> CallRequest \cup {Idle}]
  BY RequestsTyped
<1>2. ASSUME NEW q \in Procs, q # p PROVE RequestSound(q)'
  <2>1. req'[q] = req[q]
    BY <1>2 DEF CallsTypeOK
  <2>2. req[q].op \in {"call_ring", "call_answer", "act_read", "act_save", "act_tell"}
            => req[q].call \in CallIds
    BY RequestTyped
  <2>3. QED
    BY <2>1, <2>2 DEF RequestSound, Kept, Exists
<1>3. RequestSound(p)'
  <2>1. req'[p] = r
    BY DEF CallsTypeOK
  <2>2. QED
    BY <2>1 DEF RequestSound, Exists
<1>4. QED
  BY <1>1, <1>2, <1>3

\* A step of a worker that leaves the calls, the pages and the events alone.
LEMMA OnlyWorker ==
    ASSUME CallsInv, UNCHANGED callVars, req' \in [Procs -> CallRequest \cup {Idle}],
           \A q \in Procs : RequestSound(q)'
    PROVE  CallsInv'
<1>1. Kept
  BY DEF Kept, Exists
<1>2. CallsTypeOK'
  BY DEF CallsInv, CallsTypeOK
<1>3. ASSUME NEW u \in Users PROVE PageSound(u)' /\ InboxSound(u)'
  BY <1>1, PageCarried, InboxCarried DEF CallsInv
<1>4. QED
  BY <1>2, <1>3 DEF CallsInv

\* A step that makes `u`'s page a sound one and touches nothing else but requests.
LEMMA OnlyPage ==
    ASSUME CallsInv, NEW u \in Users, NEW q \in Page, page' = [page EXCEPT ![u] = q],
           UNCHANGED <<call, late, drops>>,
           req' \in [Procs -> CallRequest \cup {Idle}], \A p \in Procs : RequestSound(p)',
           inbox' \in [Users -> Seq(Event)], \A v \in Users : InboxSound(v)',
           q.call # NoCall => /\ Exists(q.call) /\ u \in Party(q.call)
                              /\ q.state = "incoming" => u = call[q.call].receiver
    PROVE  CallsInv'
<1>1. Kept
  BY DEF Kept, Exists
<1>2. CallsTypeOK'
  BY DEF CallsInv, CallsTypeOK
<1>3. ASSUME NEW v \in Users PROVE PageSound(v)'
  <2>1. CASE v = u
    <3>1. page'[u] = q
      BY DEF CallsInv, CallsTypeOK
    <3>2. QED
      BY <2>1, <3>1 DEF PageSound, Exists, Party
  <2>2. CASE v # u
    <3>1. page'[v] = page[v]
      BY <2>2 DEF CallsInv, CallsTypeOK
    <3>2. QED
      BY <1>1, <3>1, PageCarried DEF CallsInv
  <2>3. QED
    BY <2>1, <2>2
<1>4. QED
  BY <1>2, <1>3 DEF CallsInv

\* Sending a user an event that is sound, or that does not ring.
LEMMA SendSound ==
    ASSUME CallsInv, Kept, NEW u \in Users, NEW x \in Event, inbox' = Send(u, x),
           x.type = "incoming" => call'[x.call] # NoRow /\ u = call'[x.call].receiver
    PROVE  inbox' \in [Users -> Seq(Event)] /\ \A v \in Users : InboxSound(v)'
<1>1. inbox[u] \in Seq(Event)
  BY DEF CallsInv, CallsTypeOK
<1>2. inbox' = [inbox EXCEPT ![u] = Append(inbox[u], x)]
  BY DEF Send
<1>3. inbox' \in [Users -> Seq(Event)]
  BY <1>1, <1>2, EventAppended DEF CallsInv, CallsTypeOK
<1>4. ASSUME NEW v \in Users, v # u PROVE InboxSound(v)'
  <2>1. inbox'[v] = inbox[v]
    BY <1>2, <1>4 DEF CallsInv, CallsTypeOK
  <2>2. QED
    BY <2>1, InboxCarried DEF CallsInv
<1>5. InboxSound(u)'
  <2>1. inbox'[u] = Append(inbox[u], x)
    BY <1>2 DEF CallsInv, CallsTypeOK
  <2>2. ASSUME NEW i \in 1..Len(inbox'[u]) PROVE RingSound(u, inbox[u][i])'
    <3>1. CASE i \in 1..Len(inbox[u])
      <4>1. inbox'[u][i] = inbox[u][i] /\ inbox[u][i] \in Event
        BY <1>1, <2>1, <3>1, EventAppended
      <4>2. RingSound(u, inbox[u][i])
        BY <3>1 DEF CallsInv, InboxSound
      <4>3. QED
        BY <4>1, <4>2 DEF RingSound, Kept, Exists, Event
    <3>2. CASE i \notin 1..Len(inbox[u])
      <4>1. i = Len(inbox[u]) + 1
        BY <1>1, <2>1, <2>2, <3>2, EventAppended
      <4>2. inbox'[u][i] = x
        BY <1>1, <2>1, <4>1, EventAppended
      <4>3. QED
        BY <4>2 DEF RingSound, Exists
    <3>3. QED
      BY <3>1, <3>2
  <2>3. QED
    BY <2>2 DEF InboxSound
<1>6. QED
  BY <1>3, <1>4, <1>5

\* endCall leaves a page without a call, and posts an end of the one it had.
LEMMA EndCallSound ==
    ASSUME CallsInv, NEW p \in Procs, NEW u \in Users, EndCall(p, u),
           UNCHANGED <<call, late, drops>>,
           inbox' \in [Users -> Seq(Event)], \A v \in Users : InboxSound(v)'
    PROVE  CallsInv'
<1>1. Kept
  BY DEF Kept, Exists
<1>2. IdlePage \in Page /\ IdlePage.call = NoCall
  BY DEF IdlePage, Page
<1>3. page' = [page EXCEPT ![u] = IdlePage]
  BY DEF EndCall
<1>4. CASE UNCHANGED workerVars
  <2>1. req' \in [Procs -> CallRequest \cup {Idle}] /\ \A q \in Procs : req'[q] = req[q]
    BY <1>4 DEF CallsInv, CallsTypeOK
  <2>2. \A q \in Procs : RequestSound(q)'
    BY <1>4 DEF CallsInv, RequestSound, Exists
  <2>3. QED
    BY <1>2, <1>3, <2>1, <2>2, OnlyPage
<1>5. CASE page[u].call # NoCall /\ Begin(p, Act("end", u, page[u].call))
  <2> DEFINE r == Act("end", u, page[u].call)
  <2>1. page[u].call \in CallIds /\ Exists(page[u].call)
    BY <1>5 DEF CallsInv, CallsTypeOK, Page, PageSound
  <2>2. r \in CallRequest /\ r.op = "act_read" /\ r.call = page[u].call
    BY <2>1, ActTyped DEF Act
  <2>3. req' = [req EXCEPT ![p] = r]
    BY <1>5 DEF Begin
  <2>4. call'[r.call] # NoRow
    BY <2>1, <2>2 DEF Exists
  <2> HIDE DEF r
  <2>5. req' \in [Procs -> CallRequest \cup {Idle}] /\ \A q \in Procs : RequestSound(q)'
    BY <1>1, <2>2, <2>3, <2>4, WorkerMoves DEF CallsInv
  <2>6. QED
    BY <1>2, <1>3, <2>5, OnlyPage
<1>6. QED
  BY <1>4, <1>5 DEF EndCall

\* A page that shows other buttons, has called, or talks.
LEMMA PageEdited ==
    ASSUME CallsTypeOK, NEW u \in Users
    PROVE  /\ page[u] \in Page
           /\ [page[u] EXCEPT !.mode = "outgoing"] \in Page
           /\ \A c \in CallIds : [page[u] EXCEPT !.state = "outgoing", !.call = c] \in Page
           /\ [page[u] EXCEPT !.state = "active", !.mode = "active"] \in Page
<1>1. page[u] \in Page
  BY DEF CallsTypeOK
<1>2. QED
  BY <1>1 DEF Page

\* Nothing was on its way, nothing is: the events of a step that sends none.
LEMMA InboxesCarried ==
    ASSUME CallsInv, Kept, UNCHANGED inbox
    PROVE  inbox' \in [Users -> Seq(Event)] /\ \A v \in Users : InboxSound(v)'
BY InboxCarried DEF CallsInv, CallsTypeOK

-----------------------------------------------------------------------------
\* CallsInitiateAPIView keeps the invariant.
LEMMA InitiateSound ==
    ASSUME CallsInv, NEW p \in Procs,
           \/ \E u, v \in Users : ClickCall(p, u, v)
           \/ CallRefused(p) \/ CallCheck(p) \/ CallCreate(p) \/ CallRing(p) \/ CallAnswer(p)
    PROVE  CallsInv'
<1>0. CallsTypeOK /\ \A q \in Procs : RequestSound(q)
  BY DEF CallsInv
<1>9. UNCHANGED call => Kept
  BY DEF Kept, Exists
<1>1. ASSUME NEW u \in Users, NEW v \in Users, ClickCall(p, u, v) PROVE CallsInv'
  <2> DEFINE r == [op |-> "call_check", user |-> u, peer |-> v]
             q == [page[u] EXCEPT !.mode = "outgoing"]
  <2>1. Kept
    BY <1>1, <1>9 DEF ClickCall
  <2>2. r \in CallRequest
    BY DEF CallRequest
  <2>3. req' = [req EXCEPT ![p] = r]
    BY <1>1 DEF ClickCall, Begin
  <2>4. req' \in [Procs -> CallRequest \cup {Idle}] /\ \A o \in Procs : RequestSound(o)'
    BY <1>0, <2>1, <2>2, <2>3, WorkerMoves
  <2>5. q \in Page /\ q.call = page[u].call /\ q.state = page[u].state
    BY <1>0 DEF CallsTypeOK, Page
  <2>6. page' = [page EXCEPT ![u] = q]
    BY <1>1 DEF ClickCall
  <2>7. UNCHANGED <<call, late, drops, inbox>>
    BY <1>1 DEF ClickCall
  <2>8. PageSound(u)
    BY DEF CallsInv
  <2> HIDE DEF q, r
  <2>9. QED
    BY <2>1, <2>4, <2>5, <2>6, <2>7, <2>8, InboxesCarried, OnlyPage DEF PageSound
<1>2. ASSUME CallRefused(p) PROVE CallsInv'
  <2> DEFINE u == req[p].user
             q == [page[u] EXCEPT !.mode = "outgoing"]
  <2>1. Kept
    BY <1>2, <1>9 DEF CallRefused
  <2>2. u \in Users
    BY <1>0, <1>2, RequestTyped DEF CallRefused, At
  <2>3. req' = [req EXCEPT ![p] = Idle] /\ Idle.op = "idle"
    BY <1>2 DEF CallRefused, End, Continue, Idle
  <2>4. req' \in [Procs -> CallRequest \cup {Idle}] /\ \A o \in Procs : RequestSound(o)'
    BY <1>0, <2>1, <2>3, WorkerMoves
  <2>5. q \in Page /\ q.call = page[u].call /\ q.state = page[u].state
    <3>1. page[u] \in Page /\ q \in Page
      BY <1>0, <2>2, PageEdited
    <3> HIDE DEF u
    <3>2. QED
      BY <3>1 DEF Page
  <2>6. page' = [page EXCEPT ![u] = q]
    BY <1>2 DEF CallRefused
  <2>7. UNCHANGED <<call, late, drops, inbox>>
    BY <1>2 DEF CallRefused
  <2>8. PageSound(u)
    BY <2>2 DEF CallsInv
  <2> HIDE DEF q, u
  <2>9. QED
    BY <2>1, <2>2, <2>4, <2>5, <2>6, <2>7, <2>8, InboxesCarried, OnlyPage DEF PageSound
<1>3. ASSUME CallCheck(p) PROVE CallsInv'
  <2> DEFINE r == [req[p] EXCEPT !.op = "call_create"]
  <2>1. Kept
    BY <1>3, <1>9 DEF CallCheck
  <2>2. r \in CallRequest /\ r.op = "call_create"
    BY <1>0, <1>3, RequestTyped DEF CallCheck, At, CallRequest
  <2>3. req' = [req EXCEPT ![p] = r]
    BY <1>3 DEF CallCheck, Goto, Continue
  <2> HIDE DEF r
  <2>4. req' \in [Procs -> CallRequest \cup {Idle}] /\ \A o \in Procs : RequestSound(o)'
    BY <1>0, <2>1, <2>2, <2>3, WorkerMoves
  <2>5. QED
    BY <1>3, <2>4, OnlyWorker DEF CallCheck
<1>4. ASSUME CallCreate(p) PROVE CallsInv'
  <2>1. PICK c \in CallIds :
           /\ call[c] = NoRow
           /\ call' = [call EXCEPT ![c] = [caller |-> req[p].user, receiver |-> req[p].peer,
                                           status |-> "ringing"]]
           /\ req' = [req EXCEPT ![p] = [op |-> "call_ring", user |-> req[p].user, call |-> c]]
    BY <1>4 DEF CallCreate, Continue
  <2> DEFINE row == [caller |-> req[p].user, receiver |-> req[p].peer, status |-> "ringing"]
             r == [op |-> "call_ring", user |-> req[p].user, call |-> c]
  <2>2. req[p].user \in Users /\ req[p].peer \in Users
    BY <1>0, <1>4, RequestTyped DEF CallCreate, At
  <2>3. row \in CallRow /\ row # NoRow
    BY <2>2 DEF CallRow, LiveCall, NoRow
  <2>4. r \in CallRequest /\ r.op = "call_ring" /\ r.call = c /\ r.user = row.caller
    BY <2>2 DEF CallRequest
  <2>5. call' = [call EXCEPT ![c] = row] /\ req' = [req EXCEPT ![p] = r]
    BY <2>1
  <2> HIDE DEF row, r
  <2>6. call'[c] = row /\ call' \in [CallIds -> CallRow]
    BY <1>0, <2>3, <2>5 DEF CallsTypeOK
  <2>7. Kept
    BY <1>0, <2>1, <2>5 DEF Kept, Exists, CallsTypeOK
  <2>8. req' \in [Procs -> CallRequest \cup {Idle}] /\ \A o \in Procs : RequestSound(o)'
    BY <1>0, <2>3, <2>4, <2>5, <2>6, <2>7, WorkerMoves
  <2>9. CallsTypeOK'
    BY <1>0, <1>4, <2>6, <2>8 DEF CallsTypeOK, CallCreate
  <2>10. ASSUME NEW u \in Users PROVE PageSound(u)' /\ InboxSound(u)'
    BY <1>0, <1>4, <2>7, PageCarried, InboxCarried DEF CallsInv, CallCreate
  <2>11. QED
    BY <2>8, <2>9, <2>10 DEF CallsInv
<1>5. ASSUME CallRing(p) PROVE CallsInv'
  <2> DEFINE r == [req[p] EXCEPT !.op = "call_answer"]
             c == req[p].call
             x == Told("incoming", c)
  <2>1. Kept
    BY <1>5, <1>9 DEF CallRing
  <2>2. /\ r \in CallRequest /\ r.op = "call_answer" /\ r.user = req[p].user /\ r.call = c
        /\ c \in CallIds
    BY <1>0, <1>5, RequestTyped DEF CallRing, At, CallRequest
  <2>3. req' = [req EXCEPT ![p] = r]
    BY <1>5 DEF CallRing, Goto, Continue
  <2>4. call[c] # NoRow /\ req[p].user = call[c].caller
    BY <1>0, <1>5 DEF CallRing, At, RequestSound, Exists
  <2>5. call[c].receiver \in Users
    BY <1>0, <2>2, <2>4, RowTyped DEF Exists
  <2>6. x \in Event /\ x.call = c
    BY <2>2 DEF Told, Event
  <2>7. inbox' = Send(call[c].receiver, x) /\ UNCHANGED <<call, late, page, drops>>
    BY <1>5 DEF CallRing
  <2> HIDE DEF r, c, x
  <2>8. req' \in [Procs -> CallRequest \cup {Idle}] /\ \A o \in Procs : RequestSound(o)'
    BY <1>0, <2>1, <2>2, <2>3, <2>4, <2>7, WorkerMoves
  <2>9. inbox' \in [Users -> Seq(Event)] /\ \A v \in Users : InboxSound(v)'
    BY <2>1, <2>4, <2>5, <2>6, <2>7, SendSound
  <2>10. CallsTypeOK'
    BY <1>0, <2>7, <2>8, <2>9 DEF CallsTypeOK
  <2>11. ASSUME NEW v \in Users PROVE PageSound(v)'
    BY <1>0, <2>1, <2>7, PageCarried DEF CallsInv
  <2>12. QED
    BY <2>8, <2>9, <2>10, <2>11 DEF CallsInv
<1>6. ASSUME CallAnswer(p) PROVE CallsInv'
  <2> DEFINE u == req[p].user
             c == req[p].call
             q == [page[u] EXCEPT !.state = "outgoing", !.call = c]
  <2>1. Kept
    BY <1>6, <1>9 DEF CallAnswer
  <2>2. u \in Users /\ c \in CallIds
    BY <1>0, <1>6, RequestTyped DEF CallAnswer, At
  <2>3. req' = [req EXCEPT ![p] = Idle] /\ Idle.op = "idle"
    BY <1>6 DEF CallAnswer, End, Continue, Idle
  <2>4. req' \in [Procs -> CallRequest \cup {Idle}] /\ \A o \in Procs : RequestSound(o)'
    BY <1>0, <2>1, <2>3, WorkerMoves
  <2>5. Exists(c) /\ u = call[c].caller
    BY <1>0, <1>6 DEF CallAnswer, At, RequestSound
  <2>6. q \in Page /\ q.call = c /\ q.state = "outgoing"
    <3>1. page[u] \in Page /\ q \in Page
      BY <1>0, <2>2, PageEdited
    <3> HIDE DEF u, c
    <3>2. QED
      BY <3>1 DEF Page
  <2>7. page' = [page EXCEPT ![u] = q] /\ UNCHANGED <<call, late, drops, inbox>>
    BY <1>6 DEF CallAnswer
  <2> HIDE DEF q, u, c
  <2>8. QED
    BY <2>1, <2>2, <2>4, <2>5, <2>6, <2>7, InboxesCarried, OnlyPage DEF Party
<1>7. QED
  BY <1>1, <1>2, <1>3, <1>4, <1>5, <1>6

-----------------------------------------------------------------------------
\* Telling the users of an action rings nobody's page.
LEMMA Joined ==
    ASSUME NEW s \in Seq(Event), NEW x \in Event
    PROVE  /\ s \o <<>> = s
           /\ s \o <<x>> \in Seq(Event)
           /\ Len(s \o <<x>>) = Len(s) + 1
           /\ \A i \in 1..Len(s) : (s \o <<x>>)[i] = s[i]
           /\ (s \o <<x>>)[Len(s) + 1] = x
OBVIOUS

LEMMA TellSound ==
    ASSUME CallsInv, Kept, NEW r, r.call \in CallIds,
           inbox' = [v \in Users |-> inbox[v] \o News(r)[v]]
    PROVE  inbox' \in [Users -> Seq(Event)] /\ \A v \in Users : InboxSound(v)'
<1>1. ASSUME NEW v \in Users PROVE inbox'[v] \in Seq(Event) /\ InboxSound(v)'
  <2> DEFINE s == inbox[v]
  <2>1. s \in Seq(Event) /\ InboxSound(v)
    BY DEF CallsInv, CallsTypeOK
  <2>2. inbox'[v] = s \o News(r)[v]
    OBVIOUS
  <2>3. CASE News(r)[v] = <<>>
    <3>1. s \o <<>> = s
      BY <2>1
    <3>2. inbox'[v] = inbox[v]
      BY <2>2, <2>3, <3>1
    <3>3. QED
      BY <2>1, <3>2, InboxCarried DEF CallsInv
  <2>4. CASE \E type \in {"accepted", "declined", "ended", "timeout"} : News(r)[v] = <<Told(type, r.call)>>
    <3>1. PICK type \in {"accepted", "declined", "ended", "timeout"} : News(r)[v] = <<Told(type, r.call)>>
      BY <2>4
    <3> DEFINE x == Told(type, r.call)
    <3>2. x \in Event /\ x.type # "incoming"
      BY DEF Told, Event
    <3> HIDE DEF x
    <3>3. inbox'[v] = s \o <<x>>
      BY <2>2, <3>1 DEF x
    <3>4. inbox'[v] \in Seq(Event)
      BY <2>1, <3>2, <3>3, Joined
    <3>5. ASSUME NEW i \in 1..Len(inbox'[v]), inbox'[v][i].type = "incoming"
          PROVE  call'[inbox'[v][i].call] # NoRow /\ v = call'[inbox'[v][i].call].receiver
      <4>1. i \in 1..Len(s) /\ inbox'[v][i] = s[i]
        <5>1. i \in 1..Len(s) + 1 /\ Len(s) \in Nat
          <6> HIDE DEF s
          <6>1. Len(s) \in Nat
            BY <2>1
          <6>2. Len(s \o <<x>>) = Len(s) + 1
            BY <2>1, <3>2, Joined
          <6>3. Len(inbox'[v]) = Len(s \o <<x>>)
            BY <3>3, Zenon
          <6>4. QED
            BY <3>5, <6>1, <6>2, <6>3
        <5>2. i # Len(s) + 1
          BY <2>1, <3>2, <3>3, <3>5, Joined, ZenonT(40)
        <5>3. i \in 1..Len(s)
          BY <5>1, <5>2
        <5>4. QED
          BY <2>1, <3>2, <3>3, <5>3, Joined
      <4>2. s[i] \in Event /\ RingSound(v, s[i])
        BY <2>1, <4>1 DEF InboxSound
      <4>3. QED
        BY <3>5, <4>1, <4>2 DEF RingSound, Kept, Exists, Event
    <3>6. QED
      BY <3>4, <3>5 DEF InboxSound, RingSound, Exists
  <2>5. QED
    BY <2>3, <2>4, NewsTold
<1>2. QED
  BY <1>1

\* CallsActionAPIView keeps it.
LEMMA ActionSound ==
    ASSUME CallsInv, NEW p \in Procs, ActRead(p) \/ ActSave(p) \/ ActTell(p)
    PROVE  CallsInv'
<1> DEFINE c == req[p].call
           u == req[p].user
<1>0. CallsTypeOK /\ \A q \in Procs : RequestSound(q)
  BY DEF CallsInv
<1>1. /\ req[p] \in [op : {"act_read", "act_save", "act_tell"}, act : {"accept", "decline", "end"},
                     user : Users, call : CallIds, seen : LiveCall \cup FinalCall, late : BOOLEAN]
      /\ call[c] # NoRow /\ c \in CallIds /\ u \in Users
  <2>1. req[p].op \in {"act_read", "act_save", "act_tell"}
    BY DEF ActRead, ActSave, ActTell, At
  <2>2. QED
    BY <1>0, <2>1, RequestTyped DEF RequestSound, Exists
<1>2. call[c] \in [caller : Users, receiver : Users, status : LiveCall \cup FinalCall]
  BY <1>0, <1>1, RowTyped DEF Exists
<1>3. UNCHANGED call => Kept
  BY DEF Kept, Exists
<1>4. ASSUME ActRead(p) PROVE CallsInv'
  <2> DEFINE r == [req[p] EXCEPT !.op = "act_save", !.seen = call[c].status, !.late = (c \in late)]
  <2>1. call[c].status \in LiveCall \cup FinalCall /\ (c \in late) \in BOOLEAN
    BY <1>2
  <2>2. r \in CallRequest /\ r.op = "act_save" /\ r.call = c
    BY <1>1, <2>1 DEF CallRequest
  <2>3. req' = [req EXCEPT ![p] = r]
    BY <1>4 DEF ActRead, Continue
  <2>4. UNCHANGED callVars
    BY <1>4 DEF ActRead
  <2> HIDE DEF r, c
  <2>5. req' \in [Procs -> CallRequest \cup {Idle}] /\ \A o \in Procs : RequestSound(o)'
    BY <1>0, <1>1, <1>3, <2>2, <2>3, <2>4, WorkerMoves
  <2>6. QED
    BY <2>4, <2>5, OnlyWorker
<1>5. ASSUME ActSave(p) PROVE CallsInv'
  <2> DEFINE r == [req[p] EXCEPT !.op = "act_tell"]
             status == Saved(req[p])
             row == [call[c] EXCEPT !.status = status]
  <2>1. r \in CallRequest /\ r.op = "act_tell" /\ r.call = c
    BY <1>1 DEF CallRequest
  <2>2. req' = [req EXCEPT ![p] = r]
    BY <1>5 DEF ActSave, Goto, Continue
  <2>3. status \in LiveCall \cup FinalCall
    <3>1. call[c].status \in LiveCall \cup FinalCall
      BY <1>2
    <3>2. status \in {"missed", "active", "declined", "completed", call[c].status}
      BY DEF Saved
    <3>3. QED
      BY <3>1, <3>2 DEF LiveCall, FinalCall
  <2>4. call' = [call EXCEPT ![c] = row] /\ UNCHANGED <<late, page, inbox, drops>>
    BY <1>5 DEF ActSave
  <2> HIDE DEF status
  <2>5. /\ row \in CallRow /\ row # NoRow
        /\ row.caller = call[c].caller /\ row.receiver = call[c].receiver
    <3>1. /\ row \in [caller : Users, receiver : Users, status : LiveCall \cup FinalCall]
          /\ row.status = status
          /\ row.caller = call[c].caller /\ row.receiver = call[c].receiver
      BY <1>2, <2>3
    <3> HIDE DEF row
    <3>2. QED
      BY <2>3, <3>1 DEF CallRow, NoRow, LiveCall, FinalCall
  <2> HIDE DEF r, c, row
  <2>6. call'[c] = row /\ call' \in [CallIds -> CallRow]
    BY <1>0, <1>1, <2>4, <2>5 DEF CallsTypeOK
  <2>7. Kept
    BY <1>0, <2>4, <2>5 DEF Kept, Exists, CallsTypeOK
  <2>8. req' \in [Procs -> CallRequest \cup {Idle}] /\ \A o \in Procs : RequestSound(o)'
    BY <1>0, <2>1, <2>2, <2>5, <2>6, <2>7, WorkerMoves
  <2>9. CallsTypeOK'
    BY <1>0, <2>4, <2>6, <2>8 DEF CallsTypeOK
  <2>10. ASSUME NEW v \in Users PROVE PageSound(v)' /\ InboxSound(v)'
    BY <1>0, <2>4, <2>7, PageCarried, InboxCarried DEF CallsInv
  <2>11. QED
    BY <2>8, <2>9, <2>10 DEF CallsInv
<1>6. ASSUME ActTell(p) PROVE CallsInv'
  <2>1. inbox' = [v \in Users |-> inbox[v] \o News(req[p])[v]] /\ UNCHANGED <<call, late, drops>>
    BY <1>6 DEF ActTell
  <2>2. Kept
    BY <1>3, <2>1
  <2>3. inbox' \in [Users -> Seq(Event)] /\ \A v \in Users : InboxSound(v)'
    BY <1>1, <2>1, <2>2, TellSound
  <2>4. page[u] \in Page /\ PageSound(u) /\ IdlePage \in Page /\ IdlePage.call = NoCall
    BY <1>0, <1>1, PageEdited DEF CallsInv, IdlePage, Page
  <2>5. Idle \in CallRequest \cup {Idle} /\ Idle.op = "idle"
    BY DEF Idle
  <2>6. CASE /\ req[p].act = "accept"
             /\ page' = [page EXCEPT ![u].state = IF Done(req[p]) THEN "active" ELSE @,
                                     ![u].mode = IF Done(req[p]) THEN "active" ELSE @]
             /\ End(p)
    <3>1. req' \in [Procs -> CallRequest \cup {Idle}] /\ \A o \in Procs : RequestSound(o)'
      BY <1>0, <2>2, <2>5, <2>6, WorkerMoves DEF End, Continue
    <3> DEFINE q == [page[u] EXCEPT !.state = "active", !.mode = "active"]
    <3>2. CASE Done(req[p])
      <4>1. page' = [page EXCEPT ![u] = q]
        BY <2>6, <3>2
      <4>2. q \in Page /\ q.call = page[u].call /\ q.state = "active"
        <5>1. q \in Page
          BY <1>0, <1>1, PageEdited
        <5> HIDE DEF u
        <5>2. QED
          BY <2>4, <5>1 DEF Page
      <4> HIDE DEF q, u
      <4>3. QED
        BY <1>1, <2>1, <2>3, <2>4, <3>1, <4>1, <4>2, OnlyPage DEF PageSound
    <3>3. CASE ~Done(req[p])
      <4>1. page' = [page EXCEPT ![u] = page[u]]
        <5>1. page' = [page EXCEPT ![u] = [page[u] EXCEPT !.state = page[u].state, !.mode = page[u].mode]]
          BY <2>6, <3>3
        <5>2. [page[u] EXCEPT !.state = page[u].state, !.mode = page[u].mode] = page[u]
          BY <2>4 DEF Page
        <5>3. QED
          BY <5>1, <5>2
      <4> HIDE DEF u
      <4>2. QED
        BY <1>1, <2>1, <2>3, <2>4, <3>1, <4>1, OnlyPage DEF PageSound
    <3>4. QED
      BY <3>2, <3>3
  <2>7. CASE /\ req[p].act = "decline"
             /\ page' = [page EXCEPT ![u] = IdlePage]
             /\ Continue(p, IF page[u].call = NoCall THEN Idle ELSE Act("end", u, page[u].call))
    <3> DEFINE r == IF page[u].call = NoCall THEN Idle ELSE Act("end", u, page[u].call)
    <3>1. /\ r \in CallRequest \cup {Idle}
          /\ r.op \in {"idle", "act_read"}
          /\ r.op = "act_read" => call[r.call] # NoRow
      <4>1. CASE page[u].call = NoCall
        BY <2>5, <4>1
      <4>2. CASE page[u].call # NoCall
        <5>1. page[u].call \in CallIds /\ call[page[u].call] # NoRow
          BY <2>4, <4>2 DEF Page, PageSound, Exists
        <5>2. /\ Act("end", u, page[u].call) \in CallRequest
              /\ Act("end", u, page[u].call).op = "act_read"
              /\ Act("end", u, page[u].call).call = page[u].call
          BY <1>1, <5>1, ActTyped DEF Act
        <5>3. QED
          BY <4>2, <5>1, <5>2
      <4>3. QED
        BY <4>1, <4>2
    <3>2. req' = [req EXCEPT ![p] = r]
      BY <2>7 DEF Continue
    <3> HIDE DEF r
    <3>3. req' \in [Procs -> CallRequest \cup {Idle}] /\ \A o \in Procs : RequestSound(o)'
      BY <1>0, <2>1, <2>2, <3>1, <3>2, WorkerMoves
    <3> HIDE DEF u
    <3>4. QED
      BY <1>1, <2>1, <2>3, <2>4, <2>7, <3>3, OnlyPage
  <2>8. CASE End(p) /\ UNCHANGED page
    <3>1. req' \in [Procs -> CallRequest \cup {Idle}] /\ \A o \in Procs : RequestSound(o)'
      BY <1>0, <2>2, <2>5, <2>8, WorkerMoves DEF End, Continue
    <3>2. page' = [page EXCEPT ![u] = page[u]]
      BY <1>0, <2>8 DEF CallsTypeOK
    <3> HIDE DEF u
    <3>3. QED
      BY <1>1, <2>1, <2>3, <2>4, <3>1, <3>2, OnlyPage DEF PageSound
  <2>9. QED
    BY <1>6, <2>6, <2>7, <2>8 DEF ActTell
<1>7. QED
  BY <1>4, <1>5, <1>6

\* The page and its socket keep it.
LEMMA PageStepSound ==
    ASSUME CallsInv, NEW u \in Users,
           \/ Reconnect(u)
           \/ \E p \in Procs : Answer(p, u, "accept") \/ Answer(p, u, "decline") \/ HangUp(p, u) \/ Deliver(p, u)
    PROVE  CallsInv'
<1>0. CallsTypeOK /\ \A q \in Procs : RequestSound(q)
  BY DEF CallsInv
<1>1. UNCHANGED call => Kept
  BY DEF Kept, Exists
<1>2. page[u] \in Page /\ PageSound(u) /\ inbox[u] \in Seq(Event) /\ InboxSound(u)
  BY DEF CallsInv, CallsTypeOK
<1>3. ASSUME UNCHANGED workerVars
      PROVE  req' \in [Procs -> CallRequest \cup {Idle}] /\ \A o \in Procs : UNCHANGED call => RequestSound(o)'
  BY <1>0, <1>3 DEF CallsTypeOK, RequestSound, Exists
<1>4. ASSUME Reconnect(u) PROVE CallsInv'
  <2>1. inbox' = [inbox EXCEPT ![u] = <<>>] /\ UNCHANGED <<call, late, page, workerVars>>
    BY <1>4 DEF Reconnect
  <2>2. inbox' \in [Users -> Seq(Event)]
    BY <1>0, <2>1 DEF CallsTypeOK
  <2>3. drops' \in 0..MaxDrops
    BY <1>0, <1>4, NoCallAssumption DEF Reconnect, CallsTypeOK
  <2>4. ASSUME NEW v \in Users PROVE PageSound(v)' /\ InboxSound(v)'
    <3>1. PageSound(v)'
      BY <1>0, <1>1, <2>1, PageCarried DEF CallsInv
    <3>2. CASE v = u
      <4>1. inbox'[v] = <<>>
        BY <1>0, <2>1, <3>2 DEF CallsTypeOK
      <4>2. QED
        BY <3>1, <4>1 DEF InboxSound
    <3>3. CASE v # u
      <4>1. inbox'[v] = inbox[v]
        BY <1>0, <2>1, <3>3 DEF CallsTypeOK
      <4>2. QED
        BY <1>0, <1>1, <2>1, <3>1, <4>1, InboxCarried DEF CallsInv
    <3>4. QED
      BY <3>2, <3>3
  <2>5. CallsTypeOK'
    BY <1>0, <2>1, <2>2, <2>3 DEF CallsTypeOK
  <2>6. \A o \in Procs : RequestSound(o)'
    BY <1>3, <2>1
  <2>7. QED
    BY <2>4, <2>5, <2>6 DEF CallsInv
<1>5. ASSUME NEW p \in Procs, NEW act \in {"accept", "decline", "end"}, Answer(p, u, act) PROVE CallsInv'
  <2> DEFINE r == Act(act, u, page[u].call)
  <2>1. page[u].call \in CallIds /\ call[page[u].call] # NoRow
    BY <1>2, <1>5 DEF Answer, Page, PageSound, Exists
  <2>2. r \in CallRequest /\ r.op = "act_read" /\ r.call = page[u].call
    BY <2>1, ActTyped DEF Act
  <2>3. req' = [req EXCEPT ![p] = r] /\ UNCHANGED callVars
    BY <1>5 DEF Answer, Begin
  <2> HIDE DEF r
  <2>4. req' \in [Procs -> CallRequest \cup {Idle}] /\ \A o \in Procs : RequestSound(o)'
    BY <1>0, <1>1, <2>1, <2>2, <2>3, WorkerMoves
  <2>5. QED
    BY <2>3, <2>4, OnlyWorker
<1>6. ASSUME NEW p \in Procs, HangUp(p, u) PROVE CallsInv'
  BY <1>1, <1>6, InboxesCarried, EndCallSound DEF HangUp
<1>7. ASSUME NEW p \in Procs, Deliver(p, u) PROVE CallsInv'
  <2> DEFINE event == Head(inbox[u])
  <2>1. /\ inbox[u] # <<>>
        /\ inbox' = [inbox EXCEPT ![u] = Tail(inbox[u])]
        /\ UNCHANGED <<call, late, drops>>
    BY <1>7 DEF Deliver
  <2>2. event \in Event /\ RingSound(u, event)
    <3>1. event = inbox[u][1] /\ event \in Event /\ 1 \in 1..Len(inbox[u])
      BY <1>2, <2>1, RowTaken
    <3> HIDE DEF event
    <3>2. QED
      BY <1>2, <3>1 DEF InboxSound
  <2>3. inbox' \in [Users -> Seq(Event)] /\ \A v \in Users : InboxSound(v)'
    <3>1. Tail(inbox[u]) \in Seq(Event)
      BY <1>2, <2>1, RowTaken
    <3>2. inbox' \in [Users -> Seq(Event)]
      BY <1>0, <2>1, <3>1 DEF CallsTypeOK
    <3>3. ASSUME NEW v \in Users PROVE InboxSound(v)'
      <4>1. CASE v = u
        <5>1. inbox'[u] = Tail(inbox[u])
          BY <1>0, <2>1 DEF CallsTypeOK
        <5>2. \A i \in 1..Len(inbox'[u]) : i + 1 \in 1..Len(inbox[u]) /\ inbox'[u][i] = inbox[u][i + 1]
          BY <1>2, <2>1, <5>1, RowTaken
        <5>3. \A i \in 1..Len(inbox'[u]) : RingSound(u, inbox[u][i + 1])
          BY <1>2, <5>2 DEF InboxSound
        <5>4. ASSUME NEW i \in 1..Len(inbox'[u]), inbox'[u][i].type = "incoming"
              PROVE  call'[inbox'[u][i].call] # NoRow /\ u = call'[inbox'[u][i].call].receiver
          BY <2>1, <5>2, <5>3, <5>4 DEF RingSound, Exists
        <5>5. QED
          BY <4>1, <5>4 DEF InboxSound, RingSound, Exists
      <4>2. CASE v # u
        <5>1. inbox'[v] = inbox[v]
          BY <1>0, <2>1, <4>2 DEF CallsTypeOK
        <5>2. QED
          BY <1>0, <1>1, <2>1, <5>1, InboxCarried DEF CallsInv
      <4>3. QED
        BY <4>1, <4>2
    <3>4. QED
      BY <3>2, <3>3
  <2>4. page' = page => page' = [page EXCEPT ![u] = page[u]]
    BY <1>0 DEF CallsTypeOK
  <2>5. CASE /\ event.type = "incoming"
             /\ page' = IF page[u].state # "idle" THEN page
                        ELSE [page EXCEPT ![u] = [state |-> "incoming", mode |-> "incoming",
                                                  call |-> event.call]]
             /\ UNCHANGED workerVars
    <3> DEFINE q == [state |-> "incoming", mode |-> "incoming", call |-> event.call]
    <3>1. req' \in [Procs -> CallRequest \cup {Idle}] /\ \A o \in Procs : RequestSound(o)'
      BY <1>3, <2>1, <2>5
    <3>2. event.call \in CallIds /\ Exists(event.call) /\ u = call[event.call].receiver
      BY <2>2, <2>5 DEF RingSound, Event
    <3>3. q \in Page /\ q.call = event.call
      BY <3>2 DEF Page
    <3>4. CASE page[u].state = "idle"
      <4>1. page' = [page EXCEPT ![u] = q]
        BY <2>5, <3>4
      <4> HIDE DEF event, q
      <4>2. QED
        BY <2>1, <2>3, <3>1, <3>2, <3>3, <4>1, OnlyPage DEF Party
    <3>5. CASE page[u].state # "idle"
      BY <1>2, <2>1, <2>3, <2>4, <2>5, <3>1, <3>5, OnlyPage DEF PageSound
    <3>6. QED
      BY <3>4, <3>5
  <2>6. CASE /\ event.type = "accepted"
             /\ page' = IF page[u].state # "outgoing" THEN page
                        ELSE [page EXCEPT ![u].state = "active", ![u].mode = "active"]
             /\ UNCHANGED workerVars
    <3> DEFINE q == [page[u] EXCEPT !.state = "active", !.mode = "active"]
    <3>1. req' \in [Procs -> CallRequest \cup {Idle}] /\ \A o \in Procs : RequestSound(o)'
      BY <1>3, <2>1, <2>6
    <3>2. q \in Page /\ q.call = page[u].call /\ q.state = "active"
      <4>1. q \in Page
        BY <1>0, PageEdited
      <4>2. QED
        BY <1>2, <4>1 DEF Page
    <3>3. CASE page[u].state = "outgoing"
      <4>1. page' = [page EXCEPT ![u] = q]
        BY <2>6, <3>3
      <4> HIDE DEF q
      <4>2. QED
        BY <1>2, <2>1, <2>3, <3>1, <3>2, <4>1, OnlyPage DEF PageSound
    <3>4. CASE page[u].state # "outgoing"
      BY <1>2, <2>1, <2>3, <2>4, <2>6, <3>1, <3>4, OnlyPage DEF PageSound
    <3>5. QED
      BY <3>3, <3>4
  <2>7. CASE EndCall(p, u)
    BY <2>1, <2>3, <2>7, EndCallSound
  <2>8. QED
    BY <1>7, <2>5, <2>6, <2>7 DEF Deliver
<1>8. QED
  BY <1>4, <1>5, <1>6, <1>7

-----------------------------------------------------------------------------
LEMMA CallsInvInit ==
    ASSUME WorkersInit, CallsInit
    PROVE  CallsInv
<1>1. CallsTypeOK
  <2>1. NoRow \in CallRow /\ IdlePage \in Page /\ IdlePage.call = NoCall
    BY DEF CallRow, IdlePage, Page
  <2>2. drops \in 0..MaxDrops
    BY NoCallAssumption DEF CallsInit
  <2>3. QED
    BY <2>1, <2>2 DEF WorkersInit, CallsInit, CallsTypeOK
<1>2. ASSUME NEW u \in Users PROVE PageSound(u) /\ InboxSound(u)
  BY DEF CallsInit, PageSound, InboxSound, IdlePage
<1>3. ASSUME NEW p \in Procs PROVE RequestSound(p)
  BY DEF WorkersInit, RequestSound, Idle
<1>4. QED
  BY <1>1, <1>2, <1>3 DEF CallsInv

LEMMA CallsInvStep ==
    CallsInv /\ [CallsNext]_<<workerVars, callVars>> => CallsInv'
<1> SUFFICES ASSUME CallsInv, [CallsNext]_<<workerVars, callVars>> PROVE CallsInv'
  OBVIOUS
<1>1. ASSUME NEW c \in CallIds, RingTimesOut(c) PROVE CallsInv'
  <2>1. Kept
    BY <1>1 DEF RingTimesOut, Kept, Exists
  <2>2. CallsTypeOK'
    BY <1>1 DEF CallsInv, CallsTypeOK, RingTimesOut
  <2>3. ASSUME NEW u \in Users PROVE PageSound(u)' /\ InboxSound(u)'
    BY <1>1, <2>1, PageCarried, InboxCarried DEF CallsInv, RingTimesOut
  <2>4. \A p \in Procs : RequestSound(p)'
    BY <1>1 DEF CallsInv, RingTimesOut, RequestSound, Exists
  <2>5. QED
    BY <2>2, <2>3, <2>4 DEF CallsInv
<1>2. CASE UNCHANGED <<workerVars, callVars>>
  <2>1. Kept /\ CallsTypeOK' /\ \A p \in Procs : RequestSound(p)'
    BY <1>2 DEF CallsInv, CallsTypeOK, Kept, Exists, RequestSound
  <2>2. QED
    BY <1>2, <2>1, OnlyWorker DEF CallsTypeOK
<1>3. QED
  BY <1>1, <1>2, InitiateSound, ActionSound, PageStepSound DEF CallsNext, CallStep

\* The calls, the pages and what is on its way to them keep to their types.
THEOREM CallsTypeCorrect == CallsSpec => []CallsTypeOK
<1>1. WorkersInit /\ CallsInit => CallsInv
  BY CallsInvInit
<1>2. CallsInv => CallsTypeOK
  BY DEF CallsInv
<1>3. QED
  BY <1>1, <1>2, CallsInvStep, PTL DEF CallsSpec

\* However requests, events, time-outs and lost sockets overlap, a page only ever
\* holds a call of its own user, and only the called one's page rings
\* (CallsInitiateAPIView, calls.js): nobody joins the room of a call of others.
THEOREM OwnCalls == CallsSpec => []OwnCallOnly
<1>1. WorkersInit /\ CallsInit => CallsInv
  BY CallsInvInit
<1>2. CallsInv => OwnCallOnly
  BY DEF CallsInv, PageSound, OwnCallOnly
<1>3. QED
  BY <1>1, <1>2, CallsInvStep, PTL DEF CallsSpec

-----------------------------------------------------------------------------
(* Support.                                                                *)

\* A reply or a reading is about a ticket that there is.
SupportSound ==
    /\ SupportTypeOK
    /\ crashes \in Nat
    /\ \A p \in Procs :
          req[p].op \in {"support_reply", "support_progress", "support_list"} => req[p].of \in Opened

Listing(t) == \E p \in Procs : At(p, "support_list") /\ req[p].of = t

\* Where its user stands with a ticket: he was shown the replies up to his last
\* reading, or all when he is about to be shown them; the last reply is one of them.
TicketSound(t) ==
    IF t \in Opened
    THEN /\ ticket[t].userRead \in 1..stamp /\ ticket[t].made <= stamp
         /\ \A r \in ticket[t].replies : r <= stamp /\ r # ticket[t].userRead
         /\ ticket[t].replies # {} => \E r \in ticket[t].replies : \A o \in ticket[t].replies : o <= r
         /\ seen[t] \subseteq ticket[t].replies
         /\ Listing(t) => \A r \in ticket[t].replies : r < ticket[t].userRead
         /\ ~Listing(t) => \A r \in ticket[t].replies : r \in seen[t] <=> r < ticket[t].userRead
    ELSE seen[t] = {} /\ ~Listing(t)

\* What one worker has loaded is still so.
LoadedIsTrue ==
    \A p \in Procs :
        /\ At(p, "support_reply") => req[p].status = ticket[req[p].of].status
        /\ At(p, "support_progress") => ticket[req[p].of].status = "open"
        /\ At(p, "ticket_save") => WithinLimit(Cardinality(Recent))

InHour(now) == {t \in Opened : ticket[t].made \in (now - Hour) + 1..now}

SupportSerial ==
    /\ SupportSound
    /\ \A t \in Tickets : TicketSound(t)
    /\ LoadedIsTrue
    /\ IsFiniteSet(Opened)
    /\ \A now \in Stamps : Cardinality(InHour(now)) <= TicketLimit

\* What the row of a ticket is.
LEMMA TicketRows ==
    ASSUME SupportTypeOK, NEW t \in Tickets
    PROVE  /\ t \in Opened => ticket[t] \in Ticket
           /\ t \notin Opened => ticket[t] = NoTicket
BY DEF SupportTypeOK, Opened, Ticket, TicketStatus, NoTicket

\* What a request is when its worker has come to a step.
LEMMA SupportAt ==
    ASSUME SupportSound, NEW p \in Procs
    PROVE  /\ At(p, "support_reply") \/ At(p, "support_progress") =>
                 req[p] \in [op : {"support_reply", "support_progress"}, of : Tickets, status : TicketStatus]
           /\ At(p, "support_list") => req[p] \in [op : {"support_list"}, of : Tickets]
           /\ req[p].op \in {"support_reply", "support_progress", "support_list"} => req[p].of \in Opened
BY DEF SupportSound, SupportTypeOK, SupportRequest, At, Idle

\* An idle worker is at no step.
LEMMA IdleIsIdle == Idle.op = "idle"
BY DEF Idle

LEMMA SupportInitSound == WorkersInit /\ SupportInit => SupportSerial
<1> SUFFICES ASSUME WorkersInit, SupportInit PROVE SupportSerial
  OBVIOUS
<1> USE SupportAssumption
<1>1. Opened = {} /\ \A p \in Procs : req[p] = Idle
  BY DEF WorkersInit, SupportInit, Opened, NoTicket
<1>2. SupportTypeOK
  BY DEF WorkersInit, SupportInit, SupportTypeOK, Stamps
<1>3. SupportSound
  BY <1>1, <1>2 DEF SupportSound, WorkersInit, Idle
<1>4. \A t \in Tickets : TicketSound(t)
  BY <1>1 DEF TicketSound, SupportInit, Listing, At, Idle
<1>5. LoadedIsTrue
  <2>1. \A p \in Procs : req[p].op = "idle"
    BY <1>1, IdleIsIdle
  <2>2. QED
    BY <2>1 DEF LoadedIsTrue, At
<1>6. \A now \in Stamps : InHour(now) = {}
  BY <1>1 DEF InHour
<1>7. QED
  BY <1>1, <1>3, <1>4, <1>5, <1>6, FS_EmptySet DEF SupportSerial


\* A row with one of its columns saved.
LEMMA RowSaved ==
    ASSUME NEW row \in Ticket, NEW now \in Stamps, NEW replies \in SUBSET Stamps, NEW status \in TicketStatus
    PROVE  /\ [row EXCEPT !.userRead = now] \in Ticket
           /\ [row EXCEPT !.staffRead = now] \in Ticket
           /\ [row EXCEPT !.replies = replies] \in Ticket
           /\ [row EXCEPT !.status = status] \in Ticket
BY DEF Ticket

\* A ticket that is there stays, and the rows keep to their types.
LEMMA TicketEdited ==
    ASSUME SupportTypeOK, NEW t \in Opened, NEW row \in Ticket, ticket' = [ticket EXCEPT ![t] = row]
    PROVE  /\ Opened' = Opened
           /\ ticket' \in [Tickets -> Ticket \cup {NoTicket}]
           /\ \A o \in Tickets : ticket'[o] = IF o = t THEN row ELSE ticket[o]
<1>1. t \in Tickets /\ row.status # "none"
  BY DEF Opened, Ticket, TicketStatus
<1>2. \A o \in Tickets : ticket'[o] = IF o = t THEN row ELSE ticket[o]
  BY DEF SupportTypeOK
<1>3. ticket' \in [Tickets -> Ticket \cup {NoTicket}]
  BY DEF SupportTypeOK
<1>4. QED
  BY <1>1, <1>2, <1>3 DEF Opened

\* What the one worker goes on with.
LEMMA OneGoesOn ==
    ASSUME SupportTypeOK, \A p, q \in Procs : p = q, NEW p \in Procs,
           NEW r \in SupportRequest \cup {Idle}, Continue(p, r)
    PROVE  /\ \A q \in Procs : req[q] = req[p] /\ req'[q] = r
           /\ req' \in [Procs -> SupportRequest \cup {Idle}]
           /\ crashes' = crashes
BY DEF SupportTypeOK, Continue

\* A ticket about which nothing changes that its user can tell.
LEMMA TicketKept ==
    ASSUME SupportTypeOK, NEW t \in Tickets, TicketSound(t), stamp' \in Nat, stamp <= stamp',
           t \in Opened' <=> t \in Opened,
           t \in Opened => /\ ticket'[t].userRead = ticket[t].userRead
                           /\ ticket'[t].made = ticket[t].made
                           /\ ticket'[t].replies = ticket[t].replies,
           seen'[t] = seen[t], Listing(t)' <=> Listing(t)
    PROVE  TicketSound(t)'
<1>1. stamp \in Nat /\ (t \in Opened => ticket[t] \in Ticket /\ ticket[t].replies \subseteq Nat /\ ticket[t].made \in Nat)
  BY TicketRows, SupportAssumption DEF SupportTypeOK, Ticket, Stamps
<1>2. CASE t \in Opened
  BY <1>1, <1>2 DEF TicketSound
<1>3. CASE t \notin Opened
  BY <1>3 DEF TicketSound
<1>4. QED
  BY <1>2, <1>3

\* An hour holds as many tickets as before when none is made.
LEMMA HoursKept ==
    ASSUME SupportSerial, Opened' = Opened, \A t \in Opened : ticket'[t].made = ticket[t].made
    PROVE  /\ IsFiniteSet(Opened')
           /\ \A now \in Stamps : Cardinality(InHour(now)') <= TicketLimit
<1>1. \A now \in Stamps : InHour(now)' = InHour(now)
  BY DEF InHour
<1>2. QED
  BY <1>1 DEF SupportSerial

\* The worker, idle, has loaded nothing.
LEMMA NothingLoaded ==
    ASSUME \A p \in Procs : req[p] = Idle
    PROVE  LoadedIsTrue /\ \A t \in Tickets : ~Listing(t)
<1>1. \A p \in Procs : req[p].op = "idle"
  BY IdleIsIdle
<1>2. QED
  BY <1>1 DEF LoadedIsTrue, Listing, At

LEMMA SupportStepKeeps ==
    ASSUME \A p, q \in Procs : p = q, MaxCrashes = 0, SupportSerial, [SupportNext]_<<workerVars, supportVars>>
    PROVE  SupportSerial'
<1> USE SupportAssumption
<1>0. /\ SupportSound /\ SupportTypeOK /\ crashes \in Nat /\ LoadedIsTrue
      /\ \A t \in Tickets : TicketSound(t)
      /\ stamp \in Stamps /\ stamp \in Nat /\ stamp + 1 \in Nat
  BY DEF SupportSerial, SupportSound, SupportTypeOK, Stamps
<1>1. ASSUME UNCHANGED <<workerVars, supportVars>> PROVE SupportSerial'
  <2>1. SupportSound'
    BY <1>0, <1>1 DEF SupportSound, SupportTypeOK, Opened
  <2>2. \A t \in Tickets : TicketSound(t)'
    BY <1>0, <1>1 DEF TicketSound, Opened, Listing, At
  <2>3. LoadedIsTrue'
    BY <1>0, <1>1 DEF LoadedIsTrue, At, Recent, Opened
  <2>4. Opened' = Opened
    BY <1>1 DEF Opened
  <2>5. QED
    BY <1>1, <2>1, <2>2, <2>3, <2>4, HoursKept DEF SupportSerial
<1>2. ASSUME TimePasses PROVE SupportSerial'
  <2>1. /\ stamp' = stamp + 1 /\ stamp' \in Stamps /\ UNCHANGED <<ticket, seen, req, crashes>>
        /\ \A p \in Procs : req[p] = Idle /\ req'[p] = Idle
    BY <1>0, <1>2 DEF TimePasses, Tick, AllIdle, Stamps
  <2>2. Opened' = Opened
    BY <2>1 DEF Opened
  <2>3. SupportSound'
    BY <1>0, <2>1, <2>2 DEF SupportSound, SupportTypeOK
  <2>4. LoadedIsTrue' /\ \A t \in Tickets : Listing(t)' <=> Listing(t)
    BY <2>1, NothingLoaded DEF LoadedIsTrue, Listing, At, Idle
  <2>5. \A t \in Tickets : TicketSound(t)'
    BY <1>0, <2>1, <2>2, <2>4, TicketKept
  <2>6. QED
    BY <2>1, <2>2, <2>3, <2>4, <2>5, HoursKept DEF SupportSerial
<1>3. ASSUME NEW p \in Procs, TicketRead(p) PROVE SupportSerial'
  <2>1. /\ req[p] = Idle /\ WithinLimit(Cardinality(Recent)) /\ UNCHANGED <<ticket, seen, stamp>>
        /\ [op |-> "ticket_save"] \in SupportRequest /\ Continue(p, [op |-> "ticket_save"])
    BY <1>3 DEF TicketRead, Begin, Continue, SupportRequest
  <2>2. /\ \A q \in Procs : req[q] = Idle /\ req'[q] = [op |-> "ticket_save"]
        /\ req' \in [Procs -> SupportRequest \cup {Idle}]
        /\ crashes' = crashes
    BY <1>0, <2>1, OneGoesOn
  <2>3. Opened' = Opened /\ Recent' = Recent
    BY <2>1 DEF Opened, Recent
  <2>4. SupportSound'
    BY <1>0, <2>1, <2>2 DEF SupportSound, SupportTypeOK
  <2>5. LoadedIsTrue'
    BY <2>1, <2>2, <2>3 DEF LoadedIsTrue, At
  <2>6. \A t \in Tickets : Listing(t)' <=> Listing(t)
    BY <2>2 DEF Listing, At, Idle
  <2>7. \A t \in Tickets : TicketSound(t)'
    BY <1>0, <2>1, <2>3, <2>6, TicketKept
  <2>8. QED
    BY <2>1, <2>3, <2>4, <2>5, <2>7, HoursKept DEF SupportSerial
<1>4. ASSUME NEW p \in Procs, TicketSave(p) PROVE SupportSerial'
  <2>1. /\ At(p, "ticket_save") /\ stamp' = stamp + 1 /\ stamp' \in Stamps /\ stamp' \in Nat
        /\ seen' = seen /\ Continue(p, Idle)
    BY <1>0, <1>4 DEF TicketSave, Tick, End, Stamps
  <2>2. PICK n \in Tickets \ Opened : ticket' = [ticket EXCEPT ![n] =
             [status |-> "open", made |-> stamp', userRead |-> stamp', staffRead |-> Never, replies |-> {}]]
    BY <1>4 DEF TicketSave
  <2>3. /\ \A q \in Procs : req[q] = req[p] /\ req'[q] = Idle
        /\ req' \in [Procs -> SupportRequest \cup {Idle}]
        /\ crashes' = crashes
    BY <1>0, <2>1, OneGoesOn
  <2>4. [status |-> "open", made |-> stamp', userRead |-> stamp', staffRead |-> Never, replies |-> {}] \in Ticket
    BY <2>1 DEF Ticket, TicketStatus, Stamps, Never
  <2>5. /\ ticket' \in [Tickets -> Ticket \cup {NoTicket}]
        /\ \A o \in Tickets \ {n} : ticket'[o] = ticket[o]
        /\ ticket'[n].status = "open" /\ ticket'[n].made = stamp' /\ ticket'[n].userRead = stamp'
        /\ ticket'[n].replies = {}
    BY <1>0, <2>2, <2>4 DEF SupportTypeOK
  <2>6. Opened' = Opened \cup {n} /\ n \in Tickets
    BY <2>2, <2>5 DEF Opened
  <2>7. SupportSound'
    BY <1>0, <2>1, <2>3, <2>5 DEF SupportSound, SupportTypeOK, Idle
  <2>8. LoadedIsTrue' /\ \A t \in Tickets : ~Listing(t)'
    BY <2>3, NothingLoaded DEF LoadedIsTrue, Listing, At, Idle
  <2>9. \A t \in Tickets : ~Listing(t)
    BY <2>1, <2>3 DEF Listing, At
  <2>10. ASSUME NEW t \in Tickets, t # n PROVE TicketSound(t)'
    <3>1. stamp <= stamp' /\ ticket'[t] = ticket[t] /\ seen'[t] = seen[t] /\ (t \in Opened' <=> t \in Opened)
      BY <1>0, <2>1, <2>2, <2>5, <2>6, <2>10
    <3>2. Listing(t)' <=> Listing(t)
      BY <2>8, <2>9
    <3>3. QED
      BY <1>0, <2>1, <3>1, <3>2, TicketKept
  <2>11. TicketSound(n)'
    BY <1>0, <2>1, <2>2, <2>5, <2>6, <2>8 DEF TicketSound
  <2>12. IsFiniteSet(Opened')
    BY <2>6, FS_AddElement DEF SupportSerial
  <2>13. ASSUME NEW now \in Stamps PROVE Cardinality(InHour(now)') <= TicketLimit
    <3>1. ASSUME NEW t \in Opened PROVE ticket[t].made \in Nat /\ ticket[t].made <= stamp
      <4>1. t \in Tickets
        BY DEF Opened
      <4>2. ticket[t] \in Ticket /\ TicketSound(t)
        BY <1>0, <4>1, TicketRows
      <4>3. QED
        BY <4>2 DEF TicketSound, Ticket, Stamps
    <3>2. \A t \in Opened : t # n /\ ticket'[t].made = ticket[t].made
      BY <2>2, <2>5 DEF Opened
    <3>3. now \in Nat
      BY DEF Stamps
    <3>4. CASE ~(stamp' \in (now - Hour) + 1..now)
      <4>1. InHour(now)' = InHour(now)
        BY <2>5, <2>6, <3>2, <3>4 DEF InHour
      <4>2. QED
        BY <4>1 DEF SupportSerial
    <3>5. CASE stamp' \in (now - Hour) + 1..now
      <4>1. InHour(now)' = InHour(now) \cup {n}
        BY <2>5, <2>6, <3>2, <3>5 DEF InHour
      <4>2. ASSUME NEW t \in InHour(now) PROVE t \in Recent
        <5>1. t \in Opened /\ ticket[t].made \in (now - Hour) + 1..now
          BY DEF InHour
        <5>2. ticket[t].made + Hour > stamp
          BY <1>0, <2>1, <3>1, <3>3, <3>5, <5>1
        <5>3. QED
          BY <5>1, <5>2 DEF Recent
      <4>3. IsFiniteSet(Recent) /\ IsFiniteSet(InHour(now))
        BY FS_Subset DEF SupportSerial, Recent, InHour
      <4>4. Cardinality(InHour(now)) <= Cardinality(Recent) /\ Cardinality(Recent) < TicketLimit
        BY <1>0, <2>1, <4>2, <4>3, FS_Subset DEF LoadedIsTrue, WithinLimit
      <4>5. n \notin InHour(now)
        BY <2>2 DEF InHour
      <4>6. /\ Cardinality(InHour(now)) \in Nat /\ Cardinality(Recent) \in Nat
            /\ Cardinality(InHour(now) \cup {n}) = Cardinality(InHour(now)) + 1
        BY <4>3, <4>5, FS_AddElement, FS_CardinalityType
      <4>7. QED
        BY <4>1, <4>4, <4>6
    <3>6. QED
      BY <3>4, <3>5
  <2>14. QED
    BY <2>6, <2>7, <2>8, <2>10, <2>11, <2>12, <2>13 DEF SupportSerial
<1>5. ASSUME NEW p \in Procs, NEW t \in Tickets, UserOpens(p, t) PROVE SupportSerial'
  <2>1. /\ t \in Opened /\ stamp' = stamp + 1 /\ stamp' \in Stamps /\ stamp' \in Nat
        /\ seen' = seen /\ req[p] = Idle /\ Continue(p, [op |-> "support_list", of |-> t])
        /\ [op |-> "support_list", of |-> t] \in SupportRequest
    BY <1>0, <1>5 DEF UserOpens, Tick, Begin, Continue, Stamps, SupportRequest
  <2>2. ticket' = [ticket EXCEPT ![t] = [ticket[t] EXCEPT !.userRead = stamp']]
    BY <1>5 DEF UserOpens
  <2>3. ticket[t] \in Ticket /\ [ticket[t] EXCEPT !.userRead = stamp'] \in Ticket
    <3>1. t \in Tickets
      BY <2>1 DEF Opened
    <3>2. ticket[t] \in Ticket
      BY <1>0, <2>1, <3>1, TicketRows
    <3> DEFINE row == ticket[t]
               now == stamp'
    <3>3. row \in Ticket /\ now \in Stamps
      BY <2>1, <3>2
    <3> HIDE DEF row, now
    <3>4. [row EXCEPT !.userRead = now] \in Ticket /\ [row EXCEPT !.staffRead = now] \in Ticket
      BY <3>3 DEF Ticket
    <3>5. QED
      BY <3>2, <3>4 DEF row, now
  <2>4. /\ Opened' = Opened
        /\ ticket' \in [Tickets -> Ticket \cup {NoTicket}]
        /\ \A o \in Tickets : ticket'[o] = IF o = t THEN [ticket[t] EXCEPT !.userRead = stamp'] ELSE ticket[o]
    BY <1>0, <2>1, <2>2, <2>3, TicketEdited
  <2>5. /\ ticket'[t].userRead = stamp' /\ ticket'[t].made = ticket[t].made
        /\ ticket'[t].replies = ticket[t].replies
    BY <2>3, <2>4 DEF Ticket
  <2>6. /\ \A q \in Procs : req[q] = Idle /\ req'[q] = [op |-> "support_list", of |-> t]
        /\ req' \in [Procs -> SupportRequest \cup {Idle}]
        /\ crashes' = crashes
    BY <1>0, <2>1, OneGoesOn
  <2>7. SupportSound'
    BY <1>0, <2>1, <2>4, <2>6 DEF SupportSound, SupportTypeOK
  <2>8. LoadedIsTrue'
    BY <2>6 DEF LoadedIsTrue, At
  <2>9. Listing(t)' /\ \A o \in Tickets : ~Listing(o) /\ (o # t => ~Listing(o)')
    BY <2>6 DEF Listing, At, Idle
  <2>10. ASSUME NEW o \in Tickets, o # t PROVE TicketSound(o)'
    <3>1. stamp <= stamp' /\ ticket'[o] = ticket[o] /\ seen'[o] = seen[o] /\ (Listing(o)' <=> Listing(o))
      BY <1>0, <2>1, <2>4, <2>9, <2>10
    <3>2. QED
      BY <1>0, <2>1, <2>4, <3>1, TicketKept
  <2>11. TicketSound(t)'
    <3>1. ticket[t].made \in Nat /\ ticket[t].replies \subseteq Nat
      BY <2>3 DEF Ticket, Stamps
    <3>2. QED
      BY <1>0, <2>1, <2>4, <2>5, <2>9, <3>1 DEF TicketSound
  <2>12. \A o \in Opened : ticket'[o].made = ticket[o].made
    BY <2>4, <2>5 DEF Opened
  <2>13. QED
    BY <2>4, <2>7, <2>8, <2>10, <2>11, <2>12, HoursKept DEF SupportSerial
<1>6. ASSUME NEW p \in Procs, UserLists(p) PROVE SupportSerial'
  <2>1. At(p, "support_list") /\ UNCHANGED <<ticket, stamp>> /\ Continue(p, Idle)
    BY <1>6 DEF UserLists, End
  <2>2. PICK t \in Tickets : t = req[p].of /\ t \in Opened
    BY <1>0, <2>1, SupportAt DEF Opened, At
  <2>3. seen' = [seen EXCEPT ![t] = ticket[t].replies]
    BY <1>6, <2>2 DEF UserLists
  <2>4. /\ \A q \in Procs : req[q] = req[p] /\ req'[q] = Idle
        /\ req' \in [Procs -> SupportRequest \cup {Idle}]
        /\ crashes' = crashes
    BY <1>0, <2>1, OneGoesOn
  <2>5. Opened' = Opened /\ ticket[t] \in Ticket /\ ticket[t].replies \in SUBSET Stamps
    BY <1>0, <2>1, <2>2, TicketRows DEF Opened, Ticket
  <2>6. /\ seen' \in [Tickets -> SUBSET Stamps]
        /\ seen'[t] = ticket[t].replies /\ \A o \in Tickets : o # t => seen'[o] = seen[o]
    BY <1>0, <2>3, <2>5 DEF SupportTypeOK
  <2>7. SupportSound'
    BY <1>0, <2>1, <2>4, <2>5, <2>6 DEF SupportSound, SupportTypeOK, Idle
  <2>8. LoadedIsTrue' /\ \A o \in Tickets : ~Listing(o)'
    BY <2>4, NothingLoaded DEF LoadedIsTrue, Listing, At, Idle
  <2>9. Listing(t) /\ \A o \in Tickets : o # t => ~Listing(o)
    BY <2>1, <2>2, <2>4 DEF Listing, At
  <2>10. ASSUME NEW o \in Tickets, o # t PROVE TicketSound(o)'
    <3>1. stamp' \in Nat /\ stamp <= stamp' /\ seen'[o] = seen[o] /\ (Listing(o)' <=> Listing(o))
      BY <1>0, <2>1, <2>6, <2>8, <2>9, <2>10
    <3>2. QED
      BY <1>0, <2>1, <2>5, <3>1, TicketKept
  <2>11. TicketSound(t)'
    BY <1>0, <2>1, <2>2, <2>5, <2>6, <2>8, <2>9 DEF TicketSound
  <2>12. QED
    BY <2>1, <2>5, <2>7, <2>8, <2>10, <2>11, HoursKept DEF SupportSerial
<1>7. ASSUME NEW p \in Procs, NEW t \in Tickets, StaffOpens(p, t) PROVE SupportSerial'
  <2>1. /\ t \in Opened /\ stamp' = stamp + 1 /\ stamp' \in Stamps /\ stamp' \in Nat
        /\ UNCHANGED <<seen, req, crashes>> /\ req[p] = Idle
    BY <1>0, <1>7 DEF StaffOpens, Tick, Stamps
  <2>2. ticket' = [ticket EXCEPT ![t] = [ticket[t] EXCEPT !.staffRead = stamp']]
    BY <1>7 DEF StaffOpens
  <2>3. ticket[t] \in Ticket /\ [ticket[t] EXCEPT !.staffRead = stamp'] \in Ticket
    <3>1. t \in Tickets
      BY <2>1 DEF Opened
    <3>2. ticket[t] \in Ticket
      BY <1>0, <2>1, <3>1, TicketRows
    <3> DEFINE row == ticket[t]
               now == stamp'
    <3>3. row \in Ticket /\ now \in Stamps
      BY <2>1, <3>2
    <3> HIDE DEF row, now
    <3>4. [row EXCEPT !.userRead = now] \in Ticket /\ [row EXCEPT !.staffRead = now] \in Ticket
      BY <3>3 DEF Ticket
    <3>5. QED
      BY <3>2, <3>4 DEF row, now
  <2>4. /\ Opened' = Opened
        /\ ticket' \in [Tickets -> Ticket \cup {NoTicket}]
        /\ \A o \in Tickets : ticket'[o] = IF o = t THEN [ticket[t] EXCEPT !.staffRead = stamp'] ELSE ticket[o]
    BY <1>0, <2>1, <2>2, <2>3, TicketEdited
  <2>5. \A o \in Tickets : /\ ticket'[o].userRead = ticket[o].userRead /\ ticket'[o].made = ticket[o].made
                           /\ ticket'[o].replies = ticket[o].replies
    BY <2>3, <2>4 DEF Ticket
  <2>6. \A q \in Procs : req[q] = Idle /\ req'[q] = Idle
    BY <2>1
  <2>7. SupportSound'
    BY <1>0, <2>1, <2>4 DEF SupportSound, SupportTypeOK
  <2>8. LoadedIsTrue' /\ \A o \in Tickets : Listing(o)' <=> Listing(o)
    BY <2>6, NothingLoaded DEF LoadedIsTrue, Listing, At, Idle
  <2>9. ASSUME NEW o \in Tickets PROVE TicketSound(o)'
    <3>1. stamp <= stamp' /\ seen'[o] = seen[o]
      BY <1>0, <2>1
    <3>2. QED
      BY <1>0, <2>1, <2>4, <2>5, <2>8, <3>1, TicketKept
  <2>10. \A o \in Opened : ticket'[o].made = ticket[o].made
    BY <2>5 DEF Opened
  <2>11. QED
    BY <2>4, <2>7, <2>8, <2>9, <2>10, HoursKept DEF SupportSerial
<1>8. ASSUME NEW p \in Procs, NEW t \in Tickets, ReplyRead(p, t) PROVE SupportSerial'
  <2> DEFINE r == [op |-> "support_reply", of |-> t, status |-> ticket[t].status]
  <2>1. /\ t \in Opened /\ req[p] = Idle /\ UNCHANGED <<ticket, seen, stamp>> /\ Continue(p, r)
    BY <1>8 DEF ReplyRead, Begin, Continue
  <2>2. ticket[t].status \in TicketStatus
    BY <1>0, <2>1, TicketRows DEF Ticket
  <2>3. r \in SupportRequest /\ r.op = "support_reply" /\ r.of = t /\ r.status = ticket[t].status
    BY <2>2 DEF SupportRequest
  <2> HIDE DEF r
  <2>4. /\ \A q \in Procs : req[q] = Idle /\ req'[q] = r
        /\ req' \in [Procs -> SupportRequest \cup {Idle}]
        /\ crashes' = crashes
    BY <1>0, <2>1, <2>3, OneGoesOn
  <2>5. Opened' = Opened
    BY <2>1 DEF Opened
  <2>6. SupportSound'
    BY <1>0, <2>1, <2>3, <2>4, <2>5 DEF SupportSound, SupportTypeOK
  <2>7. LoadedIsTrue'
    BY <2>1, <2>3, <2>4 DEF LoadedIsTrue, At
  <2>8. \A o \in Tickets : ~Listing(o)' /\ ~Listing(o)
    BY <2>3, <2>4, IdleIsIdle DEF Listing, At
  <2>9. \A o \in Tickets : TicketSound(o)'
    BY <1>0, <2>1, <2>5, <2>8, TicketKept
  <2>10. QED
    BY <2>1, <2>5, <2>6, <2>7, <2>9, HoursKept DEF SupportSerial
<1>9. ASSUME NEW p \in Procs, ReplySave(p) PROVE SupportSerial'
  <2>1. /\ At(p, "support_reply") /\ stamp' = stamp + 1 /\ stamp' \in Stamps /\ stamp' \in Nat /\ seen' = seen
        /\ IF TakenUp(req[p].status) THEN Goto(p, "support_progress") ELSE End(p)
    BY <1>0, <1>9 DEF ReplySave, Tick, Stamps
  <2>2. PICK t \in Tickets : t = req[p].of /\ t \in Opened
    BY <1>0, <2>1, SupportAt DEF Opened, At
  <2>3. PICK replies \in SUBSET Stamps : replies = ticket[t].replies \cup {stamp'}
    BY <1>0, <2>1, <2>2, TicketRows DEF Ticket
  <2>4. ticket[t] \in Ticket /\ [ticket[t] EXCEPT !.replies = replies] \in Ticket
    BY <1>0, <2>1, <2>2, TicketRows, RowSaved DEF TicketStatus
  <2>5. ticket' = [ticket EXCEPT ![t] = [ticket[t] EXCEPT !.replies = replies]]
    BY <1>9, <2>2, <2>3 DEF ReplySave
  <2>6. /\ Opened' = Opened
        /\ ticket' \in [Tickets -> Ticket \cup {NoTicket}]
        /\ \A o \in Tickets : ticket'[o] = IF o = t THEN [ticket[t] EXCEPT !.replies = replies] ELSE ticket[o]
    BY <1>0, <2>2, <2>4, <2>5, TicketEdited, ZenonT(40)
  <2>7. /\ ticket'[t].userRead = ticket[t].userRead /\ ticket'[t].made = ticket[t].made
        /\ ticket'[t].replies = replies /\ ticket'[t].status = ticket[t].status
    BY <2>4, <2>6 DEF Ticket
  <2>8. PICK status \in TicketStatus : req[p] = [op |-> "support_reply", of |-> t, status |-> status]
    BY <1>0, <2>1, <2>2, SupportAt DEF At
  <2>9. status = ticket[t].status
    <3>1. req[p].status = ticket[req[p].of].status
      BY <1>0, <2>1 DEF LoadedIsTrue
    <3>2. req[p].status = status /\ req[p].of = t
      BY <2>8
    <3>3. QED
      BY <3>1, <3>2
  <2>10. PICK r \in SupportRequest \cup {Idle} :
            /\ Continue(p, r)
            /\ r = Idle \/ r = [op |-> "support_progress", of |-> t, status |-> status]
            /\ r.op = "support_progress" => status = "open" /\ r.of = t
    <3>1. CASE status = "open"
      <4> DEFINE r == [op |-> "support_progress", of |-> t, status |-> status]
      <4>1. Continue(p, r)
        BY <2>1, <2>8, <3>1 DEF Goto, TakenUp
      <4>2. r \in SupportRequest
        BY DEF SupportRequest
      <4>3. QED
        BY <3>1, <4>1, <4>2
    <3>2. CASE status # "open"
      BY <2>1, <2>8, <3>2, IdleIsIdle DEF End, TakenUp
    <3>3. QED
      BY <3>1, <3>2
  <2>11. r.op \notin {"support_reply", "support_list", "ticket_save"}
    BY <2>10, IdleIsIdle
  <2>12. /\ \A q \in Procs : req[q] = req[p] /\ req'[q] = r
         /\ req' \in [Procs -> SupportRequest \cup {Idle}]
         /\ crashes' = crashes
    BY <1>0, <2>10, OneGoesOn
  <2>13. SupportSound'
    BY <1>0, <2>1, <2>2, <2>6, <2>10, <2>11, <2>12 DEF SupportSound, SupportTypeOK
  <2>14. LoadedIsTrue'
    BY <2>7, <2>9, <2>10, <2>11, <2>12 DEF LoadedIsTrue, At
  <2>15. \A o \in Tickets : ~Listing(o) /\ ~Listing(o)'
    BY <2>1, <2>11, <2>12 DEF Listing, At
  <2>16. ASSUME NEW o \in Tickets, o # t PROVE TicketSound(o)'
    <3>1. stamp <= stamp' /\ ticket'[o] = ticket[o] /\ seen'[o] = seen[o]
      BY <1>0, <2>1, <2>6, <2>16
    <3>2. QED
      BY <1>0, <2>1, <2>6, <2>15, <3>1, TicketKept
  <2>17. TicketSound(t)'
    <3>1. ticket[t].made \in Nat /\ ticket[t].replies \subseteq Nat /\ ticket[t].userRead \in Nat
      BY <2>4 DEF Ticket, Stamps
    <3>2. TicketSound(t) /\ ~Listing(t) /\ t \in Opened'
      BY <1>0, <2>2, <2>6, <2>15
    <3>a. /\ ticket[t].userRead \in 1..stamp /\ ticket[t].made <= stamp
          /\ seen[t] \subseteq ticket[t].replies
          /\ \A o \in ticket[t].replies :
                o <= stamp /\ o # ticket[t].userRead /\ (o \in seen[t] <=> o < ticket[t].userRead)
      BY <2>2, <3>2 DEF TicketSound
    <3>b. stamp \in Nat /\ stamp' = stamp + 1 /\ seen'[t] = seen[t]
      BY <1>0, <2>1
    <3>c. \A o \in replies : o \in ticket[t].replies \/ o = stamp'
      BY <2>3
    <3>3. /\ ticket'[t].userRead \in 1..stamp' /\ ticket'[t].made <= stamp'
          /\ seen'[t] \subseteq replies
          /\ \A o \in replies : o <= stamp'
      <4>1. ticket[t].userRead \in 1..stamp' /\ ticket[t].made <= stamp'
        BY <3>1, <3>a, <3>b
      <4>2. \A o \in replies : o <= stamp'
        BY <3>1, <3>a, <3>b, <3>c
      <4>3. QED
        BY <2>3, <2>7, <3>a, <3>b, <4>1, <4>2
    <3>4. \A o \in replies : o # ticket'[t].userRead /\ (o \in seen'[t] <=> o < ticket'[t].userRead)
      <4>1. CASE stamp' \in ticket[t].replies
        BY <3>1, <3>a, <3>b, <4>1
      <4>2. ASSUME stamp' \notin ticket[t].replies, NEW o \in replies
            PROVE  o # ticket[t].userRead /\ (o \in seen[t] <=> o < ticket[t].userRead)
        <5>1. CASE o \in ticket[t].replies
          BY <3>a, <5>1
        <5>2. CASE o = stamp'
          BY <3>1, <3>a, <3>b, <4>2, <5>2
        <5>3. QED
          BY <3>c, <5>1, <5>2
      <4>3. QED
        BY <2>7, <3>b, <4>1, <4>2
    <3>5. stamp' \in replies
      BY <2>3
    <3>6. QED
      BY <2>7, <2>15, <3>2, <3>3, <3>4, <3>5 DEF TicketSound
  <2>18. \A o \in Opened : ticket'[o].made = ticket[o].made
    BY <2>6, <2>7 DEF Opened
  <2>19. QED
    BY <2>6, <2>13, <2>14, <2>16, <2>17, <2>18, HoursKept DEF SupportSerial
\* A change of the status alone, by a worker that is idle afterwards.
<1>10. ASSUME NEW p \in Procs, NEW t \in Opened, NEW status \in TicketStatus,
              ticket' = [ticket EXCEPT ![t] = [ticket[t] EXCEPT !.status = status]],
              UNCHANGED <<seen, stamp>>, ~At(p, "support_list"), Continue(p, Idle)
       PROVE  SupportSerial'
  <2>1. t \in Tickets
    BY DEF Opened
  <2>2. ticket[t] \in Ticket
    BY <1>0, <2>1, TicketRows
  <2>3. [ticket[t] EXCEPT !.status = status] \in Ticket
    BY <1>0, <2>2, RowSaved
  <2>4. /\ Opened' = Opened
        /\ ticket' \in [Tickets -> Ticket \cup {NoTicket}]
        /\ \A o \in Tickets : ticket'[o] = IF o = t THEN [ticket[t] EXCEPT !.status = status] ELSE ticket[o]
    BY <1>0, <1>10, <2>3, TicketEdited
  <2>5. \A o \in Tickets : /\ ticket'[o].userRead = ticket[o].userRead /\ ticket'[o].made = ticket[o].made
                           /\ ticket'[o].replies = ticket[o].replies
    BY <2>2, <2>4 DEF Ticket
  <2>6. /\ \A q \in Procs : req[q] = req[p] /\ req'[q] = Idle
        /\ req' \in [Procs -> SupportRequest \cup {Idle}]
        /\ crashes' = crashes
    BY <1>0, <1>10, OneGoesOn
  <2>7. SupportSound'
    BY <1>0, <1>10, <2>4, <2>6, IdleIsIdle DEF SupportSound, SupportTypeOK
  <2>8. LoadedIsTrue'
    BY <2>6, IdleIsIdle DEF LoadedIsTrue, At
  <2>9. \A o \in Tickets : ~Listing(o) /\ ~Listing(o)'
    BY <1>10, <2>6, IdleIsIdle DEF Listing, At
  <2>10. \A o \in Tickets : TicketSound(o)'
    BY <1>0, <1>10, <2>4, <2>5, <2>9, TicketKept
  <2>11. \A o \in Opened : ticket'[o].made = ticket[o].made
    BY <2>5 DEF Opened
  <2>12. QED
    BY <2>4, <2>7, <2>8, <2>10, <2>11, HoursKept DEF SupportSerial
<1>11. ASSUME NEW p \in Procs, ReplyProgress(p) PROVE SupportSerial'
  <2>1. At(p, "support_progress") /\ UNCHANGED <<seen, stamp>> /\ Continue(p, Idle)
    BY <1>11 DEF ReplyProgress, End
  <2>2. PICK t \in Opened : t = req[p].of
    BY <1>0, <2>1, SupportAt DEF At
  <2>3. ticket' = [ticket EXCEPT ![t] = [ticket[t] EXCEPT !.status = "in_progress"]]
    BY <1>11, <2>2 DEF ReplyProgress
  <2>4. ~At(p, "support_list") /\ "in_progress" \in TicketStatus
    BY <2>1 DEF At, TicketStatus
  <2>5. QED
    BY <1>10, <2>1, <2>3, <2>4
<1>12. ASSUME NEW p \in Procs, NEW t \in Tickets, NEW status \in TicketStatus, SetTicketStatus(p, t, status)
       PROVE  SupportSerial'
  <2>1. t \in Opened /\ req[p] = Idle /\ UNCHANGED <<seen, stamp, req, crashes>>
    BY <1>12 DEF SetTicketStatus
  <2>2. ticket' = [ticket EXCEPT ![t] = [ticket[t] EXCEPT !.status = status]]
    BY <1>12 DEF SetTicketStatus
  <2>3. Continue(p, Idle) /\ ~At(p, "support_list")
    BY <1>0, <2>1, IdleIsIdle DEF Continue, At, SupportTypeOK
  <2>4. QED
    BY <1>10, <2>1, <2>2, <2>3
<1>13. ASSUME NEW p \in Procs, SupportStops(p) PROVE SupportSerial'
  <2>1. /\ At(p, "ticket_save") \/ At(p, "support_reply")
        /\ Continue(p, Idle) /\ UNCHANGED <<ticket, seen, stamp>>
    BY <1>13 DEF SupportStops, End
  <2>2. /\ \A q \in Procs : req[q] = req[p] /\ req'[q] = Idle
        /\ req' \in [Procs -> SupportRequest \cup {Idle}]
        /\ crashes' = crashes
    BY <1>0, <2>1, OneGoesOn
  <2>3. Opened' = Opened
    BY <2>1 DEF Opened
  <2>4. SupportSound' /\ LoadedIsTrue'
    BY <1>0, <2>1, <2>2, <2>3, IdleIsIdle DEF SupportSound, SupportTypeOK, LoadedIsTrue, At
  <2>5. \A o \in Tickets : ~Listing(o) /\ ~Listing(o)'
    BY <2>1, <2>2, IdleIsIdle DEF Listing, At
  <2>6. \A o \in Tickets : TicketSound(o)'
    BY <1>0, <2>1, <2>3, <2>5, TicketKept
  <2>7. QED
    BY <2>1, <2>3, <2>4, <2>6, HoursKept DEF SupportSerial
<1>14. ASSUME NEW p \in Procs, SupportCrash(p) PROVE FALSE
  BY <1>0, <1>14 DEF SupportCrash, Crash
<1>15. QED
  BY <1>1, <1>2, <1>3, <1>4, <1>5, <1>6, <1>7, <1>8, <1>9, <1>11, <1>12, <1>13, <1>14
     DEF SupportNext, SupportStep

\* A badge is exact when nobody is about to be shown the replies.
LEMMA BadgeIsExact == SupportSerial => UnreadIffUnshown
<1> SUFFICES ASSUME SupportSerial, AllIdle, NEW t \in Opened
             PROVE  t \in UnreadForUser <=> ~(ticket[t].replies \subseteq seen[t])
  BY DEF UnreadIffUnshown, UnreadForUser
<1>1. t \in Tickets /\ TicketSound(t) /\ ticket[t] \in Ticket
  BY TicketRows DEF SupportSerial, SupportSound, Opened
<1>2. ticket[t].replies \subseteq Nat /\ ticket[t].userRead \in Nat /\ stamp \in Nat
  BY <1>1, SupportAssumption DEF Ticket, Stamps, SupportSerial, SupportSound, SupportTypeOK
<1>3. ~Listing(t)
  BY IdleIsIdle DEF AllIdle, Listing, At
<1>4. ticket[t].userRead # Never
  BY <1>1 DEF TicketSound, Never
<1>5. t \in UnreadForUser <=> ticket[t].replies # {} /\ LastReply(t) > ticket[t].userRead
  BY <1>4 DEF UnreadForUser
<1>6. ~(ticket[t].replies \subseteq seen[t]) <=> \E r \in ticket[t].replies : r > ticket[t].userRead
  BY <1>1, <1>2, <1>3 DEF TicketSound
<1>7. CASE ticket[t].replies = {}
  BY <1>5, <1>6, <1>7
<1>8. CASE ticket[t].replies # {}
  <2>1. LastReply(t) \in ticket[t].replies /\ \A r \in ticket[t].replies : r <= LastReply(t)
    BY <1>1, <1>8 DEF TicketSound, LastReply
  <2>2. QED
    BY <1>2, <1>5, <1>6, <1>8, <2>1
<1>9. QED
  BY <1>7, <1>8

LEMMA HoursAreWithinLimit == SupportSerial => TicketsWithinLimit
BY DEF SupportSerial, TicketsWithinLimit, InHour

\* A ticket that is settled is one its reply found settled.
LEMMA SettledStep ==
    ASSUME SupportSerial, [SupportNext]_<<workerVars, supportVars>>, NEW t \in Tickets,
           ticket[t].status \in {"resolved", "closed"}, ticket'[t].status \in {"open", "in_progress"}
    PROVE  \E p \in Procs : SetTicketStatus(p, t, "open")
<1>0. /\ SupportTypeOK /\ t \in Opened /\ ticket[t] \in Ticket
      /\ ticket'[t].status # ticket[t].status
  BY TicketRows DEF SupportSerial, SupportSound, Opened
<1>1. ASSUME NEW p \in Procs, TicketSave(p) PROVE FALSE
  BY <1>0, <1>1 DEF TicketSave, SupportTypeOK
<1>2. ASSUME NEW p \in Procs, NEW o \in Tickets, UserOpens(p, o) \/ StaffOpens(p, o) PROVE FALSE
  BY <1>0, <1>2 DEF UserOpens, StaffOpens, SupportTypeOK, Ticket
<1>3. ASSUME NEW p \in Procs, ReplySave(p) PROVE FALSE
  BY <1>0, <1>3 DEF ReplySave, SupportTypeOK, Ticket
<1>4. ASSUME NEW p \in Procs, ReplyProgress(p) PROVE FALSE
  <2>1. req[p].of = t
    BY <1>0, <1>4 DEF ReplyProgress, SupportTypeOK
  <2>2. QED
    BY <1>4, <2>1 DEF ReplyProgress, SupportSerial, LoadedIsTrue
<1>5. ASSUME NEW p \in Procs, NEW o \in Tickets, NEW status \in TicketStatus, SetTicketStatus(p, o, status)
      PROVE  SetTicketStatus(p, t, "open")
  <2>1. o = t
    BY <1>0, <1>5 DEF SetTicketStatus, SupportTypeOK
  <2>2. ticket'[t].status = status
    BY <1>0, <1>5, <2>1 DEF SetTicketStatus, SupportTypeOK, Ticket
  <2>3. status = "open"
    BY <1>5, <2>2 DEF SetTicketStatus
  <2>4. QED
    BY <1>5, <2>1, <2>3
<1>6. ticket' = ticket => FALSE
  BY <1>0
<1>7. QED
  BY <1>1, <1>2, <1>3, <1>4, <1>5, <1>6
     DEF SupportNext, SupportStep, SupportCrash, TimePasses, TicketRead, UserLists, ReplyRead, SupportStops

\* While tickets are handled one at a time and no worker dies, the badge of the
\* cabinet is exact: unread is what holds a reply its user was not shown.
THEOREM UnreadIsExact ==
    ASSUME \A p, q \in Procs : p = q, MaxCrashes = 0
    PROVE  SupportSpec => []UnreadIffUnshown
<1>1. SupportSerial /\ [SupportNext]_<<workerVars, supportVars>> => SupportSerial'
  BY SupportStepKeeps
<1>2. QED
  BY <1>1, SupportInitSound, BadgeIsExact, PTL DEF SupportSpec

-----------------------------------------------------------------------------
(* Chats.                                                                  *)

\* A message is saved, and about to be sent, in a room whose visit goes on: its
\* worker is the only one, and whoever ends the visit is another request.
RoomIsOpen ==
    /\ DOMAIN req = Procs
    /\ DOMAIN message = ChatMessages
    /\ \A p \in Procs : At(p, "chat_commit") /\ kind = "booking" => ~booking.over

LEMMA RoomInit == WorkersInit /\ ChatsInit => RoomIsOpen
<1> SUFFICES ASSUME WorkersInit, ChatsInit PROVE RoomIsOpen
  OBVIOUS
<1>1. \A p \in Procs : req[p].op = "idle"
  BY DEF WorkersInit, Idle
<1>2. QED
  BY <1>1 DEF RoomIsOpen, ChatsInit, WorkersInit, At

\* A worker that goes on with anything but a commit leaves none to be made.
LEMMA OneGoesOnInTheRoom ==
    ASSUME RoomIsOpen, \A p, q \in Procs : p = q, NEW p \in Procs, NEW r, req' = [req EXCEPT ![p] = r],
           DOMAIN message' = ChatMessages, r.op # "chat_commit"
    PROVE  RoomIsOpen'
BY DEF RoomIsOpen, At

LEMMA RoomStep ==
    ASSUME \A p, q \in Procs : p = q, RoomIsOpen, [ChatsNext]_<<workerVars, chatVars>>
    PROVE  RoomIsOpen'
<1>0. /\ DOMAIN req = Procs /\ DOMAIN message = ChatMessages
      /\ \A p \in Procs : At(p, "chat_commit") /\ kind = "booking" => ~booking.over
  BY DEF RoomIsOpen
\* Nothing that matters changes.
<1>1. ASSUME UNCHANGED <<req, kind, booking>>, DOMAIN message' = ChatMessages PROVE RoomIsOpen'
  BY <1>0, <1>1 DEF RoomIsOpen, At
<1>2. Idle.op # "chat_commit" /\ \A opens \in BOOLEAN : Refresh(opens).op # "chat_commit"
  BY DEF Idle, Refresh
<1>3. CASE UNCHANGED <<workerVars, chatVars>>
  BY <1>0, <1>1, <1>3 DEF chatVars
<1>4. CASE ThreeDaysPass \/ OtherPage \/ HeaderConnects \/ HeaderSocketLost \/ CountArrives \/ Poll
           \/ ChatJoins \/ ChatSocketLost \/ RoomPoll
  BY <1>0, <1>1, <1>4 DEF ThreeDaysPass, OtherPage, HeaderConnects, HeaderSocketLost, CountArrives, Poll,
     ChatJoins, ChatSocketLost, RoomPoll
<1>5. ASSUME NEW p \in Procs, ChatStamp(p) PROVE RoomIsOpen'
  <2>1. /\ kind = "booking" => ~booking.over
        /\ UNCHANGED <<kind, booking>>
    BY <1>5 DEF ChatStamp, CanPost
  <2>2. DOMAIN req' = Procs /\ DOMAIN message' = ChatMessages
    BY <1>0, <1>5 DEF ChatStamp, Continue
  <2>3. QED
    BY <2>1, <2>2 DEF RoomIsOpen
<1>6. ASSUME NEW p \in Procs, ChatCommit(p) PROVE RoomIsOpen'
  <2>1. PICK r \in {Idle, Refresh(FALSE)} : req' = [req EXCEPT ![p] = r]
    BY <1>6 DEF ChatCommit, Continue, End
  <2>2. DOMAIN message' = ChatMessages
    BY <1>0, <1>6 DEF ChatCommit
  <2>3. QED
    BY <1>2, <2>1, <2>2, OneGoesOnInTheRoom
<1>7. ASSUME NEW p \in Procs, ChatRefused(p) \/ ChatCount(p) \/ ChatPush(p) \/ ChatLoaded(p) PROVE RoomIsOpen'
  <2>1. PICK r : req' = [req EXCEPT ![p] = r] /\ r.op # "chat_commit"
    <3>1. CASE ChatRefused(p) \/ ChatLoaded(p)
      <4>1. req' = [req EXCEPT ![p] = Idle]
        BY <3>1 DEF ChatRefused, ChatLoaded, Continue, End
      <4>2. QED
        BY <1>2, <4>1
    <3>2. CASE ChatCount(p)
      <4> DEFINE r == [op |-> "chat_push", opens |-> req[p].opens, count |-> UnreadCount]
      <4>1. req' = [req EXCEPT ![p] = r]
        BY <3>2 DEF ChatCount, Continue
      <4>2. r.op # "chat_commit"
        OBVIOUS
      <4>3. QED
        BY <4>1, <4>2
    <3>3. CASE ChatPush(p)
      <4>1. PICK r \in {[op |-> "chat_load"], Idle} : req' = [req EXCEPT ![p] = r]
        BY <3>3 DEF ChatPush, Continue
      <4>2. r.op # "chat_commit"
        BY <1>2, <4>1
      <4>3. QED
        BY <4>1, <4>2
    <3>4. QED
      BY <1>7, <3>1, <3>2, <3>3
  <2>2. DOMAIN message' = ChatMessages
    BY <1>0, <1>7 DEF ChatRefused, ChatCount, ChatPush, ChatLoaded, chatVars
  <2>3. QED
    BY <2>1, <2>2, OneGoesOnInTheRoom
<1>8. ASSUME NEW p \in Procs, ChatsCrash(p) PROVE RoomIsOpen'
  <2>1. req' = [req EXCEPT ![p] = Idle] /\ DOMAIN message' = ChatMessages
    BY <1>0, <1>8 DEF ChatsCrash, Crash, chatVars
  <2>2. QED
    BY <1>2, <2>1, OneGoesOnInTheRoom
<1>9. ASSUME NEW p \in Procs, ChatOpen(p) \/ RoomMarkRead(p) \/ (\E u \in Sides, via \in ChatPaths : ChatLoad(p, u, via))
      PROVE  RoomIsOpen'
  <2>1. PICK r : req' = [req EXCEPT ![p] = r] /\ r.op # "chat_commit"
    BY <1>2, <1>9 DEF ChatOpen, RoomMarkRead, ChatLoad, Begin
  <2>2. DOMAIN message' = ChatMessages
    BY <1>0, <1>9 DEF ChatOpen, RoomMarkRead, ChatLoad, chatVars
  <2>3. QED
    BY <2>1, <2>2, OneGoesOnInTheRoom
<1>10. ASSUME NEW p \in Procs, PanelOpen(p) \/ BulkDelete(p) \/ PruneInactive(p) PROVE RoomIsOpen'
  <2>1. kind = "station" /\ kind' = kind /\ DOMAIN message' = ChatMessages
    BY <1>0, <1>10 DEF PanelOpen, BulkDelete, PruneInactive, DeleteThread
  <2>2. DOMAIN req' = Procs
    BY <1>0, <1>10 DEF PanelOpen, BulkDelete, PruneInactive, Begin
  <2>3. QED
    BY <2>1, <2>2 DEF RoomIsOpen
<1>11. ASSUME NEW p \in Procs, RoomCloses(p) \/ VisitOver(p) PROVE RoomIsOpen'
  <2>1. req[p] = Idle /\ UNCHANGED <<req, message>>
    BY <1>11 DEF RoomCloses, VisitOver
  <2>2. \A q \in Procs : ~At(q, "chat_commit")'
    BY <1>2, <2>1 DEF At
  <2>3. QED
    BY <1>0, <2>1, <2>2 DEF RoomIsOpen
<1>12. QED
  BY <1>3, <1>4, <1>5, <1>6, <1>7, <1>8, <1>9, <1>10, <1>11 DEF ChatsNext, ChatStep

LEMMA QuietStep ==
    ASSUME RoomIsOpen, [ChatsNext]_<<workerVars, chatVars>>, kind = "booking", booking.over
    PROVE  InState("sent")' = InState("sent")
<1>1. ASSUME UNCHANGED message PROVE InState("sent")' = InState("sent")
  BY <1>1 DEF InState
<1>2. ASSUME NEW p \in Procs, ChatStamp(p) \/ ChatCommit(p) PROVE FALSE
  BY <1>2 DEF ChatStamp, CanPost, ChatCommit, RoomIsOpen
<1>3. ASSUME NEW p \in Procs, PanelOpen(p) \/ BulkDelete(p) \/ PruneInactive(p) PROVE FALSE
  BY <1>3 DEF PanelOpen, BulkDelete, PruneInactive, DeleteThread
<1>4. QED
  BY <1>1, <1>2, <1>3 DEF ChatsNext, ChatStep, ThreeDaysPass, OtherPage, HeaderConnects, HeaderSocketLost,
     CountArrives, Poll, ChatJoins, ChatSocketLost, RoomPoll, ChatRefused, ChatCount, ChatPush, ChatLoaded,
     ChatsCrash, ChatOpen, RoomMarkRead, ChatLoad, RoomCloses, VisitOver, chatVars

-----------------------------------------------------------------------------
(* Reviews.                                                                *)

\* An edit saves the status there is.
EditKnowsTheStatus ==
    /\ ReviewsTypeOK
    /\ review = NoReview => /\ \A c \in Complaints : complaint[c] = "none"
                            /\ \A p \in Procs : ~At(p, "complaint_resolve")
    /\ \A p \in Procs : At(p, "review_edit") => req[p].loaded = review.status

LEMMA ReviewInit == WorkersInit /\ ReviewsInit => EditKnowsTheStatus
<1> SUFFICES ASSUME WorkersInit, ReviewsInit PROVE EditKnowsTheStatus
  OBVIOUS
<1>1. \A p \in Procs : req[p].op = "idle"
  BY DEF WorkersInit, Idle
<1>2. ReviewsTypeOK
  BY DEF ReviewsTypeOK, ReviewsInit, WorkersInit, ReviewRow
<1>3. QED
  BY <1>1, <1>2 DEF EditKnowsTheStatus, At, ReviewsInit

LEMMA ReviewRows ==
    ASSUME NEW row \in ReviewRow, row # NoReview, NEW status \in {"ok", "hidden"}
    PROVE  /\ [row EXCEPT !.status = status] \in ReviewRow
           /\ [row EXCEPT !.status = status].status = status
           /\ [row EXCEPT !.replied = TRUE] \in ReviewRow
           /\ [row EXCEPT !.replied = TRUE].status = row.status
           /\ [row EXCEPT !.fresh = FALSE] \in ReviewRow
           /\ [row EXCEPT !.fresh = FALSE].status = row.status
BY DEF ReviewRow, NoReview

LEMMA ReviewStates ==
    ASSUME NEW row \in ReviewRow
    PROVE  row # NoReview <=> row.status \in {"ok", "hidden"}
BY DEF ReviewRow, NoReview

LEMMA ReviewStepKeeps ==
    ASSUME \A p, q \in Procs : p = q, EditKnowsTheStatus, [ReviewsNext]_<<workerVars, reviewVars>>
    PROVE  /\ EditKnowsTheStatus'
           /\ review.status = "hidden" /\ review'.status # "hidden" => \E p \in Procs : ReviewPublish(p)
<1>0. /\ ReviewsTypeOK /\ review \in ReviewRow
      /\ complaint \in [Complaints -> {"none", "pending", "resolved"}]
      /\ req \in [Procs -> ReviewRequest \cup {Idle}]
      /\ review = NoReview => /\ \A c \in Complaints : complaint[c] = "none"
                              /\ \A p \in Procs : ~At(p, "complaint_resolve")
      /\ \A p \in Procs : At(p, "review_edit") => req[p].loaded = review.status
      /\ Idle.op \notin {"review_edit", "complaint_resolve"} /\ NoReview.status = "none" /\ ~NoReview.fresh /\ ~NoReview.ofVisit
  BY DEF EditKnowsTheStatus, Idle, NoReview, ReviewsTypeOK
<1>1. \A p \in Procs : /\ At(p, "review_save") => req[p].ofVisit \in BOOLEAN
                       /\ At(p, "review_edit") => req[p].loaded \in {"ok", "hidden"}
                       /\ At(p, "complaint_resolve") => req[p].of \in Complaints
  BY <1>0 DEF ReviewRequest, At, Idle
\* The one worker goes on with no edit.
<1>2. ASSUME NEW p \in Procs, NEW r \in ReviewRequest \cup {Idle}, req' = [req EXCEPT ![p] = r],
             r.op # "review_edit", review' \in ReviewRow, review # NoReview => review' # NoReview,
             review = NoReview => complaint' = complaint, r.op = "complaint_resolve" => review # NoReview,
             complaint' \in [Complaints -> {"none", "pending", "resolved"}]
      PROVE  EditKnowsTheStatus'
  BY <1>0, <1>2 DEF EditKnowsTheStatus, At, ReviewsTypeOK
\* An idle one stays so.
<1>3. ASSUME NEW p \in Procs, req[p] = Idle, req' = req, review' \in ReviewRow, review # NoReview, review' # NoReview,
             complaint' \in [Complaints -> {"none", "pending", "resolved"}]
      PROVE  EditKnowsTheStatus'
  BY <1>0, <1>3 DEF EditKnowsTheStatus, At, ReviewsTypeOK
<1>4. CASE UNCHANGED <<workerVars, reviewVars>>
  BY <1>0, <1>4 DEF EditKnowsTheStatus, At, ReviewsTypeOK, reviewVars
<1>5. ASSUME ReviewAges PROVE EditKnowsTheStatus' /\ review'.status = review.status
  <2>1. review # NoReview /\ req' = req /\ complaint' = complaint
    BY <1>0, <1>5 DEF ReviewAges
  <2>2. review' \in ReviewRow /\ review'.status = review.status
    BY <1>0, <1>5, <2>1, ReviewRows DEF ReviewAges
  <2>3. review' # NoReview
    BY <1>0, <2>1, <2>2, ReviewStates
  <2>4. QED
    BY <1>0, <2>1, <2>2, <2>3 DEF EditKnowsTheStatus, At, ReviewsTypeOK
<1>6. ASSUME NEW p \in Procs, StationReviewRead(p) \/ VisitReviewRead(p)
      PROVE  EditKnowsTheStatus' /\ review' = review
  <2>1. PICK ofVisit \in BOOLEAN : req' = [req EXCEPT ![p] = [op |-> "review_save", ofVisit |-> ofVisit]]
    BY <1>6 DEF StationReviewRead, VisitReviewRead, Begin
  <2>2. UNCHANGED <<review, complaint>>
    BY <1>6 DEF StationReviewRead, VisitReviewRead, reviewVars
  <2>3. /\ [op |-> "review_save", ofVisit |-> ofVisit] \in ReviewRequest
        /\ [op |-> "review_save", ofVisit |-> ofVisit].op \notin {"review_edit", "complaint_resolve"}
    BY DEF ReviewRequest
  <2>4. QED
    BY <1>0, <1>2, <2>1, <2>2, <2>3
<1>7. ASSUME NEW p \in Procs, ReviewSave(p)
      PROVE  EditKnowsTheStatus' /\ (review # NoReview => review' = review)
  <2>1. review' \in ReviewRow /\ (review # NoReview => review' = review)
    <3>1. CASE review # NoReview
      BY <1>0, <1>7, <3>1 DEF ReviewSave
    <3>2. CASE review = NoReview
      <4>1. PICK v \in BOOLEAN : v = req[p].ofVisit
        BY <1>1, <1>7 DEF ReviewSave
      <4>2. review' = [status |-> "ok", ofVisit |-> v, fresh |-> TRUE, replied |-> FALSE]
        BY <1>7, <3>2, <4>1 DEF ReviewSave
      <4>3. QED
        BY <3>2, <4>2 DEF ReviewRow
    <3>3. QED
      BY <3>1, <3>2
  <2>2. req' = [req EXCEPT ![p] = Idle] /\ complaint' = complaint
    BY <1>7 DEF ReviewSave, End, Continue
  <2>3. QED
    BY <1>0, <1>2, <2>1, <2>2
<1>8. ASSUME NEW p \in Procs, ReviewEditRead(p) PROVE EditKnowsTheStatus' /\ review' = review
  <2>1. PICK status : status = review.status
    OBVIOUS
  <2>2. /\ req' = [req EXCEPT ![p] = [op |-> "review_edit", loaded |-> status]]
        /\ UNCHANGED <<review, complaint>> /\ review # NoReview
    BY <1>0, <1>8, <2>1 DEF ReviewEditRead, Begin, reviewVars
  <2>3. status \in {"ok", "hidden"}
    BY <1>0, <2>1, <2>2, ReviewStates
  <2>4. [op |-> "review_edit", loaded |-> status] \in ReviewRequest
    BY <2>3 DEF ReviewRequest
  <2>5. QED
    BY <1>0, <2>1, <2>2, <2>4 DEF EditKnowsTheStatus, At, ReviewsTypeOK
<1>9. ASSUME NEW p \in Procs, ReviewEditSave(p) PROVE EditKnowsTheStatus' /\ review'.status = review.status
  <2>1. PICK status \in {"ok", "hidden"} : status = req[p].loaded /\ status = review.status
    BY <1>0, <1>1, <1>9 DEF ReviewEditSave
  <2>2. review # NoReview /\ review' = [review EXCEPT !.status = status]
    BY <1>0, <1>9, <2>1 DEF ReviewEditSave, SetStatus
  <2>3. req' = [req EXCEPT ![p] = Idle] /\ complaint' = complaint
    BY <1>9 DEF ReviewEditSave, End, Continue
  <2>4. review' \in ReviewRow /\ review'.status = review.status
    <3>1. /\ [review EXCEPT !.status = status] \in ReviewRow
          /\ [review EXCEPT !.status = status].status = status
      BY <1>0, <2>1, <2>2, ReviewRows
    <3>2. QED
      BY <2>1, <2>2, <3>1
  <2>5. review' # NoReview
    BY <2>1, <2>4, ReviewStates
  <2>6. QED
    BY <1>0, <1>2, <2>3, <2>4, <2>5
<1>10. ASSUME NEW p \in Procs, ReviewReply(p) PROVE EditKnowsTheStatus' /\ review'.status = review.status
  <2>1. review # NoReview /\ req[p] = Idle /\ review' = [review EXCEPT !.replied = TRUE] /\ UNCHANGED <<req, complaint>>
    BY <1>10 DEF ReviewReply
  <2>2. review' \in ReviewRow /\ review'.status = review.status
    BY <1>0, <2>1, ReviewRows
  <2>3. review' # NoReview
    BY <1>0, <2>1, <2>2, ReviewStates
  <2>4. QED
    BY <1>0, <1>3, <2>1, <2>2, <2>3
<1>11. ASSUME NEW p \in Procs, ReviewHide(p) PROVE EditKnowsTheStatus' /\ review'.status = "hidden"
  <2>1. review # NoReview /\ req[p] = Idle /\ review' = [review EXCEPT !.status = "hidden"] /\ UNCHANGED <<req, complaint>>
    BY <1>11 DEF ReviewHide, SetStatus
  <2>2. review' \in ReviewRow /\ review'.status = "hidden"
    BY <1>0, <2>1, ReviewRows
  <2>3. review' # NoReview
    BY <1>0, <2>1, <2>2, ReviewStates
  <2>4. QED
    BY <1>0, <1>3, <2>1, <2>2, <2>3
<1>12. ASSUME NEW p \in Procs, ReviewPublish(p) PROVE EditKnowsTheStatus'
  <2>1. review # NoReview /\ req[p] = Idle /\ review' = [review EXCEPT !.status = "ok"] /\ UNCHANGED <<req, complaint>>
    BY <1>12 DEF ReviewPublish, SetStatus
  <2>2. review' \in ReviewRow /\ review'.status = "ok"
    BY <1>0, <2>1, ReviewRows
  <2>3. review' # NoReview
    BY <2>2, ReviewStates
  <2>4. QED
    BY <1>0, <1>3, <2>1, <2>2, <2>3
<1>13. ASSUME NEW p \in Procs, NEW c \in Complaints, ReviewComplaint(p, c) \/ ComplaintReject(p, c)
       PROVE  EditKnowsTheStatus' /\ review' = review
  <2>1. /\ req[p] = Idle /\ UNCHANGED <<review, req>> /\ review # NoReview
        /\ complaint' \in [Complaints -> {"none", "pending", "resolved"}]
    BY <1>0, <1>13 DEF ReviewComplaint, ComplaintReject
  <2>2. QED
    BY <1>0, <1>3, <2>1
<1>15. ASSUME NEW p \in Procs, ComplaintResolve(p) PROVE EditKnowsTheStatus' /\ review' = review
  <2>1. /\ req' = [req EXCEPT ![p] = Idle] /\ review' = review
        /\ complaint' \in [Complaints -> {"none", "pending", "resolved"}]
    BY <1>0, <1>15 DEF ComplaintResolve, End, Continue
  <2>2. review # NoReview
    BY <1>0, <1>15 DEF ComplaintResolve
  <2>3. QED
    BY <1>0, <1>2, <2>1, <2>2
<1>16. ASSUME NEW p \in Procs, ReviewsCrash(p) PROVE EditKnowsTheStatus' /\ review' = review
  <2>1. req' = [req EXCEPT ![p] = Idle] /\ UNCHANGED <<review, complaint>>
    BY <1>16 DEF ReviewsCrash, Crash, reviewVars
  <2>2. QED
    BY <1>0, <1>2, <2>1
<1>14. ASSUME NEW p \in Procs, NEW c \in Complaints, ComplaintAccept(p, c)
       PROVE  EditKnowsTheStatus' /\ review'.status = "hidden"
  <2>1. /\ review # NoReview /\ review' = [review EXCEPT !.status = "hidden"] /\ complaint' = complaint
        /\ req' = [req EXCEPT ![p] = [op |-> "complaint_resolve", of |-> c]]
    BY <1>0, <1>14 DEF ComplaintAccept, SetStatus, Begin
  <2>2. review' \in ReviewRow /\ review'.status = "hidden"
    BY <1>0, <2>1, ReviewRows
  <2>3. /\ [op |-> "complaint_resolve", of |-> c] \in ReviewRequest
        /\ [op |-> "complaint_resolve", of |-> c].op # "review_edit"
    BY DEF ReviewRequest
  <2>4. review' # NoReview
    BY <2>2, ReviewStates
  <2>5. QED
    BY <1>0, <1>2, <2>1, <2>2, <2>3, <2>4
<1>17. QED
  BY <1>0, <1>4, <1>5, <1>6, <1>7, <1>8, <1>9, <1>10, <1>11, <1>12, <1>13, <1>14, <1>15, <1>16
     DEF ReviewsNext, ReviewStep, reviewVars

-----------------------------------------------------------------------------
(* Help on the road.                                                       *)

\* Who may answer a row is settled when it is posted: by its board and its author.
MayAnswerRow(t, u) ==
    IF roadPost[t].board = "help" THEN u # roadPost[t].author ELSE u \in Masters

\* An answer in flight is of a row there is, by one who may give it, and it is told
\* once the row is closed.
AnswerIsDue(p) ==
    /\ req[p].op \in {"road_answer", "road_tell"} =>
          req[p].of \in Posted /\ MayAnswerRow(req[p].of, req[p].by)
    /\ req[p].op = "road_tell" => ~roadPost[req[p].of].open

AnswersAreDue ==
    /\ RoadHelpTypeOK
    /\ \A p \in Procs : AnswerIsDue(p)
    /\ \A x \in told : x.of \in Posted /\ ~roadPost[x.of].open /\ MayAnswerRow(x.of, x.to)

LEMMA AnswersInit == WorkersInit /\ RoadHelpInit => AnswersAreDue
BY DEF WorkersInit, RoadHelpInit, AnswersAreDue, AnswerIsDue, RoadHelpTypeOK, Posted, Idle

\* What a request of each step holds.
LEMMA RoadRequests ==
    ASSUME RoadHelpTypeOK, NEW p \in Procs
    PROVE  /\ req[p].op = "road_save" => req[p] \in [op : {"road_save"}, board : Boards, author : Drivers]
           /\ req[p].op \in {"road_answer", "road_tell"} =>
                 req[p] \in [op : {"road_answer", "road_tell"}, of : RoadPosts, by : Drivers]
<1>1. req[p] \in RoadRequest \cup {Idle}
  BY DEF RoadHelpTypeOK
<1>2. QED
  BY <1>1 DEF RoadRequest, Idle

\* A row that is posted is a row, and nothing else is.
LEMMA RoadRows ==
    ASSUME RoadHelpTypeOK, NEW t \in RoadPosts
    PROVE  (t \in Posted) <=> roadPost[t] \in RoadPost
<1>1. ASSUME roadPost[t] \in RoadPost PROVE t \in Posted
  BY <1>1 DEF Posted, RoadPost, NoRoadPost, Boards
<1>2. QED
  BY <1>1 DEF RoadHelpTypeOK, Posted

\* A handler saves a row no one had, and nothing else of the rows moves.
LEMMA RowPosted ==
    ASSUME RoadHelpTypeOK, NEW p \in Procs, RoadPostSave(p)
    PROVE  \E t \in RoadPosts \ Posted :
              /\ roadPost' = [roadPost EXCEPT ![t] =
                     [board |-> req[p].board, author |-> req[p].author, open |-> TRUE, by |-> NoDriver]]
              /\ roadPost'[t] \in RoadPost
              /\ Posted' = Posted \cup {t}
<1>1. PICK t \in RoadPosts \ Posted :
          roadPost' = [roadPost EXCEPT ![t] =
              [board |-> req[p].board, author |-> req[p].author, open |-> TRUE, by |-> NoDriver]]
  BY DEF RoadPostSave
<1>2. req[p].board \in Boards /\ req[p].author \in Drivers
  BY RoadRequests DEF RoadPostSave, At
<1>3. roadPost'[t] \in RoadPost /\ roadPost'[t] # NoRoadPost
  BY <1>1, <1>2 DEF RoadPost, RoadHelpTypeOK, NoRoadPost, Boards
<1>4. \A o \in RoadPosts : o # t => roadPost'[o] = roadPost[o]
  BY <1>1 DEF RoadHelpTypeOK
<1>5. Posted' = Posted \cup {t}
  BY <1>3, <1>4 DEF Posted
<1>6. QED
  BY <1>1, <1>3, <1>5

\* An answer closes its row and names its hand: board and author stay.
LEMMA RowAnswered ==
    ASSUME RoadHelpTypeOK, NEW p \in Procs, AnswerSave(p), req[p].of \in Posted
    PROVE  /\ req[p].of \in RoadPosts /\ req[p].by \in Drivers
           /\ roadPost'[req[p].of] \in RoadPost
           /\ roadPost'[req[p].of].board = roadPost[req[p].of].board
           /\ roadPost'[req[p].of].author = roadPost[req[p].of].author
           /\ roadPost'[req[p].of].open = FALSE /\ roadPost'[req[p].of].by = req[p].by
           /\ \A o \in RoadPosts : o # req[p].of => roadPost'[o] = roadPost[o]
           /\ roadPost' \in [RoadPosts -> RoadPost \cup {NoRoadPost}]
           /\ Posted' = Posted
<1> DEFINE t == req[p].of
<1>1. t \in RoadPosts /\ req[p].by \in Drivers
  BY RoadRequests DEF AnswerSave, At
<1>2. roadPost[t] \in RoadPost
  BY <1>1, RoadRows
<1>3. roadPost' = [roadPost EXCEPT ![t] = [roadPost[t] EXCEPT !.open = FALSE, !.by = req[p].by]]
  BY <1>1 DEF AnswerSave, RoadHelpTypeOK
<1>4. roadPost'[t] = [roadPost[t] EXCEPT !.open = FALSE, !.by = req[p].by]
  BY <1>1, <1>3 DEF RoadHelpTypeOK
<1>5. /\ roadPost'[t] \in RoadPost
      /\ roadPost'[t].board = roadPost[t].board /\ roadPost'[t].author = roadPost[t].author
      /\ roadPost'[t].open = FALSE /\ roadPost'[t].by = req[p].by
  BY <1>1, <1>2, <1>4 DEF RoadPost
<1>6. \A o \in RoadPosts : o # t => roadPost'[o] = roadPost[o]
  BY <1>1, <1>3 DEF RoadHelpTypeOK
<1>7. roadPost' \in [RoadPosts -> RoadPost \cup {NoRoadPost}]
  BY <1>1, <1>3, <1>4, <1>5 DEF RoadHelpTypeOK
<1>8. roadPost'[t] # NoRoadPost
  BY <1>5 DEF RoadPost, NoRoadPost, Boards
<1>9. Posted' = Posted
  BY <1>1, <1>6, <1>8 DEF Posted
<1>10. QED
  BY <1>1, <1>5, <1>6, <1>7, <1>9

\* A step that leaves the worker `p` with a request `r`, or none.
LEMMA OneGoesOnOnTheRoad ==
    ASSUME RoadHelpTypeOK, NEW p \in Procs, NEW r \in RoadRequest \cup {Idle},
           req' = [req EXCEPT ![p] = r]
    PROVE  /\ req' \in [Procs -> RoadRequest \cup {Idle}]
           /\ req'[p] = r
           /\ \A q \in Procs : q # p => req'[q] = req[q]
BY DEF RoadHelpTypeOK

LEMMA AnswersStep == AnswersAreDue /\ [RoadHelpNext]_<<workerVars, roadVars>> => AnswersAreDue'
<1> SUFFICES ASSUME AnswersAreDue, [RoadHelpNext]_<<workerVars, roadVars>> PROVE AnswersAreDue'
  OBVIOUS
<1>0. RoadHelpTypeOK
  BY DEF AnswersAreDue
<1>1. Idle.op \notin {"road_answer", "road_tell"} /\ Idle \in RoadRequest \cup {Idle}
  BY DEF Idle
<1>2. ASSUME NEW p \in Procs, RoadPostSave(p) PROVE AnswersAreDue'
  <2>1. PICK t \in RoadPosts \ Posted :
            /\ roadPost' = [roadPost EXCEPT ![t] =
                   [board |-> req[p].board, author |-> req[p].author, open |-> TRUE, by |-> NoDriver]]
            /\ roadPost'[t] \in RoadPost
            /\ Posted' = Posted \cup {t}
    BY <1>0, <1>2, RowPosted
  <2>2. roadPost' \in [RoadPosts -> RoadPost \cup {NoRoadPost}] /\ told' = told
    BY <1>0, <1>2, <2>1 DEF RoadHelpTypeOK, RoadPostSave
  <2>3. \A o \in Posted : roadPost'[o] = roadPost[o] /\ o \in Posted'
    BY <1>0, <2>1 DEF RoadHelpTypeOK, Posted
  <2>4. req' = [req EXCEPT ![p] = Idle]
    BY <1>2 DEF RoadPostSave, End, Continue
  <2>5. /\ req' \in [Procs -> RoadRequest \cup {Idle}]
        /\ req'[p] = Idle /\ \A q \in Procs : q # p => req'[q] = req[q]
    BY <1>0, <1>1, <2>4, OneGoesOnOnTheRoad
  <2>6. RoadHelpTypeOK'
    BY <1>0, <2>2, <2>5 DEF RoadHelpTypeOK
  <2>7. \A x \in told' : x.of \in Posted' /\ ~roadPost'[x.of].open /\ MayAnswerRow(x.of, x.to)'
    BY <2>2, <2>3 DEF AnswersAreDue, MayAnswerRow
  <2>8. QED
    BY <1>1, <2>3, <2>5, <2>6, <2>7 DEF AnswersAreDue, AnswerIsDue, MayAnswerRow
<1>3. ASSUME NEW p \in Procs, AnswerSave(p) PROVE AnswersAreDue'
  <2>1. req[p].op = "road_answer" /\ req[p].of \in Posted /\ MayAnswerRow(req[p].of, req[p].by)
    BY <1>3 DEF AnswerSave, At, AnswersAreDue, AnswerIsDue
  <2>2. /\ req[p].of \in RoadPosts /\ req[p].by \in Drivers
        /\ roadPost'[req[p].of].board = roadPost[req[p].of].board
        /\ roadPost'[req[p].of].author = roadPost[req[p].of].author
        /\ roadPost'[req[p].of].open = FALSE
        /\ \A o \in RoadPosts : o # req[p].of => roadPost'[o] = roadPost[o]
        /\ roadPost' \in [RoadPosts -> RoadPost \cup {NoRoadPost}]
        /\ Posted' = Posted
    BY <1>0, <1>3, <2>1, RowAnswered
  <2>3. \A u : \A o \in Posted :
                             /\ MayAnswerRow(o, u) => MayAnswerRow(o, u)'
                             /\ ~roadPost[o].open => ~roadPost'[o].open
    BY <2>2 DEF MayAnswerRow, Posted
  <2>4. /\ [req[p] EXCEPT !.op = "road_tell"] \in RoadRequest
        /\ [req[p] EXCEPT !.op = "road_tell"].of = req[p].of
        /\ [req[p] EXCEPT !.op = "road_tell"].by = req[p].by
        /\ [req[p] EXCEPT !.op = "road_tell"].op = "road_tell"
    BY <1>0, <2>1, RoadRequests DEF RoadRequest
  <2>5. PICK r \in RoadRequest : r.of = req[p].of /\ r.by = req[p].by /\ r.op = "road_tell"
                                  /\ req' = [req EXCEPT ![p] = r]
    BY <1>3, <2>4 DEF AnswerSave, Goto, Continue
  <2>6. /\ req' \in [Procs -> RoadRequest \cup {Idle}]
        /\ req'[p] = r /\ \A q \in Procs : q # p => req'[q] = req[q]
    BY <1>0, <2>5, OneGoesOnOnTheRoad
  <2>7. RoadHelpTypeOK'
    BY <1>0, <1>3, <2>2, <2>6 DEF RoadHelpTypeOK, AnswerSave
  <2>8. \A x \in told' : x.of \in Posted' /\ ~roadPost'[x.of].open /\ MayAnswerRow(x.of, x.to)'
    BY <1>3, <2>2, <2>3 DEF AnswersAreDue, AnswerSave
  <2>9. ASSUME NEW q \in Procs PROVE AnswerIsDue(q)'
    <3>1. CASE q # p
      <4>1. AnswerIsDue(q) /\ req'[q] = req[q]
        BY <2>6, <3>1 DEF AnswersAreDue
      <4>2. QED
        BY <2>2, <2>3, <4>1 DEF AnswerIsDue
    <3>2. CASE q = p
      <4>1. req[p].of \in Posted' /\ MayAnswerRow(req[p].of, req[p].by) /\ ~roadPost'[req[p].of].open
        BY <2>1, <2>2
      <4>2. QED
        BY <2>2, <2>5, <2>6, <3>2, <4>1 DEF AnswerIsDue, MayAnswerRow
    <3>3. QED
      BY <3>1, <3>2
  <2>10. QED
    BY <2>7, <2>8, <2>9 DEF AnswersAreDue
<1>4. ASSUME NEW p \in Procs, AnswerTold(p) PROVE AnswersAreDue'
  <2>1. /\ req[p].of \in Posted /\ MayAnswerRow(req[p].of, req[p].by) /\ ~roadPost[req[p].of].open
        /\ req[p].of \in RoadPosts /\ req[p].by \in Drivers
    BY <1>0, <1>4, RoadRequests DEF AnswerTold, At, AnswersAreDue, AnswerIsDue
  <2>2. roadPost' = roadPost /\ told' = told \cup {[of |-> req[p].of, to |-> req[p].by]} /\ Posted' = Posted
    BY <1>4 DEF AnswerTold, Posted
  <2>3. /\ req' \in [Procs -> RoadRequest \cup {Idle}]
        /\ req'[p] = Idle /\ \A q \in Procs : q # p => req'[q] = req[q]
    BY <1>0, <1>1, <1>4, OneGoesOnOnTheRoad DEF AnswerTold, End, Continue
  <2>4. RoadHelpTypeOK'
    BY <1>0, <2>1, <2>2, <2>3 DEF RoadHelpTypeOK
  <2>5. QED
    BY <1>1, <2>1, <2>2, <2>3, <2>4 DEF AnswersAreDue, AnswerIsDue, MayAnswerRow
<1>5. ASSUME UNCHANGED roadVars, NEW p \in Procs, NEW r \in RoadRequest \cup {Idle},
             req' = [req EXCEPT ![p] = r],
             r.op \in {"road_answer", "road_tell"} =>
                r.op = "road_answer" /\ r.of \in Posted /\ MayAnswerRow(r.of, r.by)
      PROVE  AnswersAreDue'
  <2>1. roadPost' = roadPost /\ told' = told /\ Posted' = Posted
    BY <1>5 DEF roadVars, Posted
  <2>2. /\ req' \in [Procs -> RoadRequest \cup {Idle}]
        /\ req'[p] = r /\ \A q \in Procs : q # p => req'[q] = req[q]
    BY <1>0, <1>5, OneGoesOnOnTheRoad
  <2>3. QED
    BY <1>0, <1>5, <2>1, <2>2 DEF AnswersAreDue, AnswerIsDue, RoadHelpTypeOK, MayAnswerRow
<1>6. ASSUME NEW p \in Procs, RoadStops(p) \/ RoadHelpCrash(p) PROVE AnswersAreDue'
  BY <1>1, <1>5, <1>6 DEF RoadStops, RoadHelpCrash, Crash, End, Continue
<1>7. ASSUME NEW p \in Procs, NEW board \in Boards, NEW a \in Drivers, PostRead(p, board, a)
      PROVE  AnswersAreDue'
  <2>1. PICK r \in RoadRequest : r.op = "road_save" /\ req' = [req EXCEPT ![p] = r]
    <3>1. [op |-> "road_save", board |-> board, author |-> a] \in RoadRequest
      BY DEF RoadRequest
    <3>2. QED
      BY <1>7, <3>1 DEF PostRead, Begin
  <2>2. QED
    BY <1>5, <1>7, <2>1 DEF PostRead
<1>8. ASSUME NEW p \in Procs, NEW t \in RoadPosts, NEW u \in Drivers, AnswerRead(p, t, u)
      PROVE  AnswersAreDue'
  <2>1. PICK r \in RoadRequest : /\ r.op = "road_answer" /\ r.of = t /\ r.by = u
                                 /\ req' = [req EXCEPT ![p] = r]
    <3>1. [op |-> "road_answer", of |-> t, by |-> u] \in RoadRequest
      BY DEF RoadRequest
    <3>2. QED
      BY <1>8, <3>1 DEF AnswerRead, Begin
  <2>2. t \in Posted /\ MayAnswerRow(t, u)
    BY <1>8 DEF AnswerRead, MayAnswer, MayAnswerRow
  <2>3. QED
    BY <1>5, <1>8, <2>1, <2>2 DEF AnswerRead
<1>9. CASE UNCHANGED <<workerVars, roadVars>>
  BY <1>0, <1>9 DEF AnswersAreDue, AnswerIsDue, RoadHelpTypeOK, Posted, MayAnswerRow, roadVars
<1>10. QED
  BY <1>2, <1>3, <1>4, <1>6, <1>7, <1>8, <1>9 DEF RoadHelpNext, RoadHelpStep

LEMMA AnswersGoToHelpers == AnswersAreDue => NumberGoesToHelper
BY DEF AnswersAreDue, NumberGoesToHelper, MayAnswerRow, BoardPage, OpenPosts

\* However handlers overlap, and wherever their workers die, the telephone of a driver
\* in trouble is told once his row has left the board, to one who may answer it.
THEOREM NumberIsForHelpers == RoadHelpSpec => []NumberGoesToHelper
BY AnswersInit, AnswersStep, AnswersGoToHelpers, PTL DEF RoadHelpSpec

\* One at a time: who asks has room for one more until his row is saved, the row that
\* is answered is open until then, and it names who is told.
OpenWithin(a) ==
    Cardinality(OpenOf("help", a)) <= MostHelp /\ Cardinality(OpenOf("problem", a)) <= 1

WithRoom == {x \in Boards \X Drivers : MayAsk(x[1], x[2])}

RequestHolds(p) ==
    /\ req[p].op = "road_save" => <<req[p].board, req[p].author>> \in WithRoom
    /\ req[p].op = "road_answer" => roadPost[req[p].of].open
    /\ req[p].op = "road_tell" => roadPost[req[p].of].by = req[p].by

RoadSerial ==
    /\ AnswersAreDue
    /\ IsFiniteSet(Posted)
    /\ \A a \in Drivers : OpenWithin(a)
    /\ \A p \in Procs : RequestHolds(p)
    /\ \A x \in told : roadPost[x.of].by = x.to

LEMMA RoadInit == WorkersInit /\ RoadHelpInit => RoadSerial
<1> SUFFICES ASSUME WorkersInit, RoadHelpInit PROVE RoadSerial
  OBVIOUS
<1>1. Posted = {} /\ told = {}
  BY DEF RoadHelpInit, Posted
<1>2. ASSUME NEW a \in Drivers PROVE OpenWithin(a)
  <2>1. OpenOf("help", a) = {} /\ OpenOf("problem", a) = {}
    BY <1>1 DEF OpenOf, OpenPosts
  <2>2. QED
    BY <2>1, FS_EmptySet, RoadHelpAssumption DEF OpenWithin
<1>3. \A p \in Procs : RequestHolds(p)
  BY DEF WorkersInit, RequestHolds, Idle
<1>4. QED
  BY <1>1, <1>2, <1>3, AnswersInit, FS_EmptySet DEF RoadSerial

\* No more is open after a step whose rows are open only where they were.
LEMMA LessIsOpen ==
    ASSUME IsFiniteSet(Posted), NEW a \in Drivers, OpenWithin(a),
           OpenOf("help", a)' \subseteq OpenOf("help", a),
           OpenOf("problem", a)' \subseteq OpenOf("problem", a)
    PROVE  OpenWithin(a)'
<1>1. OpenOf("help", a) \subseteq Posted /\ OpenOf("problem", a) \subseteq Posted
  BY DEF OpenOf, OpenPosts
<1>2. IsFiniteSet(OpenOf("help", a)) /\ IsFiniteSet(OpenOf("problem", a))
  BY <1>1, FS_Subset
<1>3. /\ Cardinality(OpenOf("help", a)) \in Nat /\ Cardinality(OpenOf("problem", a)) \in Nat
      /\ Cardinality(OpenOf("help", a)') \in Nat /\ Cardinality(OpenOf("problem", a)') \in Nat
      /\ Cardinality(OpenOf("help", a)') <= Cardinality(OpenOf("help", a))
      /\ Cardinality(OpenOf("problem", a)') <= Cardinality(OpenOf("problem", a))
  BY <1>2, FS_Subset, FS_CardinalityType
<1>4. QED
  BY <1>3, RoadHelpAssumption DEF OpenWithin

\* The row that is saved is one more for its author on its board, and there is room.
LEMMA OneMoreIsOpen ==
    ASSUME RoadSerial, NEW p \in Procs, RoadPostSave(p), NEW a \in Drivers
    PROVE  OpenWithin(a)'
<1>0. RoadHelpTypeOK
  BY DEF RoadSerial, AnswersAreDue
<1>1. PICK t \in RoadPosts \ Posted :
          /\ roadPost' = [roadPost EXCEPT ![t] =
                 [board |-> req[p].board, author |-> req[p].author, open |-> TRUE, by |-> NoDriver]]
          /\ Posted' = Posted \cup {t}
  BY <1>0, RowPosted
<1>2. req[p].board \in Boards /\ req[p].author \in Drivers /\ MayAsk(req[p].board, req[p].author)
  BY <1>0, RoadRequests DEF RoadPostSave, At, RoadSerial, RequestHolds, WithRoom
<1>3. /\ roadPost'[t].board = req[p].board /\ roadPost'[t].author = req[p].author /\ roadPost'[t].open
      /\ \A o \in Posted : roadPost'[o] = roadPost[o]
  BY <1>0, <1>1 DEF RoadHelpTypeOK, Posted
<1>4. \A b : OpenOf(b, a)' = IF b = req[p].board /\ a = req[p].author
                             THEN OpenOf(b, a) \cup {t} ELSE OpenOf(b, a)
  BY <1>1, <1>3 DEF OpenOf, OpenPosts
<1>5. ASSUME NEW b PROVE OpenOf(b, a) \subseteq Posted /\ IsFiniteSet(OpenOf(b, a)) /\ Cardinality(OpenOf(b, a)) \in Nat
  <2>1. OpenOf(b, a) \subseteq Posted
    BY DEF OpenOf, OpenPosts
  <2>2. QED
    BY <2>1, FS_Subset, FS_CardinalityType DEF RoadSerial
<1>6. \A b : t \notin OpenOf(b, a)
  BY <1>1, <1>5
<1>7. ASSUME NEW b, b = req[p].board, a = req[p].author
      PROVE  Cardinality(OpenOf(b, a)') = Cardinality(OpenOf(b, a)) + 1
  <2>1. OpenOf(b, a)' = OpenOf(b, a) \cup {t}
    BY <1>4, <1>7
  <2>2. QED
    BY <1>5, <1>6, <2>1, FS_AddElement
<1>8. OpenWithin(a)
  BY DEF RoadSerial
<1>9. CASE a = req[p].author /\ req[p].board = "help"
  <2>1. Cardinality(OpenOf("help", a)) < MostHelp
    BY <1>2, <1>9 DEF MayAsk
  <2>2. OpenOf("problem", a)' = OpenOf("problem", a)
    BY <1>4, <1>9
  <2>3. Cardinality(OpenOf("help", a)') = Cardinality(OpenOf("help", a)) + 1
    BY <1>7, <1>9
  <2>4. QED
    BY <1>5, <1>8, <2>1, <2>2, <2>3, RoadHelpAssumption DEF OpenWithin
<1>10. CASE a = req[p].author /\ req[p].board = "problem"
  <2>1. OpenOf("problem", a) = {}
    BY <1>2, <1>10 DEF MayAsk
  <2>2. OpenOf("help", a)' = OpenOf("help", a)
    BY <1>4, <1>10
  <2>3. Cardinality(OpenOf("problem", a)') = Cardinality(OpenOf("problem", a)) + 1
    BY <1>7, <1>10
  <2>4. QED
    BY <1>8, <2>1, <2>2, <2>3, FS_EmptySet DEF OpenWithin
<1>11. CASE a # req[p].author
  <2>1. OpenOf("help", a)' = OpenOf("help", a) /\ OpenOf("problem", a)' = OpenOf("problem", a)
    BY <1>4, <1>11
  <2>2. QED
    BY <1>8, <2>1 DEF OpenWithin
<1>12. QED
  BY <1>2, <1>9, <1>10, <1>11 DEF Boards

\* What HelperStays says of a step.
HelperKept ==
    /\ \A t \in Posted : ~roadPost[t].open => roadPost'[t] = roadPost[t]
    /\ \A x \in told' : roadPost'[x.of].by = x.to

LEMMA RoadStepKeeps ==
    ASSUME \A p, q \in Procs : p = q, RoadSerial, [RoadHelpNext]_<<workerVars, roadVars>>
    PROVE  RoadSerial' /\ HelperKept
<1>0. RoadHelpTypeOK /\ AnswersAreDue /\ AnswersAreDue'
  BY AnswersStep DEF RoadSerial, AnswersAreDue
<1>1. ASSUME UNCHANGED roadVars PROVE /\ HelperKept /\ Posted' = Posted
                                      /\ \A a \in Drivers : OpenWithin(a)'
                                      /\ \A x \in told' : roadPost'[x.of].by = x.to
                                      /\ roadPost' = roadPost
  BY <1>1 DEF RoadSerial, HelperKept, Posted, OpenWithin, OpenOf, OpenPosts, roadVars
<1>2. ASSUME NEW p \in Procs, NEW r \in RoadRequest \cup {Idle}, req' = [req EXCEPT ![p] = r]
      PROVE  req'[p] = r /\ \A q \in Procs : q = p
  BY <1>0, <1>2, OneGoesOnOnTheRoad
<1>3. Idle \in RoadRequest \cup {Idle} /\ Idle.op \notin {"road_save", "road_answer", "road_tell"}
  BY DEF Idle
<1>4. ASSUME NEW p \in Procs, RoadPostSave(p) PROVE RoadSerial' /\ HelperKept
  <2>1. PICK t \in RoadPosts \ Posted :
            /\ roadPost' = [roadPost EXCEPT ![t] =
                   [board |-> req[p].board, author |-> req[p].author, open |-> TRUE, by |-> NoDriver]]
            /\ Posted' = Posted \cup {t}
    BY <1>0, <1>4, RowPosted
  <2>2. (\A o \in Posted : roadPost'[o] = roadPost[o]) /\ told' = told
    BY <1>0, <1>4, <2>1 DEF RoadHelpTypeOK, Posted, RoadPostSave
  <2>3. \A x \in told : x.of \in Posted /\ roadPost[x.of].by = x.to
    BY DEF RoadSerial, AnswersAreDue
  <2>4. HelperKept
    BY <2>2, <2>3 DEF HelperKept
  <2>5. IsFiniteSet(Posted')
    BY <2>1, FS_AddElement DEF RoadSerial
  <2>6. \A q \in Procs : RequestHolds(q)'
    <3>1. req'[p] = Idle /\ \A q \in Procs : q = p
      BY <1>2, <1>3, <1>4 DEF RoadPostSave, End, Continue
    <3>2. QED
      BY <1>3, <3>1 DEF RequestHolds
  <2>7. \A a \in Drivers : OpenWithin(a)'
    BY <1>4, OneMoreIsOpen
  <2>8. QED
    BY <1>0, <2>4, <2>5, <2>6, <2>7 DEF RoadSerial, HelperKept
<1>5. ASSUME NEW p \in Procs, AnswerSave(p) PROVE RoadSerial' /\ HelperKept
  <2>1. req[p].op = "road_answer" /\ req[p].of \in Posted /\ roadPost[req[p].of].open
    BY <1>5 DEF AnswerSave, At, AnswersAreDue, AnswerIsDue, RoadSerial, RequestHolds
  <2>2. /\ req[p].of \in RoadPosts
        /\ roadPost'[req[p].of].board = roadPost[req[p].of].board
        /\ roadPost'[req[p].of].author = roadPost[req[p].of].author
        /\ roadPost'[req[p].of].open = FALSE /\ roadPost'[req[p].of].by = req[p].by
        /\ \A o \in RoadPosts : o # req[p].of => roadPost'[o] = roadPost[o]
        /\ Posted' = Posted
    BY <1>0, <1>5, <2>1, RowAnswered
  <2>3. \A o \in Posted : ~roadPost[o].open => roadPost'[o] = roadPost[o]
    BY <2>1, <2>2 DEF Posted
  <2>4. \A x \in told' : x.of \in Posted /\ ~roadPost[x.of].open /\ roadPost[x.of].by = x.to
    BY <1>5 DEF AnswerSave, RoadSerial, AnswersAreDue
  <2>5. HelperKept
    BY <2>3, <2>4 DEF HelperKept
  <2>6. ASSUME NEW a \in Drivers PROVE OpenWithin(a)'
    <3>1. ASSUME NEW b PROVE OpenOf(b, a)' \subseteq OpenOf(b, a)
      BY <2>1, <2>2 DEF OpenOf, OpenPosts, Posted
    <3>2. QED
      BY <3>1, LessIsOpen DEF RoadSerial
  <2>7. \A q \in Procs : RequestHolds(q)'
    <3>1. /\ [req[p] EXCEPT !.op = "road_tell"] \in RoadRequest
          /\ [req[p] EXCEPT !.op = "road_tell"].of = req[p].of
          /\ [req[p] EXCEPT !.op = "road_tell"].by = req[p].by
          /\ [req[p] EXCEPT !.op = "road_tell"].op = "road_tell"
      BY <1>0, <2>1, RoadRequests DEF RoadRequest
    <3>2. PICK r \in RoadRequest : r.of = req[p].of /\ r.by = req[p].by /\ r.op = "road_tell"
                                    /\ req' = [req EXCEPT ![p] = r]
      BY <1>5, <3>1 DEF AnswerSave, Goto, Continue
    <3>3. req'[p] = r /\ \A q \in Procs : q = p
      BY <1>2, <3>2
    <3>4. QED
      BY <2>2, <3>2, <3>3 DEF RequestHolds
  <2>8. QED
    BY <1>0, <2>2, <2>5, <2>6, <2>7 DEF RoadSerial, HelperKept
<1>6. ASSUME NEW p \in Procs, AnswerTold(p) PROVE RoadSerial' /\ HelperKept
  <2>1. roadPost' = roadPost /\ Posted' = Posted /\ told' = told \cup {[of |-> req[p].of, to |-> req[p].by]}
    BY <1>6 DEF AnswerTold, Posted
  <2>2. roadPost[req[p].of].by = req[p].by
    BY <1>6 DEF AnswerTold, At, RoadSerial, RequestHolds
  <2>3. \A x \in told' : roadPost'[x.of].by = x.to
    BY <2>1, <2>2 DEF RoadSerial
  <2>4. HelperKept
    BY <2>1, <2>3 DEF HelperKept
  <2>5. \A q \in Procs : RequestHolds(q)'
    <3>1. req'[p] = Idle /\ \A q \in Procs : q = p
      BY <1>2, <1>3, <1>6 DEF AnswerTold, End, Continue
    <3>2. QED
      BY <1>3, <3>1 DEF RequestHolds
  <2>6. \A a \in Drivers : OpenWithin(a)'
    BY <2>1 DEF RoadSerial, OpenWithin, OpenOf, OpenPosts
  <2>7. QED
    BY <1>0, <2>1, <2>3, <2>4, <2>5, <2>6 DEF RoadSerial
<1>7. ASSUME UNCHANGED roadVars, NEW p \in Procs, NEW r \in RoadRequest \cup {Idle},
             req' = [req EXCEPT ![p] = r],
             r.op = "road_save" => <<r.board, r.author>> \in WithRoom,
             r.op = "road_answer" => roadPost[r.of].open,
             r.op # "road_tell"
      PROVE  RoadSerial' /\ HelperKept
  <2>1. \A q \in Procs : RequestHolds(q)'
    <3>1. req'[p] = r /\ \A q \in Procs : q = p
      BY <1>2, <1>7
    <3>2. roadPost' = roadPost
      BY <1>1, <1>7
    <3>3. WithRoom' = WithRoom
      BY <3>2 DEF WithRoom, MayAsk, OpenOf, OpenPosts, Posted
    <3>4. QED
      BY <1>7, <3>1, <3>2, <3>3 DEF RequestHolds
  <2>2. QED
    BY <1>0, <1>1, <1>7, <2>1 DEF RoadSerial
<1>8. ASSUME NEW p \in Procs, RoadStops(p) \/ RoadHelpCrash(p) PROVE RoadSerial' /\ HelperKept
  BY <1>3, <1>7, <1>8 DEF RoadStops, RoadHelpCrash, Crash, End, Continue
<1>9. ASSUME NEW p \in Procs, NEW board \in Boards, NEW a \in Drivers, PostRead(p, board, a)
      PROVE  RoadSerial' /\ HelperKept
  <2>1. PICK r \in RoadRequest : /\ r.op = "road_save" /\ r.board = board /\ r.author = a
                                 /\ req' = [req EXCEPT ![p] = r]
    <3>1. [op |-> "road_save", board |-> board, author |-> a] \in RoadRequest
      BY DEF RoadRequest
    <3>2. QED
      BY <1>9, <3>1 DEF PostRead, Begin
  <2>2. QED
    BY <1>7, <1>9, <2>1 DEF PostRead, WithRoom
<1>10. ASSUME NEW p \in Procs, NEW t \in RoadPosts, NEW u \in Drivers, AnswerRead(p, t, u)
       PROVE  RoadSerial' /\ HelperKept
  <2>1. PICK r \in RoadRequest : /\ r.op = "road_answer" /\ r.of = t
                                 /\ req' = [req EXCEPT ![p] = r]
    <3>1. [op |-> "road_answer", of |-> t, by |-> u] \in RoadRequest
      BY DEF RoadRequest
    <3>2. QED
      BY <1>10, <3>1 DEF AnswerRead, Begin
  <2>2. QED
    BY <1>7, <1>10, <2>1 DEF AnswerRead
<1>11. CASE UNCHANGED <<workerVars, roadVars>>
  <2>1. \A q \in Procs : RequestHolds(q)'
    <3>1. WithRoom' = WithRoom
      BY <1>11 DEF WithRoom, MayAsk, OpenOf, OpenPosts, Posted, roadVars
    <3>2. QED
      BY <1>11, <3>1 DEF RoadSerial, RequestHolds, roadVars
  <2>2. QED
    BY <1>0, <1>1, <1>11, <2>1 DEF RoadSerial
<1>12. QED
  BY <1>4, <1>5, <1>6, <1>8, <1>9, <1>10, <1>11 DEF RoadHelpNext, RoadHelpStep

LEMMA OpenIsWithinLimit == RoadSerial => OpenWithinLimit
BY DEF RoadSerial, OpenWithin, OpenWithinLimit

-----------------------------------------------------------------------------
(* Mails that remind of a visit.                                           *)

USE DEF reminderVars

\* The time of the n-th beat of a visit's window, whether a beat has been taken, and who
\* has the visit on his list.
WindowBeat(v, n) == VisitStart[v] - 26 + (VisitStart[v] % BeatEvery) + BeatEvery * n
Beaten(time) == clock > time \/ (clock = time /\ beaten)
Carries(p, v) == req[p] # Idle /\ v \in req[p].visits
Lost(v) == misfortunes[v] + crashes

\* A visit confirmed before its window and not reminded of has been on a list at every
\* beat of its window: on one that is being worked off, or one that was lost.
MailIsDue(v) ==
    visit[v].status = "confirmed" /\ confirmedAt[v] < VisitStart[v] - 26 /\ ~mailed[v]
\* A visit has been on a list at every beat of its window so far.
OnLists(v) ==
    /\ Beaten(WindowBeat(v, 0)) => Lost(v) >= 1 \/ \E p \in Procs : Carries(p, v)
    /\ Beaten(WindowBeat(v, 1)) =>
          \/ Lost(v) >= 2
          \/ Lost(v) >= 1 /\ \E p \in Procs : Carries(p, v)
          \/ \E p, q \in Procs : p # q /\ Carries(p, v) /\ Carries(q, v)

BeatsReachVisits ==
    /\ RemindersTypeOK /\ crashes \in Nat
    /\ \A v \in Visits : visit[v].sent => mailed[v]
    /\ \A p \in Procs : At(p, "remind_mark") => mailed[req[p].visit]
    /\ \A v \in Visits : visit[v].status = "confirmed" => confirmedAt[v] <= clock
    /\ \A v \in Visits : MailIsDue(v) => OnLists(v)

LEMMA BeatsInit == WorkersInit /\ RemindersInit => BeatsReachVisits
<1> SUFFICES ASSUME WorkersInit, RemindersInit PROVE BeatsReachVisits
  OBVIOUS
<1>1. RemindersTypeOK
  <2>1. req \in [Procs -> {Idle}]
    BY DEF WorkersInit
  <2>2. clock \in 0..MaxClock /\ confirmedAt \in [Visits -> 0..MaxClock]
    BY RemindersAssumption DEF RemindersInit
  <2>3. QED
    BY <2>1, <2>2 DEF RemindersInit, RemindersTypeOK
<1>2. \A p \in Procs : req[p] = Idle
  BY DEF WorkersInit
<1>3. \A v \in Visits : visit[v] = [status |-> "pending", sent |-> FALSE]
  BY DEF RemindersInit
<1>4. crashes \in Nat
  BY DEF WorkersInit
<1>5. QED
  BY <1>1, <1>2, <1>3, <1>4 DEF BeatsReachVisits, MailIsDue, At, Idle

\* A window has two beats, even and at most four apart.
LEMMA WindowBeats ==
    ASSUME NEW v \in Visits
    PROVE  /\ WindowBeat(v, 0) \in Int /\ WindowBeat(v, 1) = WindowBeat(v, 0) + 2
           /\ WindowBeat(v, 0) % 2 = 0 /\ WindowBeat(v, 1) % 2 = 0
           /\ VisitStart[v] - 26 <= WindowBeat(v, 0) /\ WindowBeat(v, 1) <= VisitStart[v] - 22
           /\ VisitStart[v] \in Nat
<1>1. VisitStart[v] \in Nat
  BY RemindersAssumption
<1>2. QED
  BY <1>1 DEF WindowBeat, BeatEvery

\* Nothing is due of a visit before its window.
LEMMA DueLater ==
    ASSUME BeatsReachVisits, NEW v \in Visits, MailIsDue(v)
    PROVE  VisitStart[v] > 26 /\ confirmedAt[v] \in Nat
BY WindowBeats DEF BeatsReachVisits, RemindersTypeOK, MailIsDue

\* It still has when no list loses it.
LEMMA ListsKept ==
    ASSUME NEW v \in Visits, OnLists(v), Lost(v) \in Nat, Lost(v)' \in Nat, Lost(v)' >= Lost(v),
           \A p \in Procs : Carries(p, v) => Carries(p, v)',
           Beaten(WindowBeat(v, 0))' => Beaten(WindowBeat(v, 0)),
           Beaten(WindowBeat(v, 1))' => Beaten(WindowBeat(v, 1))
    PROVE  OnLists(v)'
<1>1. \A k \in {1, 2} : Lost(v) >= k => Lost(v)' >= k
  OBVIOUS
<1>2. QED
  BY <1>1 DEF OnLists

\* And when one does that is counted.
LEMMA ListLost ==
    ASSUME NEW v \in Visits, OnLists(v), Lost(v) \in Nat, Lost(v)' = Lost(v) + 1,
           NEW p \in Procs, \A q \in Procs \ {p} : Carries(q, v) => Carries(q, v)',
           Beaten(WindowBeat(v, 0))' => Beaten(WindowBeat(v, 0)),
           Beaten(WindowBeat(v, 1))' => Beaten(WindowBeat(v, 1))
    PROVE  OnLists(v)'
<1>1. Lost(v)' >= 1 /\ (Lost(v) >= 1 => Lost(v)' >= 2)
  OBVIOUS
<1>2. (\E q, r \in Procs : q # r /\ Carries(q, v) /\ Carries(r, v)) => \E q \in Procs : Carries(q, v)'
  OBVIOUS
<1>3. Lost(v) >= 2 => Lost(v) >= 1
  OBVIOUS
<1>4. QED
  BY <1>1, <1>2, <1>3 DEF OnLists

LEMMA RemindersTyped ==
    RemindersTypeOK /\ [RemindersNext]_<<workerVars, reminderVars>> => RemindersTypeOK'
<1> SUFFICES ASSUME RemindersTypeOK, [RemindersNext]_<<workerVars, reminderVars>> PROVE RemindersTypeOK'
  OBVIOUS
<1> DEFINE Lists == [op : {"remind"}, visits : SUBSET Visits]
                      \cup [op : {"remind_mark"}, visit : Visits, visits : SUBSET Visits] \cup {Idle}
<1>0. /\ clock \in Nat /\ MaxClock \in Nat /\ clock <= MaxClock /\ clock \in 0..MaxClock
      /\ req \in [Procs -> Lists]
  BY RemindersAssumption DEF RemindersTypeOK
<1>a. ASSUME NEW p \in Procs, NEW r, r \in Lists, req' = [req EXCEPT ![p] = r]
      PROVE  req' \in [Procs -> Lists]
  <2> HIDE DEF Lists
  <2>1. QED
    BY <1>0, <1>a
<1>b. ASSUME NEW S \in SUBSET Visits PROVE [op |-> "remind", visits |-> S] \in Lists
  OBVIOUS
<1>c. ASSUME NEW S \in SUBSET Visits, NEW v \in Visits
      PROVE  [op |-> "remind_mark", visit |-> v, visits |-> S] \in Lists
  OBVIOUS
<1>d. ASSUME NEW p \in Procs, At(p, "remind") PROVE req[p].visits \subseteq Visits
  BY <1>0, <1>d DEF At, Idle
<1>e. ASSUME NEW p \in Procs, At(p, "remind_mark") PROVE req[p].visits \subseteq Visits /\ req[p].visit \in Visits
  BY <1>0, <1>e DEF At, Idle
<1>1. CASE UNCHANGED <<workerVars, reminderVars>>
  BY <1>1 DEF RemindersTypeOK
<1>2. ASSUME NEW v \in Visits, VisitConfirmed(v) PROVE RemindersTypeOK'
  BY <1>0, <1>2 DEF RemindersTypeOK, VisitConfirmed
<1>3. ASSUME NEW v \in Visits, VisitCanceled(v) PROVE RemindersTypeOK'
  BY <1>3 DEF RemindersTypeOK, VisitCanceled
<1>4. CASE ClockTicks
  <2>1. clock' \in 0..MaxClock
    BY <1>0, <1>4 DEF ClockTicks
  <2>2. QED
    BY <1>4, <2>1 DEF RemindersTypeOK, ClockTicks
<1>5. ASSUME NEW p \in Procs, RemindersRead(p) PROVE RemindersTypeOK'
  <2> DEFINE due == {v \in Visits : visit[v] = [status |-> "confirmed", sent |-> FALSE] /\ InWindow(v)}
  <2>1. due \in SUBSET Visits
    OBVIOUS
  <2> HIDE DEF due
  <2>2. req' = [req EXCEPT ![p] = [op |-> "remind", visits |-> due]]
    BY <1>5 DEF RemindersRead, Begin, due
  <2>3. req' \in [Procs -> Lists]
    BY <1>a, <1>b, <2>1, <2>2
  <2>4. QED
    BY <1>5, <2>3 DEF RemindersTypeOK, RemindersRead
<1>6. ASSUME NEW p \in Procs, ReminderMailed(p) PROVE RemindersTypeOK'
  <2>1. PICK v \in req[p].visits :
          /\ mailed' = [mailed EXCEPT ![v] = TRUE]
          /\ req' = [req EXCEPT ![p] = [op |-> "remind_mark", visit |-> v, visits |-> req[p].visits \ {v}]]
    BY <1>6 DEF ReminderMailed, Continue
  <2>2. v \in Visits /\ req[p].visits \ {v} \in SUBSET Visits
    BY <1>6, <1>d, <2>1 DEF ReminderMailed
  <2>3. req' \in [Procs -> Lists]
    BY <1>a, <1>c, <2>1, <2>2
  <2>4. QED
    BY <1>6, <2>1, <2>2, <2>3 DEF RemindersTypeOK, ReminderMailed
<1>7. ASSUME NEW p \in Procs, ReminderFailed(p) PROVE RemindersTypeOK'
  <2>1. PICK v \in req[p].visits :
          /\ misfortunes' = [misfortunes EXCEPT ![v] = @ + 1]
          /\ req' = [req EXCEPT ![p] = [op |-> "remind", visits |-> req[p].visits \ {v}]]
    BY <1>7 DEF ReminderFailed, Continue
  <2>2. v \in Visits /\ req[p].visits \ {v} \in SUBSET Visits
    BY <1>7, <1>d, <2>1 DEF ReminderFailed
  <2>3. req' \in [Procs -> Lists]
    BY <1>a, <1>b, <2>1, <2>2
  <2>4. QED
    BY <1>7, <2>1, <2>2, <2>3 DEF RemindersTypeOK, ReminderFailed
<1>8. ASSUME NEW p \in Procs, ReminderMarked(p) PROVE RemindersTypeOK'
  <2>1. /\ req' = [req EXCEPT ![p] = [op |-> "remind", visits |-> req[p].visits]]
        /\ visit' = [visit EXCEPT ![req[p].visit].sent = TRUE]
        /\ UNCHANGED <<clock, beaten, confirmedAt, mailed, misfortunes>>
    BY <1>8 DEF ReminderMarked, Continue
  <2>2. req[p].visits \in SUBSET Visits /\ req[p].visit \in Visits
    BY <1>8, <1>e DEF ReminderMarked
  <2>3. req' \in [Procs -> Lists]
    BY <1>a, <1>b, <2>1, <2>2
  <2>4. visit' \in [Visits -> [status : {"pending", "confirmed", "canceled"}, sent : BOOLEAN]]
    BY <2>1, <2>2 DEF RemindersTypeOK
  <2>5. QED
    BY <2>1, <2>3, <2>4 DEF RemindersTypeOK
<1>9. ASSUME NEW p \in Procs, RemindersDone(p) \/ RemindersCrash(p) PROVE RemindersTypeOK'
  <2>1. req' = [req EXCEPT ![p] = Idle] /\ UNCHANGED reminderVars
    BY <1>9 DEF RemindersDone, End, Continue, RemindersCrash, Crash
  <2>2. req' \in [Procs -> Lists]
    BY <1>a, <2>1
  <2>3. QED
    BY <2>1, <2>2 DEF RemindersTypeOK
<1>10. QED
  BY <1>1, <1>2, <1>3, <1>4, <1>5, <1>6, <1>7, <1>8, <1>9 DEF RemindersNext, RemindersStep

LEMMA BeatsCrashes ==
    ASSUME crashes \in Nat, [RemindersNext]_<<workerVars, reminderVars>> PROVE crashes' \in Nat
<1>1. \A v \in Visits : VisitConfirmed(v) \/ VisitCanceled(v) => crashes' = crashes
  BY DEF VisitConfirmed, VisitCanceled
<1>2. ClockTicks => crashes' = crashes
  BY DEF ClockTicks
<1>3. \A p \in Procs : RemindersStep(p) => crashes' = crashes
  BY DEF RemindersStep, RemindersRead, ReminderMailed, ReminderFailed, ReminderMarked, RemindersDone,
         Begin, Continue, End
<1>4. \A p \in Procs : RemindersCrash(p) => crashes' = crashes + 1
  BY DEF RemindersCrash, Crash
<1>5. UNCHANGED <<workerVars, reminderVars>> => crashes' = crashes
  OBVIOUS
<1>6. crashes' = crashes \/ crashes' = crashes + 1
  BY <1>1, <1>2, <1>3, <1>4, <1>5 DEF RemindersNext
<1>7. QED
  BY <1>6

LEMMA BeatsStep ==
    BeatsReachVisits /\ [RemindersNext]_<<workerVars, reminderVars>> => BeatsReachVisits'
<1> SUFFICES ASSUME BeatsReachVisits, [RemindersNext]_<<workerVars, reminderVars>> PROVE BeatsReachVisits'
  OBVIOUS
<1> DEFINE Marked ==
      /\ \A v \in Visits : visit[v].sent => mailed[v]
      /\ \A p \in Procs : At(p, "remind_mark") => mailed[req[p].visit]
      /\ \A v \in Visits : visit[v].status = "confirmed" => confirmedAt[v] <= clock
<1>0. /\ RemindersTypeOK /\ RemindersTypeOK' /\ crashes \in Nat /\ crashes' \in Nat /\ Marked
      /\ \A v \in Visits : MailIsDue(v) => OnLists(v)
      /\ clock \in Nat /\ clock' \in Nat
  <2>1. RemindersTypeOK' /\ crashes' \in Nat
    BY RemindersTyped, BeatsCrashes DEF BeatsReachVisits
  <2>2. QED
    BY <2>1 DEF BeatsReachVisits, RemindersTypeOK
<1>a. ASSUME Marked', \A v \in Visits : MailIsDue(v)' => OnLists(v)'
      PROVE  BeatsReachVisits'
  BY <1>0, <1>a DEF BeatsReachVisits
<1>b. ASSUME NEW v \in Visits PROVE Lost(v) \in Nat /\ Lost(v)' \in Nat
  BY <1>0, <1>b DEF RemindersTypeOK, Lost
<1>1. CASE UNCHANGED <<workerVars, reminderVars>>
  BY <1>1 DEF BeatsReachVisits, RemindersTypeOK, Beaten, Carries, Lost, MailIsDue, At, OnLists
<1>2. ASSUME NEW v \in Visits, VisitConfirmed(v) PROVE BeatsReachVisits'
  <2>1. /\ visit[v].status = "pending" /\ visit' = [visit EXCEPT ![v].status = "confirmed"]
        /\ confirmedAt' = [confirmedAt EXCEPT ![v] = clock]
        /\ UNCHANGED <<clock, beaten, mailed, misfortunes, req, crashes>>
    BY <1>2 DEF VisitConfirmed
  <2>2. /\ visit'[v].status = "confirmed" /\ visit'[v].sent = visit[v].sent /\ confirmedAt'[v] = clock
        /\ \A u \in Visits : u # v => visit'[u] = visit[u] /\ confirmedAt'[u] = confirmedAt[u]
    BY <1>0, <2>1 DEF RemindersTypeOK
  <2>3. Marked'
    BY <1>0, <2>1, <2>2 DEF At
  <2>4. ASSUME NEW u \in Visits, MailIsDue(u)' PROVE OnLists(u)'
    <3>1. CASE u = v
      <4>1. clock < VisitStart[v] - 26
        BY <2>2, <2>4, <3>1 DEF MailIsDue
      <4>2. ~Beaten(WindowBeat(v, 0)) /\ ~Beaten(WindowBeat(v, 1))
        BY <1>0, <4>1, WindowBeats DEF Beaten
      <4>3. QED
        BY <2>1, <3>1, <4>2 DEF Beaten, OnLists
    <3>2. CASE u # v
      BY <1>0, <2>1, <2>2, <2>4, <3>2 DEF MailIsDue, OnLists, Beaten, Lost, Carries
    <3>3. QED
      BY <3>1, <3>2
  <2>5. QED
    BY <1>0, <1>a, <2>1, <2>3, <2>4
<1>3. ASSUME NEW v \in Visits, VisitCanceled(v) PROVE BeatsReachVisits'
  <2>1. /\ visit[v].status = "confirmed" /\ visit' = [visit EXCEPT ![v].status = "canceled"]
        /\ UNCHANGED <<clock, beaten, confirmedAt, mailed, misfortunes, req, crashes>>
    BY <1>3 DEF VisitCanceled
  <2>2. /\ visit'[v].status = "canceled" /\ visit'[v].sent = visit[v].sent
        /\ \A u \in Visits : u # v => visit'[u] = visit[u]
    BY <1>0, <2>1 DEF RemindersTypeOK
  <2>3. Marked'
    BY <1>0, <2>1, <2>2 DEF At
  <2>4. ASSUME NEW u \in Visits, MailIsDue(u)' PROVE OnLists(u)'
    BY <1>0, <2>1, <2>2, <2>4 DEF MailIsDue, OnLists, Beaten, Lost, Carries
  <2>5. QED
    BY <1>0, <1>a, <2>1, <2>3, <2>4
<1>4. CASE ClockTicks
  <2>1. /\ clock % 2 = 0 => beaten
        /\ clock' = clock + 1 /\ beaten' = FALSE
        /\ UNCHANGED <<visit, confirmedAt, mailed, misfortunes, req, crashes>>
    BY <1>4 DEF ClockTicks, IsBeat, BeatEvery
  <2>2. Marked'
    <3>1. \A v \in Visits : confirmedAt[v] \in Nat
      BY <1>0 DEF RemindersTypeOK
    <3>2. QED
      BY <1>0, <2>1, <3>1 DEF At
  <2>3. ASSUME NEW v \in Visits, MailIsDue(v)' PROVE OnLists(v)'
    <3>1. MailIsDue(v)
      BY <2>1, <2>3 DEF MailIsDue
    <3>2. \A k \in {0, 1} : Beaten(WindowBeat(v, k))' => Beaten(WindowBeat(v, k))
      <4>1. \A w \in Int : w % 2 = 0 /\ clock + 1 > w => clock > w \/ (clock = w /\ beaten)
        BY <1>0, <2>1
      <4>2. QED
        BY <2>1, <4>1, WindowBeats DEF Beaten, WindowBeat
    <3>3. Lost(v)' = Lost(v) /\ \A p \in Procs : Carries(p, v)' <=> Carries(p, v)
      BY <2>1 DEF Lost, Carries
    <3>4. QED
      BY <1>0, <1>b, <3>1, <3>2, <3>3, ListsKept
  <2>4. QED
    BY <1>0, <1>a, <2>1, <2>2, <2>3
<1>5. ASSUME NEW p \in Procs, RemindersRead(p) PROVE BeatsReachVisits'
  <2> DEFINE due == {v \in Visits : visit[v] = [status |-> "confirmed", sent |-> FALSE] /\ InWindow(v)}
             r == [op |-> "remind", visits |-> due]
  <2>1. /\ clock % 2 = 0 /\ ~beaten /\ beaten' = TRUE /\ req[p] = Idle
        /\ req' = [req EXCEPT ![p] = r]
        /\ UNCHANGED <<clock, visit, confirmedAt, mailed, misfortunes, crashes>>
    BY <1>5 DEF RemindersRead, Begin, IsBeat, BeatEvery
  <2>2. req'[p] = r /\ \A q \in Procs : q # p => req'[q] = req[q]
    BY <1>0, <2>1 DEF RemindersTypeOK
  <2>3. Marked'
    BY <1>0, <2>1, <2>2 DEF At
  <2>4. ASSUME NEW v \in Visits, MailIsDue(v)' PROVE OnLists(v)'
    <3>1. MailIsDue(v) /\ Lost(v)' = Lost(v) /\ OnLists(v)
      BY <1>0, <2>1, <2>4 DEF MailIsDue, Lost
    <3>2. ~Carries(p, v) /\ \A q \in Procs : Carries(q, v) => Carries(q, v)'
      BY <2>1, <2>2 DEF Carries
    <3>3. visit[v] = [status |-> "confirmed", sent |-> FALSE]
      <4>1. visit[v].status = "confirmed" /\ visit[v].sent = FALSE
        BY <1>0, <3>1 DEF MailIsDue, RemindersTypeOK
      <4>2. QED
        BY <1>0, <4>1 DEF RemindersTypeOK
    <3>4. clock \in {WindowBeat(v, 0), WindowBeat(v, 1)} => Carries(p, v)'
      <4>1. clock \in {WindowBeat(v, 0), WindowBeat(v, 1)} => InWindow(v)
        BY <1>0, WindowBeats DEF InWindow
      <4>2. QED
        BY <2>2, <3>3, <4>1 DEF Carries, Idle
    <3>5. \A w \in Int : clock # w => (Beaten(w)' <=> Beaten(w))
      BY <1>0, <2>1 DEF Beaten
    <3>6. \A w \in Int : w < clock => Beaten(w)
      BY <1>0 DEF Beaten
    <3>7. CASE clock = WindowBeat(v, 0)
      <4>1. ~Beaten(WindowBeat(v, 1))'
        BY <1>0, <2>1, <3>7, WindowBeats DEF Beaten
      <4>2. QED
        BY <3>4, <3>7, <4>1 DEF OnLists
    <3>8. CASE clock = WindowBeat(v, 1)
      <4>1. Beaten(WindowBeat(v, 0))
        BY <1>0, <3>6, <3>8, WindowBeats
      <4>2. QED
        BY <3>1, <3>2, <3>4, <3>8, <4>1 DEF OnLists
    <3>9. CASE clock \notin {WindowBeat(v, 0), WindowBeat(v, 1)}
      BY <1>b, <3>1, <3>2, <3>5, <3>9, WindowBeats, ListsKept
    <3>10. QED
      BY <3>7, <3>8, <3>9
  <2>5. QED
    BY <1>0, <1>a, <2>1, <2>3, <2>4
<1>6. ASSUME NEW p \in Procs, ReminderMailed(p) PROVE BeatsReachVisits'
  <2>1. PICK v \in req[p].visits :
          /\ mailed' = [mailed EXCEPT ![v] = TRUE]
          /\ req' = [req EXCEPT ![p] = [op |-> "remind_mark", visit |-> v, visits |-> req[p].visits \ {v}]]
          /\ UNCHANGED <<clock, beaten, visit, confirmedAt, misfortunes, crashes>>
    BY <1>6 DEF ReminderMailed, Continue
  <2>2. /\ req'[p] = [op |-> "remind_mark", visit |-> v, visits |-> req[p].visits \ {v}]
        /\ \A q \in Procs : q # p => req'[q] = req[q]
    BY <1>0, <2>1 DEF RemindersTypeOK
  <2>3. v \in Visits
    BY <1>0, <1>6, <2>1 DEF RemindersTypeOK, ReminderMailed, At, Idle
  <2>4. mailed'[v] /\ \A u \in Visits : u # v => mailed'[u] = mailed[u]
    BY <1>0, <2>1, <2>3 DEF RemindersTypeOK
  <2>5. Marked'
    <3>1. \A q \in Procs : At(q, "remind_mark") => req[q].visit \in Visits
      BY <1>0 DEF RemindersTypeOK, At, Idle
    <3>2. QED
      BY <1>0, <2>1, <2>2, <2>4, <3>1 DEF At
  <2>6. ASSUME NEW u \in Visits, MailIsDue(u)' PROVE OnLists(u)'
    <3>1. u # v /\ MailIsDue(u) /\ Lost(u)' = Lost(u)
      BY <2>1, <2>4, <2>6 DEF MailIsDue, Lost
    <3>2. \A q \in Procs : Carries(q, u) => Carries(q, u)'
      BY <2>2, <3>1 DEF Carries, Idle
    <3>3. QED
      BY <1>0, <1>b, <2>1, <3>1, <3>2, ListsKept DEF Beaten, WindowBeat
  <2>7. QED
    BY <1>0, <1>a, <2>1, <2>5, <2>6
<1>7. ASSUME NEW p \in Procs, ReminderFailed(p) PROVE BeatsReachVisits'
  <2>1. PICK v \in req[p].visits :
          /\ misfortunes' = [misfortunes EXCEPT ![v] = @ + 1]
          /\ req' = [req EXCEPT ![p] = [op |-> "remind", visits |-> req[p].visits \ {v}]]
          /\ UNCHANGED <<clock, beaten, visit, confirmedAt, mailed, crashes>>
    BY <1>7 DEF ReminderFailed, Continue
  <2>2. /\ req'[p] = [op |-> "remind", visits |-> req[p].visits \ {v}]
        /\ \A q \in Procs : q # p => req'[q] = req[q]
    BY <1>0, <2>1 DEF RemindersTypeOK
  <2>3. v \in Visits
    BY <1>0, <1>7, <2>1 DEF RemindersTypeOK, ReminderFailed, At, Idle
  <2>4. misfortunes'[v] = misfortunes[v] + 1 /\ \A u \in Visits : u # v => misfortunes'[u] = misfortunes[u]
    BY <1>0, <2>1, <2>3 DEF RemindersTypeOK
  <2>5. Marked'
    BY <1>0, <2>1, <2>2 DEF At
  <2>6. ASSUME NEW u \in Visits, MailIsDue(u)' PROVE OnLists(u)'
    <3>1. MailIsDue(u)
      BY <2>1, <2>6 DEF MailIsDue
    <3>2. CASE u = v
      <4>1. Lost(u)' = Lost(u) + 1
        BY <1>0, <2>1, <2>4, <3>2 DEF Lost, RemindersTypeOK
      <4>2. \A q \in Procs \ {p} : Carries(q, u) => Carries(q, u)'
        BY <2>2 DEF Carries
      <4>3. QED
        BY <1>0, <1>b, <2>1, <3>1, <4>1, <4>2, ListLost DEF Beaten, WindowBeat
    <3>3. CASE u # v
      <4>1. Lost(u)' = Lost(u)
        BY <2>1, <2>4, <3>3 DEF Lost
      <4>2. \A q \in Procs : Carries(q, u) => Carries(q, u)'
        BY <2>2, <3>3 DEF Carries, Idle
      <4>3. QED
        BY <1>0, <1>b, <2>1, <3>1, <4>1, <4>2, ListsKept DEF Beaten, WindowBeat
    <3>4. QED
      BY <3>2, <3>3
  <2>7. QED
    BY <1>0, <1>a, <2>1, <2>5, <2>6
<1>8. ASSUME NEW p \in Procs, ReminderMarked(p) PROVE BeatsReachVisits'
  <2>1. /\ At(p, "remind_mark")
        /\ req' = [req EXCEPT ![p] = [op |-> "remind", visits |-> req[p].visits]]
        /\ visit' = [visit EXCEPT ![req[p].visit].sent = TRUE]
        /\ UNCHANGED <<clock, beaten, confirmedAt, mailed, misfortunes, crashes>>
    BY <1>8 DEF ReminderMarked, Continue
  <2>2. /\ req'[p] = [op |-> "remind", visits |-> req[p].visits]
        /\ \A q \in Procs : q # p => req'[q] = req[q]
    BY <1>0, <2>1 DEF RemindersTypeOK
  <2>3. req[p].visit \in Visits /\ mailed[req[p].visit] /\ req[p] # Idle
    BY <1>0, <2>1 DEF RemindersTypeOK, At, Idle
  <2>4. /\ \A u \in Visits : visit'[u].status = visit[u].status
        /\ \A u \in Visits : u # req[p].visit => visit'[u].sent = visit[u].sent
    BY <1>0, <2>1, <2>3 DEF RemindersTypeOK
  <2>5. Marked'
    BY <1>0, <2>1, <2>2, <2>3, <2>4 DEF At
  <2>6. ASSUME NEW u \in Visits, MailIsDue(u)' PROVE OnLists(u)'
    <3>1. MailIsDue(u) /\ Lost(u)' = Lost(u)
      BY <2>1, <2>4, <2>6 DEF MailIsDue, Lost
    <3>2. \A q \in Procs : Carries(q, u) => Carries(q, u)'
      BY <2>2 DEF Carries, Idle
    <3>3. QED
      BY <1>0, <1>b, <2>1, <3>1, <3>2, ListsKept DEF Beaten, WindowBeat
  <2>7. QED
    BY <1>0, <1>a, <2>1, <2>5, <2>6
<1>9. ASSUME NEW p \in Procs, RemindersDone(p) PROVE BeatsReachVisits'
  <2>1. /\ req[p].visits = {} /\ req' = [req EXCEPT ![p] = Idle] /\ UNCHANGED <<crashes, reminderVars>>
    BY <1>9 DEF RemindersDone, End, Continue
  <2>2. req'[p] = Idle /\ \A q \in Procs : q # p => req'[q] = req[q]
    BY <1>0, <2>1 DEF RemindersTypeOK
  <2>3. Marked'
    BY <1>0, <2>1, <2>2 DEF At, Idle
  <2>4. ASSUME NEW u \in Visits, MailIsDue(u)' PROVE OnLists(u)'
    <3>1. MailIsDue(u) /\ Lost(u)' = Lost(u)
      BY <2>1, <2>4 DEF MailIsDue, Lost
    <3>2. \A q \in Procs : Carries(q, u) => Carries(q, u)'
      BY <2>1, <2>2 DEF Carries
    <3>3. QED
      BY <1>0, <1>b, <2>1, <3>1, <3>2, ListsKept DEF Beaten, WindowBeat
  <2>5. QED
    BY <1>0, <1>a, <2>1, <2>3, <2>4
<1>10. ASSUME NEW p \in Procs, RemindersCrash(p) PROVE BeatsReachVisits'
  <2>1. /\ crashes' = crashes + 1 /\ req' = [req EXCEPT ![p] = Idle] /\ UNCHANGED reminderVars
    BY <1>10 DEF RemindersCrash, Crash
  <2>2. req'[p] = Idle /\ \A q \in Procs : q # p => req'[q] = req[q]
    BY <1>0, <2>1 DEF RemindersTypeOK
  <2>3. Marked'
    BY <1>0, <2>1, <2>2 DEF At, Idle
  <2>4. ASSUME NEW u \in Visits, MailIsDue(u)' PROVE OnLists(u)'
    <3>1. MailIsDue(u) /\ Lost(u)' = Lost(u) + 1
      BY <1>0, <2>1, <2>4 DEF MailIsDue, Lost, RemindersTypeOK
    <3>2. \A q \in Procs \ {p} : Carries(q, u) => Carries(q, u)'
      BY <2>2 DEF Carries
    <3>3. QED
      BY <1>0, <1>b, <2>1, <3>1, <3>2, ListLost DEF Beaten, WindowBeat
  <2>5. QED
    BY <1>0, <1>a, <2>1, <2>3, <2>4
<1>11. QED
  BY <1>1, <1>2, <1>3, <1>4, <1>5, <1>6, <1>7, <1>8, <1>9, <1>10 DEF RemindersNext, RemindersStep

\* When no worker has a list, the two beats of a window that is over have been taken, and
\* one loss does not cost both.
LEMMA RemindedIfBeaten == BeatsReachVisits => RemindedInTime
<1> SUFFICES ASSUME BeatsReachVisits, NEW v \in Visits, AllIdle, clock > VisitStart[v] - 22,
                    visit[v].status = "confirmed", confirmedAt[v] < VisitStart[v] - 26,
                    misfortunes[v] + crashes <= 1
             PROVE  mailed[v]
  BY DEF RemindedInTime
<1>1. SUFFICES ASSUME ~mailed[v] PROVE FALSE
  OBVIOUS
<1>2. clock \in Nat /\ Lost(v) \in Nat /\ ~(Lost(v) >= 2)
  BY DEF BeatsReachVisits, RemindersTypeOK, Lost
<1>3. OnLists(v)
  BY <1>1 DEF BeatsReachVisits, MailIsDue
<1>4. Beaten(WindowBeat(v, 1))
  BY <1>2, WindowBeats DEF Beaten
<1>5. \A p \in Procs : ~Carries(p, v)
  BY DEF AllIdle, Carries
<1>6. QED
  BY <1>2, <1>3, <1>4, <1>5 DEF OnLists

\* However long the workers take for their mails and whichever of them dies or fails: one
\* loss leaves no client without his reminder.
THEOREM ClientsAreReminded == RemindersSpec => [](RemindersTypeOK /\ RemindedInTime)
<1>1. BeatsReachVisits => RemindersTypeOK /\ RemindedInTime
  BY RemindedIfBeaten DEF BeatsReachVisits
<1>2. QED
  BY BeatsInit, BeatsStep, <1>1, PTL DEF RemindersSpec
=============================================================================

------------------------------ MODULE RoomPage ------------------------------
(***************************************************************************)
(* The page of the room of a booking, open in the browser of one side      *)
(* (static/js/pages/booking-chat-ws.js): its socket, which closes and is   *)
(* opened again, the polling that stands in for it, and the messages of    *)
(* its user, shown before they are stored.  On the other end: the consumer *)
(* of the socket (chat/consumers.py), the two API handlers (api_views.py,  *)
(* booking_chat_http.py) and the limit of messages (rate_limit.py).        *)
(*                                                                         *)
(* A message is known by its text, and no text is written twice.  What is  *)
(* stored may differ from what was written: Message.clean masks words.     *)
(***************************************************************************)
EXTENDS Integers, Sequences, FiniteSets

CONSTANTS Mine,        \* the messages the user of the page may write
          Masked,      \* those of them that are not stored as they were written
          Theirs,      \* the messages of the other side
          NoMessage,
          SocketWorks, \* the server behind the page's address answers sockets
          SendLimit,   \* CHAT_RATE_LIMIT_COUNT
          MaxCloses    \* bound on the sockets that close

ASSUME RoomPageAssumption ==
    /\ IsFiniteSet(Mine \cup Theirs)
    /\ Masked \subseteq Mine /\ Mine \cap Theirs = {} /\ NoMessage \notin Mine \cup Theirs
    /\ SocketWorks \in BOOLEAN /\ SendLimit \in Nat /\ MaxCloses \in Nat

VARIABLES rows,       \* the Message rows of the room, in order
          roomClosed,
          quota,      \* the Redis key of the user: its counter, of which pings are `pings`
          sock,       \* the socket, as the page knows it, or "joined" to the room before it does
          wire,       \* the events on their way to the page, keys of rows
          frames,     \* the frames on their way to the server
          reconnect,  \* reconnectTimer is set
          polling,    \* messagePollTimer is set
          fetch,      \* the request of the polling in flight, pollBusy
          send,       \* the POST of a message in flight
          seenIds,    \* seenMsgIds
          pendingOwnEcho,
          bubbles,    \* how many bubbles of each message the log holds
          refused,    \* the frames of messages the limit has refused, and what it had counted then
          closes

pageVars ==
    <<rows, roomClosed, quota, sock, wire, frames, reconnect, polling, fetch, send, seenIds,
      pendingOwnEcho, bubbles, refused, closes>>

Messages == Mine \cup Theirs
Ping == "ping"
MaxId == Cardinality(Messages)
Stored == {rows[i] : i \in 1..Len(rows)}
Written == {m \in Mine : bubbles[m] > 0 \/ m \in Stored \/ send.text = m}

NoFetch == [state |-> "none", after |-> 0, upTo |-> 0]
NoSend == [state |-> "none", text |-> NoMessage, id |-> 0]

RoomPageInit ==
    /\ rows = <<>> /\ roomClosed = FALSE
    /\ quota = [count |-> 0, pings |-> 0]
    /\ sock = "connecting" /\ wire = <<>> /\ frames = <<>>
    /\ reconnect = FALSE /\ polling = FALSE
    /\ fetch = NoFetch /\ send = NoSend
    /\ seenIds = {}
    /\ pendingOwnEcho = NoMessage
    /\ bubbles = [m \in Messages |-> 0]
    /\ refused = {}
    /\ closes = 0

-----------------------------------------------------------------------------
\* The room: a row, and an event to who has joined.
Joined == sock \in {"joined", "open"}
Post(m) ==
    /\ rows' = Append(rows, m)
    /\ wire' = IF Joined THEN Append(wire, Len(rows) + 1) ELSE wire

OtherPosts ==
    /\ ~roomClosed
    /\ \E m \in Theirs \ Stored : Post(m)
    /\ UNCHANGED <<roomClosed, quota, sock, frames, reconnect, polling, fetch, send, seenIds,
                   pendingOwnEcho, bubbles, refused, closes>>

RoomCloses ==
    /\ ~roomClosed
    /\ roomClosed' = TRUE
    /\ UNCHANGED <<rows, quota, sock, wire, frames, reconnect, polling, fetch, send, seenIds,
                   pendingOwnEcho, bubbles, refused, closes>>

\* allow_message_send: the counter of the key, which expires.  Mutant: one too many.
AllowedOneMore == quota.count <= SendLimit
Allowed == quota.count < SendLimit
Counted(pings) == [count |-> quota.count + 1, pings |-> quota.pings + pings]

WindowEnds ==
    /\ quota.count > 0
    /\ quota' = [count |-> 0, pings |-> 0]
    /\ UNCHANGED <<rows, roomClosed, sock, wire, frames, reconnect, polling, fetch, send, seenIds,
                   pendingOwnEcho, bubbles, refused, closes>>

\* ChatConsumer.receive.  An error, and the answer to a ping, the page ignores.
Receive ==
    LET frame == Head(frames)
    IN  /\ frames # <<>>
        /\ frames' = Tail(frames)
        /\ quota' = IF Allowed THEN Counted(IF frame = Ping THEN 1 ELSE 0) ELSE quota
        /\ refused' = IF frame # Ping /\ ~Allowed THEN refused \cup {quota} ELSE refused
        /\ IF frame # Ping /\ Allowed /\ ~roomClosed THEN Post(frame) ELSE UNCHANGED <<rows, wire>>
        /\ UNCHANGED <<roomClosed, sock, reconnect, polling, fetch, send, seenIds, pendingOwnEcho,
                       bubbles, closes>>

-----------------------------------------------------------------------------
\* The socket.
SocketJoins ==
    /\ sock = "connecting" /\ SocketWorks
    /\ sock' = "joined"
    /\ UNCHANGED <<rows, roomClosed, quota, wire, frames, reconnect, polling, fetch, send, seenIds,
                   pendingOwnEcho, bubbles, refused, closes>>

\* onopen.
SocketOpens ==
    /\ sock = "joined"
    /\ sock' = "open"
    /\ polling' = FALSE
    /\ UNCHANGED <<rows, roomClosed, quota, wire, frames, reconnect, fetch, send, seenIds,
                   pendingOwnEcho, bubbles, refused, closes>>

\* A request of the polling, unless one is in flight.
MaxSeen == IF seenIds = {} THEN 0 ELSE CHOOSE i \in seenIds : \A j \in seenIds : j <= i
Asked == IF fetch.state = "none" THEN [state |-> "asked", after |-> MaxSeen, upTo |-> 0] ELSE fetch

\* startMessagePoll: the first request at once.
StartMessagePoll ==
    /\ polling' = TRUE
    /\ fetch' = IF polling THEN fetch ELSE Asked

\* onclose, with what was on its way; without a server, every attempt ends so.
SocketCloses ==
    /\ sock # "none"
    /\ SocketWorks => closes < MaxCloses
    /\ closes' = IF SocketWorks THEN closes + 1 ELSE closes
    /\ sock' = "none"
    /\ wire' = <<>> /\ frames' = <<>>
    /\ reconnect' = TRUE
    /\ StartMessagePoll
    /\ UNCHANGED <<rows, roomClosed, quota, send, seenIds, pendingOwnEcho, bubbles, refused>>

\* The timer of 1.8 s.
Reconnect ==
    /\ reconnect
    /\ reconnect' = FALSE
    /\ sock' = "connecting"
    /\ UNCHANGED <<rows, roomClosed, quota, wire, frames, polling, fetch, send, seenIds,
                   pendingOwnEcho, bubbles, refused, closes>>

\* Five seconds after the page is loaded.
FirstCheck ==
    /\ sock # "open" /\ closes = 0 /\ ~polling
    /\ StartMessagePoll
    /\ UNCHANGED <<rows, roomClosed, quota, sock, wire, frames, reconnect, send, seenIds,
                   pendingOwnEcho, bubbles, refused, closes>>

PingLoop ==
    /\ sock = "open" /\ Ping \notin {frames[i] : i \in 1..Len(frames)}
    /\ quota.count <= SendLimit
    /\ frames' = Append(frames, Ping)
    /\ UNCHANGED <<rows, roomClosed, quota, sock, wire, reconnect, polling, fetch, send, seenIds,
                   pendingOwnEcho, bubbles, refused, closes>>

-----------------------------------------------------------------------------
\* What arrives.

\* An echo is known by the text that was written.
IsOwnEcho(m) == m \in Mine /\ m = pendingOwnEcho /\ m \notin Masked

\* A row that was seen is not shown again, nor is the echo.
\* Mutant: whatever arrives is shown.
ShowAll(ids) ==
    LET news == {rows[i] : i \in ids}
    IN  /\ seenIds' = seenIds \cup ids
        /\ pendingOwnEcho' = IF \E m \in news : IsOwnEcho(m) THEN NoMessage ELSE pendingOwnEcho
        /\ bubbles' = [m \in Messages |-> IF m \in news /\ ~IsOwnEcho(m) THEN bubbles[m] + 1 ELSE bubbles[m]]
Show(ids) ==
    LET news == {rows[i] : i \in ids \ seenIds}
    IN  /\ seenIds' = seenIds \cup ids
        /\ pendingOwnEcho' = IF \E m \in news : IsOwnEcho(m) THEN NoMessage ELSE pendingOwnEcho
        /\ bubbles' = [m \in Messages |-> IF m \in news /\ ~IsOwnEcho(m) THEN bubbles[m] + 1 ELSE bubbles[m]]

\* onmessage.
EventArrives ==
    /\ sock = "open" /\ wire # <<>>
    /\ Show({Head(wire)})
    /\ wire' = Tail(wire)
    /\ UNCHANGED <<rows, roomClosed, quota, sock, frames, reconnect, polling, fetch, send, refused, closes>>

\* pollNewMessagesHttp, by its timer or as the page comes to the front.
PollTick ==
    /\ fetch.state = "none"
    /\ fetch' = Asked
    /\ UNCHANGED <<rows, roomClosed, quota, sock, wire, frames, reconnect, polling, send, seenIds,
                   pendingOwnEcho, bubbles, refused, closes>>
TimedPoll == polling /\ PollTick

\* ChatMessageListAPIView with after_id.
PollServed ==
    /\ fetch.state = "asked"
    /\ fetch' = [fetch EXCEPT !.state = "served", !.upTo = Len(rows)]
    /\ UNCHANGED <<rows, roomClosed, quota, sock, wire, frames, reconnect, polling, send, seenIds,
                   pendingOwnEcho, bubbles, refused, closes>>

PollAnswered ==
    /\ fetch.state = "served"
    /\ Show(fetch.after + 1..fetch.upTo)
    /\ fetch' = NoFetch
    /\ UNCHANGED <<rows, roomClosed, quota, sock, wire, frames, reconnect, polling, send, refused, closes>>

\* The request is lost; pollBusy is reset all the same.
\* Mutant: only where an answer came.
StillBusy == [NoFetch EXCEPT !.state = "lost"]
Done == NoFetch

PollFails ==
    /\ fetch.state # "none"
    /\ fetch' = Done
    /\ UNCHANGED <<rows, roomClosed, quota, sock, wire, frames, reconnect, polling, send, seenIds,
                   pendingOwnEcho, bubbles, refused, closes>>

-----------------------------------------------------------------------------
\* The user sends a message: over the socket when it is open, and it is shown.
SubmitSocket ==
    /\ sock = "open" /\ send = NoSend
    /\ \E m \in Mine \ Written :
          /\ pendingOwnEcho' = m
          /\ bubbles' = [bubbles EXCEPT ![m] = @ + 1]
          /\ frames' = Append(frames, m)
    /\ UNCHANGED <<rows, roomClosed, quota, sock, wire, reconnect, polling, fetch, send, seenIds,
                   refused, closes>>

\* After eight seconds the echo is no longer waited for.
EchoExpires ==
    /\ pendingOwnEcho # NoMessage
    /\ pendingOwnEcho' = NoMessage
    /\ UNCHANGED <<rows, roomClosed, quota, sock, wire, frames, reconnect, polling, fetch, send,
                   seenIds, bubbles, refused, closes>>

\* Otherwise by POST; the button is disabled until the answer.
SubmitHttp ==
    /\ sock # "open" /\ send = NoSend
    /\ \E m \in Mine \ Written : send' = [state |-> "asked", text |-> m, id |-> 0]
    /\ UNCHANGED <<rows, roomClosed, quota, sock, wire, frames, reconnect, polling, fetch, seenIds,
                   pendingOwnEcho, bubbles, refused, closes>>

\* post_booking_room_text_message.
HttpServed ==
    /\ send.state = "asked"
    /\ Allowed /\ ~roomClosed
    /\ quota' = Counted(0)
    /\ Post(send.text)
    /\ send' = [send EXCEPT !.state = "served", !.id = Len(rows')]
    /\ UNCHANGED <<roomClosed, sock, frames, reconnect, polling, fetch, seenIds, pendingOwnEcho,
                   bubbles, refused, closes>>

HttpAnswered ==
    /\ send.state = "served"
    /\ seenIds' = seenIds \cup {send.id}
    /\ bubbles' = [bubbles EXCEPT ![send.text] = @ + 1]
    /\ send' = NoSend
    /\ UNCHANGED <<rows, roomClosed, quota, sock, wire, frames, reconnect, polling, fetch,
                   pendingOwnEcho, refused, closes>>

\* Refused by the limit or, once it was counted, by the room; or lost.
HttpFails ==
    /\ send.state # "none"
    /\ quota' = IF send.state = "asked" /\ Allowed /\ roomClosed THEN Counted(0) ELSE quota
    /\ send' = NoSend
    /\ pendingOwnEcho' = NoMessage
    /\ UNCHANGED <<rows, roomClosed, sock, wire, frames, reconnect, polling, fetch, seenIds,
                   bubbles, refused, closes>>

-----------------------------------------------------------------------------
RoomPageNext ==
    \/ OtherPosts \/ RoomCloses \/ WindowEnds \/ Receive
    \/ SocketJoins \/ SocketOpens \/ SocketCloses \/ Reconnect \/ FirstCheck \/ PingLoop
    \/ EventArrives \/ PollTick \/ PollServed \/ PollAnswered \/ PollFails
    \/ SubmitSocket \/ EchoExpires \/ SubmitHttp \/ HttpServed \/ HttpAnswered \/ HttpFails

\* Timers fire, the server and the network go on, and not every request is lost.
RoomPageFairness ==
    /\ WF_pageVars(SocketJoins) /\ WF_pageVars(SocketOpens) /\ WF_pageVars(Reconnect)
    /\ WF_pageVars(~SocketWorks /\ SocketCloses) /\ WF_pageVars(EventArrives)
    /\ WF_pageVars(FirstCheck)
    /\ WF_pageVars(TimedPoll) /\ SF_pageVars(PollServed) /\ SF_pageVars(PollAnswered)

RoomPageSpec == RoomPageInit /\ [][RoomPageNext]_pageVars /\ RoomPageFairness

-----------------------------------------------------------------------------
RoomPageTypeOK ==
    /\ rows \in Seq(Messages) /\ roomClosed \in BOOLEAN
    /\ quota \in [count : 0..SendLimit, pings : 0..SendLimit]
    /\ refused \subseteq [count : 0..SendLimit, pings : 0..SendLimit]
    /\ sock \in {"none", "connecting", "joined", "open"}
    /\ wire \in Seq(1..MaxId) /\ frames \in Seq(Mine \cup {Ping})
    /\ {reconnect, polling} \subseteq BOOLEAN
    /\ fetch \in [state : {"none", "asked", "served"}, after : 0..MaxId, upTo : 0..MaxId]
    /\ send \in [state : {"none", "asked", "served"}, text : Mine \cup {NoMessage}, id : 0..MaxId]
    /\ seenIds \subseteq 1..MaxId
    /\ pendingOwnEcho \in Mine \cup {NoMessage}
    /\ bubbles \in [Messages -> 0..3]
    /\ closes \in 0..MaxCloses

\* However the socket and the polling take turns, a message of the other side is
\* shown once at most.
TheirsShownOnce == \A m \in Theirs : bubbles[m] <= 1

\* Every message of the other side is shown in the end, without the page being
\* loaded again.
TheirsArrive == \A m \in Theirs : (m \in Stored) ~> (bubbles[m] > 0)

\* Without a socket, who only reads misses nothing: the polling shows every message,
\* whichever of its requests are lost.
ReaderMissesNothing ==
    [](Written = {}) => \A m \in Theirs : (m \in Stored) ~> (bubbles[m] > 0)

\* A message of one's own is shown at once and its echo is skipped: it is never
\* shown twice.
OwnMessageOnce == \A m \in Mine : bubbles[m] <= 1

\* Rows that arrive again do not double a bubble: as long as no socket ever opens,
\* the log holds no message twice.
IdShownOnce == \A m \in Messages : bubbles[m] <= 1

\* A ping does not count towards the limit: what is refused comes after as many
\* messages as the limit allows.
PingIsFree == \A q \in refused : q.pings = 0
=============================================================================

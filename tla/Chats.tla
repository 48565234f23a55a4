------------------------------- MODULE Chats -------------------------------
(***************************************************************************)
(* One conversation between a client and an owner, of any of the three     *)
(* kinds: the thread with a station, the thread about an ad (the buyer is  *)
(* the client, the seller the owner) and the room of a booking             *)
(* (apps/chat: station_chat_views.py, unified_chat_views.py,               *)
(* booking_chat_views.py, booking_chat_http.py, consumers.py), with what   *)
(* each side has been shown and the counter of unread messages in the      *)
(* header of its page (inbox_services.py, booking_inbox_services.py,       *)
(* static/js/app/header-inbox.js).                                         *)
(*                                                                         *)
(* A message is stamped with created_at when it is saved, and seen by      *)
(* others when its transaction commits; a reader moves its read_up_to to   *)
(* the present and then loads the messages.  What is compared is whether a *)
(* stamp comes before a mark, so the model keeps the messages stamped      *)
(* before each mark instead of the times.                                  *)
(***************************************************************************)
EXTENDS Workers, Sequences, FiniteSets

CONSTANTS ChatMessages, \* primary keys a message may get
          ChatKinds,    \* the kinds looked at
          MaxThreads,   \* bound on the threads with a station, one after another
          MaxLost       \* bound on the sockets that are lost

ASSUME ChatsAssumption ==
    ChatKinds \subseteq {"station", "ad", "booking"} /\ MaxThreads \in Nat /\ MaxLost \in Nat

VARIABLES kind,    \* the kind of the conversation
          thread,  \* primary key of its thread, 0 when there is none
          threads, \* how many there have been
          message, \* the messages
          reader,  \* the side whose page is followed
          read,    \* messages stamped up to the reader's mark
          shown,   \* messages the reader has had on a page
          quiet,   \* nothing was written for three days
          booking, \* of a room: status and is_closed
          header,  \* the counter on the reader's page and its socket
          chat,    \* the chat on that page and its socket
          count,   \* the last count on its way to the page
          lost

chatVars == <<kind, reader, thread, threads, message, read, shown, quiet, booking, header, chat, count, lost>>

Sides == {"client", "owner"}

\* Keys of a thread.
Keys == 1 + MaxThreads

NoMessage == [from |-> "nobody", state |-> "none", of |-> 0]
ChatMessage == [from : Sides, state : {"stamped", "sent", "gone"}, of : 0..Keys]

InState(state) == {m \in ChatMessages : message[m].state = state}

\* The count of created_at > read_up_to, as every page and broadcast makes it.
Unread == {m \in InState("sent") \ read : message[m].from # reader}
UnreadCount == Cardinality(Unread)
Counts == 0..Cardinality(ChatMessages)
NoCount == Cardinality(ChatMessages) + 1

ChatPaths == {"panel", "thread", "reply", "http", "ws"}
ChatRequest ==
    [op : {"chat_stamp"}, user : Sides, via : ChatPaths, of : 0..Keys]
      \cup [op : {"chat_commit"}, user : Sides, via : ChatPaths, msg : ChatMessages]
      \cup [op : {"chat_count"}, opens : BOOLEAN]
      \cup [op : {"chat_push"}, opens : BOOLEAN, count : Counts]
      \cup [op : {"chat_load"}]

\* The reader's counter is refreshed; then, maybe, the chat is loaded.
Refresh(opens) == [op |-> "chat_count", opens |-> opens]

NoChat == [open |-> FALSE, joined |-> FALSE, mark |-> FALSE]

ChatsInit ==
    /\ kind \in ChatKinds
    /\ thread = IF kind = "station" THEN 0 ELSE 1
    /\ threads = thread
    /\ message = [m \in ChatMessages |-> NoMessage]
    /\ reader \in Sides
    /\ read = {}
    /\ shown = {}
    /\ quiet = FALSE
    /\ booking = [over |-> FALSE, closed |-> FALSE]
    /\ header = [count |-> 0, socket |-> "new"]
    /\ chat = NoChat
    /\ count = NoCount
    /\ lost = 0

-----------------------------------------------------------------------------
\* Sending.

\* The handlers a side may send by.
Paths(u) ==
    CASE kind = "station" -> IF u = "client" THEN {"panel", "thread"} ELSE {"thread", "reply"}
      [] kind = "ad" -> {"thread"}
      [] kind = "booking" -> {"http", "ws"}

\* Whose counters a handler refreshes after a message of u.  Over the socket of
\* a room it refreshes none: a query is not allowed in the event loop, the
\* exception is logged.
\* Mutant: the sender's only.
RefreshedSender(u, via) == {u}
Refreshed(u, via) ==
    CASE via = "panel" -> {"owner"}
      [] via = "reply" -> {"owner"}
      [] via = "ws" -> {}
      [] via \in {"thread", "http"} -> Sides

\* can_post_messages.
\* Mutant: whether the visit is over is left to whoever closes the room.
CanPostUnlessClosed == kind = "booking" => ~booking.closed
CanPost == kind = "booking" => ~booking.over /\ ~booking.closed

ChatLoad(p, u, via) ==
    /\ via \in Paths(u)
    /\ via # "panel" => thread # 0
    /\ via = "ws" => ~booking.over
    /\ Begin(p, [op |-> "chat_stamp", user |-> u, via |-> via, of |-> thread])
    /\ UNCHANGED chatVars

\* ChatConsumer._can_post of a visit that is over, or the next connect, closes
\* the room.
RoomCloses(p) ==
    /\ kind = "booking" /\ booking.over /\ ~booking.closed /\ req[p] = Idle
    /\ booking' = [booking EXCEPT !.closed = TRUE]
    /\ UNCHANGED <<kind, reader, thread, threads, message, read, shown, quiet, header, chat, count, lost, workerVars>>

\* get_or_create of the station's thread.
MakeThread ==
    \/ thread # 0 /\ UNCHANGED <<thread, threads>>
    \/ thread = 0 /\ threads < MaxThreads /\ threads' = threads + 1 /\ thread' = threads'

\* The panel makes the thread, or finds it; the others go on with the one they
\* loaded.
ChatStamp(p) ==
    LET r == req[p]
    IN  /\ At(p, "chat_stamp") /\ CanPost
        /\ IF r.via = "panel" THEN MakeThread ELSE UNCHANGED <<thread, threads>>
        /\ \E m \in ChatMessages :
              /\ message[m] = NoMessage
              /\ message' = [message EXCEPT ![m] =
                    [from |-> r.user, state |-> "stamped", of |-> IF r.via = "panel" THEN thread' ELSE r.of]]
              /\ Continue(p, [op |-> "chat_commit", user |-> r.user, via |-> r.via, msg |-> m])
        /\ UNCHANGED <<kind, reader, read, shown, quiet, booking, header, chat, count, lost>>

\* The room has been closed; or (bound) no key is left for the message or the
\* thread.
ChatRefused(p) ==
    /\ At(p, "chat_stamp")
    /\ \/ ~CanPost
       \/ \A m \in ChatMessages : message[m] # NoMessage
       \/ req[p].via = "panel" /\ thread = 0 /\ threads = MaxThreads
    /\ End(p)
    /\ UNCHANGED chatVars

\* The page of a room marks it as read when it starts and after every message.
ToMark == [chat EXCEPT !.mark = (kind = "booking")]

\* The commit and the event to the open chats; a thread that was deleted in the
\* meantime takes the message with it.
ChatCommit(p) ==
    LET r == req[p]
        m == r.msg
    IN  /\ At(p, "chat_commit")
        /\ \/ /\ message[m].of = thread
              /\ message' = [message EXCEPT ![m].state = "sent"]
              /\ quiet' = FALSE
              /\ shown' = IF r.user = reader \/ chat.joined THEN shown \cup {m} ELSE shown
              /\ chat' = IF r.user # reader /\ chat.joined THEN ToMark ELSE chat
              /\ Continue(p, IF reader \in Refreshed(r.user, r.via) THEN Refresh(FALSE) ELSE Idle)
           \/ /\ message[m].of # thread
              /\ message' = [message EXCEPT ![m].state = "gone"]
              /\ End(p)
              /\ UNCHANGED <<quiet, shown, chat>>
        /\ UNCHANGED <<kind, reader, thread, threads, read, booking, header, count, lost>>

-----------------------------------------------------------------------------
\* broadcast_sto_owner_inbox_refresh, broadcast_booking_inbox_refresh: the count
\* is made, then sent.
ChatCount(p) ==
    /\ At(p, "chat_count")
    /\ Continue(p, [op |-> "chat_push", opens |-> req[p].opens, count |-> UnreadCount])
    /\ UNCHANGED chatVars

ChatPush(p) ==
    /\ At(p, "chat_push")
    /\ count' = IF header.socket = "live" THEN req[p].count ELSE count
    /\ Continue(p, IF req[p].opens THEN [op |-> "chat_load"] ELSE Idle)
    /\ UNCHANGED <<kind, reader, thread, threads, message, read, shown, quiet, booking, header, chat, lost>>

-----------------------------------------------------------------------------
\* Reading.

\* What is stamped by now; a transaction that has not committed included.
MarkRead == InState("stamped") \cup InState("sent")

\* The chat is opened: marked, broadcast (a room's mark is not), then loaded.
ChatOpen(p) ==
    /\ thread # 0
    /\ read' = MarkRead
    /\ Begin(p, IF kind = "booking" THEN [op |-> "chat_load"] ELSE Refresh(TRUE))
    /\ UNCHANGED <<kind, reader, thread, threads, message, shown, quiet, booking, header, chat, count, lost>>

\* The new page takes the place of the old one.
NewPage(opened) ==
    /\ header' = [count |-> UnreadCount, socket |-> "new"]
    /\ chat' = [open |-> opened, joined |-> FALSE, mark |-> opened /\ kind = "booking"]
    /\ count' = NoCount

ChatLoaded(p) ==
    /\ At(p, "chat_load")
    /\ shown' = shown \cup InState("sent")
    /\ NewPage(TRUE)
    /\ End(p)
    /\ UNCHANGED <<kind, reader, thread, threads, message, read, quiet, booking, lost>>

\* station_chat_panel: the client's panel on the station's page makes the thread
\* and marks nothing.
PanelOpen(p) ==
    /\ kind = "station"
    /\ MakeThread
    /\ IF reader = "client" THEN Begin(p, [op |-> "chat_load"]) ELSE req[p] = Idle /\ UNCHANGED workerVars
    /\ UNCHANGED <<kind, reader, message, read, shown, quiet, booking, header, chat, count, lost>>

\* Any other page: the list of the chats marks nothing as read.
\* Mutant: it marks all of them, as mark_direct_threads_read_for_owner does.
OtherPageMarks ==
    /\ read' = MarkRead
    /\ NewPage(FALSE)
    /\ UNCHANGED <<kind, reader, thread, threads, message, shown, quiet, booking, lost, workerVars>>
OtherPage ==
    /\ NewPage(FALSE)
    /\ UNCHANGED <<kind, reader, thread, threads, message, read, shown, quiet, booking, lost, workerVars>>

\* ChatMarkReadAPIView.
RoomMarkRead(p) ==
    /\ chat.mark
    /\ chat' = [chat EXCEPT !.mark = FALSE]
    /\ read' = MarkRead
    /\ Begin(p, Refresh(FALSE))
    /\ UNCHANGED <<kind, reader, thread, threads, message, shown, quiet, booking, header, count, lost>>

-----------------------------------------------------------------------------
\* The page.

\* The socket of the counter opens, once, and brings a count.
HeaderConnects ==
    /\ header.socket = "new"
    /\ header' = [header EXCEPT !.socket = "live"]
    /\ count' = UnreadCount
    /\ UNCHANGED <<kind, reader, thread, threads, message, read, shown, quiet, booking, chat, lost, workerVars>>

HeaderSocketLost ==
    /\ header.socket = "live" /\ lost < MaxLost
    /\ lost' = lost + 1
    /\ header' = [header EXCEPT !.socket = "lost"]
    /\ count' = NoCount
    /\ UNCHANGED <<kind, reader, thread, threads, message, read, shown, quiet, booking, chat, workerVars>>

CountArrives ==
    /\ count # NoCount
    /\ header' = [header EXCEPT !.count = count]
    /\ count' = NoCount
    /\ UNCHANGED <<kind, reader, thread, threads, message, read, shown, quiet, booking, chat, lost, workerVars>>

\* Without the socket the page asks for the count.
Poll ==
    /\ header.socket # "live"
    /\ header' = [header EXCEPT !.count = UnreadCount]
    /\ UNCHANGED <<kind, reader, thread, threads, message, read, shown, quiet, booking, chat, count, lost, workerVars>>

\* The socket of the chat is made again for as long as the page is open; the
\* page of a room asks for new messages in the meantime.
ChatJoins ==
    /\ chat.open /\ ~chat.joined
    /\ chat' = [chat EXCEPT !.joined = TRUE]
    /\ UNCHANGED <<kind, reader, thread, threads, message, read, shown, quiet, booking, header, count, lost, workerVars>>

ChatSocketLost ==
    /\ chat.joined /\ lost < MaxLost
    /\ lost' = lost + 1
    /\ chat' = [chat EXCEPT !.joined = FALSE]
    /\ UNCHANGED <<kind, reader, thread, threads, message, read, shown, quiet, booking, header, count, workerVars>>

RoomPoll ==
    /\ kind = "booking" /\ chat.open /\ ~chat.joined
    /\ InState("sent") \ shown # {}
    /\ shown' = shown \cup InState("sent")
    /\ chat' = ToMark
    /\ UNCHANGED <<kind, reader, thread, threads, message, read, quiet, booking, header, count, lost, workerVars>>

-----------------------------------------------------------------------------
\* The end of a conversation.

ThreeDaysPass ==
    /\ AllIdle /\ thread # 0 /\ ~quiet
    /\ quiet' = TRUE
    /\ UNCHANGED <<kind, reader, thread, threads, message, read, shown, booking, header, chat, count, lost, workerVars>>

DeleteThread ==
    /\ kind = "station" /\ thread # 0
    /\ thread' = 0
    /\ message' = [m \in ChatMessages |->
                      IF m \in InState("sent") THEN [message[m] EXCEPT !.state = "gone"] ELSE message[m]]
    /\ quiet' = FALSE

\* prune_inactive_station_direct_threads tells nobody.
PruneInactive(p) ==
    /\ quiet /\ req[p] = Idle
    /\ DeleteThread
    /\ UNCHANGED <<kind, reader, threads, read, shown, booking, header, chat, count, lost, workerVars>>

BulkDelete(p) ==
    /\ DeleteThread
    /\ IF reader = "owner" THEN Begin(p, Refresh(FALSE)) ELSE req[p] = Idle /\ UNCHANGED workerVars
    /\ UNCHANGED <<kind, reader, threads, read, shown, booking, header, chat, count, lost>>

\* The booking is completed or canceled (module Bookings).
VisitOver(p) ==
    /\ kind = "booking" /\ ~booking.over /\ req[p] = Idle
    /\ booking' = [booking EXCEPT !.over = TRUE]
    /\ UNCHANGED <<kind, reader, thread, threads, message, read, shown, quiet, header, chat, count, lost, workerVars>>

-----------------------------------------------------------------------------
ChatStep(p) ==
    \/ ChatStamp(p) \/ ChatRefused(p) \/ ChatCommit(p)
    \/ ChatCount(p) \/ ChatPush(p) \/ ChatLoaded(p)

ChatsCrash(p) == Crash(p) /\ UNCHANGED chatVars

ChatsNext ==
    \/ ThreeDaysPass
    \/ OtherPage \/ HeaderConnects \/ HeaderSocketLost \/ CountArrives \/ Poll
    \/ ChatJoins \/ ChatSocketLost \/ RoomPoll
    \/ \E p \in Procs :
          \/ ChatStep(p) \/ ChatsCrash(p)
          \/ RoomCloses(p) \/ PanelOpen(p) \/ PruneInactive(p) \/ BulkDelete(p) \/ VisitOver(p)
          \/ ChatOpen(p) \/ RoomMarkRead(p)
          \/ \E u \in Sides, via \in ChatPaths : ChatLoad(p, u, via)

\* A request once begun goes on, a count on its way arrives, a page without a
\* socket asks again every 18 seconds.
ChatsFairness ==
    /\ \A p \in Procs : WF_<<workerVars, chatVars>>(ChatStep(p))
    /\ WF_<<workerVars, chatVars>>(CountArrives)
    /\ WF_<<workerVars, chatVars>>(Poll)

ChatsSpec ==
    /\ WorkersInit /\ ChatsInit
    /\ [][ChatsNext]_<<workerVars, chatVars>>
    /\ ChatsFairness

-----------------------------------------------------------------------------
ChatsTypeOK ==
    /\ kind \in ChatKinds
    /\ thread \in 0..threads /\ threads \in 0..Keys
    /\ message \in [ChatMessages -> ChatMessage \cup {NoMessage}]
    /\ reader \in Sides /\ read \subseteq ChatMessages
    /\ shown \subseteq ChatMessages
    /\ quiet \in BOOLEAN
    /\ booking \in [over : BOOLEAN, closed : BOOLEAN]
    /\ header \in [count : Counts, socket : {"new", "live", "lost"}]
    /\ chat \in [open : BOOLEAN, joined : BOOLEAN, mark : BOOLEAN]
    /\ count \in Counts \cup {NoCount}
    /\ lost \in 0..MaxLost
    /\ req \in [Procs -> ChatRequest \cup {Idle}]

\* While requests are served one at a time, a message of a thread its reader has
\* never had on a page is counted as unread, on every list and in the header.
\* (The page of a room marks what it has missed.)
UnshownIsUnread ==
    AllIdle /\ kind # "booking" => \A m \in InState("sent") :
        message[m].from # reader /\ m \notin shown => m \in Unread

\* Whose counter the handlers keep up to date: the client of a station is not
\* told of a reply, nobody of what is said over the socket of a room.
CounterIsKept == kind = "ad" \/ (kind = "station" /\ reader = "owner")

\* One at a time, such a counter comes to show that there is something unread,
\* over the socket or by asking.
UnreadIsTold ==
    (CounterIsKept /\ Unread # {}) ~> (header.count > 0 \/ Unread = {})

\* One at a time, nothing is said in a room whose visit is over.
ClosedRoomIsQuiet ==
    [][kind = "booking" /\ booking.over => InState("sent")' = InState("sent")]_chatVars
=============================================================================

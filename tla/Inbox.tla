------------------------------- MODULE Inbox -------------------------------
(***************************************************************************)
(* The lists of one user's conversations, on the client's and on the       *)
(* owner's side, and the number in the header that leads to them           *)
(* (apps/chat: unified_chat_views.py, booking_chat_views.py,               *)
(* inbox_services.py, booking_inbox_services.py and                        *)
(* templatetags/booking_chat_tags.py).                                     *)
(*                                                                         *)
(* Each list and each part of the number is a query of its own.  How one   *)
(* conversation is shown and told is Chats'; here there are several, none  *)
(* of which is deleted.  Times are stamps, in the order of created_at.     *)
(***************************************************************************)
EXTENDS Workers, FiniteSetsExt

CONSTANTS Conversations,
          MaxPosts       \* bound on the messages

ASSUME InboxAssumption == MaxPosts \in Nat

VARIABLES talk,     \* of a conversation, its kind and the side the user is on
          admitted, \* the user is an owner whom the staff have approved
          post,     \* the messages that have a stamp
          upTo,     \* the stamp up to which the user has read
          lastAt    \* last_message_at of a thread

inboxVars == <<talk, admitted, post, upTo, lastAt>>

\* ChatRoom, StationDirectThread, AdDirectThread.  The seller of an ad is its owner.
Talk == [kind : {"booking", "direct", "ad"}, side : {"client", "owner"}]
NoPost == [of |-> "none"]
Post == [of : Conversations, mine : BOOLEAN, saved : BOOLEAN]

PostStamps == 1..MaxPosts
Now == Cardinality({s \in PostStamps : post[s] # NoPost})

\* Who has no station is approved by nobody.
HasStation == \E k \in Conversations : talk[k].side = "owner" /\ talk[k].kind # "ad"

InboxInit ==
    /\ talk \in [Conversations -> Talk]
    /\ admitted = HasStation
    /\ post = [s \in PostStamps |-> NoPost]
    /\ upTo = [k \in Conversations |-> 0]
    /\ lastAt = [k \in Conversations |-> 0]

-----------------------------------------------------------------------------
(* What the pages show.                                                    *)

Said(k) == {s \in PostStamps : post[s] # NoPost /\ post[s].of = k /\ post[s].saved}
UnreadIn(k) == {s \in Said(k) : ~post[s].mine /\ s > upTo[k]}

\* cabinet_chats_unified: ads on both sides, the rest as a client.
CabinetList == {k \in Conversations : talk[k].side = "client" \/ talk[k].kind = "ad"}

\* sto_owner_chats_unified, and the rooms on sto_owner_booking_chat_list: 404 for others.
OwnerList == {k \in Conversations : admitted /\ talk[k].side = "owner"}
OwnerRooms == {k \in OwnerList : talk[k].kind = "booking"}

\* The header leads to one of them.
HeaderList == IF admitted THEN OwnerList ELSE CabinetList

\* What user_unread_total_for_header and header_chats_unread_total count: of the
\* threads with a station those on one side.
\* Mutant: on both sides.
InNumberOnBothSides == Conversations
InNumber == {k \in Conversations : talk[k].kind = "direct" => (talk[k].side = "owner" <=> admitted)}

\* The parts of the number: of user_unread_total_for_header, and the threads with an
\* owner's stations, which nav_badges and the summary of the API add for whom the
\* staff have approved.
RoomsInNumber == {k \in Conversations : talk[k].kind = "booking"}
AdsInNumber == {k \in Conversations : talk[k].kind = "ad"}
ThreadsInNumber(side) == {k \in Conversations : talk[k] = [kind |-> "direct", side |-> side]}
UserNumber ==
    RoomsInNumber \cup AdsInNumber \cup (IF admitted THEN {} ELSE ThreadsInNumber("client"))
NavNumber == UserNumber \cup (IF admitted THEN ThreadsInNumber("owner") ELSE {})

\* ChatRoomListAPIView: the rooms on either side, each with what is unread in it.
ApiRooms == {k \in Conversations : talk[k].kind = "booking"}
ApiUnread == {k \in ApiRooms : UnreadIn(k) # {}}

\* _sort_chat_items_by_last_at: a room by its messages, a thread by last_message_at.
LastAt(k) == IF talk[k].kind # "booking" THEN lastAt[k] ELSE Max(Said(k) \cup {0})
Above(j, k) == LastAt(j) > LastAt(k)

-----------------------------------------------------------------------------
\* A side writes: the message gets its stamp, then the transaction commits.
PostStamped(p, k, mine) ==
    /\ Now < MaxPosts
    /\ Begin(p, [op |-> "post_save", stamp |-> Now + 1])
    /\ post' = [post EXCEPT ![Now + 1] = [of |-> k, mine |-> mine, saved |-> FALSE]]
    /\ UNCHANGED <<talk, admitted, upTo, lastAt>>

\* Mutant: the thread is not told.
PostSavedOnly(p) ==
    /\ At(p, "post_save")
    /\ post' = [post EXCEPT ![req[p].stamp].saved = TRUE]
    /\ End(p)
    /\ UNCHANGED <<talk, admitted, upTo, lastAt>>
PostSaved(p) ==
    /\ At(p, "post_save")
    /\ post' = [post EXCEPT ![req[p].stamp].saved = TRUE]
    /\ LET k == post[req[p].stamp].of
       IN  lastAt' = IF talk[k].kind = "booking" THEN lastAt ELSE [lastAt EXCEPT ![k] = req[p].stamp]
    /\ End(p)
    /\ UNCHANGED <<talk, admitted, upTo>>

\* A row of a list is opened.
RowOpened(k) ==
    /\ k \in CabinetList \cup OwnerList
    /\ upTo' = [upTo EXCEPT ![k] = Now]
    /\ UNCHANGED <<talk, admitted, post, lastAt, workerVars>>

\* The staff reject an owner, or approve one again.
Moderated ==
    /\ HasStation
    /\ admitted' = ~admitted
    /\ UNCHANGED <<talk, post, upTo, lastAt, workerVars>>

InboxCrash(p) == Crash(p) /\ UNCHANGED inboxVars

InboxNext ==
    \/ \E k \in Conversations : RowOpened(k)
    \/ Moderated
    \/ \E p \in Procs :
          \/ \E k \in Conversations, mine \in BOOLEAN : PostStamped(p, k, mine)
          \/ PostSaved(p) \/ InboxCrash(p)

InboxSpec == WorkersInit /\ InboxInit /\ [][InboxNext]_<<workerVars, inboxVars>>

-----------------------------------------------------------------------------
InboxTypeOK ==
    /\ talk \in [Conversations -> Talk] /\ admitted \in BOOLEAN
    /\ post \in [PostStamps -> Post \cup {NoPost}]
    /\ upTo \in [Conversations -> 0..MaxPosts] /\ lastAt \in [Conversations -> 0..MaxPosts]
    /\ \A p \in Procs : req[p] = Idle \/ (At(p, "post_save") /\ req[p].stamp <= Now)

\* The list behind the header shows nothing unread that the number leaves out; and
\* what the number counts is on a list of the user's, so that he can open it, unless
\* it is a room at the station of an owner who has been rejected.  The number is one on
\* every page, and its rooms are those of the API.
HeaderCountsTheLists ==
    /\ \A k \in HeaderList : UnreadIn(k) # {} => k \in InNumber
    /\ \A k \in InNumber : UnreadIn(k) # {} =>
          k \in CabinetList \cup OwnerList \/ (~admitted /\ talk[k] = [kind |-> "booking", side |-> "owner"])
    /\ NavNumber = InNumber
    /\ ApiUnread = {k \in InNumber : talk[k].kind = "booking" /\ UnreadIn(k) # {}}
    /\ OwnerRooms \subseteq ApiRooms

\* Serially: a list has the conversation with the latest message first.  Two messages
\* that overlap may leave a thread with the earlier one's time.
LatestFirst ==
    \A j, k \in Conversations : Max(Said(j) \cup {0}) > Max(Said(k) \cup {0}) => Above(j, k)

\* Refuted by TLC (see README): what the number counts is on the list it leads to,
\* and what is unread is counted.
HeaderOpensWhatItCounts ==
    \A k \in Conversations : UnreadIn(k) # {} => (k \in InNumber /\ k \in HeaderList)
=============================================================================

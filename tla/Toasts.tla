------------------------------- MODULE Toasts -------------------------------
(***************************************************************************)
(* The pop-up notices of one user: UserToastEvent rows "so that events are *)
(* not lost while the user is offline" (apps/chat/models.py), pushed to    *)
(* the socket of an open page (toast_events.py, user_inbox_consumer.py)    *)
(* and marked seen by the page (static/js/app/header-inbox.js).  The page  *)
(* of a station's owner has a second socket, which lists them again        *)
(* (sto_owner_inbox_consumer.py).                                          *)
(*                                                                         *)
(* A push reaches the page only while its socket is up, and the socket of  *)
(* a page is not opened again once it is lost: what was missed is listed   *)
(* when the next page opens.                                               *)
(***************************************************************************)
EXTENDS Workers, SequencesExt

CONSTANTS Toasts,    \* primary keys of UserToastEvent rows, in the order they are made
          ToastLimit \* events listed on connect (20)

ASSUME ToastsAssumption == Toasts \subseteq Nat /\ ToastLimit \in Nat \ {0}

VARIABLES toast,      \* the UserToastEvent rows
          tab,        \* the page the user looks at and its socket
          again,      \* the second socket of the page has its list to come
          modals,     \* new-booking dialogs of the page, the first one on display
          seenBuffer, \* events the page is about to mark as seen
          delivered,  \* history: events some page has handled
          onPage       \* history: notices that were left on some page

toastVars == <<toast, tab, again, modals, seenBuffer, delivered, onPage>>

\* A "modal" waits for an answer (owner_new_booking); a "notice" does not, and
\* takes the place of the one on the page (client_booking_confirmed, _canceled).
NoToast == [kind |-> "none", state |-> "none"]
ToastRow == [kind : {"modal", "notice"}, state : {"unseen", "seen"}]
Unseen == {i \in Toasts : toast[i].state = "unseen"}

ToastsInit ==
    /\ toast = [i \in Toasts |-> NoToast]
    /\ tab = "closed" /\ again = FALSE
    /\ modals = <<>>
    /\ seenBuffer = {}
    /\ delivered = {} /\ onPage = {}

-----------------------------------------------------------------------------
\* handleToastEvent for events in order.  The dialog on display has left the queue.
Queued == IF modals = <<>> THEN {} ELSE ToSet(Tail(modals))
ToastsHandled(events) ==
    LET isNew(i) == toast[i].kind = "modal" /\ i \notin Queued
        notices == SelectSeq(events, LAMBDA i : toast[i].kind = "notice")
    IN  /\ modals' = modals \o SelectSeq(events, isNew)
        /\ seenBuffer' = seenBuffer \cup ToSet(notices)
        /\ delivered' = delivered \cup ToSet(events)
        /\ onPage' = IF notices = <<>> THEN onPage ELSE onPage \cup {Last(notices)}

\* enqueue_user_toast, enqueue_owner_toast: the row, then the push.
ToastCreate(p, kind) ==
    \E i \in Toasts :
       /\ toast[i] = NoToast
       /\ \A j \in Toasts : j < i => toast[j] # NoToast
       /\ toast' = [toast EXCEPT ![i] = [kind |-> kind, state |-> "unseen"]]
       /\ Begin(p, [op |-> "toast_push", toast |-> i])
       /\ UNCHANGED <<tab, again, modals, seenBuffer, delivered, onPage>>

\* group_send reaches a page that has joined, if the channel layer does not
\* lose the message.
ToastPush(p) ==
    /\ At(p, "toast_push")
    /\ \/ /\ tab \in {"joined", "live"}
          /\ ToastsHandled(<<req[p].toast>>)
       \/ UNCHANGED <<modals, seenBuffer, delivered, onPage>>
    /\ End(p)
    /\ UNCHANGED <<toast, tab, again>>

-----------------------------------------------------------------------------
\* The user opens a page, or another in its place: the old one forgets what it
\* had not yet marked.  connect() joins the group before it lists.
PageOpens ==
    /\ tab' = "joined"
    /\ again' \in BOOLEAN
    /\ modals' = <<>>
    /\ seenBuffer' = {}
    /\ UNCHANGED <<toast, delivered, onPage, workerVars>>

First(n, s) == SubSeq(s, 1, Min({n, Len(s)}))

\* Mutant: the newest events come first.
ListedNewestFirst(S) == First(ToastLimit, SetToSortSeq(S, >))
Listed(S) == First(ToastLimit, SetToSortSeq(S, <))

\* _unseen_toasts.
UnseenListed ==
    /\ tab = "joined"
    /\ tab' = "live"
    /\ ToastsHandled(Listed(Unseen))
    /\ UNCHANGED <<toast, again, workerVars>>

\* The second socket, to which nothing is pushed.
UnseenListedAgain ==
    /\ tab # "closed" /\ again
    /\ again' = FALSE
    /\ ToastsHandled(Listed(Unseen))
    /\ UNCHANGED <<toast, tab, workerVars>>

SocketLost ==
    /\ tab \in {"joined", "live"}
    /\ tab' = "offline"
    /\ UNCHANGED <<toast, again, modals, seenBuffer, delivered, onPage, workerVars>>

-----------------------------------------------------------------------------
MarkSeen(ids) ==
    toast' \in {toast, [i \in Toasts |-> IF i \in ids THEN [toast[i] EXCEPT !.state = "seen"] ELSE toast[i]]}

\* markSeenLater: the timer fires; the request may fail and is not repeated.
SeenFlush ==
    /\ seenBuffer # {}
    /\ MarkSeen(seenBuffer)
    /\ seenBuffer' = {}
    /\ UNCHANGED <<tab, again, modals, delivered, onPage, workerVars>>

\* The buttons of the dialog mark its event and leave the page.
ModalAnswered ==
    /\ modals # <<>>
    /\ MarkSeen({Head(modals)})
    /\ tab' = "closed" /\ again' = FALSE
    /\ modals' = <<>>
    /\ seenBuffer' = {}
    /\ UNCHANGED <<delivered, onPage, workerVars>>

\* Closed without an answer the event stays unseen and the next dialog is shown.
ModalDismissed ==
    /\ modals # <<>>
    /\ modals' = Tail(modals)
    /\ UNCHANGED <<toast, tab, again, seenBuffer, delivered, onPage, workerVars>>

-----------------------------------------------------------------------------
ToastStep(p) == ToastPush(p) \/ \E kind \in {"modal", "notice"} : ToastCreate(p, kind)
ToastPage ==
    PageOpens \/ UnseenListed \/ UnseenListedAgain \/ SocketLost \/ SeenFlush \/ ModalAnswered \/ ModalDismissed

ToastsCrash(p) == Crash(p) /\ UNCHANGED toastVars

ToastsNext == ToastPage \/ \E p \in Procs : ToastStep(p) \/ ToastsCrash(p)

\* The user keeps coming back, and now and then a socket lasts until the events
\* are listed.  Nobody has to answer a dialog.
ToastsFairness == WF_toastVars(PageOpens) /\ SF_toastVars(UnseenListed)

ToastsSpec == WorkersInit /\ ToastsInit /\ [][ToastsNext]_<<workerVars, toastVars>>
ToastsFairSpec == ToastsSpec /\ ToastsFairness

-----------------------------------------------------------------------------
ToastsTypeOK ==
    /\ toast \in [Toasts -> ToastRow \cup {NoToast}]
    /\ tab \in {"closed", "joined", "live", "offline"}
    /\ again \in BOOLEAN
    /\ ToSet(modals) \subseteq Toasts
    /\ seenBuffer \subseteq Toasts /\ delivered \subseteq Toasts /\ onPage \subseteq Toasts
    /\ req \in [Procs -> [op : {"toast_push"}, toast : Toasts] \cup {Idle}]

\* An event that no page has had, among the oldest unseen ones.
Waiting ==
    \E i \in Unseen \ delivered : Cardinality({j \in Unseen : j < i}) < ToastLimit

\* Such an event reaches a page of its user though its push was lost, its worker
\* died or its page had no socket.
ToastArrives == Waiting ~> ~Waiting

\* A dialog closed without an answer does not come back on the same page.
DialogOncePerPage == \A i, j \in DOMAIN modals : i # j => modals[i] # modals[j]

\* No notice is lost: one that is marked as seen was left on a page.
SeenWasShown ==
    \A i \in Toasts : toast[i] = [kind |-> "notice", state |-> "seen"] => i \in onPage
=============================================================================

----------------------------- MODULE PhoneReveal -----------------------------
(***************************************************************************)
(* "Показать номер": the telephone of a seller, shown to a buyer on a page *)
(* of the classifieds for five minutes (static/js/app/reveal-phone.js).    *)
(*                                                                         *)
(* One browser with several pages open, which share localStorage and       *)
(* nothing else.  The server logs what it tells, or refuses (RevealLimits  *)
(* says when).  Time is what it ends: the countdown of a number.           *)
(***************************************************************************)
EXTENDS Integers, FiniteSets

CONSTANTS Ads,         \* ads of others, whose blocks every page shows
          Tabs,        \* pages of the browser
          Flights,     \* requests that may be on their way at once
          NoTab,
          MaxDue       \* bound: clicks on a number that wait at once

ASSUME PhoneRevealAssumption ==
    IsFiniteSet(Tabs) /\ IsFiniteSet(Flights) /\ NoTab \notin Tabs /\ MaxDue \in Nat \ {0}

VARIABLES stored,     \* localStorage: the number, while it may be shown and later
          safetySeen, \* localStorage: safety_warning_seen
          page,       \* whether each page is open, and in front
          shown,      \* the numbers each page shows
          disabled,   \* the buttons each page has disabled
          confirms,   \* onConfirm listeners of the dialog of each page
          flight,     \* requests on their way
          logged,     \* ads with a PhoneRevealLog row of the user
          due         \* history: clicks on each number that still wait for it

browserVars == <<stored, safetySeen, page, shown, disabled, confirms>>
phoneVars == <<browserVars, flight, logged, due>>

NoFlight == [stage |-> "none"]
Flight == [stage : {"sent", "answered", "refused"}, tab : Tabs \cup {NoTab}, ad : Ads]

PhoneRevealInit ==
    /\ stored = [a \in Ads |-> "none"]
    /\ safetySeen = FALSE
    /\ page = [t \in Tabs |-> "closed"]
    /\ shown = [t \in Tabs |-> {}] /\ disabled = [t \in Tabs |-> {}]
    /\ confirms = [t \in Tabs |-> [a \in Ads |-> 0]]
    /\ flight = [f \in Flights |-> NoFlight]
    /\ logged = {}
    /\ due = [a \in Ads |-> 0]

-----------------------------------------------------------------------------
\* initFromLocalStorage, when a page opens.
RevealPageOpens(t) ==
    /\ page[t] = "closed"
    /\ page' = [page EXCEPT ![t] = "visible"]
    /\ shown' = [shown EXCEPT ![t] = {a \in Ads : stored[a] = "current"}]
    /\ stored' = [a \in Ads |-> IF stored[a] = "over" THEN "none" ELSE stored[a]]
    /\ UNCHANGED <<logged, safetySeen, disabled, confirms, flight, due>>

\* What the page knew is gone; its requests are served, and answered to nobody.
RevealPageCloses(t) ==
    /\ page[t] # "closed"
    /\ page' = [page EXCEPT ![t] = "closed"]
    /\ shown' = [shown EXCEPT ![t] = {}]
    /\ disabled' = [disabled EXCEPT ![t] = {}]
    /\ confirms' = [confirms EXCEPT ![t] = [a \in Ads |-> 0]]
    /\ due' = [a \in Ads |-> due[a] - confirms[t][a]]
    /\ flight' = [f \in Flights |->
                    IF flight[f] # NoFlight /\ flight[f].tab = t THEN [flight[f] EXCEPT !.tab = NoTab]
                    ELSE flight[f]]
    /\ UNCHANGED <<logged, stored, safetySeen>>

\* The countdowns of a page that are at their end.  An entry that another page
\* has removed ends none.
TimedOut(t) == {a \in shown[t] : stored[a] = "over"}

\* Mutant: the entry is removed and the block is left as it is.
HideWithoutMasking(t) ==
    /\ stored' = [a \in Ads |-> IF a \in TimedOut(t) THEN "none" ELSE stored[a]]
    /\ UNCHANGED shown
Hide(t) ==
    /\ stored' = [a \in Ads |-> IF a \in TimedOut(t) THEN "none" ELSE stored[a]]
    /\ shown' = [shown EXCEPT ![t] = @ \ TimedOut(t)]

\* tickRevealCountdowns, once a second while the page is in front.
CountdownEnds(t) ==
    /\ page[t] = "visible" /\ TimedOut(t) # {}
    /\ Hide(t)
    /\ UNCHANGED <<logged, safetySeen, page, disabled, confirms, flight, due>>

RevealPageHides(t) ==
    /\ page[t] = "visible"
    /\ page' = [page EXCEPT ![t] = "hidden"]
    /\ UNCHANGED <<logged, stored, safetySeen, shown, disabled, confirms, flight, due>>

\* visibilitychange ticks at once.
RevealPageReturns(t) ==
    /\ page[t] = "hidden"
    /\ page' = [page EXCEPT ![t] = "visible"]
    /\ Hide(t)
    /\ UNCHANGED <<logged, safetySeen, disabled, confirms, flight, due>>

NumberIsOver(a) ==
    /\ stored[a] = "current"
    /\ stored' = [stored EXCEPT ![a] = "over"]
    /\ UNCHANGED <<logged, safetySeen, page, shown, disabled, confirms, flight, due>>

-----------------------------------------------------------------------------
\* doReveal, as many times for each ad as asked says.
DoReveal(t, asked) ==
    /\ disabled' = [disabled EXCEPT ![t] = @ \cup {a \in Ads : asked[a] > 0}]
    /\ \E free \in SUBSET {f \in Flights : flight[f] = NoFlight}, ad \in [Flights -> Ads] :
          /\ \A a \in Ads : Cardinality({f \in free : ad[f] = a}) = asked[a]
          /\ flight' = [f \in Flights |-> IF f \in free THEN [stage |-> "sent", tab |-> t, ad |-> ad[f]]
                                          ELSE flight[f]]

\* handleRevealClick: nothing is asked for a number that another page has; it is
\* asked at once when the warning has been seen, or else after the dialog, to
\* which each click adds a listener.
Clicks(t, a) == page[t] = "visible" /\ a \notin shown[t] \cup disabled[t]

RevealFromStorage(t, a) ==
    /\ Clicks(t, a) /\ stored[a] = "current"
    /\ shown' = [shown EXCEPT ![t] = @ \cup {a}]
    /\ UNCHANGED <<logged, stored, safetySeen, page, disabled, confirms, flight, due>>

AskForNumber(t, a) ==
    /\ Clicks(t, a) /\ stored[a] # "current"
    /\ due[a] < MaxDue
    /\ due' = [due EXCEPT ![a] = @ + 1]
    /\ \/ /\ safetySeen
          /\ DoReveal(t, [b \in Ads |-> IF b = a THEN 1 ELSE 0])
          /\ UNCHANGED confirms
       \/ /\ ~safetySeen
          /\ confirms' = [confirms EXCEPT ![t][a] = @ + 1]
          /\ UNCHANGED <<disabled, flight>>
    /\ UNCHANGED <<logged, stored, safetySeen, page, shown>>

\* Mutant: no listener removes itself.
KeepListeners(t) == UNCHANGED confirms
RemoveListeners(t) == confirms' = [confirms EXCEPT ![t] = [a \in Ads |-> 0]]

\* The button of the dialog runs every listener, those of clicks that were
\* cancelled too.
DialogConfirmed(t) ==
    /\ page[t] = "visible"
    /\ \E a \in Ads : confirms[t][a] > 0
    /\ safetySeen' \in {safetySeen, TRUE}
    /\ RemoveListeners(t)
    /\ DoReveal(t, confirms[t])
    /\ UNCHANGED <<logged, stored, page, shown, due>>

\* The dialog before a call or a message sets the same mark.
ContactConfirmed ==
    /\ ~safetySeen /\ safetySeen' = TRUE
    /\ UNCHANGED <<logged, stored, page, shown, disabled, confirms, flight, due>>

-----------------------------------------------------------------------------
\* RevealPhoneAPIView.get.
RevealServed(f) ==
    LET a == flight[f].ad
    IN  /\ flight[f].stage = "sent"
        /\ \/ /\ flight' = [flight EXCEPT ![f].stage = "answered"]
              /\ logged' = logged \cup {a}
           \/ /\ flight' = [flight EXCEPT ![f].stage = "refused"]
              /\ UNCHANGED logged
        /\ due' = [due EXCEPT ![a] = @ - 1]
        /\ UNCHANGED browserVars

\* The answer, or an error, or nothing.
NumberArrives(f) ==
    LET t == flight[f].tab
        a == flight[f].ad
    IN  /\ flight[f].stage = "answered" /\ t # NoTab
        /\ stored' = [stored EXCEPT ![a] = "current"]
        /\ shown' = [shown EXCEPT ![t] = @ \cup {a}]
        /\ disabled' = [disabled EXCEPT ![t] = @ \ {a}]
        /\ flight' = [flight EXCEPT ![f] = NoFlight]
        /\ UNCHANGED <<logged, safetySeen, page, confirms, due>>

RevealFails(f) ==
    LET t == flight[f].tab
    IN  /\ flight[f].stage \in {"answered", "refused"}
        /\ disabled' = IF t = NoTab THEN disabled ELSE [disabled EXCEPT ![t] = @ \ {flight[f].ad}]
        /\ flight' = [flight EXCEPT ![f] = NoFlight]
        /\ UNCHANGED <<logged, stored, safetySeen, page, shown, confirms, due>>

-----------------------------------------------------------------------------
PhoneRevealNext ==
    \/ \E t \in Tabs :
          \/ RevealPageOpens(t) \/ RevealPageCloses(t) \/ RevealPageHides(t) \/ RevealPageReturns(t)
          \/ CountdownEnds(t) \/ DialogConfirmed(t)
          \/ \E a \in Ads : RevealFromStorage(t, a) \/ AskForNumber(t, a)
    \/ \E f \in Flights : RevealServed(f) \/ NumberArrives(f) \/ RevealFails(f)
    \/ (\E a \in Ads : NumberIsOver(a)) \/ ContactConfirmed

PhoneRevealFairness ==
    /\ \A a \in Ads : WF_phoneVars(NumberIsOver(a))
    /\ \A t \in Tabs : WF_phoneVars(CountdownEnds(t))

PhoneRevealSpec == PhoneRevealInit /\ [][PhoneRevealNext]_phoneVars /\ PhoneRevealFairness

-----------------------------------------------------------------------------
PhoneRevealTypeOK ==
    /\ stored \in [Ads -> {"none", "current", "over"}]
    /\ safetySeen \in BOOLEAN
    /\ page \in [Tabs -> {"closed", "visible", "hidden"}]
    /\ shown \in [Tabs -> SUBSET Ads] /\ disabled \in [Tabs -> SUBSET Ads]
    /\ confirms \in [Tabs -> [Ads -> 0..MaxDue]]
    /\ flight \in [Flights -> Flight \cup {NoFlight}]
    /\ logged \subseteq Ads
    /\ due \in [Ads -> 0..MaxDue]

\* A request is sent for a number no more often than it was clicked on, though a
\* dialog that was cancelled leaves its listener behind; and what a page shows or
\* the browser keeps was counted.
Sent(a) == {f \in Flights : flight[f].stage = "sent" /\ flight[f].ad = a}
Listeners(a) == {l \in Tabs \X (1..MaxDue) : l[2] <= confirms[l[1]][a]}
Waiting(a) == Cardinality(Sent(a)) + Cardinality(Listeners(a))
NumbersWereAskedFor ==
    \A a \in Ads :
        /\ Waiting(a) <= due[a]
        /\ stored[a] # "none" \/ (\E t \in Tabs : a \in shown[t]) => a \in logged

\* A number on the only open page is hidden again when its time is over, unless
\* the page goes to the back: then it is when it comes to the front.
OnlyOpen(t) == \A s \in Tabs \ {t} : page[s] = "closed"
NumberIsHidden ==
    \A t \in Tabs, a \in Ads :
        page[t] = "visible" /\ a \in shown[t] /\ stored[a] # "none" /\ OnlyOpen(t)
            ~> page[t] # "visible" \/ a \notin shown[t] \/ ~OnlyOpen(t)

\* Refuted by TLC (see README): with two pages open, the one whose countdown ends
\* first removes the entry, and the other shows the number for good.
EveryPageHides ==
    \A t \in Tabs, a \in Ads :
        page[t] = "visible" /\ a \in shown[t] ~> page[t] # "visible" \/ a \notin shown[t]
=============================================================================

------------------------------ MODULE MCPages -------------------------------
(***************************************************************************)
(* The pages of the site, which share nothing, checked side by side: a     *)
(* behaviour is one of the page it starts with, and the others stay as     *)
(* they are.                                                               *)
(***************************************************************************)
EXTENDS Gates, RoomPage, HeaderPage, PhoneReveal, Suggestions

CONSTANTS w1, w2, w3, w4, w5  \* words: three that matter, noise, and a form of the first

VARIABLE part  \* the page that runs

PageParts == {"gates", "roompage", "headerpage", "phonereveal", "suggestions"}

MCForms == [w \in Words |-> IF w = w5 THEN {w5, w1} ELSE {w}]
MCLikeness ==
    [w \in Words |-> [v \in Words |-> IF w = v THEN 50 ELSE IF {w, v} = {w1, w5} THEN 38 ELSE 0]]
MCServiceNames == {{w1}, {w2, w3}, {w3}}
MCAliases == [s \in MCServiceNames |-> IF s = {w3} THEN {w2, w3} ELSE s]
MCLine(phrase, targets) == [phrase |-> phrase, targets |-> targets]
\* Two targets that are one service; a phrase within another, and one of a like word.
MCPhraseFiles ==
    {<<MCLine({w1, w2, w4}, <<{w2, w3}, {w3}>>), MCLine({w1}, <<{w1}>>)>>,
     <<MCLine({w1, w4}, <<{w2, w3}, {w1}>>), MCLine({w1, w2}, <<{w2, w3}>>), MCLine({w1, w5}, <<{w1}>>)>>}
MCPhraseTexts == {{w1, w2}, {w5, w4}, {w3}}
MCShopText == <<{w2}, {w4}>>
MCShopServices == <<{{w1}}, {{w2, w3}, {w3}}>>
MCAsks == {[text |-> {w2}, only |-> FALSE]}

-----------------------------------------------------------------------------
\* A page that does not run has one initial state.
PagesInit ==
    /\ part \in PageParts
    /\ GatesInit /\ RoomPageInit /\ HeaderInit /\ PhoneRevealInit /\ SuggestionsInit
    /\ part # "suggestions" => \A s \in ServiceNames : service[s] = 3
    /\ part # "gates" => moderation /\ lite
    /\ part # "headerpage" => unread = [c \in Sockets |-> 0] /\ visible

Only(p, next) == part = p /\ next

PagesNext ==
    /\ part' = part
    /\ \/ Only("gates", GatesNext)
       \/ Only("roompage", RoomPageNext)
       \/ Only("headerpage", HeaderNext)
       \/ Only("phonereveal", PhoneRevealNext)
       \/ Only("suggestions", SuggestionsNext)
    /\ part # "gates" => UNCHANGED gateVars
    /\ part # "roompage" => UNCHANGED pageVars
    /\ part # "headerpage" => UNCHANGED headerVars
    /\ part # "phonereveal" => UNCHANGED phoneVars
    /\ part # "suggestions" => UNCHANGED suggestVars

pagesVars == <<part, gateVars, pageVars, headerVars, phoneVars, suggestVars>>

\* The fairness of each page, while it is the one that runs.
PagesFairness ==
    /\ WF_pageVars(Only("roompage", SocketJoins)) /\ WF_pageVars(Only("roompage", SocketOpens))
    /\ WF_pageVars(Only("roompage", Reconnect)) /\ WF_pageVars(Only("roompage", FirstCheck))
    /\ WF_pageVars(Only("roompage", ~SocketWorks /\ SocketCloses))
    /\ WF_pageVars(Only("roompage", EventArrives)) /\ WF_pageVars(Only("roompage", TimedPoll))
    /\ SF_pageVars(Only("roompage", PollServed)) /\ SF_pageVars(Only("roompage", PollAnswered))
    /\ \A c \in Sockets :
          /\ WF_headerVars(Only("headerpage", TimerFires(c)))
          /\ WF_headerVars(Only("headerpage", CountArrives(c)))
    /\ WF_headerVars(Only("headerpage", SummaryTick))
    /\ SF_headerVars(Only("headerpage", SummaryServed))
    /\ SF_headerVars(Only("headerpage", SummaryAnswered))
    /\ \A a \in Ads : WF_phoneVars(Only("phonereveal", NumberIsOver(a)))
    /\ \A t \in Tabs : WF_phoneVars(Only("phonereveal", CountdownEnds(t)))

PagesSpec == PagesInit /\ [][PagesNext]_pagesVars /\ PagesFairness

-----------------------------------------------------------------------------
TypeOKOf(p) ==
    CASE p = "gates" -> GatesTypeOK
      [] p = "roompage" -> RoomPageTypeOK
      [] p = "headerpage" -> HeaderTypeOK
      [] p = "phonereveal" -> PhoneRevealTypeOK
      [] p = "suggestions" -> SuggestionsTypeOK

\* The page that runs is well typed: its timers, sockets and requests in flight
\* hold nothing its script cannot have put there.
PagesTypeOK == TypeOKOf(part)

-----------------------------------------------------------------------------
\* The search box answers: a phrase of the dictionary leads first to its services, and
\* what is suggested is on the site, or was within the life of an answer.
SearchAnswers == PhraseIsAnswered /\ SuggestedWasOnSite

\* Whoever logs in or registers comes to a page, is not sent round in circles and
\* not to an error, whatever his role, decision, consent, telephone and e-mail.
EveryoneLands == []NoRedirectLoop /\ []LoginLands /\ RegistrationLands

\* Pages that poll while their sockets are down catch up: a reader comes to have
\* every message, each once, and the counter of the header comes to the count.
PagesCatchUp == []TheirsShownOnce /\ ReaderMissesNothing /\ HeaderSettles

\* A seller's number is shown to whom it was counted for, is asked for as often as
\* it was clicked on, and is hidden when its time is over.
NumbersAreGuarded == []NumbersWereAskedFor /\ NumberIsHidden
=============================================================================

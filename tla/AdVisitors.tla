----------------------------- MODULE AdVisitors ------------------------------
(***************************************************************************)
(* What visitors leave on the board: the views of an ad, which a session   *)
(* of a browser counts once, favourites (classifieds/views.py; those of    *)
(* shops and stations in users/cabinet_views.py work alike), reviews of a  *)
(* seller, one of each author, that the staff hide and show, and the city  *)
(* the session keeps for the visitor (core/visitor_city.py, middleware.py, *)
(* views.py).                                                              *)
(*                                                                         *)
(* One visitor with several tabs, one seller, ads that stay on the site.    *)
(* A session is loaded with the request and saved whole with the answer.   *)
(***************************************************************************)
EXTENDS Workers, Sequences

CONSTANTS VisitedAds,
          FavouriteAds,  \* those of them the visitor may mark
          Reviewers, Stars, NoOpinion,
          CityLists,  \* lists of cities a request may read: of the file, or without it
          NoCity,
          MaxViews  \* bound on the counts of an ad

CitiesOf(list) == {list[i] : i \in DOMAIN list}
CityLabels == UNION {CitiesOf(list) : list \in CityLists}

ASSUME AdVisitorsAssumption ==
    /\ FavouriteAds \subseteq VisitedAds /\ NoOpinion \notin Stars /\ MaxViews \in Nat
    /\ \A list \in CityLists : 1 \in DOMAIN list /\ NoCity \notin CitiesOf(list)

VARIABLES session,   \* ads in the session of the visitor
          city,      \* and the label of his city
          chosen,    \* the city he was last told is his
          views,     \* view_count of each ad, as far as the visitor moved it
          favourite, \* FavoriteAd rows of the visitor
          button,    \* and what the last answer of a toggle shows
          opinion,   \* SellerReview rows about the seller by author
          thanked    \* the stars for which an author was thanked, most recent last

visitorVars == <<session, city, chosen, views, favourite, button, opinion, thanked>>

Opinion == [stars : Stars, status : {"ok", "hidden"}]
None == [stars |-> NoOpinion, status |-> "ok"]

VisitorRequest ==
    [op : {"ad_count", "ad_seen"}, ad : VisitedAds, seen : SUBSET VisitedAds, city : CityLabels]
      \cup [op : {"session_save"}, seen : SUBSET VisitedAds, city : CityLabels,
            told : CityLabels \cup {NoCity}]
      \cup [op : {"favourite_decide"}, ad : VisitedAds, was : BOOLEAN]
      \cup [op : {"favourite_write"}, ad : VisitedAds, was : BOOLEAN, add : BOOLEAN]
      \cup [op : {"opinion_save"}, author : Reviewers, stars : Stars]

VisitorsInit ==
    /\ session = {} /\ city = NoCity /\ chosen = NoCity
    /\ views = [a \in VisitedAds |-> 0]
    /\ favourite = {} /\ button = {}
    /\ opinion = [u \in Reviewers |-> None]
    /\ thanked = [u \in Reviewers |-> << >>]

-----------------------------------------------------------------------------
\* ensure_visitor_city_in_session, before every request: the label, or the first of
\* a list that does not have it.
FirstCity(list) == list[1]  \* mutant: whatever the session has
EnsuredCity(list) == IF city \in CitiesOf(list) THEN city ELSE list[1]

\* AdDetailView with _bump_ad_detail_view_count.
AdOpened(p, a) ==
    /\ a \notin session /\ views[a] < MaxViews
    /\ \E list \in CityLists :
          Begin(p, [op |-> "ad_count", ad |-> a, seen |-> session, city |-> EnsuredCity(list)])
    /\ UNCHANGED visitorVars

\* Mutant: the session only knows whether it has counted.
FirstAdCounted(p) ==
    /\ At(p, "ad_count")
    /\ views' = IF req[p].seen = {} THEN [views EXCEPT ![req[p].ad] = @ + 1] ELSE views
    /\ Goto(p, "ad_seen")
    /\ UNCHANGED <<session, city, chosen, favourite, button, opinion, thanked>>
AdCounted(p) ==
    /\ At(p, "ad_count")
    /\ views' = [views EXCEPT ![req[p].ad] = @ + 1]
    /\ Goto(p, "ad_seen")
    /\ UNCHANGED <<session, city, chosen, favourite, button, opinion, thanked>>

\* Mutant: the mark is not kept.
SeenForgotten(p) == At(p, "ad_seen") /\ End(p) /\ UNCHANGED visitorVars
AdSeen(p) ==
    /\ At(p, "ad_seen")
    /\ session' = req[p].seen \cup {req[p].ad}
    /\ city' = req[p].city
    /\ End(p)
    /\ UNCHANGED <<chosen, views, favourite, button, opinion, thanked>>

\* Another page, or an ad that was counted: the session is saved when the city is not
\* on the list.
PageOpened(p) ==
    /\ \E list \in CityLists :
          /\ city \notin CitiesOf(list)
          /\ Begin(p, [op |-> "session_save", seen |-> session, city |-> EnsuredCity(list),
                       told |-> NoCity])
    /\ UNCHANGED visitorVars

\* set_visitor_city, from a page whose list had the label.
CityChosen(p) ==
    /\ \E list \in CityLists, label \in CityLabels :
          LET known == label \in CitiesOf(list)
          IN  /\ known \/ city \notin CitiesOf(list)
              /\ Begin(p, [op |-> "session_save", seen |-> session,
                           city |-> IF known THEN label ELSE EnsuredCity(list),
                           told |-> IF known THEN label ELSE NoCity])
    /\ UNCHANGED visitorVars

SessionSaved(p) ==
    /\ At(p, "session_save")
    /\ session' = req[p].seen
    /\ city' = req[p].city
    /\ chosen' = IF req[p].told = NoCity THEN chosen ELSE req[p].told
    /\ End(p)
    /\ UNCHANGED <<views, favourite, button, opinion, thanked>>

\* favorite_ad_toggle: asked twice whether there is a row.
FavouriteRead(p, a) ==
    /\ Begin(p, [op |-> "favourite_decide", ad |-> a, was |-> a \in favourite])
    /\ UNCHANGED visitorVars

FavouriteDecide(p) ==
    /\ At(p, "favourite_decide")
    /\ Continue(p, [op |-> "favourite_write", ad |-> req[p].ad, was |-> req[p].was,
                    add |-> req[p].ad \notin favourite])
    /\ UNCHANGED visitorVars

\* A second row is refused by the constraint, and the answer is an error.
FavouriteWrite(p) ==
    LET a == req[p].ad
    IN  /\ At(p, "favourite_write")
        /\ favourite' = IF req[p].add THEN favourite \cup {a} ELSE favourite \ {a}
        /\ button' = IF req[p].add /\ a \in favourite THEN button
                     ELSE IF req[p].was THEN button \ {a} ELSE button \cup {a}
        /\ End(p)
        /\ UNCHANGED <<session, city, chosen, views, opinion, thanked>>

\* seller_review_create: a page offers it to those who have written none.
MayReview(u) == opinion[u] = None
OpinionRead(p, u) ==
    /\ MayReview(u)
    /\ \E n \in Stars : Begin(p, [op |-> "opinion_save", author |-> u, stars |-> n])
    /\ UNCHANGED visitorVars

\* The constraint refuses another review of this author.
\* Mutant: it takes its place.
OpinionReplaced(p) ==
    LET u == req[p].author
    IN  /\ At(p, "opinion_save")
        /\ opinion' = [opinion EXCEPT ![u] = [stars |-> req[p].stars, status |-> "ok"]]
        /\ thanked' = [thanked EXCEPT ![u] = Append(@, req[p].stars)]
        /\ End(p)
        /\ UNCHANGED <<session, city, chosen, views, favourite, button>>
OpinionSave(p) ==
    LET u == req[p].author
    IN  /\ At(p, "opinion_save")
        /\ IF MayReview(u)
           THEN /\ opinion' = [opinion EXCEPT ![u] = [stars |-> req[p].stars, status |-> "ok"]]
                /\ thanked' = [thanked EXCEPT ![u] = Append(@, req[p].stars)]
           ELSE UNCHANGED <<opinion, thanked>>
        /\ End(p)
        /\ UNCHANGED <<session, city, chosen, views, favourite, button>>

\* SellerReviewAdmin: two actions over the chosen rows.
OpinionModerated(p) ==
    /\ req[p] = Idle
    /\ \E u \in Reviewers, status \in {"ok", "hidden"} :
          opinion[u] # None /\ opinion' = [opinion EXCEPT ![u].status = status]
    /\ UNCHANGED <<session, city, chosen, views, favourite, button, thanked, workerVars>>

-----------------------------------------------------------------------------
VisitorStep(p) ==
    \/ \E a \in VisitedAds : AdOpened(p, a)
    \/ \E a \in FavouriteAds : FavouriteRead(p, a)
    \/ PageOpened(p) \/ CityChosen(p) \/ SessionSaved(p)
    \/ AdCounted(p) \/ AdSeen(p) \/ FavouriteDecide(p) \/ FavouriteWrite(p)
    \/ \E u \in Reviewers : OpinionRead(p, u)
    \/ OpinionSave(p) \/ OpinionModerated(p)

VisitorsCrash(p) == Crash(p) /\ UNCHANGED visitorVars

VisitorsNext == \E p \in Procs : VisitorStep(p) \/ VisitorsCrash(p)

VisitorsSpec == WorkersInit /\ VisitorsInit /\ [][VisitorsNext]_<<workerVars, visitorVars>>

-----------------------------------------------------------------------------
\* SellerProfileView and ClientReviewListView: who is shown, and their stars.
ShownOpinions == {u \in Reviewers : opinion[u] # None /\ opinion[u].status = "ok"}

AdVisitorsTypeOK ==
    /\ session \subseteq VisitedAds
    /\ city \in CityLabels \cup {NoCity} /\ chosen \in CityLabels \cup {NoCity}
    /\ views \in [VisitedAds -> Nat]
    /\ favourite \subseteq VisitedAds /\ button \subseteq VisitedAds
    /\ opinion \in [Reviewers -> Opinion \cup {None}]
    /\ \A u \in Reviewers : \A i \in DOMAIN thanked[u] : thanked[u][i] \in Stars
    /\ req \in [Procs -> VisitorRequest \cup {Idle}]

\* Whatever tabs and workers overlap or die, an ad that the session knows has been
\* counted, and an author is thanked once, for the stars that are kept.
VisitsAreKept ==
    /\ \A a \in session : views[a] >= 1
    /\ \A u \in Reviewers :
          thanked[u] = IF opinion[u] = None THEN << >> ELSE <<opinion[u].stars>>

\* One at a time, a session counts an ad once and keeps the city the visitor was told
\* is his, and the button of a favourite is as the row, however he goes about.
VisitsAreCountedOnce ==
    /\ \A a \in VisitedAds : views[a] <= 1
    /\ chosen # NoCity => city = chosen
    /\ button = favourite
=============================================================================

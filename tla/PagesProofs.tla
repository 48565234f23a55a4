----------------------------- MODULE PagesProofs -----------------------------
(***************************************************************************)
(* Proofs about the pages of the site: where a user lands (Gates), what a  *)
(* room shows (RoomPage), the counter of the header (HeaderPage), the      *)
(* telephones of sellers (PhoneReveal) and the search box (Suggestions),   *)
(* and of all of them side by side (MCPages).                              *)
(***************************************************************************)
EXTENDS MCPages, FiniteSetTheorems, SequenceTheorems, WellFoundedInduction, TLAPS

\* A set of numbers with a bound has a greatest one.
LEMMA GreatestThereIs ==
    ASSUME NEW S, S \subseteq Nat, S # {}, NEW bound \in Nat, \A n \in S : n <= bound
    PROVE  \E n \in S : \A o \in S : o <= n
<1> DEFINE below == {bound - n : n \in S}
<1>1. below \subseteq Nat /\ below # {}
  <2>1. \A n \in S : n \in Nat /\ n <= bound /\ bound - n \in Nat
    OBVIOUS
  <2>2. \E n \in S : bound - n \in below
    OBVIOUS
  <2>3. QED
    BY <2>1, <2>2
<1>2. PICK k \in below : \A l \in below : ~(<<l, k>> \in OpToRel(<, Nat))
  BY <1>1, NatLessThanWellFounded, WFMin
<1>3. \A l \in below : ~(l < k)
  BY <1>1, <1>2 DEF OpToRel
<1>4. PICK n \in S : k = bound - n
  BY <1>2
<1>5. ASSUME NEW o \in S PROVE o <= n
  <2>1. bound - o \in below /\ n \in Nat /\ o \in Nat
    BY <1>4
  <2>2. ~(bound - o < bound - n)
    BY <2>1, <1>3, <1>4
  <2>3. QED
    BY <2>1, <2>2
<1>6. QED
  BY <1>5

-----------------------------------------------------------------------------
(* Where an account is sent.                                               *)

\* G is n redirects in one: from each page to one where the walk rests, or n nearer to it.
Comes(G, rest, good, far, n) ==
    /\ G \in [Pages -> Pages]
    /\ \A p \in rest : G[p] = p
    /\ \A p \in Pages : G[p] \in rest \/ far[G[p]] + n <= far[p]
    /\ \A p \in good : G[p] \in good

LEMMA TwiceComesNearer ==
    ASSUME NEW G, NEW rest \in SUBSET Pages, NEW good \in SUBSET Pages,
           NEW far \in [Pages -> 0..7], NEW n \in Nat, NEW m \in Nat,
           Comes(G, rest, good, far, n), m = n + n
    PROVE  Comes(Twice(G), rest, good, far, m)
<1> USE DEF Comes
<1>1. /\ Twice(G) \in [Pages -> Pages]
      /\ \A p \in Pages : Twice(G)[p] = G[G[p]]
  BY DEF Twice
<1>2. \A p \in Pages \cap rest : Twice(G)[p] = p
  BY <1>1
<1>3. ASSUME NEW p \in Pages
      PROVE  Twice(G)[p] \in rest \/ far[Twice(G)[p]] + m <= far[p]
  <2>1. CASE G[p] \in rest
    BY <1>1, <2>1
  <2>2. CASE G[p] \notin rest
    <3>1. G[p] \in Pages /\ G[G[p]] \in Pages
      OBVIOUS
    <3>2. /\ far[G[p]] + n <= far[p]
          /\ G[G[p]] \in rest \/ far[G[G[p]]] + n <= far[G[p]]
      BY <2>2, <3>1
    <3>3. far[p] \in 0..7 /\ far[G[p]] \in 0..7 /\ far[G[G[p]]] \in 0..7
      BY <3>1
    <3>4. G[G[p]] \in rest \/ far[G[G[p]]] + m <= far[p]
      BY <3>2, <3>3
    <3>5. QED
      BY <3>4, <1>1
  <2>3. QED
    BY <2>1, <2>2
<1>4. QED
  BY <1>1, <1>2, <1>3

\* A row has its role's profile.
GatesInv ==
    /\ GatesTypeOK
    /\ user.role = "autoshop" => user.shop

\* The pages that end well.
GoodPages ==
    {"home", "hub", "profile", "email_notice"}
      \cup {p \in {DecisionPage(user.decision)} : user.owner}
      \cup {p \in {"sto_consent"} : user.owner /\ ~user.consent}
      \cup {p \in {"shop_dashboard", "shop_profile"} : user.role = "autoshop"}
      \cup {p \in {"instructor_profile"} : user.role = "instructor" /\ user.instructor}

\* How many redirects a page may be away from its end.
Redirects ==
    [p \in Pages |->
        IF p \in CabinetPages THEN IF p = DecisionPage(user.decision) THEN 3 ELSE 4
        ELSE IF p = "sto_consent" THEN IF user.consent THEN 5 ELSE 0
        ELSE IF p = "sto_register" THEN 6
        ELSE IF p = "shop_dashboard" THEN 2
        ELSE IF p \in {"email_notice", "complete_profile"} THEN 1 ELSE 0]

\* What each page answers, case by case.
LEMMA AnswersOfPages ==
    ASSUME GatesTypeOK
    PROVE  /\ AnswerTo("home") = "shown" /\ AnswerTo("hub") = "shown" /\ AnswerTo("profile") = "shown"
           /\ AnswerTo("sto_consent") = StoConsentView
           /\ AnswerTo("shop_dashboard") = ShopDashboard
           /\ AnswerTo("shop_profile") = IF user.role = "autoshop" /\ user.shop THEN "shown" ELSE "refused"
           /\ AnswerTo("instructor_profile") =
                  IF user.role = "instructor" /\ user.instructor THEN "shown" ELSE "refused"
           /\ AnswerTo("email_notice") = EmailNotice
           /\ AnswerTo("complete_profile") = IF user.phone /\ user.chosen THEN "home" ELSE "shown"
           /\ AnswerTo("sto_register") = IF user.owner THEN DecisionPage(user.decision) ELSE "shown"
           /\ \A at \in CabinetPages :
                  AnswerTo(at) = IF Middleware(at) = at THEN CabinetView(at) ELSE Middleware(at)
<1>1. AnswerTo("home") = "shown" /\ AnswerTo("hub") = "shown" /\ AnswerTo("profile") = "shown"
  BY DEF AnswerTo, CabinetPages
<1>2. /\ AnswerTo("sto_consent") = StoConsentView
      /\ AnswerTo("shop_dashboard") = ShopDashboard
      /\ AnswerTo("email_notice") = EmailNotice
  BY DEF AnswerTo, CabinetPages
<1>3. /\ AnswerTo("shop_profile") = IF user.role = "autoshop" /\ user.shop THEN "shown" ELSE "refused"
      /\ AnswerTo("instructor_profile") =
                  IF user.role = "instructor" /\ user.instructor THEN "shown" ELSE "refused"
  BY DEF AnswerTo, CabinetPages
<1>4. /\ AnswerTo("complete_profile") = IF user.phone /\ user.chosen THEN "home" ELSE "shown"
      /\ AnswerTo("sto_register") = IF user.owner THEN DecisionPage(user.decision) ELSE "shown"
  BY DEF AnswerTo, CabinetPages
<1>5. \A at \in CabinetPages :
         AnswerTo(at) = IF Middleware(at) = at THEN CabinetView(at) ELSE Middleware(at)
  BY DEF AnswerTo, CabinetPages
<1>6. QED
  BY <1>1, <1>2, <1>3, <1>4, <1>5

\* The three pages of the cabinet, for each decision.
LEMMA AnswersOfCabinet ==
    ASSUME GatesTypeOK, NEW at \in CabinetPages
    PROVE  /\ ~user.owner => AnswerTo(at) \in {"profile", "refused"}
           /\ user.owner /\ user.decision = "approved" /\ ~user.consent => AnswerTo(at) = "sto_consent"
           /\ user.owner /\ ~(user.decision = "approved" /\ ~user.consent) =>
                 /\ at # DecisionPage(user.decision) =>
                       AnswerTo(at) \in {"profile", "shop_dashboard", DecisionPage(user.decision)}
                 /\ at = DecisionPage(user.decision) =>
                       AnswerTo(at) = IF ~user.phone THEN "profile"
                                        ELSE IF user.role = "autoshop" THEN "shop_dashboard" ELSE "shown"
           /\ DecisionPage(user.decision) \in CabinetPages
<1>1. AnswerTo(at) = IF Middleware(at) = at THEN CabinetView(at) ELSE Middleware(at)
  BY AnswersOfPages
<1>2. /\ user.owner \in BOOLEAN /\ user.consent \in BOOLEAN /\ user.phone \in BOOLEAN
      /\ user.decision \in {"pending", "approved", "rejected"}
  BY DEF GatesTypeOK, UserRow, Decisions
<1>3. at \in {"sto_cabinet", "pending_moderation", "moderation_rejected"}
  BY DEF CabinetPages
<1>4. CASE ~user.owner
  <2>1. Middleware(at) = at
    BY <1>4, <1>2 DEF Middleware
  <2>2. CabinetView(at) = IF ~user.phone THEN "profile" ELSE "refused"
    BY <1>4 DEF CabinetView, OnboardingNeeded
  <2>3. DecisionPage(user.decision) \in CabinetPages
    BY <1>2 DEF DecisionPage, CabinetPages
  <2>4. QED
    BY <2>1, <2>2, <2>3, <1>1, <1>4
<1>5. CASE user.owner /\ user.decision = "pending"
  BY <1>1, <1>2, <1>3, <1>5 DEF Middleware, CabinetView, OnboardingNeeded, DecisionPage, CabinetPages
<1>6. CASE user.owner /\ user.decision = "rejected"
  BY <1>1, <1>2, <1>3, <1>6 DEF Middleware, CabinetView, OnboardingNeeded, DecisionPage, CabinetPages
<1>7. CASE user.owner /\ user.decision = "approved"
  BY <1>1, <1>2, <1>3, <1>7 DEF Middleware, CabinetView, OnboardingNeeded, DecisionPage, CabinetPages
<1>8. QED
  BY <1>2, <1>4, <1>5, <1>6, <1>7

\* Each page ends, or sends on to one that is nearer to its end.
LEMMA RedirectsLeadOn ==
    ASSUME GatesTypeOK, NEW at \in Pages, AnswerTo(at) \notin {"shown", "refused"}
    PROVE  AnswerTo(at) \in Pages /\ Redirects[AnswerTo(at)] < Redirects[at]
<1> DEFINE D == DecisionPage(user.decision)
<1>1. /\ user.owner \in BOOLEAN /\ user.consent \in BOOLEAN /\ user.phone \in BOOLEAN
      /\ user.decision \in {"pending", "approved", "rejected"}
  BY DEF GatesTypeOK, UserRow, Decisions
<1>2. D \in CabinetPages
  BY <1>1 DEF DecisionPage, CabinetPages
<1>3. /\ \A p \in CabinetPages : Redirects[p] = IF p = D THEN 3 ELSE 4
      /\ Redirects["sto_consent"] = IF user.consent THEN 5 ELSE 0
      /\ Redirects["sto_register"] = 6 /\ Redirects["shop_dashboard"] = 2
      /\ Redirects["email_notice"] = 1 /\ Redirects["complete_profile"] = 1
      /\ Redirects["home"] = 0 /\ Redirects["profile"] = 0
  BY DEF Redirects, Pages, CabinetPages
<1> HIDE DEF D
<1>4. CASE at \in CabinetPages
  <2>1. CASE ~user.owner
    BY <2>1, <1>3, <1>4, AnswersOfCabinet DEF Pages
  <2>2. CASE user.owner /\ user.decision = "approved" /\ ~user.consent
    BY <2>2, <1>3, <1>4, AnswersOfCabinet DEF Pages
  <2>3. CASE user.owner /\ ~(user.decision = "approved" /\ ~user.consent) /\ at # D
    <3>1. AnswerTo(at) \in {"profile", "shop_dashboard", D}
      BY <2>3, <1>4, AnswersOfCabinet DEF D
    <3>2. QED
      BY <3>1, <2>3, <1>2, <1>3, <1>4 DEF Pages
  <2>4. CASE user.owner /\ ~(user.decision = "approved" /\ ~user.consent) /\ at = D
    <3>1. AnswerTo(at) \in {"profile", "shop_dashboard", "shown"}
      BY <2>4, <1>4, AnswersOfCabinet DEF D
    <3>2. QED
      BY <3>1, <2>4, <1>3, <1>4 DEF Pages
  <2>5. QED
    BY <1>1, <2>1, <2>2, <2>3, <2>4
<1>5. CASE at = "sto_consent"
  <2>1. AnswerTo(at) = "sto_cabinet" /\ user.consent
    BY <1>5, AnswersOfPages DEF StoConsentView
  <2>2. QED
    BY <2>1, <1>3, <1>5 DEF Pages, CabinetPages
<1>6. CASE at = "sto_register"
  <2>1. AnswerTo(at) = D
    BY <1>6, AnswersOfPages DEF D
  <2>2. D \in Pages /\ Redirects[D] = 3
    BY <1>2, <1>3 DEF Pages
  <2>3. QED
    BY <2>1, <2>2, <1>3, <1>6
<1>7. CASE at = "shop_dashboard"
  <2>1. AnswerTo(at) \in {"profile", "email_notice"}
    BY <1>7, AnswersOfPages DEF ShopDashboard
  <2>2. QED
    BY <2>1, <1>3, <1>7 DEF Pages
<1>8. CASE at = "email_notice"
  <2>1. AnswerTo(at) \in {"profile", "home"}
    BY <1>8, AnswersOfPages DEF EmailNotice
  <2>2. QED
    BY <2>1, <1>3, <1>8 DEF Pages
<1>9. CASE at \in {"home", "hub", "profile", "shop_profile", "instructor_profile", "complete_profile"}
  BY <1>3, <1>9, AnswersOfPages DEF Pages
<1>10. QED
  BY <1>4, <1>5, <1>6, <1>7, <1>8, <1>9 DEF Pages

\* A page that ends well ends as "shown", and one that sends on sends to such a page.
LEMMA GoodPagesStayGood ==
    ASSUME GatesInv, NEW at \in GoodPages
    PROVE  /\ at \in Pages
           /\ AnswerTo(at) # "refused"
           /\ AnswerTo(at) = "shown" \/ AnswerTo(at) \in GoodPages
<1> DEFINE D == DecisionPage(user.decision)
<1>1. /\ user.owner \in BOOLEAN /\ user.consent \in BOOLEAN /\ user.phone \in BOOLEAN
      /\ user.decision \in {"pending", "approved", "rejected"}
      /\ user.role = "autoshop" => user.shop
      /\ GatesTypeOK
  BY DEF GatesInv, GatesTypeOK, UserRow, Decisions
<1>2. D \in CabinetPages
  BY <1>1 DEF DecisionPage, CabinetPages
<1>3. /\ {"home", "hub", "profile", "email_notice"} \subseteq GoodPages
      /\ user.owner /\ ~user.consent => "sto_consent" \in GoodPages
      /\ user.role = "autoshop" => "shop_dashboard" \in GoodPages
  BY DEF GoodPages
<1>4. CASE at \in {"home", "hub", "profile"}
  BY <1>1, <1>4, AnswersOfPages DEF Pages
<1>5. CASE at = "email_notice"
  BY <1>1, <1>3, <1>5, AnswersOfPages DEF EmailNotice, Pages
<1>6. CASE at = D /\ user.owner
  <2>1. at \in CabinetPages /\ at \in Pages
    BY <1>2, <1>6 DEF Pages
  <2>2. CASE user.decision = "approved" /\ ~user.consent
    <3>1. AnswerTo(at) = "sto_consent"
      BY <1>1, <1>6, <2>1, <2>2, AnswersOfCabinet
    <3>2. QED
      BY <3>1, <2>1, <2>2, <1>3, <1>6
  <2>3. CASE ~(user.decision = "approved" /\ ~user.consent)
    <3>1. AnswerTo(at) = IF ~user.phone THEN "profile"
                           ELSE IF user.role = "autoshop" THEN "shop_dashboard" ELSE "shown"
      BY <1>1, <1>6, <2>1, <2>3, AnswersOfCabinet
    <3>2. QED
      BY <3>1, <2>1, <1>3
  <2>4. QED
    BY <2>2, <2>3
<1>7. CASE at = "sto_consent" /\ user.owner /\ ~user.consent
  BY <1>1, <1>7, AnswersOfPages DEF StoConsentView, Pages
<1>8. CASE at = "shop_dashboard" /\ user.role = "autoshop"
  BY <1>1, <1>3, <1>8, AnswersOfPages DEF ShopDashboard, Pages
<1>9. CASE at = "shop_profile" /\ user.role = "autoshop"
  BY <1>1, <1>9, AnswersOfPages DEF Pages
<1>10. CASE at = "instructor_profile" /\ user.role = "instructor" /\ user.instructor
  BY <1>1, <1>10, AnswersOfPages DEF Pages
<1>11. QED
  BY <1>4, <1>5, <1>6, <1>7, <1>8, <1>9, <1>10 DEF GoodPages

\* Whoever is sent to a page ends on one that is shown or refused; from a good page, on
\* one that is shown.
LEMMA VisitsEnd ==
    ASSUME GatesTypeOK
    PROVE  /\ \A at \in Pages : AnswerTo(Visit(at)) \in {"shown", "refused"}
           /\ GatesInv => \A at \in GoodPages : AnswerTo(Visit(at)) = "shown"
<1> DEFINE F == [p \in Pages |-> Followed(p)]
           rest == {p \in Pages : AnswerTo(p) \in {"shown", "refused"}}
           good == IF GatesInv THEN GoodPages ELSE {}
<1>1. "shown" \notin Pages /\ "refused" \notin Pages
  BY DEF Pages, CabinetPages
<1>2. \A p \in Pages : p \in rest => F[p] = p
  BY <1>1 DEF Followed
<1>3. ASSUME NEW p \in Pages, p \notin rest
      PROVE  F[p] = AnswerTo(p) /\ F[p] \in Pages /\ Redirects[F[p]] < Redirects[p]
  BY <1>3, RedirectsLeadOn DEF Followed
<1>4. F \in [Pages -> Pages]
  BY <1>2, <1>3
<1>5. Redirects \in [Pages -> 0..7]
  BY DEF Redirects
<1>6. good \in SUBSET Pages /\ \A p \in good : F[p] \in good
  <2>1. CASE GatesInv
    <3>1. ASSUME NEW p \in GoodPages PROVE p \in Pages /\ F[p] \in GoodPages
      <4>1. p \in Pages /\ (AnswerTo(p) = "shown" \/ AnswerTo(p) \in GoodPages)
        BY <2>1, <3>1, GoodPagesStayGood
      <4>2. AnswerTo(p) \in GoodPages => AnswerTo(p) \in Pages
        BY <2>1, GoodPagesStayGood
      <4>3. QED
        BY <4>1, <4>2, <1>1 DEF Followed
    <3>2. QED
      BY <2>1, <3>1
  <2>2. CASE ~GatesInv
    BY <2>2
  <2>3. QED
    BY <2>1, <2>2
<1>7. ASSUME NEW at \in Pages
      PROVE  Visit(at) \in rest /\ (at \in good => Visit(at) \in good)
  <2> HIDE DEF F, rest, good
  <2>1. rest \in SUBSET Pages /\ good \in SUBSET Pages
    BY <1>6 DEF rest
  <2>2. Comes(F, rest, good, Redirects, 1)
    <3>1. ASSUME NEW p \in Pages PROVE F[p] \in rest \/ Redirects[F[p]] + 1 <= Redirects[p]
      <4>1. F[p] \in Pages
        BY <1>4
      <4>2. Redirects[p] \in 0..7 /\ Redirects[F[p]] \in 0..7
        BY <1>5, <4>1
      <4>3. p \in rest \/ Redirects[F[p]] < Redirects[p]
        BY <1>3
      <4>4. QED
        BY <1>2, <4>2, <4>3
    <3>2. QED
      BY <3>1, <1>2, <1>4, <1>6, <2>1 DEF Comes
  <2>3. Comes(Twice(F), rest, good, Redirects, 2)
    BY <2>1, <2>2, <1>5, TwiceComesNearer
  <2>4. Comes(Twice(Twice(F)), rest, good, Redirects, 4)
    BY <2>1, <2>3, <1>5, TwiceComesNearer
  <2>5. Comes(Twice(Twice(Twice(F))), rest, good, Redirects, 8)
    BY <2>1, <2>4, <1>5, TwiceComesNearer
  <2>6. Comes(Twice(Twice(Twice(Twice(F)))), rest, good, Redirects, 16)
    BY <2>1, <2>5, <1>5, TwiceComesNearer
  <2> DEFINE G == Twice(Twice(Twice(Twice(F))))
  <2>7. Visit(at) = G[at]
    BY DEF Visit, F
  <2>8. /\ G[at] \in Pages
        /\ G[at] \in rest \/ Redirects[G[at]] + 16 <= Redirects[at]
        /\ at \in good => G[at] \in good
    BY <2>6 DEF Comes
  <2> HIDE DEF G
  <2>9. Redirects[at] \in 0..7 /\ Redirects[G[at]] \in 0..7
    BY <1>5, <2>8
  <2>10. QED
    BY <2>7, <2>8, <2>9
<1>8. ASSUME GatesInv, NEW at \in GoodPages
      PROVE  AnswerTo(Visit(at)) = "shown"
  <2>1. at \in good /\ at \in Pages
    BY <1>6, <1>8
  <2>2. Visit(at) \in rest /\ Visit(at) \in GoodPages
    BY <1>7, <1>8, <2>1
  <2>3. QED
    BY <2>2, <1>8, GoodPagesStayGood
<1>9. QED
  BY <1>7, <1>8

\* What a role makes of a row.
LEMMA RowsWithRole ==
    ASSUME NEW row \in UserRow, NEW role \in Roles, moderation \in BOOLEAN
    PROVE  LET new == WithRole(row, role)
               isStation == role \in StationRoles \cup {"autoshop"}
           IN  /\ new \in UserRow
               /\ new.role = role /\ new.phone /\ new.consent = row.consent
               /\ new.here = row.here /\ new.email = row.email /\ new.verified = row.verified
               /\ role = "autoshop" => new.shop
               /\ role = "instructor" => new.instructor
               /\ isStation => new.owner /\ new.decision = IF moderation THEN "pending" ELSE "approved"
<1> DEFINE new == WithRole(row, role)
           isStation == role \in StationRoles \cup {"autoshop"}
<1>1. new.role = role /\ new.consent = row.consent
  BY DEF WithRole, UserRow
<1>2. new.here = row.here /\ new.email = row.email /\ new.verified = row.verified
  BY DEF WithRole, UserRow
<1>3. new.phone
  BY DEF WithRole, UserRow
<1>4. role = "autoshop" => new.shop
  BY DEF WithRole, UserRow
<1>5. role = "instructor" => new.instructor
  BY DEF WithRole, UserRow
<1>6. isStation => new.owner
  BY DEF WithRole, UserRow
<1>7. isStation => new.decision = IF moderation THEN "pending" ELSE "approved"
  BY DEF WithRole, UserRow
<1>8. new \in UserRow
  <2> DEFINE yes == TRUE
             own == row.owner \/ isStation
             apply == row.applied \/ isStation
             dec == IF ~isStation THEN row.decision ELSE IF moderation THEN "pending" ELSE "approved"
             sells == row.shop \/ role = "autoshop"
             teaches == row.instructor \/ role = "instructor"
             made == [row EXCEPT !.role = role, !.chosen = yes, !.phone = yes, !.owner = own,
                          !.applied = apply, !.decision = dec, !.shop = sells, !.instructor = teaches]
  <2>1. /\ yes \in BOOLEAN /\ own \in BOOLEAN /\ apply \in BOOLEAN /\ dec \in Decisions
        /\ sells \in BOOLEAN /\ teaches \in BOOLEAN
    BY DEF UserRow, Decisions
  <2>2. new = made
    BY DEF WithRole, UserRow
  <2> HIDE DEF yes, own, apply, dec, sells, teaches, isStation, new
  <2>3. made \in UserRow
    BY <2>1 DEF UserRow
  <2> HIDE DEF made
  <2>4. QED
    BY <2>2, <2>3
<1>9. QED
  BY <1>1, <1>2, <1>3, <1>4, <1>5, <1>6, <1>7, <1>8

\* Where the forms send each role.
LEMMA FormsSendOn ==
    ASSUME NEW role \in Roles, moderation \in BOOLEAN
    PROVE  LET waits == DecisionPage(IF moderation THEN "pending" ELSE "approved")
           IN  /\ {FormPage(role), LitePage(role)} \subseteq Pages
               /\ role = "driver" => FormPage(role) = "home" /\ LitePage(role) = "home"
               /\ role = "autoshop" => /\ FormPage(role) \in {"shop_dashboard", "shop_profile"}
                                       /\ LitePage(role) \in {waits, "shop_profile"}
               /\ role = "instructor" => /\ FormPage(role) = "instructor_profile"
                                         /\ ~moderation => LitePage(role) = "instructor_profile"
               /\ role \in StationRoles => FormPage(role) = waits /\ LitePage(role) = waits
<1>1. CASE role = "driver"
  BY <1>1 DEF FormPage, LitePage, Pages, StationRoles
<1>2. CASE role = "autoshop"
  BY <1>2 DEF FormPage, LitePage, ProfilePage, Pages, CabinetPages, StationRoles, DecisionPage
<1>3. CASE role = "instructor"
  BY <1>3 DEF FormPage, LitePage, ProfilePage, Pages, CabinetPages, StationRoles
<1>4. CASE role \in StationRoles
  BY <1>4 DEF FormPage, LitePage, ProfilePage, Pages, CabinetPages, StationRoles, DecisionPage
<1>5. QED
  BY <1>1, <1>2, <1>3, <1>4 DEF Roles, StationRoles

\* A registration has led to a good page, or is the instructor's of the short form.
SentWell ==
    sentTo \in GoodPages \/ (lite /\ moderation /\ user.role = "instructor")

LEMMA NobodyIsARow == Nobody \in UserRow
BY DEF Nobody, UserRow, Roles, Decisions

LEMMA RegisterStartIsSound ==
    ASSUME GatesInv, RegisterStart
    PROVE  GatesInv' /\ SentWell'
<1>1. PICK role \in Roles, email \in BOOLEAN :
          /\ lite => ~email
          /\ user' = [WithRole(Nobody, role) EXCEPT !.here = TRUE, !.email = email, !.verified = ~email]
          /\ sentTo' = IF lite THEN LitePage(role) ELSE FormPage(role)
  BY DEF RegisterStart
<1>2. moderation' = moderation /\ lite' = lite /\ moderation \in BOOLEAN /\ lite \in BOOLEAN
  BY DEF RegisterStart, GatesInv, GatesTypeOK
<1> DEFINE row == WithRole(Nobody, role)
           waits == IF moderation THEN "pending" ELSE "approved"
<1>3. /\ row \in UserRow /\ row.role = role
      /\ role = "autoshop" => row.shop
      /\ role = "instructor" => row.instructor
      /\ role \in StationRoles \cup {"autoshop"} => row.owner /\ row.decision = waits
  BY <1>2, RowsWithRole, NobodyIsARow
<1> HIDE DEF row
<1>4. user' \in UserRow
  <2> DEFINE yes == TRUE
             known == ~email
  <2>1. user' = [row EXCEPT !.here = yes, !.email = email, !.verified = known]
    BY <1>1 DEF row
  <2>2. yes \in BOOLEAN /\ known \in BOOLEAN
    OBVIOUS
  <2> HIDE DEF yes, known
  <2>3. QED
    BY <2>1, <2>2, <1>3 DEF UserRow
<1>5. /\ user'.role = role /\ user'.shop = row.shop /\ user'.instructor = row.instructor
      /\ user'.owner = row.owner /\ user'.decision = row.decision
  BY <1>1, <1>3 DEF row, UserRow
<1>6. GatesInv'
  BY <1>1, <1>2, <1>3, <1>4, <1>5, FormsSendOn DEF GatesInv, GatesTypeOK
<1>7. SentWell'
  <2>1. sentTo' = LitePage(role) \/ sentTo' = FormPage(role)
    BY <1>1
  <2>2. CASE role = "driver"
    BY <2>1, <2>2, <1>2, FormsSendOn DEF SentWell, GoodPages
  <2>3. CASE role = "autoshop"
    BY <2>1, <2>3, <1>2, <1>3, <1>5, FormsSendOn DEF SentWell, GoodPages
  <2>4. CASE role = "instructor"
    BY <2>4, <1>1, <1>2, <1>3, <1>5, FormsSendOn DEF SentWell, GoodPages
  <2>5. CASE role \in StationRoles
    BY <2>1, <2>5, <1>2, <1>3, <1>5, FormsSendOn DEF SentWell, GoodPages
  <2>6. QED
    BY <2>2, <2>3, <2>4, <2>5 DEF Roles, StationRoles
<1>8. QED
  BY <1>6, <1>7

LEMMA CompleteProfileIsSound ==
    ASSUME GatesInv, CompleteProfile
    PROVE  GatesInv' /\ SentWell'
<1>1. PICK role \in Roles : user' = WithRole(user, role) /\ sentTo' = FormPage(role)
  BY DEF CompleteProfile
<1>2. moderation' = moderation /\ lite' = lite /\ moderation \in BOOLEAN /\ lite \in BOOLEAN
  BY DEF CompleteProfile, GatesInv, GatesTypeOK
<1>3. /\ user' \in UserRow /\ user'.role = role
      /\ role = "autoshop" => user'.shop
      /\ role = "instructor" => user'.instructor
      /\ role \in StationRoles \cup {"autoshop"} =>
            user'.owner /\ user'.decision = IF moderation THEN "pending" ELSE "approved"
  BY <1>1, <1>2, RowsWithRole DEF GatesInv, GatesTypeOK
<1>4. GatesInv'
  BY <1>1, <1>2, <1>3, FormsSendOn DEF GatesInv, GatesTypeOK
<1>5. SentWell'
  <2>1. CASE role = "driver"
    BY <2>1, <1>1, <1>2, FormsSendOn DEF SentWell, GoodPages
  <2>2. CASE role = "autoshop"
    BY <2>2, <1>1, <1>2, <1>3, FormsSendOn DEF SentWell, GoodPages
  <2>3. CASE role = "instructor"
    BY <2>3, <1>1, <1>2, <1>3, FormsSendOn DEF SentWell, GoodPages
  <2>4. CASE role \in StationRoles
    BY <2>4, <1>1, <1>2, <1>3, FormsSendOn DEF SentWell, GoodPages
  <2>5. QED
    BY <2>1, <2>2, <2>3, <2>4 DEF Roles, StationRoles
<1>6. QED
  BY <1>4, <1>5

LEMMA StoRegisterIsSound ==
    ASSUME GatesInv, StoRegister
    PROVE  GatesInv' /\ SentWell'
<1> DEFINE yes == TRUE
           waits == IF moderation THEN "pending" ELSE "approved"
<1>1. PICK email \in BOOLEAN :
          user' = [Nobody EXCEPT !.here = TRUE, !.chosen = TRUE, !.phone = TRUE, !.owner = TRUE,
                       !.applied = TRUE, !.email = email, !.verified = ~email, !.decision = waits]
  BY DEF StoRegister
<1> DEFINE known == ~email
<1>2. /\ moderation' = moderation /\ lite' = lite /\ moderation \in BOOLEAN /\ lite \in BOOLEAN
      /\ sentTo' = IF moderation THEN "pending_moderation" ELSE "sto_cabinet"
  BY DEF StoRegister, GatesInv, GatesTypeOK
<1>3. user' \in UserRow
  <2>1. user' = [Nobody EXCEPT !.here = yes, !.chosen = yes, !.phone = yes, !.owner = yes,
                     !.applied = yes, !.email = email, !.verified = known, !.decision = waits]
    BY <1>1
  <2>2. yes \in BOOLEAN /\ known \in BOOLEAN /\ waits \in Decisions
    BY DEF Decisions
  <2> DEFINE made(row) == [row EXCEPT !.here = yes, !.chosen = yes, !.phone = yes, !.owner = yes,
                               !.applied = yes, !.email = email, !.verified = known, !.decision = waits]
  <2>3. ASSUME NEW row \in UserRow PROVE made(row) \in UserRow
    <3> HIDE DEF yes, known, waits
    <3>1. QED
      BY <2>2 DEF UserRow
  <2>4. QED
    BY <2>1, <2>3, NobodyIsARow
<1>4. /\ user'.role = Nobody.role /\ user'.owner /\ user'.decision = waits
      /\ Nobody.role = "driver"
  BY <1>1, NobodyIsARow DEF UserRow, Nobody
<1>5. GatesInv'
  BY <1>2, <1>3, <1>4 DEF GatesInv, GatesTypeOK, Pages, CabinetPages
<1>6. SentWell'
  BY <1>2, <1>4 DEF SentWell, GoodPages, DecisionPage
<1>7. QED
  BY <1>5, <1>6

LEMMA SocialSignUpIsSound ==
    ASSUME GatesInv, SocialSignUp
    PROVE  GatesInv' /\ SentWell'
<1> DEFINE yes == TRUE
<1>1. PICK email \in BOOLEAN : user' = [Nobody EXCEPT !.here = yes, !.email = email, !.verified = email]
  BY DEF SocialSignUp
<1>2. yes \in BOOLEAN
  OBVIOUS
<1> HIDE DEF yes
<1>3. user' \in UserRow
  BY <1>1, <1>2, NobodyIsARow DEF UserRow
<1>4. user'.role = Nobody.role /\ Nobody.role = "driver"
  BY <1>1, NobodyIsARow DEF UserRow, Nobody
<1>5. QED
  BY <1>3, <1>4 DEF SocialSignUp, GatesInv, GatesTypeOK, SentWell, GoodPages, Pages

\* The rest of the steps leave the role, its profile and the page as they are.
LEMMA OtherGatesAreSound ==
    ASSUME GatesInv,
           ProfilePost \/ VerifyEmail \/ GiveConsent \/ NewEdition \/ ErpDecides
    PROVE  GatesInv' /\ sentTo' = sentTo /\ user'.chosen = user.chosen
<1>1. user \in UserRow /\ (user.role = "autoshop" => user.shop)
  BY DEF GatesInv, GatesTypeOK
<1> DEFINE yes == TRUE
           no == FALSE
           approved == "approved"
<1>2. /\ yes \in BOOLEAN /\ no \in BOOLEAN /\ approved \in Decisions
      /\ \A phone \in BOOLEAN : (user.phone \/ phone) \in BOOLEAN
  BY DEF Decisions
<1>3. \/ \E email, phone \in BOOLEAN : user' = [user EXCEPT !.email = email, !.phone = user.phone \/ phone]
      \/ user' = [user EXCEPT !.verified = yes]
      \/ user' = [user EXCEPT !.consent = yes]
      \/ user' = [user EXCEPT !.consent = no]
      \/ \E owner \in BOOLEAN : user' = [user EXCEPT !.owner = owner]
      \/ user' = [user EXCEPT !.owner = yes, !.decision = approved]
      \/ \E decision \in Decisions : user' = [user EXCEPT !.decision = decision]
  BY <1>1 DEF ProfilePost, VerifyEmail, GiveConsent, NewEdition, ErpDecides, UserRow
<1>4. moderation' = moderation /\ lite' = lite /\ sentTo' = sentTo
  BY DEF ProfilePost, VerifyEmail, GiveConsent, NewEdition, ErpDecides
<1>5. user' \in UserRow
  <2>1. ASSUME NEW email \in BOOLEAN, NEW phone \in BOOLEAN,
               user' = [user EXCEPT !.email = email, !.phone = user.phone \/ phone]
        PROVE  user' \in UserRow
    <3> DEFINE has == user.phone \/ phone
    <3>1. has \in BOOLEAN /\ user' = [user EXCEPT !.email = email, !.phone = has]
      BY <2>1
    <3> HIDE DEF has
    <3>2. QED
      BY <3>1, <1>1 DEF UserRow
  <2> HIDE DEF yes, no, approved
  <2>2. QED
    BY <2>1, <1>1, <1>2, <1>3 DEF UserRow
<1>6. user'.role = user.role /\ user'.shop = user.shop /\ user'.chosen = user.chosen
  <2> HIDE DEF yes, no, approved
  <2>1. QED
    BY <1>1, <1>3 DEF UserRow
<1>7. QED
  BY <1>1, <1>4, <1>5, <1>6 DEF GatesInv, GatesTypeOK

\* A row has its role's profile from the start.
LEMMA GatesInvInit == GatesInit => GatesInv
<1>1. Nobody.role = "driver"
  BY DEF Nobody
<1>2. QED
  BY <1>1, NobodyIsARow DEF GatesInit, GatesInv, GatesTypeOK, Pages

\* However accounts come to be, and whatever becomes of them, a row has its role's profile.
LEMMA GatesInvStep == GatesInv /\ [GatesNext]_gateVars => GatesInv'
BY RegisterStartIsSound, CompleteProfileIsSound, StoRegisterIsSound, SocialSignUpIsSound,
   OtherGatesAreSound DEF GatesNext, gateVars, GatesInv, GatesTypeOK

\* The pages that log-ins lead to are good ones.
LEMMA LoginsLand == GatesInv => NoRedirectLoop /\ LoginLands
<1> SUFFICES ASSUME GatesInv PROVE NoRedirectLoop /\ LoginLands
  OBVIOUS
<1>1. GatesTypeOK
  BY DEF GatesInv
<1>2. NoRedirectLoop
  BY <1>1, VisitsEnd DEF NoRedirectLoop
<1>3. LoginPage \in GoodPages /\ SocialLoginPage \in GoodPages
  BY DEF LoginPage, SocialLoginPage, GoodPages
<1>4. LoginLands
  BY <1>1, <1>3, VisitsEnd DEF LoginLands
<1>5. QED
  BY <1>2, <1>4

\* What has led to a good page is shown in the end.
LEMMA SentWellLands ==
    GatesInv /\ SentWell =>
        AnswerTo(Visit(sentTo)) = "shown" \/ (lite /\ moderation /\ user.role = "instructor")
BY VisitsEnd DEF GatesInv, SentWell

\* A step that tells a new account where to go, or completes a profile, tells it well.
LEMMA RegistrationsAreSentWell ==
    ASSUME GatesInv, [GatesNext]_gateVars, sentTo' # sentTo \/ (user'.chosen /\ ~user.chosen)
    PROVE  SentWell'
BY RegisterStartIsSound, CompleteProfileIsSound, StoRegisterIsSound, SocialSignUpIsSound,
   OtherGatesAreSound DEF GatesNext, gateVars

\* A registration, as an action property: the step leads to a page that is shown.
LEMMA StepsSendWell ==
    ASSUME GatesInv, [GatesNext]_gateVars
    PROVE  [sentTo' # sentTo \/ (user'.chosen /\ ~user.chosen)
              => \/ AnswerTo(Visit(sentTo))' = "shown"
                 \/ lite /\ moderation /\ user'.role = "instructor"]_gateVars
<1> SUFFICES ASSUME sentTo' # sentTo \/ (user'.chosen /\ ~user.chosen)
             PROVE  \/ AnswerTo(Visit(sentTo))' = "shown"
                    \/ lite /\ moderation /\ user'.role = "instructor"
  OBVIOUS
<1>1. (GatesInv /\ SentWell => AnswerTo(Visit(sentTo)) = "shown" \/ (lite /\ moderation /\ user.role = "instructor"))'
  BY SentWellLands, PTL
<1>2. GatesInv'
  BY GatesInvStep
<1>3. SentWell'
  BY RegistrationsAreSentWell
<1>4. lite' = lite /\ moderation' = moderation
  BY DEF GatesNext, gateVars, RegisterStart, CompleteProfile, StoRegister, SocialSignUp,
         ProfilePost, VerifyEmail, GiveConsent, NewEdition, ErpDecides
<1>5. QED
  BY <1>1, <1>2, <1>3, <1>4

-----------------------------------------------------------------------------
(* The page of a room.                                                     *)

\* Events, requests and ids seen are of rows there are.
IdsAreOfRows ==
    /\ rows \in Seq(Messages)
    /\ wire \in Seq(1..Len(rows))
    /\ fetch \in [state : {"none", "asked", "served"}, after : 0..Len(rows), upTo : 0..Len(rows)]
    /\ seenIds \in SUBSET (1..Len(rows))

\* A text has one row at most; one on its way to the server over the socket is on the
\* page and has none yet; one on its way by POST has none until it is served.
Seen(m) == \E i \in seenIds : rows[i] = m
TextsAreNew ==
    /\ \A i, j \in 1..Len(rows) : rows[i] = rows[j] => i = j
    /\ frames \in Seq(Mine \cup {Ping})
    /\ \A i \in 1..Len(frames) :
          frames[i] # Ping => frames[i] \in Mine \ Stored /\ bubbles[frames[i]] > 0
    /\ \A i, j \in 1..Len(frames) : frames[i] = frames[j] => i = j \/ frames[i] = Ping
    /\ send \in [state : {"none", "asked", "served"}, text : Mine \cup {NoMessage}, id : 0..Len(rows)]
    /\ send.state = "none" => send = NoSend
    /\ send.state # "none" => send.text \in Mine
    /\ send.state = "asked" => send.text \notin Stored
    /\ send.state = "served" => send.id \in 1..Len(rows) /\ rows[send.id] = send.text

\* A bubble more than the user's own is of a row that was seen.
BubblesAreCounted ==
    /\ bubbles \in [Messages -> 0..2]
    /\ \A m \in Theirs : bubbles[m] = 0 \/ (bubbles[m] = 1 /\ Seen(m))
    /\ \A m \in Mine : /\ bubbles[m] = 2 => Seen(m)
                       /\ send.text = m => bubbles[m] = 0 \/ (bubbles[m] = 1 /\ Seen(m))

RestIsTyped ==
    /\ roomClosed \in BOOLEAN /\ reconnect \in BOOLEAN /\ polling \in BOOLEAN
    /\ quota \in [count : 0..SendLimit, pings : 0..SendLimit] /\ quota.pings <= quota.count
    /\ refused \subseteq [count : 0..SendLimit, pings : 0..SendLimit]
    /\ sock \in {"none", "connecting", "joined", "open"}
    /\ pendingOwnEcho \in Mine \cup {NoMessage}
    /\ closes \in 0..MaxCloses

RoomInv == IdsAreOfRows /\ TextsAreNew /\ BubblesAreCounted /\ RestIsTyped

LEMMA RoomInvInit == RoomPageInit => RoomInv
<1> SUFFICES ASSUME RoomPageInit PROVE RoomInv
  OBVIOUS
<1>1. IdsAreOfRows
  BY DEF RoomPageInit, IdsAreOfRows, NoFetch
<1>2. TextsAreNew
  BY DEF RoomPageInit, TextsAreNew, NoSend
<1>3. BubblesAreCounted
  BY RoomPageAssumption DEF RoomPageInit, BubblesAreCounted, NoSend, Messages
<1>4. RestIsTyped
  <2>1. 0 \in 0..SendLimit /\ 0 \in 0..MaxCloses
    BY RoomPageAssumption
  <2>2. quota = [count |-> 0, pings |-> 0]
    BY DEF RoomPageInit
  <2>3. quota \in [count : 0..SendLimit, pings : 0..SendLimit] /\ quota.pings <= quota.count
    BY <2>1, <2>2
  <2>4. QED
    BY <2>1, <2>3 DEF RoomPageInit, RestIsTyped
<1>5. QED
  BY <1>1, <1>2, <1>3, <1>4 DEF RoomInv

\* What a message posted changes.
LEMMA PostAddsARow ==
    ASSUME RoomInv, NEW m \in Messages \ Stored, Post(m)
    PROVE  /\ rows' \in Seq(Messages) /\ Len(rows') = Len(rows) + 1 /\ rows'[Len(rows) + 1] = m
           /\ \A i \in 1..Len(rows) : rows'[i] = rows[i]
           /\ wire' \in Seq(1..Len(rows'))
           /\ Stored' = Stored \cup {m}
           /\ \A i, j \in 1..Len(rows') : rows'[i] = rows'[j] => i = j
<1>1. /\ rows' \in Seq(Messages) /\ Len(rows') = Len(rows) + 1 /\ rows'[Len(rows) + 1] = m
      /\ \A i \in 1..Len(rows) : rows'[i] = rows[i]
      /\ Len(rows) \in Nat
  BY DEF RoomInv, IdsAreOfRows, Post
<1>2. wire' \in Seq(1..Len(rows'))
  <2>1. wire \in Seq(1..Len(rows'))
    BY <1>1 DEF RoomInv, IdsAreOfRows
  <2>2. wire' = wire \/ wire' = Append(wire, Len(rows) + 1)
    BY DEF Post
  <2>3. Len(rows) + 1 \in 1..Len(rows')
    BY <1>1
  <2>4. QED
    BY <2>1, <2>2, <2>3
<1>3. Stored' = Stored \cup {m}
  BY <1>1 DEF Stored
<1>4. ASSUME NEW i \in 1..Len(rows'), NEW j \in 1..Len(rows'), rows'[i] = rows'[j]
      PROVE  i = j
  <2>1. \A k \in 1..Len(rows) : rows[k] # m
    BY DEF Stored
  <2>2. \A k, l \in 1..Len(rows) : rows[k] = rows[l] => k = l
    BY DEF RoomInv, TextsAreNew
  <2>3. /\ i \in 1..Len(rows) \/ i = Len(rows) + 1
        /\ j \in 1..Len(rows) \/ j = Len(rows) + 1
    BY <1>1
  <2>4. QED
    BY <1>1, <1>4, <2>1, <2>2, <2>3
<1>5. QED
  BY <1>1, <1>2, <1>3, <1>4

\* More rows leave what is known of those there were.
LEMMA MoreRowsKeepIds ==
    ASSUME RoomInv, NEW m \in Messages \ Stored, Post(m), UNCHANGED <<fetch, seenIds>>
    PROVE  IdsAreOfRows' /\ (\A n : Seen(n) => Seen(n)')
<1>1. /\ rows' \in Seq(Messages) /\ Len(rows') = Len(rows) + 1
      /\ \A i \in 1..Len(rows) : rows'[i] = rows[i]
      /\ wire' \in Seq(1..Len(rows')) /\ Len(rows) \in Nat
  BY PostAddsARow DEF RoomInv, IdsAreOfRows
<1>2. /\ fetch \in [state : {"none", "asked", "served"}, after : 0..Len(rows), upTo : 0..Len(rows)]
      /\ seenIds \in SUBSET (1..Len(rows))
  BY DEF RoomInv, IdsAreOfRows
<1>3. 0..Len(rows) \subseteq 0..Len(rows') /\ 1..Len(rows) \subseteq 1..Len(rows')
  BY <1>1
<1>4. fetch' \in [state : {"none", "asked", "served"}, after : 0..Len(rows'), upTo : 0..Len(rows')]
  BY <1>2, <1>3
<1>5. \A n : Seen(n) => Seen(n)'
  BY <1>1, <1>2 DEF Seen
<1>6. QED
  BY <1>1, <1>2, <1>3, <1>4, <1>5 DEF IdsAreOfRows

\* What arrives is shown when its row was not seen, and adds one bubble then.
LEMMA ShowIsCounted ==
    ASSUME RoomInv, NEW ids \in SUBSET (1..Len(rows)), Show(ids), UNCHANGED <<rows, send>>
    PROVE  /\ seenIds' \in SUBSET (1..Len(rows')) /\ pendingOwnEcho' \in Mine \cup {NoMessage}
           /\ \A m \in Messages : bubbles[m] > 0 => bubbles'[m] > 0
           /\ BubblesAreCounted'
<1> DEFINE news == {rows[i] : i \in ids \ seenIds}
<1>1. /\ seenIds' = seenIds \cup ids
      /\ bubbles' = [m \in Messages |-> IF m \in news /\ ~IsOwnEcho(m) THEN bubbles[m] + 1 ELSE bubbles[m]]
      /\ pendingOwnEcho' \in {NoMessage, pendingOwnEcho}
  BY DEF Show
<1>2. /\ bubbles \in [Messages -> 0..2]
      /\ \A m \in Theirs : bubbles[m] = 0 \/ (bubbles[m] = 1 /\ Seen(m))
      /\ \A m \in Mine : /\ bubbles[m] = 2 => Seen(m)
                         /\ send.text = m => bubbles[m] = 0 \/ (bubbles[m] = 1 /\ Seen(m))
      /\ Messages = Mine \cup Theirs
  BY DEF RoomInv, BubblesAreCounted, Messages
<1>3. /\ seenIds \in SUBSET (1..Len(rows))
      /\ \A i, j \in 1..Len(rows) : rows[i] = rows[j] => i = j
  BY DEF RoomInv, IdsAreOfRows, TextsAreNew
<1>4. ASSUME NEW m \in Messages, m \in news
      PROVE  ~Seen(m) /\ Seen(m)'
  <2>1. PICK i \in ids \ seenIds : rows[i] = m
    BY <1>4
  <2>2. ~Seen(m)
    BY <2>1, <1>3 DEF Seen
  <2>3. Seen(m)'
    BY <2>1, <1>1 DEF Seen
  <2>4. QED
    BY <2>2, <2>3
<1>5. \A m \in Messages : Seen(m) => Seen(m)'
  BY <1>1 DEF Seen
<1> HIDE DEF news
<1>6. ASSUME NEW m \in Messages
      PROVE  /\ bubbles'[m] \in 0..2 /\ (bubbles[m] > 0 => bubbles'[m] > 0)
             /\ m \in Theirs => bubbles'[m] = 0 \/ (bubbles'[m] = 1 /\ Seen(m)')
             /\ m \in Mine => /\ bubbles'[m] = 2 => Seen(m)'
                              /\ send.text = m => bubbles'[m] = 0 \/ (bubbles'[m] = 1 /\ Seen(m)')
  <2>1. bubbles[m] \in 0..2
    BY <1>2
  <2>2. CASE m \in news /\ ~IsOwnEcho(m)
    <3>1. bubbles'[m] = bubbles[m] + 1 /\ ~Seen(m) /\ Seen(m)'
      BY <1>1, <1>4, <2>2
    <3>2. QED
      BY <3>1, <2>1, <1>2
  <2>3. CASE ~(m \in news /\ ~IsOwnEcho(m))
    <3>1. bubbles'[m] = bubbles[m]
      BY <1>1, <2>3
    <3>2. QED
      BY <3>1, <2>1, <1>2, <1>5
  <2>4. QED
    BY <2>2, <2>3
<1>7. BubblesAreCounted'
  <2>1. bubbles' \in [Messages -> 0..2]
    BY <1>1, <1>6
  <2>2. QED
    BY <2>1, <1>2, <1>6 DEF BubblesAreCounted
<1>8. pendingOwnEcho' \in Mine \cup {NoMessage}
  BY <1>1 DEF RoomInv, RestIsTyped
<1>9. QED
  BY <1>1, <1>3, <1>6, <1>7, <1>8

\* The frames on their way and the message of the POST stay what they are while neither
\* they nor the rows change, and no bubble goes away.
LEMMA TextsStayNew ==
    ASSUME RoomInv, UNCHANGED <<rows, frames, send>>,
           \A m \in Messages : bubbles[m] > 0 => bubbles'[m] > 0
    PROVE  TextsAreNew'
<1>1. \A i \in 1..Len(frames) : frames[i] # Ping => frames[i] \in Mine \ Stored /\ bubbles'[frames[i]] > 0
  BY DEF RoomInv, TextsAreNew, Messages
<1>2. Stored' = Stored
  BY DEF Stored
<1>3. QED
  BY <1>1, <1>2 DEF RoomInv, TextsAreNew

LEMMA RequestsAreTyped ==
    ASSUME IdsAreOfRows
    PROVE  Asked \in [state : {"none", "asked", "served"}, after : 0..Len(rows), upTo : 0..Len(rows)]
<1>1. MaxSeen \in 0..Len(rows)
  <2>1. CASE seenIds = {}
    BY <2>1 DEF MaxSeen, IdsAreOfRows
  <2>2. CASE seenIds # {}
    <3>1. seenIds \subseteq Nat /\ Len(rows) \in Nat /\ \A i \in seenIds : i <= Len(rows)
      BY DEF IdsAreOfRows
    <3>2. \E i \in seenIds : \A j \in seenIds : j <= i
      BY <2>2, <3>1, GreatestThereIs
    <3>3. MaxSeen \in seenIds
      BY <2>2, <3>2 DEF MaxSeen
    <3>4. QED
      BY <3>3 DEF IdsAreOfRows
  <2>3. QED
    BY <2>1, <2>2
<1>2. QED
  BY <1>1 DEF Asked, IdsAreOfRows

\* Steps that change no row, no bubble, and nothing of what is written.
LEMMA QuietSteps ==
    ASSUME RoomInv,
           \/ RoomCloses \/ WindowEnds \/ SocketJoins \/ SocketOpens \/ Reconnect \/ FirstCheck
           \/ PollTick \/ PollServed \/ PollFails \/ EchoExpires
    PROVE  RoomInv'
<1>1. UNCHANGED <<rows, wire, frames, send, seenIds, bubbles, refused, closes>>
  BY DEF RoomCloses, WindowEnds, SocketJoins, SocketOpens, Reconnect, FirstCheck, PollTick,
         PollServed, PollFails, EchoExpires
<1>2. /\ fetch \in [state : {"none", "asked", "served"}, after : 0..Len(rows), upTo : 0..Len(rows)]
      /\ Len(rows) \in Nat
  BY DEF RoomInv, IdsAreOfRows
<1>3. fetch' \in [state : {"none", "asked", "served"}, after : 0..Len(rows), upTo : 0..Len(rows)]
  <2>1. Asked \in [state : {"none", "asked", "served"}, after : 0..Len(rows), upTo : 0..Len(rows)]
    BY RequestsAreTyped DEF RoomInv
  <2>2. NoFetch \in [state : {"none", "asked", "served"}, after : 0..Len(rows), upTo : 0..Len(rows)]
    BY <1>2 DEF NoFetch
  <2>3. PollServed =>
           fetch' \in [state : {"none", "asked", "served"}, after : 0..Len(rows), upTo : 0..Len(rows)]
    <3>1. ASSUME NEW n \in Nat,
                 NEW r \in [state : {"none", "asked", "served"}, after : 0..n, upTo : 0..n]
          PROVE  [r EXCEPT !.state = "served", !.upTo = n]
                     \in [state : {"none", "asked", "served"}, after : 0..n, upTo : 0..n]
      <4>1. n \in 0..n
        OBVIOUS
      <4>2. QED
        BY <4>1
    <3>2. QED
      BY <1>2, <3>1 DEF PollServed
  <2>4. \/ fetch' = fetch \/ fetch' = Asked \/ fetch' = NoFetch \/ PollServed
    BY DEF RoomCloses, WindowEnds, SocketJoins, SocketOpens, Reconnect, FirstCheck, PollTick,
           PollFails, EchoExpires, StartMessagePoll, Done
  <2>5. QED
    BY <1>2, <2>1, <2>2, <2>3, <2>4
<1>4. IdsAreOfRows'
  BY <1>1, <1>3 DEF RoomInv, IdsAreOfRows
<1>5. TextsAreNew'
  BY <1>1, TextsStayNew
<1>6. BubblesAreCounted'
  BY <1>1 DEF RoomInv, BubblesAreCounted, Seen
<1>7. RestIsTyped'
  <2>1. quota' = quota \/ quota' = [count |-> 0, pings |-> 0]
    BY DEF RoomCloses, WindowEnds, SocketJoins, SocketOpens, Reconnect, FirstCheck, PollTick,
           PollServed, PollFails, EchoExpires
  <2>2. quota' \in [count : 0..SendLimit, pings : 0..SendLimit] /\ quota'.pings <= quota'.count
    <3>1. 0 \in 0..SendLimit
      BY RoomPageAssumption
    <3>2. QED
      BY <2>1, <3>1 DEF RoomInv, RestIsTyped
  <2>3. /\ roomClosed' \in {roomClosed, TRUE} /\ reconnect' \in {reconnect, FALSE}
        /\ polling' \in {polling, TRUE, FALSE} /\ pendingOwnEcho' \in {pendingOwnEcho, NoMessage}
        /\ sock' \in {sock, "joined", "open", "connecting"}
    BY DEF RoomCloses, WindowEnds, SocketJoins, SocketOpens, Reconnect, FirstCheck, PollTick,
           PollServed, PollFails, EchoExpires, StartMessagePoll
  <2>4. QED
    BY <1>1, <2>2, <2>3 DEF RoomInv, RestIsTyped
<1>8. QED
  BY <1>4, <1>5, <1>6, <1>7 DEF RoomInv

LEMMA SocketClosesIsSound ==
    ASSUME RoomInv, SocketCloses
    PROVE  RoomInv'
<1>1. /\ UNCHANGED <<rows, roomClosed, quota, send, seenIds, pendingOwnEcho, bubbles, refused>>
      /\ wire' = <<>> /\ frames' = <<>> /\ reconnect' = TRUE /\ polling' = TRUE /\ sock' = "none"
      /\ fetch' \in {fetch, Asked}
      /\ SocketWorks => closes < MaxCloses
      /\ closes' = IF SocketWorks THEN closes + 1 ELSE closes
  BY DEF SocketCloses, StartMessagePoll
<1>2. IdsAreOfRows'
  BY <1>1, RequestsAreTyped DEF RoomInv, IdsAreOfRows
<1>3. TextsAreNew'
  BY <1>1 DEF RoomInv, TextsAreNew, Stored
<1>4. BubblesAreCounted'
  BY <1>1 DEF RoomInv, BubblesAreCounted, Seen
<1>5. RestIsTyped'
  BY <1>1, RoomPageAssumption DEF RoomInv, RestIsTyped
<1>6. QED
  BY <1>2, <1>3, <1>4, <1>5 DEF RoomInv

LEMMA PingLoopIsSound ==
    ASSUME RoomInv, PingLoop
    PROVE  RoomInv'
<1>1. /\ UNCHANGED <<rows, wire, fetch, send, seenIds, bubbles>>
      /\ UNCHANGED <<roomClosed, quota, sock, reconnect, polling, pendingOwnEcho, refused, closes>>
      /\ frames' = Append(frames, Ping) /\ Stored' = Stored
  BY DEF PingLoop, Stored
<1>2. TextsAreNew'
  <2>1. /\ frames' \in Seq(Mine \cup {Ping}) /\ Len(frames') = Len(frames) + 1 /\ Len(frames) \in Nat
        /\ frames'[Len(frames) + 1] = Ping /\ \A i \in 1..Len(frames) : frames'[i] = frames[i]
    BY <1>1 DEF RoomInv, TextsAreNew
  <2>2. \A i \in 1..Len(frames') : i \in 1..Len(frames) \/ i = Len(frames) + 1
    BY <2>1
  <2>3. QED
    BY <1>1, <2>1, <2>2 DEF RoomInv, TextsAreNew
<1>3. QED
  BY <1>1, <1>2 DEF RoomInv, IdsAreOfRows, BubblesAreCounted, Seen, RestIsTyped

LEMMA ArrivalsAreSound ==
    ASSUME RoomInv, EventArrives \/ PollAnswered
    PROVE  RoomInv'
<1>1. UNCHANGED <<rows, roomClosed, quota, sock, frames, reconnect, polling, send, refused, closes>>
  BY DEF EventArrives, PollAnswered
<1>2. \E ids \in SUBSET (1..Len(rows)) : Show(ids)
  <2>1. CASE EventArrives
    <3>1. Head(wire) \in 1..Len(rows)
      BY <2>1 DEF EventArrives, RoomInv, IdsAreOfRows
    <3>2. QED
      BY <2>1, <3>1 DEF EventArrives
  <2>2. CASE PollAnswered
    <3>1. fetch.after + 1..fetch.upTo \in SUBSET (1..Len(rows))
      BY DEF RoomInv, IdsAreOfRows
    <3>2. QED
      BY <2>2, <3>1 DEF PollAnswered
  <2>3. QED
    BY <2>1, <2>2
<1>3. /\ seenIds' \in SUBSET (1..Len(rows')) /\ pendingOwnEcho' \in Mine \cup {NoMessage}
      /\ \A m \in Messages : bubbles[m] > 0 => bubbles'[m] > 0
      /\ BubblesAreCounted'
  BY <1>1, <1>2, ShowIsCounted
<1>4. IdsAreOfRows'
  <2>1. wire' \in Seq(1..Len(rows))
    <3>1. wire \in Seq(1..Len(rows)) /\ (wire # <<>> => Tail(wire) \in Seq(1..Len(rows)))
      BY DEF RoomInv, IdsAreOfRows
    <3>2. wire' = wire \/ (wire # <<>> /\ wire' = Tail(wire))
      BY DEF EventArrives, PollAnswered
    <3>3. QED
      BY <3>1, <3>2
  <2>2. fetch' \in {fetch, NoFetch}
    BY DEF EventArrives, PollAnswered
  <2>3. QED
    BY <1>1, <1>3, <2>1, <2>2 DEF RoomInv, IdsAreOfRows, NoFetch
<1>5. TextsAreNew'
  BY <1>1, <1>3, TextsStayNew
<1>6. RestIsTyped'
  BY <1>1, <1>3 DEF RoomInv, RestIsTyped
<1>7. QED
  BY <1>3, <1>4, <1>5, <1>6 DEF RoomInv

\* The other side's messages.
LEMMA OtherPostsIsSound ==
    ASSUME RoomInv, OtherPosts
    PROVE  RoomInv'
<1>1. PICK m \in Theirs \ Stored : Post(m)
  BY DEF OtherPosts
<1>2. /\ m \in Messages \ Stored /\ m \notin Mine
      /\ UNCHANGED <<roomClosed, quota, sock, frames, reconnect, polling, fetch, send, seenIds,
                     pendingOwnEcho, bubbles, refused, closes>>
  BY RoomPageAssumption DEF OtherPosts, Messages
<1>3. /\ rows' \in Seq(Messages) /\ Len(rows') = Len(rows) + 1
      /\ \A i \in 1..Len(rows) : rows'[i] = rows[i]
      /\ Stored' = Stored \cup {m}
      /\ \A i, j \in 1..Len(rows') : rows'[i] = rows'[j] => i = j
      /\ Len(rows) \in Nat
  BY <1>1, <1>2, PostAddsARow DEF RoomInv, IdsAreOfRows
<1>4. IdsAreOfRows' /\ (\A n : Seen(n) => Seen(n)')
  BY <1>1, <1>2, MoreRowsKeepIds
<1>5. TextsAreNew'
  <2>1. 0..Len(rows) \subseteq 0..Len(rows') /\ 1..Len(rows) \subseteq 1..Len(rows')
    BY <1>3
  <2>2. send' \in [state : {"none", "asked", "served"}, text : Mine \cup {NoMessage}, id : 0..Len(rows')]
    BY <1>2, <2>1 DEF RoomInv, TextsAreNew
  <2>3. QED
    BY <1>2, <1>3, <2>1, <2>2 DEF RoomInv, TextsAreNew
<1>6. BubblesAreCounted'
  BY <1>2, <1>4 DEF RoomInv, BubblesAreCounted
<1>7. RestIsTyped'
  BY <1>2 DEF RoomInv, RestIsTyped
<1>8. QED
  BY <1>4, <1>5, <1>6, <1>7 DEF RoomInv

\* The frames that are left when the first has been received.
LEMMA FramesLeft ==
    ASSUME RoomInv, frames # <<>>
    PROVE  /\ Tail(frames) \in Seq(Mine \cup {Ping}) /\ Len(Tail(frames)) = Len(frames) - 1
           /\ Head(frames) = frames[1] /\ 1 \in 1..Len(frames) /\ Len(frames) \in Nat
           /\ \A i \in 1..Len(Tail(frames)) : /\ i + 1 \in 1..Len(frames) /\ i + 1 # 1
                                               /\ Tail(frames)[i] = frames[i + 1]
BY DEF RoomInv, TextsAreNew

LEMMA CountsAreTyped ==
    ASSUME RoomInv, Allowed, NEW pings \in 0..1
    PROVE  /\ Counted(pings) \in [count : 0..SendLimit, pings : 0..SendLimit]
           /\ Counted(pings).pings <= Counted(pings).count
<1>1. /\ quota.count \in 0..SendLimit /\ quota.pings \in 0..SendLimit /\ quota.pings <= quota.count
      /\ quota.count < SendLimit /\ SendLimit \in Nat
  BY RoomPageAssumption DEF RoomInv, RestIsTyped, Allowed
<1>2. quota.count + 1 \in 0..SendLimit /\ quota.pings + pings \in 0..SendLimit
      /\ quota.pings + pings <= quota.count + 1
  BY <1>1
<1>3. QED
  BY <1>2 DEF Counted

LEMMA ReceiveIsSound ==
    ASSUME RoomInv, Receive
    PROVE  RoomInv'
<1> DEFINE frame == Head(frames)
<1>1. /\ frames # <<>> /\ frames' = Tail(frames)
      /\ UNCHANGED <<roomClosed, sock, reconnect, polling, fetch, send, seenIds, pendingOwnEcho,
                     bubbles, closes>>
      /\ \/ frame # Ping /\ Post(frame)
         \/ UNCHANGED <<rows, wire>>
  BY DEF Receive
<1>2. /\ \A i \in 1..Len(frames') : i + 1 \in 1..Len(frames) /\ i + 1 # 1 /\ frames'[i] = frames[i + 1]
      /\ frames' \in Seq(Mine \cup {Ping})
      /\ frame = frames[1] /\ 1 \in 1..Len(frames)
  BY <1>1, FramesLeft
<1>3. \A i \in 1..Len(frames') :
         /\ frames'[i] # Ping => frames'[i] \in Mine \ Stored /\ bubbles'[frames'[i]] > 0 /\ frames'[i] # frame
         /\ \A j \in 1..Len(frames') : frames'[i] = frames'[j] => i = j \/ frames'[i] = Ping
  <2>1. /\ \A i \in 1..Len(frames) :
                 frames[i] # Ping => frames[i] \in Mine \ Stored /\ bubbles[frames[i]] > 0
        /\ \A i, j \in 1..Len(frames) : frames[i] = frames[j] => i = j \/ frames[i] = Ping
    BY DEF RoomInv, TextsAreNew
  <2>2. ASSUME NEW i \in 1..Len(frames'), NEW j \in 1..Len(frames'), frames'[i] = frames'[j], frames'[i] # Ping
        PROVE  i = j
    <3>1. i + 1 = j + 1
      BY <1>2, <2>1, <2>2
    <3>2. QED
      BY <3>1
  <2>3. QED
    BY <1>1, <1>2, <2>1, <2>2
<1>4. RestIsTyped'
  <2>1. /\ quota' \in [count : 0..SendLimit, pings : 0..SendLimit] /\ quota'.pings <= quota'.count
    <3>1. quota' = quota \/ (Allowed /\ \E pings \in 0..1 : quota' = Counted(pings))
      BY DEF Receive
    <3>2. QED
      BY <3>1, CountsAreTyped DEF RoomInv, RestIsTyped
  <2>2. refused' \subseteq [count : 0..SendLimit, pings : 0..SendLimit]
    BY DEF Receive, RoomInv, RestIsTyped
  <2>3. QED
    BY <1>1, <2>1, <2>2 DEF RoomInv, RestIsTyped
<1>5. CASE UNCHANGED <<rows, wire>>
  <2>1. Stored' = Stored
    BY <1>5 DEF Stored
  <2>2. TextsAreNew'
    BY <1>1, <1>2, <1>3, <1>5, <2>1 DEF RoomInv, TextsAreNew
  <2>3. QED
    BY <1>1, <1>4, <1>5, <2>2 DEF RoomInv, IdsAreOfRows, BubblesAreCounted, Seen
<1>6. CASE frame # Ping /\ Post(frame)
  <2>1. frame \in Mine /\ frame \in Messages \ Stored /\ bubbles[frame] > 0
    BY <1>2, <1>6 DEF RoomInv, TextsAreNew, Messages
  <2>2. /\ rows' \in Seq(Messages) /\ Len(rows') = Len(rows) + 1
        /\ \A i \in 1..Len(rows) : rows'[i] = rows[i]
        /\ Stored' = Stored \cup {frame}
        /\ \A i, j \in 1..Len(rows') : rows'[i] = rows'[j] => i = j
        /\ Len(rows) \in Nat
    BY <1>6, <2>1, PostAddsARow DEF RoomInv, IdsAreOfRows
  <2>3. IdsAreOfRows' /\ (\A n : Seen(n) => Seen(n)')
    BY <1>1, <1>6, <2>1, MoreRowsKeepIds
  <2>4. send.text # frame
    <3>1. SUFFICES ASSUME send.text = frame PROVE FALSE
      OBVIOUS
    <3>2. bubbles[frame] = 1 /\ Seen(frame)
      BY <2>1, <3>1 DEF RoomInv, BubblesAreCounted
    <3>3. frame \in Stored
      BY <3>2 DEF Seen, Stored, RoomInv, IdsAreOfRows
    <3>4. QED
      BY <2>1, <3>3
  <2>5. TextsAreNew'
    <3>1. 0..Len(rows) \subseteq 0..Len(rows') /\ 1..Len(rows) \subseteq 1..Len(rows')
      BY <2>2
    <3>2. send' \in [state : {"none", "asked", "served"}, text : Mine \cup {NoMessage}, id : 0..Len(rows')]
      BY <1>1, <3>1 DEF RoomInv, TextsAreNew
    <3>3. \A i \in 1..Len(frames') :
              frames'[i] # Ping => frames'[i] \in Mine \ Stored' /\ bubbles'[frames'[i]] > 0
      BY <1>3, <2>2
    <3>4. QED
      BY <1>1, <1>2, <1>3, <2>2, <2>4, <3>1, <3>2, <3>3 DEF RoomInv, TextsAreNew
  <2>6. BubblesAreCounted'
    BY <1>1, <2>3 DEF RoomInv, BubblesAreCounted
  <2>7. QED
    BY <1>4, <2>3, <2>5, <2>6 DEF RoomInv
<1>7. QED
  BY <1>1, <1>5, <1>6

\* The user's own messages.
LEMMA NewTexts ==
    ASSUME RoomInv, send = NoSend, NEW m \in Mine \ Written
    PROVE  /\ m \in Messages /\ m \notin Theirs /\ bubbles[m] = 0 /\ m \notin Stored
           /\ \A i \in 1..Len(frames) : frames[i] # m \/ m = Ping
BY RoomPageAssumption DEF Written, RoomInv, TextsAreNew, BubblesAreCounted, Messages

LEMMA SubmitSocketIsSound ==
    ASSUME RoomInv, SubmitSocket
    PROVE  RoomInv'
<1>1. PICK m \in Mine \ Written :
          /\ pendingOwnEcho' = m /\ bubbles' = [bubbles EXCEPT ![m] = @ + 1] /\ frames' = Append(frames, m)
  BY DEF SubmitSocket
<1>2. /\ send = NoSend
      /\ UNCHANGED <<rows, roomClosed, quota, sock, wire, reconnect, polling, fetch, send, seenIds,
                     refused, closes>>
      /\ m \in Messages /\ m \notin Theirs /\ bubbles[m] = 0 /\ m \notin Stored
      /\ \A i \in 1..Len(frames) : frames[i] # m \/ m = Ping
      /\ send.text # m /\ Stored' = Stored
  BY NewTexts, RoomPageAssumption DEF SubmitSocket, NoSend, Stored
<1>3. /\ bubbles' \in [Messages -> 0..2] /\ bubbles'[m] = 1
      /\ \A n \in Messages \ {m} : bubbles'[n] = bubbles[n]
  BY <1>1, <1>2 DEF RoomInv, BubblesAreCounted
<1>4. BubblesAreCounted'
  BY <1>2, <1>3 DEF RoomInv, BubblesAreCounted, Seen, Messages
<1>5. TextsAreNew'
  <2>1. /\ frames' \in Seq(Mine \cup {Ping}) /\ Len(frames') = Len(frames) + 1 /\ Len(frames) \in Nat
        /\ frames'[Len(frames) + 1] = m /\ \A i \in 1..Len(frames) : frames'[i] = frames[i]
    BY <1>1 DEF RoomInv, TextsAreNew
  <2>2. \A i \in 1..Len(frames') : i \in 1..Len(frames) \/ i = Len(frames) + 1
    BY <2>1
  <2>3. \A i \in 1..Len(frames) :
            frames[i] # Ping => frames[i] \in Mine \ Stored /\ bubbles'[frames[i]] > 0
    BY <1>2, <1>3 DEF RoomInv, TextsAreNew, Messages
  <2>4. \A i \in 1..Len(frames') :
            frames'[i] # Ping => frames'[i] \in Mine \ Stored /\ bubbles'[frames'[i]] > 0
    BY <1>2, <1>3, <2>1, <2>2, <2>3
  <2>5. ASSUME NEW i \in 1..Len(frames'), NEW j \in 1..Len(frames'), frames'[i] = frames'[j]
        PROVE  i = j \/ frames'[i] = Ping
    <3>1. \A k, l \in 1..Len(frames) : frames[k] = frames[l] => k = l \/ frames[k] = Ping
      BY DEF RoomInv, TextsAreNew
    <3>2. QED
      BY <1>2, <2>1, <2>2, <2>5, <3>1
  <2>6. QED
    BY <1>2, <2>1, <2>4, <2>5 DEF RoomInv, TextsAreNew
<1>6. QED
  BY <1>1, <1>2, <1>4, <1>5 DEF RoomInv, IdsAreOfRows, RestIsTyped

LEMMA SubmitHttpIsSound ==
    ASSUME RoomInv, SubmitHttp
    PROVE  RoomInv'
<1>1. PICK m \in Mine \ Written : send' = [state |-> "asked", text |-> m, id |-> 0]
  BY DEF SubmitHttp
<1>2. /\ UNCHANGED <<rows, roomClosed, quota, sock, wire, frames, reconnect, polling, fetch, seenIds,
                     pendingOwnEcho, bubbles, refused, closes>>
      /\ bubbles[m] = 0 /\ m \notin Stored /\ Stored' = Stored
  BY NewTexts DEF SubmitHttp, Stored
<1>3. send' \in [state : {"none", "asked", "served"}, text : Mine \cup {NoMessage}, id : 0..Len(rows)]
  BY <1>1 DEF RoomInv, IdsAreOfRows
<1>4. TextsAreNew'
  BY <1>1, <1>2, <1>3 DEF RoomInv, TextsAreNew
<1>5. BubblesAreCounted'
  BY <1>1, <1>2 DEF RoomInv, BubblesAreCounted, Seen
<1>6. QED
  BY <1>2, <1>4, <1>5 DEF RoomInv, IdsAreOfRows, RestIsTyped

LEMMA HttpServedIsSound ==
    ASSUME RoomInv, HttpServed
    PROVE  RoomInv'
<1> DEFINE m == send.text
<1>1. /\ send.state = "asked" /\ Allowed /\ quota' = Counted(0) /\ Post(m)
      /\ send' = [send EXCEPT !.state = "served", !.id = Len(rows')]
      /\ UNCHANGED <<roomClosed, sock, frames, reconnect, polling, fetch, seenIds, pendingOwnEcho,
                     bubbles, refused, closes>>
  BY DEF HttpServed
<1>2. /\ m \in Mine /\ m \notin Stored /\ m \in Messages \ Stored
      /\ send \in [state : {"none", "asked", "served"}, text : Mine \cup {NoMessage}, id : 0..Len(rows)]
  BY <1>1 DEF RoomInv, TextsAreNew, Messages
<1>3. /\ rows' \in Seq(Messages) /\ Len(rows') = Len(rows) + 1 /\ rows'[Len(rows) + 1] = m
      /\ \A i \in 1..Len(rows) : rows'[i] = rows[i]
      /\ Stored' = Stored \cup {m}
      /\ \A i, j \in 1..Len(rows') : rows'[i] = rows'[j] => i = j
      /\ Len(rows) \in Nat
  BY <1>1, <1>2, PostAddsARow DEF RoomInv, IdsAreOfRows
<1>4. IdsAreOfRows' /\ (\A n : Seen(n) => Seen(n)')
  BY <1>1, <1>2, MoreRowsKeepIds
<1>5. send'.state = "served" /\ send'.text = m /\ send'.id = Len(rows')
  BY <1>1, <1>2
<1>6. send' \in [state : {"none", "asked", "served"}, text : Mine \cup {NoMessage}, id : 0..Len(rows')]
  <2>1. ASSUME NEW n \in Nat, NEW k \in Nat, k = n + 1,
               NEW r \in [state : {"none", "asked", "served"}, text : Mine \cup {NoMessage}, id : 0..n]
        PROVE  [r EXCEPT !.state = "served", !.id = k]
                   \in [state : {"none", "asked", "served"}, text : Mine \cup {NoMessage}, id : 0..k]
    <3>1. k \in 0..k
      BY <2>1
    <3>2. QED
      BY <3>1
  <2>2. /\ Len(rows) \in Nat /\ Len(rows') \in Nat /\ Len(rows') = Len(rows) + 1
        /\ send \in [state : {"none", "asked", "served"}, text : Mine \cup {NoMessage}, id : 0..Len(rows)]
        /\ send' = [send EXCEPT !.state = "served", !.id = Len(rows')]
    BY <1>1, <1>2, <1>3
  <2>3. QED
    BY ONLY <2>1, <2>2
<1>7. bubbles[m] = 0
  <2>1. SUFFICES ASSUME bubbles[m] # 0 PROVE FALSE
    OBVIOUS
  <2>2. Seen(m)
    BY <1>2, <2>1 DEF RoomInv, BubblesAreCounted
  <2>3. QED
    BY <1>2, <2>2 DEF Seen, Stored, RoomInv, IdsAreOfRows
<1>8. \A i \in 1..Len(frames) : frames[i] # Ping => frames[i] # m
  BY <1>2, <1>7 DEF RoomInv, TextsAreNew
<1> HIDE DEF m
<1>9. TextsAreNew'
  BY <1>1, <1>2, <1>3, <1>5, <1>6, <1>8 DEF RoomInv, TextsAreNew
<1>10. BubblesAreCounted'
  BY <1>1, <1>4, <1>5, <1>7 DEF RoomInv, BubblesAreCounted
<1>11. RestIsTyped'
  BY <1>1, CountsAreTyped DEF RoomInv, RestIsTyped
<1>12. QED
  BY <1>4, <1>9, <1>10, <1>11 DEF RoomInv

LEMMA HttpAnsweredIsSound ==
    ASSUME RoomInv, HttpAnswered
    PROVE  RoomInv'
<1>0. PICK m : m = send.text
  OBVIOUS
<1>1. /\ send.state = "served" /\ seenIds' = seenIds \cup {send.id}
      /\ bubbles' = [bubbles EXCEPT ![m] = @ + 1] /\ send' = NoSend
      /\ UNCHANGED <<rows, roomClosed, quota, sock, wire, frames, reconnect, polling, fetch,
                     pendingOwnEcho, refused, closes>>
  BY <1>0 DEF HttpAnswered
<1>2. /\ m \in Mine /\ m \in Messages /\ m \notin Theirs
      /\ send.id \in 1..Len(rows) /\ rows[send.id] = m
      /\ bubbles[m] \in 0..1
  BY <1>0, <1>1, RoomPageAssumption DEF RoomInv, TextsAreNew, BubblesAreCounted, Messages
<1>3. /\ seenIds' \in SUBSET (1..Len(rows')) /\ Stored' = Stored
      /\ \A n : Seen(n) => Seen(n)'
      /\ Seen(m)'
  <2>1. seenIds \in SUBSET (1..Len(rows)) /\ rows' = rows
    BY <1>1 DEF RoomInv, IdsAreOfRows
  <2>2. Stored' = Stored
    BY <2>1 DEF Stored
  <2>3. \A n : Seen(n) => Seen(n)'
    BY <1>1, <2>1 DEF Seen
  <2>4. Seen(m)'
    <3>1. send.id \in seenIds' /\ rows'[send.id] = m
      BY <1>1, <1>2, <2>1
    <3>2. QED
      BY <3>1 DEF Seen
  <2>5. QED
    BY <1>1, <1>2, <2>1, <2>2, <2>3, <2>4
<1>4. /\ bubbles' \in [Messages -> 0..2]
      /\ \A n \in Messages : n # m => bubbles'[n] = bubbles[n]
      /\ bubbles'[m] = bubbles[m] + 1
  BY <1>1, <1>2 DEF RoomInv, BubblesAreCounted
<1>5. BubblesAreCounted'
  <2>1. \A n \in Theirs : bubbles'[n] = 0 \/ (bubbles'[n] = 1 /\ Seen(n)')
    BY <1>2, <1>3, <1>4 DEF RoomInv, BubblesAreCounted, Messages
  <2>2. \A n \in Mine : bubbles'[n] = 2 => Seen(n)'
    BY <1>2, <1>3, <1>4 DEF RoomInv, BubblesAreCounted, Messages
  <2>3. \A n \in Mine : send'.text # n
    BY <1>1, RoomPageAssumption DEF NoSend
  <2>4. QED
    BY <1>4, <2>1, <2>2, <2>3 DEF BubblesAreCounted
<1>6. TextsAreNew'
  <2>1. \A i \in 1..Len(frames) :
           frames[i] # Ping => frames[i] \in Mine \ Stored /\ bubbles'[frames[i]] > 0
    <3>1. ASSUME NEW i \in 1..Len(frames), frames[i] # Ping
          PROVE  frames[i] \in Mine \ Stored /\ bubbles'[frames[i]] > 0
      <4>1. frames[i] \in Mine \ Stored /\ bubbles[frames[i]] > 0 /\ frames[i] \in Messages
        BY <3>1 DEF RoomInv, TextsAreNew, Messages
      <4>2. frames[i] = m => bubbles'[frames[i]] = bubbles[m] + 1
        BY <1>4
      <4>3. frames[i] # m => bubbles'[frames[i]] = bubbles[frames[i]]
        BY <1>4, <4>1
      <4>4. QED
        BY <1>2, <4>1, <4>2, <4>3
    <3>2. QED
      BY <3>1
  <2>2. send' \in [state : {"none", "asked", "served"}, text : Mine \cup {NoMessage}, id : 0..Len(rows)]
    BY <1>1 DEF NoSend, RoomInv, IdsAreOfRows
  <2>3. QED
    BY <1>1, <1>3, <2>1, <2>2 DEF RoomInv, TextsAreNew, NoSend
<1>7. QED
  BY <1>1, <1>3, <1>5, <1>6 DEF RoomInv, IdsAreOfRows, RestIsTyped

LEMMA HttpFailsIsSound ==
    ASSUME RoomInv, HttpFails
    PROVE  RoomInv'
<1>1. /\ send' = NoSend /\ pendingOwnEcho' = NoMessage
      /\ quota' = quota \/ (Allowed /\ quota' = Counted(0))
      /\ UNCHANGED <<rows, roomClosed, sock, wire, frames, reconnect, polling, fetch, seenIds,
                     bubbles, refused, closes>>
      /\ Stored' = Stored
  BY DEF HttpFails, Stored
<1>2. TextsAreNew'
  <2>1. send' \in [state : {"none", "asked", "served"}, text : Mine \cup {NoMessage}, id : 0..Len(rows)]
    BY <1>1 DEF NoSend, RoomInv, IdsAreOfRows
  <2>2. QED
    BY <1>1, <2>1 DEF RoomInv, TextsAreNew, NoSend
<1>3. BubblesAreCounted'
  <2>1. \A n \in Mine : send'.text # n
    BY <1>1, RoomPageAssumption DEF NoSend
  <2>2. QED
    BY <1>1, <2>1 DEF RoomInv, BubblesAreCounted, Seen
<1>4. RestIsTyped'
  BY <1>1, CountsAreTyped DEF RoomInv, RestIsTyped
<1>5. QED
  BY <1>1, <1>2, <1>3, <1>4 DEF RoomInv, IdsAreOfRows

LEMMA RoomInvStep == RoomInv /\ [RoomPageNext]_pageVars => RoomInv'
<1>1. RoomInv /\ UNCHANGED pageVars => RoomInv'
  <2> SUFFICES ASSUME RoomInv, UNCHANGED pageVars PROVE RoomInv'
    OBVIOUS
  <2>1. UNCHANGED <<rows, roomClosed, quota, sock, wire, frames, reconnect, polling, fetch, send,
                    seenIds, pendingOwnEcho, bubbles, refused, closes>>
    BY DEF pageVars
  <2>2. IdsAreOfRows' = IdsAreOfRows
    BY <2>1 DEF IdsAreOfRows
  <2>3. Stored' = Stored /\ \A m : Seen(m)' = Seen(m)
    BY <2>1 DEF Stored, Seen
  <2>4. TextsAreNew' = TextsAreNew
    BY <2>1, <2>3 DEF TextsAreNew
  <2>5. BubblesAreCounted' = BubblesAreCounted
    BY <2>1, <2>3 DEF BubblesAreCounted
  <2>6. RestIsTyped' = RestIsTyped
    BY <2>1 DEF RestIsTyped
  <2>7. QED
    BY <2>2, <2>4, <2>5, <2>6 DEF RoomInv
<1>2. QED
  BY <1>1, QuietSteps, SocketClosesIsSound, PingLoopIsSound, ArrivalsAreSound, OtherPostsIsSound,
     ReceiveIsSound, SubmitSocketIsSound, SubmitHttpIsSound, HttpServedIsSound, HttpAnsweredIsSound,
     HttpFailsIsSound DEF RoomPageNext

\* There are no more rows than messages, and so no more ids.
LEMMA RoomIsTyped == RoomInv => RoomPageTypeOK
<1> SUFFICES ASSUME RoomInv PROVE RoomPageTypeOK
  OBVIOUS
<1>1. rows \in Injection(1..Len(rows), Messages) /\ Len(rows) \in Nat
  <2>1. rows \in [1..Len(rows) -> Messages] /\ Len(rows) \in Nat
    BY DEF RoomInv, IdsAreOfRows
  <2>2. \A i, j \in 1..Len(rows) : rows[i] = rows[j] => i = j
    BY DEF RoomInv, TextsAreNew
  <2>3. QED
    BY <2>1, <2>2 DEF Injection, IsInjective
<1>2. IsFiniteSet(Messages)
  BY RoomPageAssumption DEF Messages
<1>3. Len(rows) <= MaxId /\ MaxId \in Nat
  <2>1. Cardinality(1..Len(rows)) <= Cardinality(Messages)
    BY <1>1, <1>2, FS_Injection
  <2>2. Cardinality(1..Len(rows)) = Len(rows)
    <3>1. 1 \in Int /\ Len(rows) \in Int /\ Len(rows) >= 0
      BY <1>1
    <3>2. Cardinality(1..Len(rows)) = IF 1 > Len(rows) THEN 0 ELSE Len(rows) - 1 + 1
      BY <3>1, FS_Interval
    <3>3. QED
      BY <3>1, <3>2
  <2>3. QED
    BY <1>2, <2>1, <2>2, FS_CardinalityType DEF MaxId
<1>4. 0..Len(rows) \subseteq 0..MaxId /\ 1..Len(rows) \subseteq 1..MaxId
  BY <1>1, <1>3
<1>5. /\ wire \in Seq(1..MaxId)
      /\ seenIds \subseteq 1..MaxId
      /\ fetch \in [state : {"none", "asked", "served"}, after : 0..MaxId, upTo : 0..MaxId]
      /\ send \in [state : {"none", "asked", "served"}, text : Mine \cup {NoMessage}, id : 0..MaxId]
  <2>1. wire \in Seq(1..Len(rows)) /\ seenIds \subseteq 1..Len(rows)
    BY DEF RoomInv, IdsAreOfRows
  <2>2. /\ fetch \in [state : {"none", "asked", "served"}, after : 0..Len(rows), upTo : 0..Len(rows)]
        /\ send \in [state : {"none", "asked", "served"}, text : Mine \cup {NoMessage}, id : 0..Len(rows)]
    BY DEF RoomInv, IdsAreOfRows, TextsAreNew
  <2>3. wire \in Seq(1..MaxId)
    <3>1. Len(wire) \in Nat /\ wire \in [1..Len(wire) -> 1..MaxId]
      BY <1>4, <2>1
    <3>2. QED
      BY <3>1, SeqDef
  <2>4. QED
    BY <1>4, <2>1, <2>2, <2>3
<1>6. bubbles \in [Messages -> 0..3]
  BY DEF RoomInv, BubblesAreCounted
<1>7. QED
  BY <1>5, <1>6 DEF RoomInv, RoomPageTypeOK, IdsAreOfRows, TextsAreNew, RestIsTyped

LEMMA BubblesShowOnce == RoomInv => TheirsShownOnce
BY DEF RoomInv, BubblesAreCounted, TheirsShownOnce, Messages

-----------------------------------------------------------------------------
(* The counter in the header.                                              *)

\* What a page asks for and shows keeps within the counts of its sockets.
LEMMA SumIsTyped ==
    ASSUME NEW counts \in [Sockets -> Counts]
    PROVE  Sum(counts) \in 0..2 * MaxUnread
<1>1. MaxUnread \in Nat
  BY HeaderPageAssumption
<1>2. "user" \in Sockets /\ (Approved => "owner" \in Sockets)
  BY DEF Sockets
<1>3. counts["user"] \in 0..MaxUnread /\ (Approved => counts["owner"] \in 0..MaxUnread)
  BY <1>2 DEF Counts
<1>4. QED
  BY <1>1, <1>3 DEF Sum

LEMMA HeaderTypeInit == HeaderInit => HeaderTypeOK
<1> SUFFICES ASSUME HeaderInit PROVE HeaderTypeOK
  OBVIOUS
<1>1. unread \in [Sockets -> Counts] /\ MaxUnread \in Nat
  BY HeaderPageAssumption DEF HeaderInit
<1>2. pill \in [Sockets -> 0..2 * MaxUnread]
  <2>1. Sum(unread) \in 0..2 * MaxUnread /\ 0 \in 0..2 * MaxUnread
    BY <1>1, SumIsTyped
  <2>2. QED
    BY <2>1 DEF HeaderInit
<1>3. summary \in [state : {"none", "asked", "served"}, counts : [Sockets -> Counts]]
  BY <1>1 DEF HeaderInit, NoSummary, Counts
<1>4. inboxWire \in [Sockets -> Seq(Counts)]
  BY DEF HeaderInit
<1>5. QED
  BY <1>1, <1>2, <1>3, <1>4 DEF HeaderInit, HeaderTypeOK

Summaries == [state : {"none", "asked", "served"}, counts : [Sockets -> Counts]]

LEMMA SummariesAreTyped ==
    ASSUME HeaderTypeOK
    PROVE  /\ summary \in Summaries /\ NoSummary \in Summaries
           /\ \A socks : SummaryAsked(socks) \in Summaries
<1>1. summary \in Summaries /\ MaxUnread \in Nat
  BY HeaderPageAssumption DEF HeaderTypeOK, Summaries
<1>2. NoSummary \in Summaries
  BY <1>1 DEF NoSummary, Summaries, Counts
<1>3. [summary EXCEPT !.state = "asked"] \in Summaries
  BY <1>1 DEF Summaries
<1>4. QED
  BY <1>1, <1>2, <1>3 DEF SummaryAsked

LEMMA SchedulesAreTyped ==
    ASSUME HeaderTypeOK, NEW socks, ScheduleInboxPollIfNeeded(socks) \/ ClearInboxPoll
    PROVE  pollTimer' \in BOOLEAN /\ summary' \in Summaries
BY SummariesAreTyped DEF ScheduleInboxPollIfNeeded, ClearInboxPoll

LEMMA SocketsAreTyped ==
    ASSUME HeaderTypeOK, NEW c \in Sockets,
           TimerFires(c) \/ InboxJoins(c) \/ InboxOpens(c) \/ InboxCloses(c) \/ CountArrives(c)
    PROVE  HeaderTypeOK'
<1>1. /\ unread \in [Sockets -> Counts] /\ pill \in [Sockets -> 0..2 * MaxUnread]
      /\ inboxSock \in [Sockets -> {"connecting", "joined", "open", "closed"}]
      /\ inboxWire \in [Sockets -> Seq(Counts)]
      /\ checked \subseteq Sockets /\ visible \in BOOLEAN /\ pollTimer \in BOOLEAN
      /\ summary \in Summaries
  BY DEF HeaderTypeOK, Summaries
<1>2. CASE TimerFires(c)
  <2>1. pollTimer' \in BOOLEAN /\ summary' \in Summaries
    BY <1>1, <1>2, SchedulesAreTyped DEF TimerFires
  <2>2. QED
    BY <1>1, <1>2, <2>1 DEF TimerFires, HeaderTypeOK, Summaries
<1>3. CASE InboxJoins(c)
  BY <1>1, <1>3 DEF InboxJoins, HeaderTypeOK, Summaries
<1>4. CASE InboxOpens(c)
  <2>1. pollTimer' \in BOOLEAN /\ summary' \in Summaries
    BY <1>4, SchedulesAreTyped DEF InboxOpens
  <2>2. inboxWire' \in [Sockets -> Seq(Counts)]
    <3>1. <<unread[c]>> \o inboxWire[c] \in Seq(Counts)
      BY <1>1
    <3>2. QED
      BY <1>1, <1>4, <3>1 DEF InboxOpens
  <2>3. QED
    BY <1>1, <1>4, <2>1, <2>2 DEF InboxOpens, HeaderTypeOK, Summaries
<1>5. CASE InboxCloses(c)
  <2>1. pollTimer' \in BOOLEAN /\ summary' \in Summaries
    BY <1>5, SchedulesAreTyped DEF InboxCloses
  <2>2. QED
    BY <1>1, <1>5, <2>1 DEF InboxCloses, HeaderTypeOK, Summaries
<1>6. CASE CountArrives(c)
  <2>1. /\ Head(inboxWire[c]) \in Counts /\ Tail(inboxWire[c]) \in Seq(Counts)
    BY <1>1, <1>6 DEF CountArrives
  <2>2. Counts \subseteq 0..2 * MaxUnread
    BY HeaderPageAssumption DEF Counts
  <2>3. QED
    BY <1>1, <1>6, <2>1, <2>2 DEF CountArrives, HeaderTypeOK, Summaries
<1>7. QED
  BY <1>2, <1>3, <1>4, <1>5, <1>6

LEMMA HeaderTypeStep == HeaderTypeOK /\ [HeaderNext]_headerVars => HeaderTypeOK'
<1> SUFFICES ASSUME HeaderTypeOK, [HeaderNext]_headerVars PROVE HeaderTypeOK'
  OBVIOUS
<1>1. /\ unread \in [Sockets -> Counts] /\ pill \in [Sockets -> 0..2 * MaxUnread]
      /\ inboxSock \in [Sockets -> {"connecting", "joined", "open", "closed"}]
      /\ inboxWire \in [Sockets -> Seq(Counts)]
      /\ checked \subseteq Sockets /\ visible \in BOOLEAN /\ pollTimer \in BOOLEAN
      /\ summary \in Summaries
  BY DEF HeaderTypeOK, Summaries
<1>2. CASE CountChanges
  <2>1. PICK c \in Sockets, n \in Counts :
            /\ unread' = [unread EXCEPT ![c] = n]
            /\ inboxWire' = IF inboxSock[c] \in {"joined", "open"}
                            THEN [inboxWire EXCEPT ![c] = Append(@, n)] ELSE inboxWire
            /\ UNCHANGED <<pill, inboxSock, checked, visible, pollTimer, summary>>
    BY <1>2 DEF CountChanges
  <2>2. Append(inboxWire[c], n) \in Seq(Counts)
    BY <1>1
  <2>3. QED
    BY <1>1, <2>1, <2>2 DEF HeaderTypeOK, Summaries
<1>3. CASE PageHides
  BY <1>1, <1>3, SchedulesAreTyped DEF PageHides, HeaderTypeOK, Summaries
<1>4. CASE PageShows
  <2>1. pollTimer' \in BOOLEAN /\ summary' \in Summaries
    <3>1. [summary EXCEPT !.state = "asked"] \in Summaries
      BY <1>1 DEF Summaries
    <3>2. QED
      BY <1>1, <1>4, <3>1, SchedulesAreTyped DEF PageShows
  <2>2. QED
    BY <1>1, <1>4, <2>1 DEF PageShows, HeaderTypeOK, Summaries
<1>5. CASE SummaryTick
  BY <1>1, <1>5, SummariesAreTyped DEF SummaryTick, HeaderTypeOK, Summaries
<1>6. CASE SummaryServed
  BY <1>1, <1>6 DEF SummaryServed, Served, HeaderTypeOK, Summaries
<1>7. CASE SummaryAnswered
  <2>1. summary.counts \in [Sockets -> Counts]
    BY <1>1 DEF Summaries
  <2>2. Counts \subseteq 0..2 * MaxUnread
    BY HeaderPageAssumption DEF Counts
  <2>3. summary.counts \in [Sockets -> 0..2 * MaxUnread]
    BY <2>1, <2>2
  <2>4. QED
    BY <1>1, <1>7, <2>3, SummariesAreTyped DEF SummaryAnswered, HeaderTypeOK, Summaries
<1>8. CASE SummaryFails
  BY <1>1, <1>8, SummariesAreTyped DEF SummaryFails, HeaderTypeOK, Summaries
<1>9. CASE UNCHANGED headerVars
  BY <1>1, <1>9 DEF headerVars, HeaderTypeOK, Summaries
<1>10. QED
  BY <1>2, <1>3, <1>4, <1>5, <1>6, <1>7, <1>8, <1>9, SocketsAreTyped DEF HeaderNext

-----------------------------------------------------------------------------
(* The number of a seller.                                                 *)

LEMMA PhonesFinite ==
    /\ IsFiniteSet(Tabs) /\ IsFiniteSet(Flights) /\ NoTab \notin Tabs /\ MaxDue \in Nat \ {0}
BY PhoneRevealAssumption

\* What is kept, shown or answered was counted.
WasCounted ==
    /\ PhoneRevealTypeOK
    /\ \A a \in Ads : stored[a] # "none" => a \in logged
    /\ \A t \in Tabs : shown[t] \subseteq logged
    /\ \A f \in Flights : flight[f].stage = "answered" => flight[f].ad \in logged

PhoneInv == WasCounted /\ \A a \in Ads : Waiting(a) <= due[a]

\* The listeners of one page.
RowOfListeners(t, n) == {l \in {t} \X (1..MaxDue) : l[2] <= n}

LEMMA RowsOfListeners ==
    ASSUME NEW t, NEW n \in 0..MaxDue
    PROVE  IsFiniteSet(RowOfListeners(t, n)) /\ Cardinality(RowOfListeners(t, n)) = n
<1> DEFINE F == [k \in 1..n |-> <<t, k>>]
<1>1. n \in Nat /\ MaxDue \in Nat
  BY PhonesFinite
<1>2. F \in Bijection(1..n, RowOfListeners(t, n))
  <2>1. \A k \in 1..n : <<t, k>> \in RowOfListeners(t, n)
    BY <1>1 DEF RowOfListeners
  <2>2. \A l \in RowOfListeners(t, n) : l[2] \in 1..n /\ l = <<t, l[2]>>
    BY <1>1 DEF RowOfListeners
  <2>3. F \in Injection(1..n, RowOfListeners(t, n))
    BY <2>1 DEF Injection, IsInjective
  <2>4. F \in Surjection(1..n, RowOfListeners(t, n))
    BY <2>1, <2>2 DEF Surjection
  <2>5. QED
    BY <2>3, <2>4 DEF Bijection
<1>3. IsFiniteSet(1..n) /\ Cardinality(1..n) = n
  BY <1>1, FS_Interval
<1>4. QED
  BY <1>2, <1>3, FS_Bijection DEF ExistsBijection

LEMMA WaitingIsFinite ==
    ASSUME PhoneRevealTypeOK, NEW a \in Ads
    PROVE  /\ IsFiniteSet(Sent(a)) /\ IsFiniteSet(Listeners(a))
           /\ Cardinality(Sent(a)) \in Nat /\ Cardinality(Listeners(a)) \in Nat
           /\ Waiting(a) \in Nat
<1>1. IsFiniteSet(Sent(a))
  BY PhonesFinite, FS_Subset DEF Sent
<1>2. IsFiniteSet(Listeners(a))
  <2>1. IsFiniteSet(1..MaxDue)
    BY PhonesFinite, FS_Interval
  <2>2. IsFiniteSet(Tabs \X (1..MaxDue))
    BY <2>1, PhonesFinite, FS_Product
  <2>3. QED
    BY <2>2, FS_Subset DEF Listeners
<1>3. QED
  BY <1>1, <1>2, FS_CardinalityType DEF Waiting

\* A page's listeners are among those of all pages, and what is left without them is fewer.
LEMMA ListenersOfAPage ==
    ASSUME PhoneRevealTypeOK, NEW a \in Ads, NEW t \in Tabs
    PROVE  LET rest == {l \in Listeners(a) : l[1] # t}
           IN  /\ IsFiniteSet(rest) /\ Cardinality(rest) \in Nat
               /\ Cardinality(Listeners(a)) = Cardinality(rest) + confirms[t][a]
               /\ confirms[t][a] <= Waiting(a)
<1> DEFINE rest == {l \in Listeners(a) : l[1] # t}
           row == RowOfListeners(t, confirms[t][a])
<1>1. confirms[t][a] \in 0..MaxDue
  BY DEF PhoneRevealTypeOK
<1>2. IsFiniteSet(row) /\ Cardinality(row) = confirms[t][a]
  BY <1>1, RowsOfListeners
<1>3. IsFiniteSet(rest) /\ Cardinality(rest) \in Nat
  BY WaitingIsFinite, FS_Subset, FS_CardinalityType
<1>4. Listeners(a) = rest \cup row /\ rest \cap row = {}
  BY DEF Listeners, RowOfListeners
<1>5. Cardinality(Listeners(a)) = Cardinality(rest) + Cardinality(row) - Cardinality(rest \cap row)
  BY <1>2, <1>3, <1>4, FS_Union
<1>6. Cardinality(rest \cap row) = 0
  BY <1>4, FS_EmptySet
<1>7. Cardinality(Listeners(a)) = Cardinality(rest) + confirms[t][a]
  BY <1>1, <1>2, <1>3, <1>5, <1>6
<1>8. confirms[t][a] <= Waiting(a)
  BY <1>1, <1>3, <1>7, WaitingIsFinite DEF Waiting
<1>9. QED
  BY <1>3, <1>7, <1>8

\* What a request is, while it is on its way.
LEMMA FlightsChange ==
    ASSUME PhoneRevealTypeOK, NEW f \in Flights, flight[f] # NoFlight
    PROVE  /\ flight[f] \in Flight /\ flight[f].ad \in Ads /\ flight[f].tab \in Tabs \cup {NoTab}
           /\ \A s \in {"sent", "answered", "refused"} :
                 /\ [flight[f] EXCEPT !.stage = s] \in Flight
                 /\ [flight[f] EXCEPT !.stage = s].stage = s
                 /\ [flight[f] EXCEPT !.stage = s].ad = flight[f].ad
           /\ [flight[f] EXCEPT !.tab = NoTab] \in Flight
           /\ [flight[f] EXCEPT !.tab = NoTab].stage = flight[f].stage
           /\ [flight[f] EXCEPT !.tab = NoTab].ad = flight[f].ad
<1>1. flight[f] \in Flight
  BY DEF PhoneRevealTypeOK
<1>2. QED
  BY <1>1 DEF Flight

LEMMA NoFlightIsNone == NoFlight.stage = "none" /\ NoFlight \notin Flight
BY DEF NoFlight, Flight

\* Nothing waits for a number at first.
LEMMA PhoneInvInit == PhoneRevealInit => PhoneInv
<1> SUFFICES ASSUME PhoneRevealInit PROVE PhoneInv
  OBVIOUS
<1> USE DEF PhoneRevealInit
<1>1. PhoneRevealTypeOK
  <2>1. 0 \in 0..MaxDue
    BY PhonesFinite
  <2> HIDE DEF NoFlight
  <2>2. flight \in [Flights -> Flight \cup {NoFlight}]
    OBVIOUS
  <2>3. due \in [Ads -> 0..MaxDue] /\ confirms \in [Tabs -> [Ads -> 0..MaxDue]]
    BY <2>1
  <2>4. QED
    BY <2>2, <2>3 DEF PhoneRevealTypeOK
<1>2. WasCounted
  BY <1>1, NoFlightIsNone DEF WasCounted
<1>3. ASSUME NEW a \in Ads PROVE Waiting(a) <= due[a]
  <2>1. Sent(a) = {}
    BY NoFlightIsNone DEF Sent
  <2>2. Listeners(a) = {}
    BY PhonesFinite DEF Listeners
  <2>3. QED
    BY <2>1, <2>2, FS_EmptySet DEF Waiting
<1>4. QED
  BY <1>2, <1>3 DEF PhoneInv

-----------------------------------------------------------------------------
\* The browser sends as many requests for a number as are asked.
LEMMA RequestsAreSent ==
    ASSUME PhoneRevealTypeOK, NEW t \in Tabs, NEW asked, \A b \in Ads : asked[b] \in Nat,
           DoReveal(t, asked)
    PROVE  /\ flight' \in [Flights -> Flight \cup {NoFlight}]
           /\ disabled' \in [Tabs -> SUBSET Ads]
           /\ \A f \in Flights : flight'[f].stage = "answered" => flight'[f] = flight[f]
           /\ \A a \in Ads : Cardinality(Sent(a)') = Cardinality(Sent(a)) + asked[a]
<1>1. PICK free \in SUBSET {f \in Flights : flight[f] = NoFlight}, ad \in [Flights -> Ads] :
          /\ \A a \in Ads : Cardinality({f \in free : ad[f] = a}) = asked[a]
          /\ flight' = [f \in Flights |-> IF f \in free THEN [stage |-> "sent", tab |-> t, ad |-> ad[f]]
                                          ELSE flight[f]]
  BY DEF DoReveal
<1>2. \A f \in free : [stage |-> "sent", tab |-> t, ad |-> ad[f]] \in Flight
  BY <1>1 DEF Flight
<1>3. flight' \in [Flights -> Flight \cup {NoFlight}]
  BY <1>1, <1>2 DEF PhoneRevealTypeOK
<1>4. disabled' \in [Tabs -> SUBSET Ads]
  BY DEF PhoneRevealTypeOK, DoReveal
<1>5. \A f \in Flights : flight'[f].stage = "answered" => flight'[f] = flight[f]
  BY <1>1
<1>6. ASSUME NEW a \in Ads
      PROVE  Cardinality(Sent(a)') = Cardinality(Sent(a)) + asked[a]
  <2> DEFINE new == {f \in free : ad[f] = a}
  <2>1. Sent(a)' = Sent(a) \cup new /\ Sent(a) \cap new = {}
    BY <1>1, NoFlightIsNone DEF Sent
  <2>2. IsFiniteSet(new)
    BY PhonesFinite, <1>1, FS_Subset
  <2>3. IsFiniteSet(Sent(a)) /\ Cardinality(Sent(a)) \in Nat
    BY WaitingIsFinite
  <2>4. Cardinality(Sent(a) \cup new)
          = Cardinality(Sent(a)) + Cardinality(new) - Cardinality(Sent(a) \cap new)
    BY <2>2, <2>3, FS_Union
  <2>5. Cardinality(Sent(a) \cap new) = 0
    BY <2>1, FS_EmptySet
  <2>6. Cardinality(new) = asked[a] /\ asked[a] \in Nat
    BY <1>1
  <2>7. QED
    BY <2>1, <2>3, <2>4, <2>5, <2>6
<1>7. QED
  BY <1>3, <1>4, <1>5, <1>6

\* Steps that neither send nor serve a request, nor touch a listener.
LEMMA NothingIsAsked ==
    ASSUME PhoneInv, due' = due, confirms' = confirms,
           \A a \in Ads : Sent(a)' = Sent(a)
    PROVE  \A a \in Ads : Waiting(a)' <= due'[a]
BY DEF PhoneInv, Waiting, Listeners

LEMMA PageOpensOrHides ==
    ASSUME PhoneInv, NEW t \in Tabs,
           \/ RevealPageOpens(t) \/ RevealPageHides(t) \/ RevealPageReturns(t) \/ CountdownEnds(t)
           \/ \E a \in Ads : RevealFromStorage(t, a)
    PROVE  PhoneInv'
<1> USE DEF PhoneInv, WasCounted, PhoneRevealTypeOK
<1>1. UNCHANGED <<flight, confirms, due, logged, disabled>>
  BY DEF RevealPageOpens, RevealPageHides, RevealPageReturns, CountdownEnds, RevealFromStorage
<1>2. \A a \in Ads : Waiting(a)' <= due'[a]
  BY <1>1, NothingIsAsked DEF Sent
<1>3. WasCounted'
  <2>1. CASE RevealPageOpens(t)
    BY <1>1, <2>1 DEF RevealPageOpens
  <2>2. CASE RevealPageHides(t)
    BY <1>1, <2>2 DEF RevealPageHides
  <2>3. CASE RevealPageReturns(t)
    BY <1>1, <2>3 DEF RevealPageReturns, Hide, TimedOut
  <2>4. CASE CountdownEnds(t)
    BY <1>1, <2>4 DEF CountdownEnds, Hide, TimedOut
  <2>5. ASSUME NEW a \in Ads, RevealFromStorage(t, a) PROVE WasCounted'
    BY <1>1, <2>5 DEF RevealFromStorage, Clicks
  <2>6. QED
    BY <2>1, <2>2, <2>3, <2>4, <2>5
<1>4. QED
  BY <1>2, <1>3

\* A page that closes takes its listeners along, and not its requests.
LEMMA PageCloses ==
    ASSUME PhoneInv, NEW t \in Tabs, RevealPageCloses(t)
    PROVE  PhoneInv'
<1> USE DEF RevealPageCloses
<1>1. PhoneRevealTypeOK
  BY DEF PhoneInv, WasCounted
<1>2. \A f \in Flights : flight[f] # NoFlight /\ flight[f].tab = t
                           => [flight[f] EXCEPT !.tab = NoTab] \in Flight
  BY <1>1, FlightsChange
<1>3. flight' \in [Flights -> Flight \cup {NoFlight}]
  BY <1>1, <1>2 DEF PhoneRevealTypeOK
<1>4. \A f \in Flights : flight'[f].stage = flight[f].stage
                           /\ (flight[f] # NoFlight => flight'[f].ad = flight[f].ad)
  BY <1>1, FlightsChange
<1>5. ASSUME NEW a \in Ads
      PROVE  Waiting(a)' <= due'[a] /\ due'[a] \in 0..MaxDue
  <2> DEFINE rest == {l \in Listeners(a) : l[1] # t}
  <2>1. Sent(a)' = Sent(a)
    BY <1>4, NoFlightIsNone DEF Sent
  <2>2. Listeners(a)' = rest
    BY <1>1, PhonesFinite DEF Listeners, PhoneRevealTypeOK
  <2>3. /\ Cardinality(rest) \in Nat
        /\ Cardinality(Listeners(a)) = Cardinality(rest) + confirms[t][a]
    BY <1>1, ListenersOfAPage
  <2>4. Cardinality(Sent(a)) \in Nat /\ confirms[t][a] \in 0..MaxDue /\ due[a] \in 0..MaxDue
    BY <1>1, WaitingIsFinite DEF PhoneRevealTypeOK
  <2>5. Cardinality(Sent(a)) + Cardinality(Listeners(a)) <= due[a]
    BY DEF PhoneInv, Waiting
  <2>6. due'[a] = due[a] - confirms[t][a]
    OBVIOUS
  <2> HIDE DEF rest
  <2>7. MaxDue \in Nat
    BY PhonesFinite
  <2>8. Waiting(a)' = Cardinality(Sent(a)) + Cardinality(rest)
    BY <2>1, <2>2 DEF Waiting
  <2>9. QED
    BY <2>3, <2>4, <2>5, <2>6, <2>7, <2>8
<1>6. PhoneRevealTypeOK'
  <2>1. due' \in [Ads -> 0..MaxDue]
    BY <1>5
  <2>2. confirms' \in [Tabs -> [Ads -> 0..MaxDue]]
    BY <1>1, PhonesFinite DEF PhoneRevealTypeOK
  <2>3. QED
    BY <1>1, <1>3, <2>1, <2>2 DEF PhoneRevealTypeOK
<1>7. WasCounted'
  <2>1. \A f \in Flights : flight'[f].stage = "answered" => flight'[f].ad \in logged'
    BY <1>4, NoFlightIsNone DEF PhoneInv, WasCounted
  <2>2. (\A a \in Ads : stored[a] # "none" => a \in logged)'
    BY DEF PhoneInv, WasCounted
  <2>3. (\A s \in Tabs : shown[s] \subseteq logged)'
    BY <1>1 DEF PhoneInv, WasCounted, PhoneRevealTypeOK
  <2>4. QED
    BY <1>6, <2>1, <2>2, <2>3 DEF WasCounted
<1>8. QED
  BY <1>5, <1>7 DEF PhoneInv

\* A click asks at once, or adds a listener.
LEMMA ClickAsks ==
    ASSUME PhoneInv, NEW t \in Tabs, NEW a \in Ads, AskForNumber(t, a)
    PROVE  PhoneInv'
<1> USE DEF AskForNumber
<1>1. PhoneRevealTypeOK
  BY DEF PhoneInv, WasCounted
<1>2. /\ due' \in [Ads -> 0..MaxDue]
      /\ \A b \in Ads : due'[b] = IF b = a THEN due[b] + 1 ELSE due[b]
  BY <1>1, PhonesFinite DEF PhoneRevealTypeOK
<1>3. \A b \in Ads : /\ Cardinality(Sent(b)) \in Nat /\ Cardinality(Listeners(b)) \in Nat
                     /\ due[b] \in Nat
                     /\ Cardinality(Sent(b)) + Cardinality(Listeners(b)) <= due[b]
  BY <1>1, WaitingIsFinite DEF PhoneRevealTypeOK, PhoneInv, Waiting
<1>4. CASE DoReveal(t, [b \in Ads |-> IF b = a THEN 1 ELSE 0]) /\ UNCHANGED confirms
  <2> DEFINE asked == [b \in Ads |-> IF b = a THEN 1 ELSE 0]
  <2>1. \A b \in Ads : asked[b] \in Nat /\ asked[b] = IF b = a THEN 1 ELSE 0
    OBVIOUS
  <2>2. DoReveal(t, asked)
    BY <1>4
  <2> HIDE DEF asked
  <2>3. /\ flight' \in [Flights -> Flight \cup {NoFlight}]
        /\ disabled' \in [Tabs -> SUBSET Ads]
        /\ \A f \in Flights : flight'[f].stage = "answered" => flight'[f] = flight[f]
        /\ \A b \in Ads : Cardinality(Sent(b)') = Cardinality(Sent(b)) + asked[b]
    BY <1>1, <2>1, <2>2, RequestsAreSent
  <2>4. PhoneRevealTypeOK'
    BY <1>1, <1>2, <1>4, <2>3 DEF PhoneRevealTypeOK
  <2>5. WasCounted'
    BY <2>3, <2>4 DEF PhoneInv, WasCounted
  <2>6. ASSUME NEW b \in Ads PROVE Waiting(b)' <= due'[b]
    <3>1. Waiting(b)' = Cardinality(Sent(b)) + asked[b] + Cardinality(Listeners(b))
      BY <1>3, <1>4, <2>1, <2>3 DEF Waiting, Listeners
    <3>2. QED
      BY <1>2, <1>3, <2>1, <3>1
  <2>7. QED
    BY <2>5, <2>6 DEF PhoneInv
<1>5. CASE confirms' = [confirms EXCEPT ![t][a] = @ + 1] /\ UNCHANGED <<disabled, flight>>
  <2>1. confirms[t][a] < MaxDue /\ confirms[t][a] \in 0..MaxDue /\ MaxDue \in Nat
    <3>1. confirms[t][a] <= Waiting(a) /\ Waiting(a) <= due[a] /\ due[a] < MaxDue
      BY <1>1, ListenersOfAPage DEF PhoneInv
    <3>2. confirms[t][a] \in 0..MaxDue /\ due[a] \in 0..MaxDue /\ Waiting(a) \in Nat /\ MaxDue \in Nat
      BY <1>1, WaitingIsFinite, PhonesFinite DEF PhoneRevealTypeOK
    <3>3. QED
      BY <3>1, <3>2
  <2>2. /\ confirms' \in [Tabs -> [Ads -> 0..MaxDue]]
        /\ \A s \in Tabs, b \in Ads :
              confirms'[s][b] = IF s = t /\ b = a THEN confirms[t][a] + 1 ELSE confirms[s][b]
    <3>1. [confirms[t] EXCEPT ![a] = @ + 1] \in [Ads -> 0..MaxDue]
      BY <1>1, <2>1 DEF PhoneRevealTypeOK
    <3>2. confirms' = [confirms EXCEPT ![t] = [confirms[t] EXCEPT ![a] = @ + 1]]
      BY <1>5
    <3>3. QED
      BY <1>1, <3>1, <3>2 DEF PhoneRevealTypeOK
  <2>3. PhoneRevealTypeOK'
    BY <1>1, <1>2, <1>5, <2>2 DEF PhoneRevealTypeOK
  <2>4. WasCounted'
    BY <1>5, <2>3 DEF PhoneInv, WasCounted
  <2>5. \A b \in Ads : Sent(b)' = Sent(b)
    BY <1>5 DEF Sent
  <2>6. Waiting(a)' <= due'[a]
    <3> DEFINE rest == {l \in Listeners(a) : l[1] # t}
    <3>1. /\ Cardinality(rest) \in Nat
          /\ Cardinality(Listeners(a)) = Cardinality(rest) + confirms[t][a]
      BY <1>1, ListenersOfAPage
    <3>2. Cardinality(Listeners(a)') = Cardinality({l \in Listeners(a)' : l[1] # t}) + confirms'[t][a]
      <4>1. (PhoneRevealTypeOK
               => Cardinality(Listeners(a)) = Cardinality({l \in Listeners(a) : l[1] # t}) + confirms[t][a])'
        BY ListenersOfAPage, PTL
      <4>2. QED
        BY <2>3, <4>1
    <3>3. {l \in Listeners(a)' : l[1] # t} = rest
      BY <2>2 DEF Listeners
    <3>7. Cardinality(Listeners(a)') = Cardinality(rest) + confirms'[t][a]
      BY <3>2, <3>3
    <3>8. confirms'[t][a] = confirms[t][a] + 1
      BY <2>2
    <3> HIDE DEF rest
    <3>4. Cardinality(Listeners(a)') = Cardinality(Listeners(a)) + 1
      BY <2>1, <3>1, <3>7, <3>8
    <3>5. Waiting(a)' = Cardinality(Sent(a)) + Cardinality(Listeners(a)) + 1
      BY <1>3, <2>5, <3>4 DEF Waiting
    <3>6. QED
      BY <1>2, <1>3, <3>5
  <2>7. ASSUME NEW b \in Ads, b # a PROVE Waiting(b)' <= due'[b]
    <3>1. Listeners(b)' = Listeners(b)
      BY <2>2, <2>7 DEF Listeners
    <3>2. QED
      BY <1>2, <2>5, <2>7, <3>1 DEF Waiting, PhoneInv
  <2>8. QED
    BY <2>4, <2>6, <2>7 DEF PhoneInv
<1>6. QED
  BY <1>4, <1>5

\* The button of the dialog runs every listener of its page.
LEMMA DialogAsks ==
    ASSUME PhoneInv, NEW t \in Tabs, DialogConfirmed(t)
    PROVE  PhoneInv'
<1> USE DEF DialogConfirmed, RemoveListeners
<1>1. PhoneRevealTypeOK
  BY DEF PhoneInv, WasCounted
<1>2. \A b \in Ads : confirms[t][b] \in Nat
  BY <1>1, PhonesFinite DEF PhoneRevealTypeOK
<1>3. DoReveal(t, confirms[t])
  OBVIOUS
<1>4. /\ flight' \in [Flights -> Flight \cup {NoFlight}]
      /\ disabled' \in [Tabs -> SUBSET Ads]
      /\ \A f \in Flights : flight'[f].stage = "answered" => flight'[f] = flight[f]
      /\ \A b \in Ads : Cardinality(Sent(b)') = Cardinality(Sent(b)) + confirms[t][b]
  BY <1>1, <1>2, <1>3, RequestsAreSent
<1>5. confirms' \in [Tabs -> [Ads -> 0..MaxDue]]
  BY <1>1, PhonesFinite DEF PhoneRevealTypeOK
<1>6. PhoneRevealTypeOK'
  BY <1>1, <1>4, <1>5 DEF PhoneRevealTypeOK
<1>7. WasCounted'
  BY <1>4, <1>6 DEF PhoneInv, WasCounted
<1>8. ASSUME NEW a \in Ads PROVE Waiting(a)' <= due'[a]
  <2> DEFINE rest == {l \in Listeners(a) : l[1] # t}
  <2>1. Listeners(a)' = rest
    BY <1>1, PhonesFinite DEF Listeners, PhoneRevealTypeOK
  <2>2. /\ Cardinality(rest) \in Nat
        /\ Cardinality(Listeners(a)) = Cardinality(rest) + confirms[t][a]
    BY <1>1, ListenersOfAPage
  <2>3. Cardinality(Sent(a)) \in Nat
    BY <1>1, WaitingIsFinite
  <2> HIDE DEF rest
  <2>4. Waiting(a)' = Waiting(a)
    BY <1>2, <1>4, <2>1, <2>2, <2>3 DEF Waiting
  <2>5. QED
    BY <2>4 DEF PhoneInv
<1>9. QED
  BY <1>7, <1>8 DEF PhoneInv

\* The server logs what it tells; the click is answered, whatever becomes of the answer.
LEMMA ServerAnswers ==
    ASSUME PhoneInv, NEW f \in Flights, RevealServed(f)
    PROVE  PhoneInv'
<1> USE DEF RevealServed, browserVars
<1>1. PhoneRevealTypeOK
  BY DEF PhoneInv, WasCounted
<1>2. PICK a \in Ads, s \in {"answered", "refused"} :
          /\ a = flight[f].ad /\ flight[f].stage = "sent"
          /\ flight' = [flight EXCEPT ![f] = [flight[f] EXCEPT !.stage = s]]
          /\ logged' = IF s = "answered" THEN logged \cup {a} ELSE logged
          /\ due' = [due EXCEPT ![a] = @ - 1]
  BY <1>1, NoFlightIsNone, FlightsChange
<1>3. /\ flight' \in [Flights -> Flight \cup {NoFlight}]
      /\ \A g \in Flights \ {f} : flight'[g] = flight[g]
      /\ flight'[f].stage = s /\ flight'[f].ad = a
  <2>1. /\ [flight[f] EXCEPT !.stage = s] \in Flight
        /\ [flight[f] EXCEPT !.stage = s].stage = s
        /\ [flight[f] EXCEPT !.stage = s].ad = flight[f].ad
    BY <1>1, <1>2, NoFlightIsNone, FlightsChange
  <2>2. PICK e : e = [flight[f] EXCEPT !.stage = s]
    OBVIOUS
  <2>3. QED
    BY <1>1, <1>2, <2>1, <2>2 DEF PhoneRevealTypeOK
<1>4. Sent(a)' = Sent(a) \ {f} /\ f \in Sent(a)
  BY <1>2, <1>3 DEF Sent
<1>5. \A b \in Ads \ {a} : Sent(b)' = Sent(b)
  BY <1>2, <1>3 DEF Sent
<1>6. Cardinality(Sent(a)') = Cardinality(Sent(a)) - 1
  BY <1>1, <1>4, WaitingIsFinite, FS_RemoveElement
<1>7. \A b \in Ads : Listeners(b)' = Listeners(b)
  BY DEF Listeners
<1>8. /\ Cardinality(Sent(a)) \in Nat \ {0} /\ Cardinality(Listeners(a)) \in Nat
      /\ due[a] \in 0..MaxDue /\ MaxDue \in Nat
      /\ Cardinality(Sent(a)) + Cardinality(Listeners(a)) <= due[a]
  <2>1. Cardinality(Sent(a)) # 0
    BY <1>1, <1>4, WaitingIsFinite, FS_EmptySet
  <2>2. QED
    BY <1>1, <2>1, PhonesFinite, WaitingIsFinite DEF PhoneRevealTypeOK, PhoneInv, Waiting
<1>9. due'[a] = due[a] - 1 /\ due'[a] \in 0..MaxDue
  <2>1. due'[a] = due[a] - 1
    BY <1>1, <1>2 DEF PhoneRevealTypeOK
  <2>2. due[a] # 0
    BY <1>8
  <2>3. QED
    BY <1>8, <2>1, <2>2
<1>10. \A b \in Ads \ {a} : due'[b] = due[b]
  BY <1>1, <1>2 DEF PhoneRevealTypeOK
<1>11. PhoneRevealTypeOK'
  <2>1. due' \in [Ads -> 0..MaxDue]
    BY <1>1, <1>2, <1>9 DEF PhoneRevealTypeOK
  <2>2. logged' \subseteq Ads
    BY <1>1, <1>2 DEF PhoneRevealTypeOK
  <2>3. QED
    BY <1>1, <1>3, <2>1, <2>2 DEF PhoneRevealTypeOK
<1>12. WasCounted'
  BY <1>2, <1>3, <1>11 DEF PhoneInv, WasCounted
<1>13. Waiting(a)' <= due'[a]
  BY <1>6, <1>7, <1>8, <1>9 DEF Waiting
<1>14. \A b \in Ads \ {a} : Waiting(b)' <= due'[b]
  BY <1>5, <1>7, <1>10 DEF Waiting, PhoneInv
<1>15. QED
  BY <1>12, <1>13, <1>14 DEF PhoneInv

\* What comes back is a number that was counted, or nothing.
LEMMA AnswerComes ==
    ASSUME PhoneInv, NEW f \in Flights, NumberArrives(f) \/ RevealFails(f)
    PROVE  PhoneInv'
<1>1. PhoneRevealTypeOK
  BY DEF PhoneInv, WasCounted
<1>2. flight[f] # NoFlight /\ flight[f].stage # "sent" /\ flight[f].ad \in Ads
        /\ flight[f].tab \in Tabs \cup {NoTab}
  BY <1>1, NoFlightIsNone, FlightsChange DEF NumberArrives, RevealFails
<1>3. flight' = [flight EXCEPT ![f] = NoFlight] /\ UNCHANGED <<confirms, due, logged, safetySeen, page>>
  BY DEF NumberArrives, RevealFails
<1>4. flight' \in [Flights -> Flight \cup {NoFlight}]
  BY <1>1, <1>3 DEF PhoneRevealTypeOK
<1>5. \A a \in Ads : Sent(a)' = Sent(a)
  BY <1>1, <1>2, <1>3, NoFlightIsNone DEF Sent, PhoneRevealTypeOK
<1>6. \A a \in Ads : Waiting(a)' <= due'[a]
  BY <1>3, <1>5, NothingIsAsked
<1>7. \A g \in Flights : flight'[g].stage = "answered" => flight'[g].ad \in logged'
  BY <1>1, <1>3, NoFlightIsNone DEF PhoneInv, WasCounted, PhoneRevealTypeOK
<1>8. CASE NumberArrives(f)
  <2>1. PICK t \in Tabs, a \in logged :
            /\ a \in Ads
            /\ stored' = [stored EXCEPT ![a] = "current"]
            /\ shown' = [shown EXCEPT ![t] = @ \cup {a}]
            /\ disabled' = [disabled EXCEPT ![t] = @ \ {a}]
    BY <1>2, <1>8 DEF NumberArrives, PhoneInv, WasCounted
  <2>2. WasCounted'
    BY <1>1, <1>3, <1>4, <1>7, <2>1 DEF PhoneInv, WasCounted, PhoneRevealTypeOK
  <2>3. QED
    BY <1>6, <2>2 DEF PhoneInv
<1>9. CASE RevealFails(f)
  <2>1. disabled' \in [Tabs -> SUBSET Ads] /\ UNCHANGED <<stored, shown>>
    BY <1>1, <1>2, <1>9 DEF RevealFails, PhoneRevealTypeOK
  <2>2. WasCounted'
    BY <1>1, <1>3, <1>4, <1>7, <2>1 DEF PhoneInv, WasCounted, PhoneRevealTypeOK
  <2>3. QED
    BY <1>6, <2>2 DEF PhoneInv
<1>10. QED
  BY <1>8, <1>9

LEMMA PhoneInvStep == PhoneInv /\ [PhoneRevealNext]_phoneVars => PhoneInv'
<1> SUFFICES ASSUME PhoneInv, [PhoneRevealNext]_phoneVars PROVE PhoneInv'
  OBVIOUS
<1>1. CASE UNCHANGED phoneVars
  <2>1. UNCHANGED <<stored, safetySeen, page, shown, disabled, confirms, flight, logged, due>>
    BY <1>1 DEF phoneVars, browserVars
  <2>2. \A a \in Ads : Waiting(a)' = Waiting(a)
    BY <2>1 DEF Waiting, Sent, Listeners
  <2>3. QED
    BY <2>1, <2>2 DEF PhoneInv, WasCounted, PhoneRevealTypeOK
<1>2. CASE PhoneRevealNext
  <2>1. ASSUME NEW t \in Tabs,
               \/ RevealPageOpens(t) \/ RevealPageHides(t) \/ RevealPageReturns(t) \/ CountdownEnds(t)
               \/ \E a \in Ads : RevealFromStorage(t, a)
        PROVE  PhoneInv'
    BY <2>1, PageOpensOrHides
  <2>2. ASSUME NEW t \in Tabs, RevealPageCloses(t) PROVE PhoneInv'
    BY <2>2, PageCloses
  <2>3. ASSUME NEW t \in Tabs, DialogConfirmed(t) PROVE PhoneInv'
    BY <2>3, DialogAsks
  <2>4. ASSUME NEW t \in Tabs, NEW a \in Ads, AskForNumber(t, a) PROVE PhoneInv'
    BY <2>4, ClickAsks
  <2>5. ASSUME NEW f \in Flights, RevealServed(f) PROVE PhoneInv'
    BY <2>5, ServerAnswers
  <2>6. ASSUME NEW f \in Flights, NumberArrives(f) \/ RevealFails(f) PROVE PhoneInv'
    BY <2>6, AnswerComes
  <2>7. ASSUME (\E a \in Ads : NumberIsOver(a)) \/ ContactConfirmed PROVE PhoneInv'
    <3>1. UNCHANGED <<flight, confirms, due, logged, disabled, shown, page>>
      BY <2>7 DEF NumberIsOver, ContactConfirmed
    <3>2. \A a \in Ads : Waiting(a)' <= due'[a]
      BY <3>1, NothingIsAsked DEF Sent
    <3>3. WasCounted'
      BY <2>7, <3>1 DEF NumberIsOver, ContactConfirmed, PhoneInv, WasCounted, PhoneRevealTypeOK
    <3>4. QED
      BY <3>2, <3>3 DEF PhoneInv
  <2>8. QED
    BY <1>2, <2>1, <2>2, <2>3, <2>4, <2>5, <2>6, <2>7 DEF PhoneRevealNext
<1>3. QED
  BY <1>1, <1>2

LEMMA NumbersWait == PhoneInv => PhoneRevealTypeOK /\ NumbersWereAskedFor
BY DEF PhoneInv, WasCounted, NumbersWereAskedFor

-----------------------------------------------------------------------------
(* The search box.                                                         *)

LEMMA SuggestionsFinite ==
    /\ IsFiniteSet(Words) /\ ServiceNames \subseteq SUBSET Words
    /\ IsFiniteSet(ServiceNames)
    /\ ServiceLimit \in Nat \ {0} /\ MaxEdits \in Nat /\ PhraseWeights \subseteq 1..10
<1>1. IsFiniteSet(SUBSET Words)
  BY SuggestionsAssumption, FS_SUBSET
<1>2. QED
  BY <1>1, SuggestionsAssumption, FS_Subset

LEMMA NormalizedIsText ==
    ASSUME NEW q \in Text
    PROVE  Normalized(q) \in Text /\ Normalized(q) \subseteq q
BY DEF Normalized, Text

LEMMA SizeOfText ==
    ASSUME NEW q \in Text
    PROVE  IsFiniteSet(q) /\ Cardinality(q) \in Nat \ {0}
BY SuggestionsFinite, FS_Subset, FS_CardinalityType, FS_EmptySet DEF Text

LEMMA WholeIs == Whole = 50
BY DEF Whole

\* Shares of a whole.
LEMMA Share ==
    ASSUME NEW n \in Nat \ {0}, NEW c \in Nat, c <= Whole * n
    PROVE  LET share == (9500 * c) \div (Whole * n)
           IN  share \in Nat /\ share <= 9500 /\ (c = Whole * n => share = 9500)
<1> DEFINE m == Whole * n
           s == (9500 * c) \div m
<1>1. m \in Nat /\ m > 0 /\ c <= m
  BY WholeIs
<1> HIDE DEF m
<1>2. 9500 * c <= 9500 * m /\ 9500 * c \in Nat
  BY <1>1
<1>3. s \in Int /\ m * s <= 9500 * c /\ 9500 * c < m * (s + 1)
  BY <1>1
<1> HIDE DEF s
<1>4. s >= 0
  BY <1>1, <1>2, <1>3
<1>5. s <= 9500
  BY <1>1, <1>2, <1>3
<1>6. c = m => s = 9500
  BY <1>1, <1>2, <1>3
<1>7. QED
  BY <1>3, <1>4, <1>5, <1>6 DEF s, m

\* No word is more than itself.
LEMMA CoverageIsBounded ==
    ASSUME NEW q \in Text, NEW r \in Row
    PROVE  /\ Coverage(q, r) \in Nat
           /\ Coverage(q, r) <= Whole * Cardinality(Normalized(q))
           /\ q = r.text => Coverage(q, r) = Whole * Cardinality(Normalized(q))
<1> DEFINE all == Normalized(q) \X (1..Whole)
           like == {p \in all : \E b \in r.text : p[2] <= Likeness[p[1]][b]}
<1>1. IsFiniteSet(Normalized(q)) /\ Cardinality(Normalized(q)) \in Nat
  BY NormalizedIsText, SizeOfText
<1>2. IsFiniteSet(1..Whole) /\ Cardinality(1..Whole) = Whole /\ Whole \in Nat
  <2>1. Whole \in Nat \ {0}
    BY WholeIs
  <2>2. QED
    BY <2>1, FS_Interval
<1>3. IsFiniteSet(all) /\ Cardinality(all) = Whole * Cardinality(Normalized(q))
  BY <1>1, <1>2, FS_Product
<1>4. Cardinality(like) \in Nat /\ Cardinality(like) <= Cardinality(all)
  BY <1>3, FS_Subset, FS_CardinalityType
<1>5. ASSUME q = r.text PROVE like = all
  <2>1. \A p \in all : p[1] \in q /\ p[1] \in Words /\ p[2] \in 1..Whole
    BY NormalizedIsText DEF Text
  <2>2. \A p \in all : p[2] <= Likeness[p[1]][p[1]]
    BY <1>2, <2>1, SuggestionsAssumption
  <2>3. QED
    BY <1>5, <2>1, <2>2
<1>6. QED
  BY <1>3, <1>4, <1>5 DEF Coverage

\* A row of the phrase itself has more points than any of another phrase can have.
LEMMA PointsOfRows ==
    ASSUME NEW q \in Text, NEW r \in Row
    PROVE  /\ Score(q, r) \in Nat /\ Score(q, r) <= 30000
           /\ r.norm # Normalized(q) => Score(q, r) <= 21000
           /\ r.norm = Normalized(q) /\ r.text = q => Score(q, r) >= 22200
<1> DEFINE share == (9500 * Coverage(q, r)) \div (Whole * Cardinality(Normalized(q)))
<1>1. Cardinality(Normalized(q)) \in Nat \ {0}
  BY NormalizedIsText, SizeOfText
<1>2. share \in Nat /\ share <= 9500 /\ (r.text = q => share = 9500)
  <2>1. /\ Coverage(q, r) \in Nat
        /\ Coverage(q, r) <= Whole * Cardinality(Normalized(q))
        /\ r.text = q => Coverage(q, r) = Whole * Cardinality(Normalized(q))
    BY CoverageIsBounded
  <2>2. QED
    BY <1>1, <2>1, Share
<1>3. r.weight \in Nat /\ r.weight >= 1 /\ r.weight <= 10
  BY DEF Row
<1>4. Score(q, r) = share + (IF q \subseteq r.text THEN 5500 ELSE 0)
          + (CASE Normalized(q) = r.norm -> 7000
               [] Normalized(q) # r.norm /\ Normalized(q) \subseteq r.norm -> 4000
               [] Normalized(q) # r.norm /\ r.norm \subseteq Normalized(q) -> 3500
               [] OTHER -> 0)
          + 200 * r.weight
  BY DEF Score
<1> HIDE DEF share
<1>5. QED
  BY <1>2, <1>3, <1>4

LEMMA PointsOfNames ==
    ASSUME NEW q, NEW s
    PROVE  NamePoints(q, s) \in Nat /\ NamePoints(q, s) <= 7200
BY DEF NamePoints

LEMMA PointsThereAre ==
    ASSUME NEW q \in Text, NEW scored, scored \subseteq Row, NEW s
    PROVE  /\ Points(q, scored, s) \in Nat
           /\ \A r \in scored : r.of = s /\ Score(q, r) >= 2200 => Points(q, scored, s) >= Score(q, r)
           /\ Points(q, scored, s) > 7200
                => \E r \in scored : r.of = s /\ Points(q, scored, s) = Score(q, r)
<1> DEFINE scores == {p \in {Score(q, r) : r \in {c \in scored : c.of = s}} : p >= 2200}
           S == {NamePoints(q, s)} \cup scores
<1>1. \A p \in scores : p \in Nat /\ p <= 30000
  BY PointsOfRows
<1>2. NamePoints(q, s) \in Nat /\ NamePoints(q, s) <= 7200 /\ NamePoints(q, s) \in S
  BY PointsOfNames
<1>3. \A p \in S : p \in Nat /\ p <= 30000
  BY <1>1, <1>2
<1>4. Points(q, scored, s) = Max(S)
  BY DEF Points
<1>5. \A r \in scored : r.of = s /\ Score(q, r) >= 2200 => Score(q, r) \in S
  OBVIOUS
<1>6. \A p \in S : p # NamePoints(q, s) => \E r \in scored : r.of = s /\ p = Score(q, r)
  OBVIOUS
<1> HIDE DEF S
<1>7. \E n \in S : \A o \in S : o <= n
  <2>1. S \subseteq Nat
    BY <1>3
  <2>2. S # {}
    BY <1>2
  <2>3. PICK bound \in Nat : bound = 30000
    OBVIOUS
  <2>4. \A n \in S : n <= bound
    BY <1>3, <2>3
  <2>5. QED
    BY <2>1, <2>2, <2>4, GreatestThereIs
<1>8. Max(S) \in S /\ \A o \in S : Max(S) >= o
  <2>1. \E n \in S : \A o \in S : n >= o
    BY <1>3, <1>7
  <2>2. QED
    BY <2>1 DEF Max
<1>9. QED
  BY <1>2, <1>3, <1>4, <1>5, <1>6, <1>8

-----------------------------------------------------------------------------
\* What is suggested has not been off the site for longer than the answer is old.
OnSite(answer, hours) ==
    /\ \A i \in DOMAIN answer.services : service[answer.services[i]] < hours
    /\ \A s \in answer.stations : station[s] < hours

SuggestInv ==
    /\ SuggestionsTypeOK
    /\ \A r \in phrases : r.norm = Normalized(r.text)
    /\ asking # NoAnswer => OnSite(asking, 2)
    /\ \A a \in Asks : answers[a] # NoAnswer => OnSite(answers[a], 2 + answers[a].age)

\* The lists of services: beginnings of the orders of what is found.
LEMMA ListsOfServices ==
    ASSUME NEW q, NEW scored, NEW list \in ServiceLists(q, scored)
    PROVE  /\ list \in Seq(ServiceNames)
           /\ \A i \in DOMAIN list : list[i] \in ListedServices
           /\ \A s \in ListedServices :
                 Points(q, scored, s) > 0
                   => 1 \in DOMAIN list /\ (list[1] = s \/ Points(q, scored, list[1]) >= Points(q, scored, s))
<1> DEFINE points == [s \in ListedServices |-> Points(q, scored, s)]
           found == {s \in ListedServices : points[s] > 0}
           n == Cardinality(found)
<1>1. PICK order \in Orders(found) :
          /\ \A i, j \in DOMAIN order : i < j => points[order[i]] >= points[order[j]]
          /\ list = SubSeq(order, 1, IF Len(order) < ServiceLimit THEN Len(order) ELSE ServiceLimit)
  BY DEF ServiceLists
<1>2. found \subseteq ServiceNames /\ IsFiniteSet(found) /\ n \in Nat
  BY SuggestionsFinite, FS_Subset, FS_CardinalityType DEF ListedServices
<1>3. order \in [1..n -> found] /\ \A i, j \in 1..n : i # j => order[i] # order[j]
  BY <1>1 DEF Orders, IsInjective
<1>4. \A s \in found : \E i \in 1..n : order[i] = s
  <2>1. IsFiniteSet(1..n) /\ Cardinality(1..n) = n
    BY <1>2, FS_Interval
  <2>2. order \in Injection(1..n, found)
    BY <1>3 DEF Injection, IsInjective
  <2>3. order \in Surjection(1..n, found)
    BY <1>2, <2>1, <2>2, FS_Injection
  <2>4. QED
    BY <2>3 DEF Surjection
<1>5. order \in Seq(found) /\ Len(order) = n /\ DOMAIN order = 1..n
  <2>1. order \in Seq(found)
    BY <1>2, <1>3, SeqDef
  <2>2. DOMAIN order = 1..n /\ DOMAIN order = 1..Len(order) /\ Len(order) \in Nat
    BY <1>3, <2>1, LenProperties
  <2>3. Len(order) = n
    BY <1>2, <2>2
  <2>4. QED
    BY <2>1, <2>2, <2>3
<1> DEFINE m == IF Len(order) < ServiceLimit THEN Len(order) ELSE ServiceLimit
<1>6. m \in Nat /\ m <= n /\ (n > 0 => m > 0)
  BY <1>2, <1>5, SuggestionsFinite
<1>7. list = SubSeq(order, 1, m)
  BY <1>1
<1> HIDE DEF m, n, found, points
<1>8. /\ list \in Seq(found)
      /\ Len(list) = m
      /\ \A i \in 1..m : list[i] = order[i]
  <2>1. \A i \in 1..m : order[i] \in found
    BY <1>2, <1>3, <1>6
  <2>2. /\ SubSeq(order, 1, m) \in Seq(found)
        /\ Len(SubSeq(order, 1, m)) = IF 1 <= m THEN m - 1 + 1 ELSE 0
        /\ \A i \in 1..(m - 1 + 1) : SubSeq(order, 1, m)[i] = order[1 + i - 1]
    BY <1>6, <2>1, SubSeqProperties
  <2>3. m - 1 + 1 = m /\ \A i \in 1..m : 1 + i - 1 = i
    BY <1>6
  <2>4. QED
    BY <1>6, <1>7, <2>2, <2>3
<1>9. list \in Seq(ServiceNames) /\ \A i \in DOMAIN list : list[i] \in ListedServices
  BY <1>2, <1>8 DEF found
<1>10. ASSUME NEW s \in ListedServices, Points(q, scored, s) > 0
       PROVE  1 \in DOMAIN list /\ (list[1] = s \/ Points(q, scored, list[1]) >= Points(q, scored, s))
  <2>1. s \in found
    BY <1>10 DEF found, points
  <2>2. PICK j \in 1..n : order[j] = s
    BY <1>4, <2>1
  <2>3. n > 0 /\ 1 \in 1..n
    BY <1>2, <2>2
  <2>4. 1 \in 1..m /\ list[1] = order[1]
    BY <1>6, <1>8, <2>3
  <2>5. CASE j = 1
    BY <1>8, <2>2, <2>4, <2>5
  <2>6. CASE j # 1
    <3>1. points[order[1]] >= points[s]
      BY <1>1, <1>2, <1>5, <2>2, <2>3, <2>6
    <3>2. order[1] \in ListedServices
      BY <1>3, <2>3 DEF found
    <3>3. QED
      BY <1>8, <2>4, <3>1, <3>2 DEF points
  <2>7. QED
    BY <2>5, <2>6
<1>11. QED
  BY <1>9, <1>10

\* The rows that are scored have those of the phrase itself among them.
LEMMA RowsScored ==
    ASSUME NEW q, NEW scored \in CandidateSets(q)
    PROVE  scored \subseteq phrases /\ Same(q) \subseteq scored
BY DEF CandidateSets, kSubset, Found, Same

LEMMA PhrasesLead == SuggestInv => PhraseIsAnswered
<1> SUFFICES ASSUME SuggestInv, NEW r \in phrases, NEW scored \in CandidateSets(r.text),
                    NEW list \in ServiceLists(r.text, scored)
             PROVE  \E s \in phrases : s.norm = r.norm /\ s.of = list[1]
  BY DEF PhraseIsAnswered
<1> DEFINE q == r.text
<1>1. r \in Row /\ q \in Text /\ phrases \subseteq Row /\ r.of \in ListedServices
        /\ r.norm = Normalized(q)
  BY DEF SuggestInv, SuggestionsTypeOK, Row, ListedServices
<1>2. scored \subseteq phrases /\ r \in scored /\ scored \subseteq Row
  BY <1>1, RowsScored DEF Same
<1>3. Score(q, r) \in Nat /\ Score(q, r) >= 22200
  BY <1>1, PointsOfRows
<1>4. Points(q, scored, r.of) >= Score(q, r) /\ Points(q, scored, r.of) \in Nat
  BY <1>1, <1>2, <1>3, PointsThereAre
<1>5. list[1] = r.of \/ Points(q, scored, list[1]) >= Points(q, scored, r.of)
  BY <1>1, <1>3, <1>4, ListsOfServices
<1>6. CASE list[1] = r.of
  BY <1>6
<1>7. CASE Points(q, scored, list[1]) >= Points(q, scored, r.of)
  <2>1. Points(q, scored, list[1]) \in Nat /\ Points(q, scored, list[1]) >= 22200
    BY <1>1, <1>2, <1>3, <1>4, <1>7, PointsThereAre
  <2>2. PICK c \in scored : c.of = list[1] /\ Points(q, scored, list[1]) = Score(q, c)
    BY <1>1, <1>2, <2>1, PointsThereAre
  <2>3. c.norm = Normalized(q)
    <3>1. c \in Row /\ Score(q, c) >= 22200
      BY <1>2, <2>1, <2>2
    <3>2. c.norm # Normalized(q) => Score(q, c) <= 21000
      BY <1>1, <3>1, PointsOfRows
    <3>3. Score(q, c) \in Nat
      BY <1>1, <3>1, PointsOfRows
    <3>4. QED
      BY <3>1, <3>2, <3>3
  <2>4. QED
    BY <1>1, <1>2, <2>2, <2>3
<1>8. QED
  BY <1>5, <1>6, <1>7

LEMMA AnswersAreFresh == SuggestInv => SuggestedWasOnSite
<1> SUFFICES ASSUME SuggestInv, NEW a \in Asks, answers[a] # NoAnswer
             PROVE  /\ \A i \in DOMAIN answers[a].services : service[answers[a].services[i]] < 3
                    /\ \A s \in answers[a].stations : station[s] < 3
  BY DEF SuggestedWasOnSite
<1>1. answers[a] \in Answer
  BY DEF SuggestInv, SuggestionsTypeOK
<1>2. answers[a].age \in 0..1 /\ answers[a].stations \subseteq Shops
        /\ \A i \in DOMAIN answers[a].services : answers[a].services[i] \in ServiceNames
  BY <1>1 DEF Answer
<1>3. OnSite(answers[a], 2 + answers[a].age)
  BY DEF SuggestInv
<1>4. \A s \in ServiceNames : service[s] \in Nat
  BY DEF SuggestInv, SuggestionsTypeOK
<1>5. \A s \in Shops : station[s] \in Nat
  BY DEF SuggestInv, SuggestionsTypeOK
<1>6. QED
  BY <1>2, <1>3, <1>4, <1>5 DEF OnSite

-----------------------------------------------------------------------------
LEMMA SuggestInvInit == SuggestionsInit => SuggestInv
<1> SUFFICES ASSUME SuggestionsInit PROVE SuggestInv
  OBVIOUS
<1> USE DEF SuggestionsInit
<1>1. phrases = {} /\ asking = NoAnswer /\ \A a \in Asks : answers[a] = NoAnswer
  OBVIOUS
<1>2. SuggestionsTypeOK
  <2>1. service \in [ServiceNames -> 0..3] /\ station \in [Shops -> 0..3]
    OBVIOUS
  <2>2. answers \in [Asks -> Answer \cup {NoAnswer}] /\ asking \in Request \cup {NoAnswer}
    OBVIOUS
  <2>3. ensuring \in BOOLEAN /\ edits \in 0..MaxEdits
    <3>1. MaxEdits \in Nat
      BY SuggestionsFinite
    <3>2. ensuring \in BOOLEAN
      OBVIOUS
    <3>3. edits \in 0..MaxEdits
      BY <3>1
    <3>4. QED
      BY <3>2, <3>3
  <2>4. QED
    BY <1>1, <2>1, <2>2, <2>3 DEF SuggestionsTypeOK
<1>3. QED
  BY <1>1, <1>2 DEF SuggestInv

\* What goes off the site now, or comes on it, has not been off for long.
Younger ==
    /\ \A s \in ServiceNames : service'[s] \in {service[s], 0, 1}
    /\ \A s \in Shops : station'[s] \in {station[s], 0, 1}

LEMMA StillOnSite ==
    ASSUME Younger, NEW CONSTANT answer, NEW CONSTANT hours \in {2, 3},
           \A i \in DOMAIN answer.services : answer.services[i] \in ServiceNames,
           answer.stations \subseteq Shops, OnSite(answer, hours)
    PROVE  OnSite(answer, hours)'
<1>1. ASSUME NEW i \in DOMAIN answer.services PROVE service'[answer.services[i]] < hours
  BY DEF OnSite, Younger
<1>2. ASSUME NEW s \in answer.stations PROVE station'[s] < hours
  BY DEF OnSite, Younger
<1>3. QED
  BY <1>1, <1>2 DEF OnSite

LEMMA AnswersAreOf ==
    ASSUME SuggestionsTypeOK
    PROVE  /\ asking # NoAnswer => /\ asking.ask \in Asks
                                   /\ asking.services \in Seq(ServiceNames)
                                   /\ \A i \in DOMAIN asking.services : asking.services[i] \in ServiceNames
                                   /\ asking.stations \subseteq Shops
           /\ \A a \in Asks : answers[a] # NoAnswer =>
                 /\ answers[a] \in Answer /\ answers[a].age \in {0, 1}
                 /\ \A i \in DOMAIN answers[a].services : answers[a].services[i] \in ServiceNames
                 /\ answers[a].stations \subseteq Shops
<1>1. asking # NoAnswer => asking \in Request
  BY DEF SuggestionsTypeOK
<1>2. \A a \in Asks : answers[a] # NoAnswer => answers[a] \in Answer
  BY DEF SuggestionsTypeOK
<1>3. QED
  BY <1>1, <1>2 DEF Request, Answer

LEMMA FreshStays ==
    ASSUME SuggestInv, Younger, answers' = answers, asking' = asking
    PROVE  /\ (asking # NoAnswer => OnSite(asking, 2))'
           /\ (\A a \in Asks : answers[a] # NoAnswer => OnSite(answers[a], 2 + answers[a].age))'
<1>1. SuggestionsTypeOK
  BY DEF SuggestInv
<1>2. ASSUME asking # NoAnswer PROVE OnSite(asking, 2)'
  <2>1. PICK x : x = asking
    OBVIOUS
  <2>2. OnSite(x, 2)
    BY <1>2, <2>1 DEF SuggestInv
  <2>3. (\A i \in DOMAIN x.services : x.services[i] \in ServiceNames) /\ x.stations \subseteq Shops
    BY <1>1, <1>2, <2>1, AnswersAreOf
  <2>4. OnSite(x, 2)'
    BY <2>2, <2>3, StillOnSite
  <2>5. QED
    BY <2>1, <2>4
<1>3. ASSUME NEW a \in Asks, answers[a] # NoAnswer PROVE OnSite(answers[a], 2 + answers[a].age)'
  <2>1. PICK x, hours : x = answers[a] /\ hours = 2 + answers[a].age
    OBVIOUS
  <2>2. OnSite(x, hours)
    BY <1>3, <2>1 DEF SuggestInv
  <2>3. (\A i \in DOMAIN x.services : x.services[i] \in ServiceNames) /\ x.stations \subseteq Shops
          /\ hours \in {2, 3}
    BY <1>1, <1>3, <2>1, AnswersAreOf
  <2>4. OnSite(x, hours)'
    BY <2>2, <2>3, StillOnSite
  <2>5. QED
    BY <2>1, <2>4
<1>4. QED
  BY <1>2, <1>3

-----------------------------------------------------------------------------
LEMMA RowsOfDictionary ==
    ASSUME NEW dictionary \in PhraseFiles
    PROVE  /\ \A r \in Imported(dictionary) : r \in Row /\ r.norm = Normalized(r.text)
           /\ \A r, s \in Imported(dictionary) : Key(r) = Key(s) => r = s
<1>1. ASSUME NEW l \in Links(dictionary)
      PROVE  /\ l[1] \in Nat /\ l[2] \in Nat \ {0} /\ l = <<l[1], l[2]>>
             /\ RowOf(dictionary, l) \in Row
             /\ RowOf(dictionary, l).norm = Normalized(RowOf(dictionary, l).text)
  <2>1. PICK i \in DOMAIN dictionary : \E j \in DOMAIN dictionary[i].targets : l = <<i, j>>
    BY DEF Links
  <2>2. PICK j \in DOMAIN dictionary[i].targets : l = <<i, j>>
    BY <2>1
  <2>3. /\ i \in Nat /\ dictionary[i].phrase \in Text
        /\ j \in Nat \ {0} /\ Aliases[dictionary[i].targets[j]] \in ServiceNames
    BY SuggestionsAssumption DEF Text
  <2>4. TargetWeight(j) \in 1..10
    BY <2>3 DEF TargetWeight
  <2>5. Normalized(dictionary[i].phrase) \in Text
    BY <2>3, NormalizedIsText
  <2>6. l[1] = i /\ l[2] = j
    BY <2>2
  <2>7. RowOf(dictionary, l) =
          [norm |-> Normalized(dictionary[i].phrase), of |-> Aliases[dictionary[i].targets[j]],
           text |-> dictionary[i].phrase, weight |-> TargetWeight(j)]
    BY <2>6 DEF RowOf
  <2>8. QED
    BY <2>2, <2>3, <2>4, <2>5, <2>6, <2>7 DEF Row
<1>2. \A r \in Imported(dictionary) : \E l \in Links(dictionary) :
          /\ r = RowOf(dictionary, l)
          /\ \A o \in Links(dictionary) :
                Later(o, l) => Key(RowOf(dictionary, o)) # Key(RowOf(dictionary, l))
  BY DEF Imported
<1>3. ASSUME NEW r \in Imported(dictionary), NEW s \in Imported(dictionary), Key(r) = Key(s)
      PROVE  r = s
  <2>1. PICK l \in Links(dictionary) :
          /\ r = RowOf(dictionary, l)
          /\ \A o \in Links(dictionary) :
                Later(o, l) => Key(RowOf(dictionary, o)) # Key(RowOf(dictionary, l))
    BY <1>2
  <2>2. PICK m \in Links(dictionary) :
          /\ s = RowOf(dictionary, m)
          /\ \A o \in Links(dictionary) :
                Later(o, m) => Key(RowOf(dictionary, o)) # Key(RowOf(dictionary, m))
    BY <1>2
  <2>3. ~Later(l, m) /\ ~Later(m, l)
    BY <1>3, <2>1, <2>2
  <2>4. l[1] = m[1] /\ l[2] = m[2]
    BY <1>1, <2>3 DEF Later
  <2>5. l = m
    BY <1>1, <2>4
  <2>6. QED
    BY <2>1, <2>2, <2>5
<1>4. QED
  BY <1>1, <1>2, <1>3

\* The dictionary, and the services it leads to.
PhrasesOK ==
    /\ phrases \subseteq Row
    /\ \A r \in phrases : service[r.of] = 0
    /\ \A r, s \in phrases : Key(r) = Key(s) => r = s
    /\ \A r \in phrases : r.norm = Normalized(r.text)
    /\ service \in [ServiceNames -> 0..3]

LEMMA PhrasesAreOK == SuggestInv => PhrasesOK
BY DEF SuggestInv, SuggestionsTypeOK, PhrasesOK

\* All that an action that changes no answer has to keep.
LEMMA DictionaryChanges ==
    ASSUME SuggestInv, PhrasesOK', Younger, UNCHANGED <<answers, asking>>,
           station' \in [Shops -> 0..3], ensuring' \in BOOLEAN, edits' \in 0..MaxEdits
    PROVE  SuggestInv'
<1>1. SuggestionsTypeOK'
  BY DEF SuggestInv, SuggestionsTypeOK, PhrasesOK
<1>2. /\ (asking # NoAnswer => OnSite(asking, 2))'
      /\ (\A a \in Asks : answers[a] # NoAnswer => OnSite(answers[a], 2 + answers[a].age))'
  BY FreshStays
<1>3. (\A r \in phrases : r.norm = Normalized(r.text))'
  BY DEF PhrasesOK
<1>4. QED
  BY <1>1, <1>2, <1>3 DEF SuggestInv

LEMMA ImportsKeep ==
    ASSUME SuggestInv, NEW dictionary \in PhraseFiles, NEW kept, kept \subseteq phrases,
           Import(dictionary, kept)
    PROVE  PhrasesOK' /\ \A s \in ServiceNames : service'[s] \in {service[s], 0, 1}
<1>1. PhrasesOK
  BY PhrasesAreOK
<1> DEFINE new == Imported(dictionary)
<1>2. /\ \A r \in new : r \in Row /\ r.norm = Normalized(r.text) /\ r.of \in ServiceNames
      /\ \A r, s \in new : Key(r) = Key(s) => r = s
  BY RowsOfDictionary DEF Row
<1>3. phrases' = new \cup {r \in kept : \A n \in new : Key(n) # Key(r)}
  BY DEF Import, Updated
<1>4. service' = [s \in ServiceNames |-> IF \E r \in new : r.of = s THEN 0 ELSE service[s]]
  BY DEF Import
<1> HIDE DEF new
<1>5. phrases' \subseteq Row /\ \A r \in phrases' : r.norm = Normalized(r.text)
  BY <1>1, <1>2, <1>3 DEF PhrasesOK
<1>6. service' \in [ServiceNames -> 0..3]
  BY <1>1, <1>4 DEF PhrasesOK
<1>7. \A r \in phrases' : service'[r.of] = 0
  <2>1. \A r \in new : service'[r.of] = 0
    BY <1>2, <1>4
  <2>2. \A r \in kept : r.of \in ServiceNames /\ service[r.of] = 0
    BY <1>1 DEF PhrasesOK, Row
  <2>3. \A r \in kept : service'[r.of] = 0
    BY <1>4, <2>2
  <2>4. QED
    BY <1>3, <2>1, <2>3
<1>8. \A r, s \in phrases' : Key(r) = Key(s) => r = s
  BY <1>1, <1>2, <1>3 DEF PhrasesOK
<1>9. PhrasesOK'
  BY <1>5, <1>6, <1>7, <1>8 DEF PhrasesOK
<1>10. QED
  BY <1>4, <1>9

-----------------------------------------------------------------------------
LEMMA EditsAreFew ==
    ASSUME SuggestInv, Edited
    PROVE  edits' \in 0..MaxEdits
BY SuggestionsFinite DEF SuggestInv, SuggestionsTypeOK, Edited

LEMMA DictionarySteps ==
    ASSUME SuggestInv,
           \/ DictionaryImported \/ DictionaryMissed \/ DictionaryEnsured
           \/ PhraseAdded \/ PhraseDeleted \/ ServiceDeleted \/ StationHidden \/ StationShown
    PROVE  SuggestInv'
<1>1. PhrasesOK /\ SuggestionsTypeOK
  BY PhrasesAreOK DEF SuggestInv
<1>2. /\ station \in [Shops -> 0..3] /\ service \in [ServiceNames -> 0..3]
      /\ ensuring \in BOOLEAN /\ edits \in 0..MaxEdits
  BY <1>1 DEF SuggestionsTypeOK
<1>3. CASE DictionaryImported
  <2>1. PICK dictionary \in PhraseFiles, kept \in {phrases, {}} : Import(dictionary, kept)
    BY <1>3 DEF DictionaryImported
  <2>2. PhrasesOK' /\ \A s \in ServiceNames : service'[s] \in {service[s], 0, 1}
    BY <2>1, ImportsKeep
  <2>3. UNCHANGED <<station, answers, asking, ensuring>> /\ edits' \in 0..MaxEdits
    BY <1>3, EditsAreFew DEF DictionaryImported
  <2>4. Younger
    BY <2>2, <2>3 DEF Younger
  <2>5. QED
    BY <1>2, <2>2, <2>3, <2>4, DictionaryChanges
<1>4. CASE DictionaryMissed
  <2>1. UNCHANGED <<phrases, service, station, answers, asking, edits>> /\ ensuring' = TRUE
    BY <1>4 DEF DictionaryMissed
  <2>2. PhrasesOK' /\ Younger
    BY <1>1, <2>1 DEF PhrasesOK, Younger
  <2>3. QED
    BY <1>2, <2>1, <2>2, DictionaryChanges
<1>5. CASE DictionaryEnsured
  <2>1. PICK dictionary \in PhraseFiles : Import(dictionary, phrases)
    BY <1>5 DEF DictionaryEnsured
  <2>2. PhrasesOK' /\ \A s \in ServiceNames : service'[s] \in {service[s], 0, 1}
    BY <2>1, ImportsKeep
  <2>3. UNCHANGED <<station, answers, asking, edits>> /\ ensuring' = FALSE
    BY <1>5 DEF DictionaryEnsured
  <2>4. Younger
    BY <2>2, <2>3 DEF Younger
  <2>5. QED
    BY <1>2, <2>2, <2>3, <2>4, DictionaryChanges
<1>6. CASE PhraseAdded
  <2>1. PICK text \in PhraseTexts, s \in ListedServices, w \in PhraseWeights :
          LET new == [norm |-> Normalized(text), of |-> s, text |-> text, weight |-> w]
          IN  /\ \A r \in phrases : Key(r) # Key(new)
              /\ phrases' = phrases \cup {new}
    BY <1>6 DEF PhraseAdded
  <2>2. PICK new : new = [norm |-> Normalized(text), of |-> s, text |-> text, weight |-> w]
    OBVIOUS
  <2>3. text \in Text /\ w \in 1..10 /\ s \in ServiceNames /\ service[s] = 0
    BY SuggestionsAssumption DEF Text, ListedServices
  <2>4. new \in Row /\ new.norm = Normalized(new.text) /\ new.of = s
    BY <2>2, <2>3, NormalizedIsText DEF Row
  <2>5. phrases' = phrases \cup {new} /\ \A r \in phrases : Key(r) # Key(new)
    BY <2>1, <2>2
  <2>6. UNCHANGED <<service, station, answers, asking, ensuring>> /\ edits' \in 0..MaxEdits
    BY <1>6, EditsAreFew DEF PhraseAdded
  <2>7. PhrasesOK'
    BY <1>1, <2>3, <2>4, <2>5, <2>6 DEF PhrasesOK
  <2>8. Younger
    BY <2>6 DEF Younger
  <2>9. QED
    BY <1>2, <2>6, <2>7, <2>8, DictionaryChanges
<1>7. CASE PhraseDeleted
  <2>1. UNCHANGED <<service, station, answers, asking, ensuring>> /\ edits' \in 0..MaxEdits
    BY <1>7, EditsAreFew DEF PhraseDeleted
  <2>2. phrases' \subseteq phrases
    BY <1>7 DEF PhraseDeleted
  <2>3. PhrasesOK' /\ Younger
    BY <1>1, <2>1, <2>2 DEF PhrasesOK, Younger
  <2>4. QED
    BY <1>2, <2>1, <2>3, DictionaryChanges
<1>8. CASE ServiceDeleted
  <2>1. PICK s \in ListedServices : /\ phrases' = {r \in phrases : r.of # s}
                                    /\ service' = [service EXCEPT ![s] = 1]
    BY <1>8 DEF ServiceDeleted
  <2>2. UNCHANGED <<station, answers, asking, ensuring>> /\ edits' \in 0..MaxEdits
    BY <1>8, EditsAreFew DEF ServiceDeleted
  <2>3. service' \in [ServiceNames -> 0..3]
          /\ \A c \in ServiceNames : service'[c] = IF c = s THEN 1 ELSE service[c]
    <3>1. PICK off \in 0..3 : off = 1
      OBVIOUS
    <3>2. service' = [service EXCEPT ![s] = off] /\ service \in [ServiceNames -> 0..3]
      BY <1>2, <2>1, <3>1
    <3>3. service' \in [ServiceNames -> 0..3]
      BY <3>2
    <3>4. \A c \in ServiceNames : service'[c] = IF c = s THEN off ELSE service[c]
      BY <3>2
    <3>5. QED
      BY <3>1, <3>3, <3>4
  <2>4. \A r \in phrases : r.of \in ServiceNames
    BY <1>1 DEF PhrasesOK, Row
  <2>5. PhrasesOK'
    BY <1>1, <2>1, <2>3, <2>4 DEF PhrasesOK
  <2>6. Younger
    BY <2>2, <2>3 DEF Younger
  <2>7. QED
    BY <1>2, <2>2, <2>5, <2>6, DictionaryChanges
<1>9. CASE StationHidden \/ StationShown
  <2>1. UNCHANGED <<phrases, service, answers, asking, ensuring, edits>>
    BY <1>9 DEF StationHidden, StationShown
  <2>2. PICK s \in Shops, off \in {0, 1} : station' = [station EXCEPT ![s] = off]
    BY <1>9 DEF StationHidden, StationShown, ListedShops
  <2>3. station' \in [Shops -> 0..3] /\ \A c \in Shops : station'[c] \in {station[c], 0, 1}
    <3>1. off \in 0..3
      OBVIOUS
    <3>2. station' \in [Shops -> 0..3]
      BY <1>2, <2>2, <3>1
    <3>3. \A c \in Shops : station'[c] = IF c = s THEN off ELSE station[c]
      BY <1>2, <2>2
    <3>4. QED
      BY <3>2, <3>3
  <2>4. PhrasesOK' /\ Younger
    BY <1>1, <2>1, <2>3 DEF PhrasesOK, Younger
  <2>5. QED
    BY <1>2, <2>1, <2>3, <2>4, DictionaryChanges
<1>10. QED
  BY <1>3, <1>4, <1>5, <1>6, <1>7, <1>8, <1>9

\* An answer names what is on the site when it is made, and is kept as it was made.
LEMMA SuggestStep ==
    ASSUME SuggestInv, NEW a \in Asks, Suggest(a)
    PROVE  SuggestInv'
<1>13. PICK scored \in CandidateSets(a.text) : \E list \in ServiceLists(a.text, scored) :
          asking' = [ask |-> a, services |-> list,
                     stations |-> IF a.only THEN {} ELSE StationsOf(a.text)]
  BY DEF Suggest
<1>1. PICK list \in ServiceLists(a.text, scored) :
          asking' = [ask |-> a, services |-> list,
                     stations |-> IF a.only THEN {} ELSE StationsOf(a.text)]
  BY <1>13
<1>2. PICK stations : stations = IF a.only THEN {} ELSE StationsOf(a.text)
  OBVIOUS
<1>3. UNCHANGED <<phrases, service, station, answers, ensuring, edits>>
  BY DEF Suggest
<1>4. stations \subseteq ListedShops
  BY <1>2 DEF StationsOf
<1>5. list \in Seq(ServiceNames) /\ \A i \in DOMAIN list : list[i] \in ListedServices
  <2>1. \A s \in ServiceLists(a.text, scored) :
            s \in Seq(ServiceNames) /\ \A i \in DOMAIN s : s[i] \in ListedServices
    BY ListsOfServices
  <2>2. QED
    BY <2>1
<1>6. asking' = [ask |-> a, services |-> list, stations |-> stations]
  BY <1>1, <1>2
<1>7. asking' \in Request
  BY <1>4, <1>5, <1>6 DEF Request, ListedShops
<1>8. /\ asking'.services = list /\ asking'.stations = stations
  BY <1>6
<1>9. OnSite(asking, 2)'
  BY <1>3, <1>4, <1>5, <1>8 DEF OnSite, ListedShops, ListedServices
<1>10. SuggestionsTypeOK'
  BY <1>3, <1>7 DEF SuggestInv, SuggestionsTypeOK
<1>11. (\A b \in Asks : answers[b] # NoAnswer => OnSite(answers[b], 2 + answers[b].age))'
  BY <1>3 DEF SuggestInv, OnSite
<1>12. QED
  BY <1>3, <1>9, <1>10, <1>11 DEF SuggestInv

LEMMA KeepStep ==
    ASSUME SuggestInv, SuggestKept
    PROVE  SuggestInv'
<1>1. PICK x : x = asking
  OBVIOUS
<1>2. /\ x.ask \in Asks /\ x.services \in Seq(ServiceNames) /\ x.stations \subseteq Shops
      /\ OnSite(x, 2)
  BY <1>1, AnswersAreOf DEF SuggestInv, SuggestKept
<1>3. PICK new : new = [services |-> x.services, stations |-> x.stations, age |-> 0]
  OBVIOUS
<1>4. new \in Answer /\ new.services = x.services /\ new.stations = x.stations /\ new.age = 0
  BY <1>2, <1>3 DEF Answer
<1>5. /\ answers' = [answers EXCEPT ![x.ask] = new] /\ asking' = NoAnswer
      /\ UNCHANGED <<phrases, service, station, ensuring, edits>>
  BY <1>1, <1>3 DEF SuggestKept
<1>6. answers \in [Asks -> Answer \cup {NoAnswer}]
  BY DEF SuggestInv, SuggestionsTypeOK
<1>7. answers' \in [Asks -> Answer \cup {NoAnswer}]
  BY <1>4, <1>5, <1>6
<1>8. SuggestionsTypeOK'
  BY <1>5, <1>7 DEF SuggestInv, SuggestionsTypeOK
<1>9. ASSUME NEW a \in Asks, answers'[a] # NoAnswer
      PROVE  OnSite(answers[a], 2 + answers[a].age)'
  <2>1. CASE a = x.ask
    <3>1. answers'[a] = new
      BY <1>2, <1>5, <1>6, <2>1
    <3>2. 2 + new.age = 2
      BY <1>4
    <3>3. QED
      BY <1>2, <1>4, <1>5, <3>1, <3>2 DEF OnSite
  <2>2. CASE a # x.ask
    <3>1. answers'[a] = answers[a]
      BY <1>5, <1>6, <2>2
    <3>2. OnSite(answers[a], 2 + answers[a].age)
      BY <1>9, <3>1 DEF SuggestInv
    <3>3. QED
      BY <1>5, <3>1, <3>2 DEF OnSite
  <2>3. QED
    BY <2>1, <2>2
<1>10. QED
  BY <1>5, <1>8, <1>9 DEF SuggestInv

LEMMA ExpireStep ==
    ASSUME SuggestInv, AnswerExpires
    PROVE  SuggestInv'
<1>1. PICK e \in Asks : answers' = [answers EXCEPT ![e] = NoAnswer]
  BY DEF AnswerExpires
<1>2. UNCHANGED <<phrases, service, station, asking, ensuring, edits>>
  BY DEF AnswerExpires
<1>3. answers \in [Asks -> Answer \cup {NoAnswer}]
  BY DEF SuggestInv, SuggestionsTypeOK
<1>4. answers' \in [Asks -> Answer \cup {NoAnswer}]
        /\ \A a \in Asks : answers'[a] # NoAnswer => answers'[a] = answers[a]
  BY <1>1, <1>3
<1>5. SuggestionsTypeOK'
  BY <1>2, <1>4 DEF SuggestInv, SuggestionsTypeOK
<1>6. (\A a \in Asks : answers[a] # NoAnswer => OnSite(answers[a], 2 + answers[a].age))'
  BY <1>2, <1>4 DEF SuggestInv, OnSite
<1>7. (asking # NoAnswer => OnSite(asking, 2))'
  BY <1>2 DEF SuggestInv, OnSite
<1>8. QED
  BY <1>2, <1>5, <1>6, <1>7 DEF SuggestInv

\* In an hour an answer grows as old as what it names can have been off for.
LEMMA HourStep ==
    ASSUME SuggestInv, HourPasses
    PROVE  SuggestInv'
<1>1. SuggestionsTypeOK
  BY DEF SuggestInv
<1>2. /\ service \in [ServiceNames -> 0..3] /\ station \in [Shops -> 0..3]
      /\ answers \in [Asks -> Answer \cup {NoAnswer}]
  BY <1>1 DEF SuggestionsTypeOK
<1>3. \A n \in 0..3 : Longer(n) \in 0..3 /\ (n < 2 => Longer(n) < 3) /\ (n = 0 => Longer(n) = 0)
  BY DEF Longer
<1>4. /\ service' \in [ServiceNames -> 0..3] /\ \A s \in ServiceNames : service'[s] = Longer(service[s])
      /\ station' \in [Shops -> 0..3] /\ \A s \in Shops : station'[s] = Longer(station[s])
      /\ UNCHANGED <<phrases, asking, ensuring, edits>> /\ asking = NoAnswer
  BY <1>2, <1>3 DEF HourPasses
<1>5. ASSUME NEW a \in Asks, answers[a] # NoAnswer
      PROVE  /\ answers'[a] \in Answer /\ answers'[a].age = 1
             /\ answers'[a].services = answers[a].services
             /\ answers'[a].stations = answers[a].stations
             /\ answers[a].age = 0
  <2>1. PICK x \in Answer : x = answers[a]
    BY <1>1, <1>5, AnswersAreOf
  <2>2. answers'[a] = [x EXCEPT !.age = 1] /\ x.age = 0
    BY <1>5, <2>1 DEF HourPasses
  <2>3. [x EXCEPT !.age = 1] \in Answer /\ [x EXCEPT !.age = 1].age = 1
          /\ [x EXCEPT !.age = 1].services = x.services /\ [x EXCEPT !.age = 1].stations = x.stations
    BY DEF Answer
  <2>4. QED
    BY <2>1, <2>2, <2>3
<1>6. \A a \in Asks : answers[a] = NoAnswer => answers'[a] = NoAnswer
  BY DEF HourPasses
<1>7. answers' \in [Asks -> Answer \cup {NoAnswer}]
  <2>1. DOMAIN answers' = Asks /\ answers' = [a \in Asks |-> answers'[a]]
    BY DEF HourPasses
  <2>2. \A a \in Asks : answers'[a] \in Answer \cup {NoAnswer}
    BY <1>5, <1>6
  <2>3. QED
    BY <2>1, <2>2
<1>8. \A r \in phrases : r.of \in ServiceNames
  BY <1>1 DEF SuggestionsTypeOK, Row
<1>9. SuggestionsTypeOK'
  BY <1>1, <1>3, <1>4, <1>7, <1>8 DEF SuggestionsTypeOK
<1>10. ASSUME NEW a \in Asks, answers'[a] # NoAnswer
       PROVE  OnSite(answers[a], 2 + answers[a].age)'
  <2>1. answers[a] # NoAnswer
    BY <1>6, <1>10
  <2>2. /\ OnSite(answers[a], 2 + answers[a].age)
        /\ \A i \in DOMAIN answers[a].services : answers[a].services[i] \in ServiceNames
        /\ answers[a].stations \subseteq Shops
    BY <1>1, <2>1, AnswersAreOf DEF SuggestInv
  <2>3. 2 + answers[a].age = 2 /\ 2 + answers'[a].age = 3
    BY <1>5, <2>1
  <2>4. \A i \in DOMAIN answers[a].services : service'[answers[a].services[i]] < 3
    BY <1>2, <1>3, <1>4, <2>2, <2>3 DEF OnSite
  <2>5. \A s \in answers[a].stations : station'[s] < 3
    BY <1>2, <1>3, <1>4, <2>2, <2>3 DEF OnSite
  <2>6. QED
    BY <1>5, <2>1, <2>3, <2>4, <2>5 DEF OnSite
<1>11. QED
  BY <1>4, <1>9, <1>10 DEF SuggestInv

\* The key of an answer has the day: at midnight there is none.
LEMMA MidnightStep ==
    ASSUME SuggestInv, MidnightPasses
    PROVE  SuggestInv'
<1>1. PICK over \in SUBSET ListedShops : station' = [s \in Shops |-> IF s \in over THEN 3 ELSE station[s]]
  BY DEF MidnightPasses
<1>2. /\ answers' = [a \in Asks |-> NoAnswer] /\ asking' = NoAnswer
      /\ UNCHANGED <<phrases, service, ensuring, edits>>
  BY DEF MidnightPasses, OfToday
<1>3. station' \in [Shops -> 0..3]
  BY <1>1 DEF SuggestInv, SuggestionsTypeOK
<1>4. SuggestionsTypeOK'
  BY <1>2, <1>3 DEF SuggestInv, SuggestionsTypeOK
<1>5. QED
  BY <1>2, <1>4 DEF SuggestInv

LEMMA SuggestInvStep == SuggestInv /\ [SuggestionsNext]_suggestVars => SuggestInv'
<1> SUFFICES ASSUME SuggestInv, [SuggestionsNext]_suggestVars PROVE SuggestInv'
  OBVIOUS
<1>1. CASE UNCHANGED suggestVars
  BY <1>1 DEF suggestVars, SuggestInv, SuggestionsTypeOK, OnSite
<1>2. CASE SuggestionsNext
  BY <1>2, DictionarySteps, SuggestStep, KeepStep, ExpireStep, HourStep, MidnightStep
     DEF SuggestionsNext
<1>3. QED
  BY <1>1, <1>2

-----------------------------------------------------------------------------
(* All of the pages.                                                       *)

\* A page that does not run is as it was at first, and so in order.
PagesInv == part \in PageParts /\ GatesInv /\ RoomInv /\ HeaderTypeOK /\ PhoneInv /\ SuggestInv

LEMMA PagesInvInit == PagesInit => PagesInv
BY GatesInvInit, RoomInvInit, HeaderTypeInit, PhoneInvInit, SuggestInvInit DEF PagesInit, PagesInv

\* A step of the site is a step of each page, or leaves it as it is.
LEMMA PagesStepEach ==
    ASSUME [PagesNext]_pagesVars
    PROVE  /\ part' = part
           /\ [GatesNext]_gateVars /\ [RoomPageNext]_pageVars /\ [HeaderNext]_headerVars
           /\ [PhoneRevealNext]_phoneVars /\ [SuggestionsNext]_suggestVars
<1>1. CASE UNCHANGED pagesVars
  BY <1>1 DEF pagesVars
<1>2. CASE PagesNext
  BY <1>2 DEF PagesNext, Only
<1>3. QED
  BY <1>1, <1>2

LEMMA PagesInvStep == PagesInv /\ [PagesNext]_pagesVars => PagesInv'
BY PagesStepEach, GatesInvStep, RoomInvStep, HeaderTypeStep, PhoneInvStep, SuggestInvStep DEF PagesInv

LEMMA PagesKeepInv == PagesSpec => []PagesInv
BY PagesInvInit, PagesInvStep, PTL DEF PagesSpec

\* THE PAGES ARE WELL TYPED, each while it runs.
THEOREM PagesTypeCorrect == PagesSpec => []PagesTypeOK
<1>1. PagesInv => PagesTypeOK
  BY RoomIsTyped DEF PagesInv, PagesTypeOK, TypeOKOf, PageParts, GatesInv, PhoneInv, WasCounted,
     SuggestInv
<1>2. QED
  BY <1>1, PagesKeepInv, PTL

\* WHOEVER LOGS IN OR REGISTERS LANDS on a page (EveryoneLands), whatever his role,
\* decision, consent, telephone and e-mail: no visit is sent round in circles.
THEOREM EveryoneComesIn == PagesSpec => EveryoneLands
<1> DEFINE Step == sentTo' # sentTo \/ (user'.chosen /\ ~user.chosen)
                      => \/ AnswerTo(Visit(sentTo))' = "shown"
                         \/ lite /\ moderation /\ user'.role = "instructor"
<1>1. PagesInv /\ [PagesNext]_pagesVars => [Step]_gateVars
  BY PagesStepEach, StepsSendWell DEF PagesInv
<1> HIDE DEF Step
<1>2. PagesSpec => [][Step]_gateVars
  BY <1>1, PagesKeepInv, PTL DEF PagesSpec
<1>3. [][Step]_gateVars => RegistrationLands
  BY DEF RegistrationLands, Step
<1>4. PagesInv => NoRedirectLoop /\ LoginLands
  BY LoginsLand DEF PagesInv
<1>5. QED
  BY <1>2, <1>3, <1>4, PagesKeepInv, PTL DEF EveryoneLands

\* THE SEARCH BOX ANSWERS (SearchAnswers): a phrase of the dictionary with a service it
\* leads to, and with nothing that has been off the site for longer than an answer lasts.
THEOREM SearchBoxAnswers == PagesSpec => []SearchAnswers
<1>1. PagesInv => SearchAnswers
  BY PhrasesLead, AnswersAreFresh DEF PagesInv, SearchAnswers
<1>2. QED
  BY <1>1, PagesKeepInv, PTL

\* THE SAFETY OF WHAT CATCHES UP AND OF WHAT IS GUARDED: a room shows each message of
\* others once (PagesCatchUp's first part), and the number of a seller is asked for as
\* often as it was clicked on and told to whom it was counted for (NumbersAreGuarded's).
THEOREM PagesShowOnceAndCount == PagesSpec => []TheirsShownOnce /\ []NumbersWereAskedFor
<1>1. PagesInv => TheirsShownOnce /\ NumbersWereAskedFor
  BY BubblesShowOnce, NumbersWait DEF PagesInv
<1>2. QED
  BY <1>1, PagesKeepInv, PTL
==============================================================================

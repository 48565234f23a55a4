----------------------------- MODULE MCPlatform -----------------------------
(***************************************************************************)
(* The components that share nothing but the workers that run their        *)
(* handlers, checked side by side: a behaviour is one of the component it  *)
(* starts with, and the others stay as they are.                           *)
(***************************************************************************)
EXTENDS Wallet, Subscriptions, Calls, Chats, Ads, AntiFraud, Reviews, Accounts,
        Contacts, Toasts, Reminders, SlotGrid, SignIn, Consents, Support,
        RevealLimits, RoadHelp, ErpReports, Catalogue, FreeWindows,
        AdBoard, AdVisitors, MasterImport, Inbox

CONSTANTS PartsChosen,  \* the components a run is about
          k1, x1, x2, b1, b2, t1, g1, f1, f2, y1, y2  \* a category, two sections, two brands, a town, a group
                                          \* of ads, two telephones, two cities

VARIABLE part  \* the component that runs

MCVisitStart == [v \in Visits |-> 27]

MCHours(opens, closes, step, breaks) ==
    [opens |-> opens, closes |-> closes, step |-> step, breaks |-> breaks]
MCDefaultHours == MCHours(1, 3, 1, {})
\* With a break, with a longer step, and the wrong way round.
MCHoursOnOffer ==
    {MCHours(0, 3, 1, {[from |-> 1, to |-> 2]}), MCHours(0, 3, 2, {}), MCHours(3, 1, 1, {})}

MCSectionOf == [c \in {k1} |-> x1]
MCServices(cs, xs, bs, all, named) ==
    [categories : cs, sections : xs, brands : bs, all : {all}, named : {named}]
\* Some services, every brand, or a card that only names one.
MCServicesOnOffer ==
    MCServices(SUBSET {k1}, {{}}, {{}}, FALSE, {})
      \cup MCServices({{k1}}, {{}}, {{b2}}, FALSE, {})
      \cup MCServices({{}}, {{x2}}, {{b2}}, FALSE, {})
      \cup MCServices({{k1}}, {{}}, {{}}, TRUE, {})
      \cup MCServices({{}}, {{}}, {{}}, FALSE, {b1})

MCForm(what, deal, vehicle, price, byHour, byDay, category, brand) ==
    [kind |-> what, deal |-> deal, vehicle |-> vehicle, price |-> price, hour |-> byHour,
     day |-> byDay, category |-> category, brand |-> brand]
\* Parts, one with what is asked for a rent; cars on sale, one for nothing; rents of
\* both kinds by the day or by the hour; rents of nothing and for nothing.
MCFormsOnOffer ==
    {MCForm("part", "sale", "", 0, -1, -1, g1, NoGroup), MCForm("part", "rent", "car", 1, 1, 2, NoGroup, g1),
     MCForm("car", "sale", "car", 1, -1, 2, g1, g1), MCForm("car", "sale", "", 0, -1, -1, NoGroup, g1),
     MCForm("car", "rent", "car", 2, -1, 1, NoGroup, g1), MCForm("car", "rent", "car", 0, -1, 2, NoGroup, NoGroup),
     MCForm("car", "rent", "special", 0, 1, 0, NoGroup, g1), MCForm("car", "rent", "", 0, 1, 1, NoGroup, NoGroup),
     MCForm("car", "rent", "car", 0, -1, 0, NoGroup, NoGroup)}

MCSeed(phone, role, skip, mode, makes) ==
    [phone |-> phone, role |-> role, skip |-> skip, mode |-> mode, makes |-> makes]
\* A master and a shop; the master become a service, after entries to be skipped.
MCImportLists ==
    {<<MCSeed(f1, "master", FALSE, "all", {}), MCSeed(f2, "autoshop", FALSE, "only", {b1})>>,
     <<MCSeed(f2, "master", TRUE, "all", {}), MCSeed(NoPhone, "master", FALSE, "all", {}),
       MCSeed(f1, "autoservice", FALSE, "all_except", {b1})>>}

\* The list of the file, and what is left of it when one city is enough.
MCUsualCities == {<<y1, y2>>}
MCOneCity == {<<y1>>}

\* One window today, one tomorrow and one the day after.
MCWindowStart == [w \in Windows |-> CASE w = 1 -> 1 [] w = 2 -> 3 [] w = 3 -> 6]

-----------------------------------------------------------------------------
\* A component that does not run has one initial state.
PlatformInit ==
    /\ part \in PartsChosen
    /\ WorkersInit
    /\ WalletInit /\ SubscriptionsInit /\ CallsInit /\ ChatsInit /\ AdsInit /\ AntiFraudInit
    /\ ReviewsInit /\ AccountsInit /\ ContactsInit /\ ToastsInit /\ RemindersInit /\ SlotGridInit
    /\ SignInInit /\ ConsentsInit /\ SupportInit /\ RevealLimitsInit /\ RoadHelpInit
    /\ VisitReportsInit /\ PaymentReportsInit /\ ErpListsInit
    /\ CatalogueInit /\ FreeWindowsInit /\ BoardInit /\ VisitorsInit /\ ImportInit /\ InboxInit
    /\ part # "subscriptions" => sub.next = NoDate
    /\ part # "chats" => kind = "ad" /\ reader = "client"
    /\ part # "accounts" => moderated
    /\ part # "contacts" => contact.number = NoNumber
    /\ part # "import" => matching = {}
    /\ part # "inbox" => \A k \in Conversations : talk[k] = [kind |-> "ad", side |-> "client"]
    /\ part # "consents" => file = CHOOSE t \in Texts : TRUE

Only(p, next) == part = p /\ next

PlatformNext ==
    /\ part' = part
    /\ \/ Only("wallet", WalletNext)
       \/ Only("subscriptions", SubscriptionsNext)
       \/ Only("calls", CallsNext)
       \/ Only("chats", ChatsNext)
       \/ Only("ads", AdsNext)
       \/ Only("antifraud", AntiFraudNext)
       \/ Only("reviews", ReviewsNext)
       \/ Only("accounts", AccountsNext)
       \/ Only("contacts", ContactsNext)
       \/ Only("toasts", ToastsNext)
       \/ Only("reminders", RemindersNext)
       \/ Only("slotgrid", SlotGridNext)
       \/ Only("signin", SignInNext)
       \/ Only("consents", ConsentsNext)
       \/ Only("support", SupportNext)
       \/ Only("reveals", RevealLimitsNext)
       \/ Only("roadhelp", RoadHelpNext)
       \/ Only("visits", VisitReportsNext /\ UNCHANGED workerVars)
       \/ Only("payments", PaymentReportsNext /\ UNCHANGED workerVars)
       \/ Only("lists", ErpListsNext /\ UNCHANGED workerVars)
       \/ Only("catalogue", CatalogueNext /\ UNCHANGED workerVars)
       \/ Only("freewindows", FreeWindowsNext /\ UNCHANGED workerVars)
       \/ Only("board", BoardNext /\ UNCHANGED workerVars)
       \/ Only("visitors", VisitorsNext)
       \/ Only("import", ImportNext)
       \/ Only("inbox", InboxNext)
    /\ part # "wallet" => UNCHANGED walletVars
    /\ part # "subscriptions" => UNCHANGED subVars
    /\ part # "calls" => UNCHANGED callVars
    /\ part # "chats" => UNCHANGED chatVars
    /\ part # "ads" => UNCHANGED adVars
    /\ part # "antifraud" => UNCHANGED fraudVars
    /\ part # "reviews" => UNCHANGED reviewVars
    /\ part # "accounts" => UNCHANGED accountVars
    /\ part # "contacts" => UNCHANGED contactVars
    /\ part # "toasts" => UNCHANGED toastVars
    /\ part # "reminders" => UNCHANGED reminderVars
    /\ part # "slotgrid" => UNCHANGED gridVars
    /\ part # "signin" => UNCHANGED signInVars
    /\ part # "consents" => UNCHANGED consentVars
    /\ part # "support" => UNCHANGED supportVars
    /\ part # "reveals" => UNCHANGED revealVars
    /\ part # "roadhelp" => UNCHANGED roadVars
    /\ part # "visits" => UNCHANGED visitReportVars
    /\ part # "payments" => UNCHANGED paymentReportVars
    /\ part # "lists" => UNCHANGED erpRows
    /\ part # "catalogue" => UNCHANGED catalogueVars
    /\ part # "freewindows" => UNCHANGED windowVars
    /\ part # "board" => UNCHANGED boardVars
    /\ part # "visitors" => UNCHANGED visitorVars
    /\ part # "import" => UNCHANGED importVars
    /\ part # "inbox" => UNCHANGED inboxVars

platformVars ==
    <<part, workerVars, walletVars, subVars, callVars, chatVars, adVars, fraudVars, reviewVars,
      accountVars, contactVars, toastVars, reminderVars, gridVars, signInVars, consentVars,
      supportVars, revealVars, roadVars, visitReportVars, paymentReportVars, erpRows, catalogueVars,
      windowVars, boardVars, visitorVars, importVars, inboxVars>>

\* The fairness of each component, while it is the one that runs.
PlatformFairness ==
    /\ \A p \in Procs :
          /\ WF_<<workerVars, subVars>>(Only("subscriptions", ChargeRead(p)))
          /\ WF_<<workerVars, subVars>>(Only("subscriptions", SubscriptionStep(p)))
          /\ WF_<<workerVars, callVars>>(Only("calls", CallStep(p)))
          /\ \A u \in Users : WF_<<workerVars, callVars>>(Only("calls", Deliver(p, u)))
          /\ WF_<<workerVars, chatVars>>(Only("chats", ChatStep(p)))
    /\ WF_<<workerVars, chatVars>>(Only("chats", CountArrives))
    /\ WF_<<workerVars, chatVars>>(Only("chats", Poll))
    /\ WF_toastVars(Only("toasts", PageOpens))
    /\ SF_toastVars(Only("toasts", UnseenListed))

PlatformSafeSpec == PlatformInit /\ [][PlatformNext]_platformVars
PlatformSpec == PlatformSafeSpec /\ PlatformFairness

-----------------------------------------------------------------------------
TypeOKOf(p) ==
    CASE p = "wallet" -> WalletTypeOK
      [] p = "subscriptions" -> SubscriptionsTypeOK
      [] p = "calls" -> CallsTypeOK
      [] p = "chats" -> ChatsTypeOK
      [] p = "ads" -> AdsTypeOK
      [] p = "antifraud" -> AntiFraudTypeOK
      [] p = "reviews" -> ReviewsTypeOK
      [] p = "accounts" -> AccountsTypeOK
      [] p = "contacts" -> ContactsTypeOK
      [] p = "toasts" -> ToastsTypeOK
      [] p = "reminders" -> RemindersTypeOK
      [] p = "slotgrid" -> SlotGridTypeOK
      [] p = "signin" -> SignInTypeOK
      [] p = "consents" -> ConsentsTypeOK
      [] p = "support" -> SupportTypeOK
      [] p = "reveals" -> RevealLimitsTypeOK
      [] p = "roadhelp" -> RoadHelpTypeOK
      [] p = "visits" -> VisitReportsTypeOK
      [] p = "payments" -> PaymentReportsTypeOK
      [] p = "lists" -> ErpListsTypeOK
      [] p = "catalogue" -> CatalogueTypeOK
      [] p = "freewindows" -> FreeWindowsTypeOK
      [] p = "board" -> AdBoardTypeOK
      [] p = "visitors" -> AdVisitorsTypeOK
      [] p = "import" -> MasterImportTypeOK
      [] p = "inbox" -> InboxTypeOK

\* The component that runs is well typed, its requests in flight included: none
\* goes on with a row, a key or a value its handler cannot have loaded.
PlatformTypeOK == TypeOKOf(part)

-----------------------------------------------------------------------------
(* What no overlap of the handlers breaks, nor a worker that dies.         *)

\* Money follows a decision: a withdrawal is debited for one that was approved,
\* and a payment buys its subscription a period, whatever was loaded before.
MoneyIsDecided == DebitFollowsDecision /\ PaymentBuysAPeriod

\* What is on sale has passed the rules: no forbidden text, fewer reports than hide
\* it, and no seller with another's photo whom the task has not flagged.  What its
\* visitors leave is kept: who knows an ad was counted, who was thanked is quoted.
AdsAreInOrder == WhatIsPublished /\ DuplicateIsFlagged /\ VisitsAreKept

\* A telephone is told to no more readers than the limits let have it, and that of a
\* driver in trouble to who may answer him.
NumbersAreKept == NumbersWithinLimit /\ NumberGoesToHelper

\* The tasks of the beat keep up although a run dies, is skipped or overlaps the
\* next: clients are reminded in time, and the grid has the slots of the hours.  Nor
\* does it hurt the import of masters: each has a card, and passwords told are right.
BeatKeepsUp == RemindedInTime /\ GridIsFilled /\ CardGoesWithRole /\ WrittenPasswordsOpen

\* The reports and the lists of the administrators tell one story, by whatever way
\* each reads the rows: the funnel narrows and agrees with the other counts, revenue
\* is one figure, and a workbook continues its page.  So do a user's lists of
\* conversations and the number in the header, and an owner's row about a subscription.
ReportsAgree ==
    CASE part = "visits" -> FunnelNarrows /\ VisitReportsAgree /\ DashboardAgrees
      [] part = "payments" -> RevenueAgrees
      [] part = "lists" -> ListsAgree
      [] part = "inbox" -> HeaderCountsTheLists
      [] part = "subscriptions" -> RowTellsVisibility
      [] OTHER -> TRUE

\* Catalogue, map and landing pages agree on who is found: the map shows those the
\* catalogue finds, a page counts them, and its links do not lead to an empty list.
\* So do the board of ads and the pages about it: an ad is on one list, at the price
\* its page prints, and with the shop of its seller.  And the card of a station, its
\* badge and the tabs of the dashboard about its windows: the nearest is one of the
\* list, a badge has a window on offer, and a live booking is on a tab.
CatalogueAgrees ==
    CASE part = "catalogue" -> MapShowsWhatIsFound /\ CountIsWhatIsFound /\ LinksFindSomething
                                /\ CanonicalListsTheSame
      [] part = "board" -> OnOneList /\ PricesArePrinted /\ ShopSellsItsOwners
      [] part = "freewindows" -> CardAgrees /\ BadgeIsOnOffer /\ LiveIsListed /\ CalendarIsWhole
      [] OTHER -> TRUE

-----------------------------------------------------------------------------
(* What holds of handlers one at a time.                                   *)

\* The ledger has the debit of a withdrawal just when it is approved, every payment
\* extends the subscription, and a charge that is due is made.
MoneyIsKept == []DebitedIffApproved /\ []EveryPaymentExtends /\ ChargeIsMade

\* A user is in one call, a call that has ended stays ended, and the pages leave it.
CallIsOver == []OneLiveCall /\ EndedCallStays /\ EndedCallIsLeft

\* What a reader has not been shown counts as unread, the header comes to say so, the
\* latest comes first on the list, and a notice comes to a page that stays.
NewsArrives == []UnshownIsUnread /\ UnreadIsTold /\ []LatestFirst /\ ToastArrives

\* What was closed by a decision stays so: a closed room takes no message, a hidden
\* review does not come back by an edit, a settled ticket by a reply of the staff,
\* and a call for help stays with who has answered it.
WhatIsClosedStays ==
    ClosedRoomIsQuiet /\ HiddenUntilPublished /\ SettledStays /\ HelperStays

\* The limits hold: photos of an ad, tickets of an hour, one count of a session,
\* calls of a driver for help.
LimitsHold ==
    PhotosWithinLimit /\ TicketsWithinLimit /\ VisitsAreCountedOnce /\ OpenWithinLimit

\* An owner who has been let in stays so: his profile gives him one station and no
\* more, and no release, edit or withdrawal takes his consent back.
OwnerStaysAdmitted == []OnboardedOnce /\ ConsentIsKept

\* Telephone and mailboxes are their holders': the number in force is the one the
\* account was given or asked for, no two accounts share a mailbox, and only the
\* link of the last letter confirms.
ContactsAreTheirs == ContactIsInForce /\ MailboxesDiffer /\ OnlyTheLastLetterConfirms
=============================================================================

--------------------------- MODULE PlatformProofs ---------------------------
(***************************************************************************)
(* Theorems about the components side by side: what MCPlatform says of all *)
(* of them follows from the invariant each component keeps while it is the *)
(* one that runs, and from what it starts with while it is not.  What no   *)
(* overlap breaks comes first, what holds one at a time after it.          *)
(***************************************************************************)
EXTENDS MCPlatform, MarketProofs, ConversationsProofs, UsersProofs, ReadingProofs

\* A step of the platform is a step of the component that runs, or does nothing.
LEMMA MarketRuns ==
    ASSUME [PlatformNext]_platformVars
    PROVE  /\ part' = part
           /\ part = "wallet" => [WalletNext]_<<workerVars, walletVars>>
           /\ part # "wallet" => UNCHANGED walletVars
           /\ part = "subscriptions" => [SubscriptionsNext]_<<workerVars, subVars>>
           /\ part # "subscriptions" => UNCHANGED subVars
           /\ part = "ads" => [AdsNext]_<<workerVars, adVars>>
           /\ part # "ads" => UNCHANGED adVars
           /\ part = "antifraud" => [AntiFraudNext]_<<workerVars, fraudVars>>
           /\ part # "antifraud" => UNCHANGED fraudVars
           /\ part = "visitors" => [VisitorsNext]_<<workerVars, visitorVars>>
           /\ part # "visitors" => UNCHANGED visitorVars
<1>1. part' = part
  BY DEF PlatformNext, platformVars
<1>2. /\ part = "wallet" => [WalletNext]_<<workerVars, walletVars>>
      /\ part # "wallet" => UNCHANGED walletVars
  BY DEF PlatformNext, Only, platformVars
<1>3. /\ part = "subscriptions" => [SubscriptionsNext]_<<workerVars, subVars>>
      /\ part # "subscriptions" => UNCHANGED subVars
  BY DEF PlatformNext, Only, platformVars
<1>4. /\ part = "ads" => [AdsNext]_<<workerVars, adVars>>
      /\ part # "ads" => UNCHANGED adVars
  BY DEF PlatformNext, Only, platformVars
<1>5. /\ part = "antifraud" => [AntiFraudNext]_<<workerVars, fraudVars>>
      /\ part # "antifraud" => UNCHANGED fraudVars
  BY DEF PlatformNext, Only, platformVars
<1>6. /\ part = "visitors" => [VisitorsNext]_<<workerVars, visitorVars>>
      /\ part # "visitors" => UNCHANGED visitorVars
  BY DEF PlatformNext, Only, platformVars
<1>7. QED
  BY <1>1, <1>2, <1>3, <1>4, <1>5, <1>6

-----------------------------------------------------------------------------
(* Money.                                                                  *)

MoneyInv ==
    /\ IF part = "wallet" THEN DebitsAreDue ELSE WalletInit
    /\ IF part = "subscriptions" THEN PaymentsCount ELSE Handled = {}

LEMMA MoneyInit == PlatformInit => MoneyInv
BY DebitsInit, PaymentsInit DEF PlatformInit, MoneyInv, SubscriptionsInit, Handled

LEMMA MoneyStep == MoneyInv /\ [PlatformNext]_platformVars => MoneyInv'
<1> SUFFICES ASSUME MoneyInv, [PlatformNext]_platformVars PROVE MoneyInv'
  OBVIOUS
<1>1. CASE part = "wallet"
  BY <1>1, MarketRuns, DebitsStep DEF MoneyInv, Handled, subVars
<1>2. CASE part = "subscriptions"
  BY <1>2, MarketRuns, PaymentsStep DEF MoneyInv, WalletInit, walletVars
<1>3. CASE part \notin {"wallet", "subscriptions"}
  BY <1>3, MarketRuns DEF MoneyInv, WalletInit, walletVars, Handled, subVars
<1>4. QED
  BY <1>1, <1>2, <1>3

LEMMA MoneyDecided == MoneyInv => MoneyIsDecided
<1> SUFFICES ASSUME MoneyInv PROVE DebitFollowsDecision /\ PaymentBuysAPeriod
  BY DEF MoneyIsDecided
<1>1. WalletInit => DebitFollowsDecision
  BY DEF WalletInit, DebitFollowsDecision, Debited, NoWithdrawal
<1>2. Handled = {} => PaymentBuysAPeriod
  BY DEF PaymentBuysAPeriod
<1>3. QED
  BY <1>1, <1>2, DebitsFollow, PaymentsBuy DEF MoneyInv

\* However decisions, charges and payments overlap, and whoever dies, money leaves a
\* wallet for what was approved, and a payment buys its subscription a period.
THEOREM MoneyStaysDecided == PlatformSafeSpec => []MoneyIsDecided
BY MoneyInit, MoneyStep, MoneyDecided, PTL DEF PlatformSafeSpec

-----------------------------------------------------------------------------
(* Ads.                                                                    *)

AdsInv ==
    /\ IF part = "ads" THEN AdIsWatched ELSE ad = NoAd
    /\ IF part = "antifraud" THEN FraudIsSought ELSE Hashed = {}
    /\ IF part = "visitors" THEN VisitsAreSound ELSE VisitsAreKept

LEMMA MarketInit == PlatformInit => AdsInv
<1> SUFFICES ASSUME PlatformInit PROVE AdsInv
  OBVIOUS
<1>1. AdIsWatched /\ ad = NoAd
  BY AdInit DEF PlatformInit, AdsInit
<1>2. FraudIsSought /\ Hashed = {}
  BY FraudInit DEF PlatformInit, AntiFraudInit, Hashed, NoPhoto
<1>3. VisitsAreSound /\ VisitsAreKept
  BY VisitsInit, VisitsKept DEF PlatformInit
<1>4. QED
  BY <1>1, <1>2, <1>3 DEF AdsInv

LEMMA MarketStep == AdsInv /\ [PlatformNext]_platformVars => AdsInv'
<1> SUFFICES ASSUME AdsInv, [PlatformNext]_platformVars PROVE AdsInv'
  OBVIOUS
<1>1. IF part' = "ads" THEN AdIsWatched' ELSE ad' = NoAd
  BY MarketRuns, AdStepKeeps DEF AdsInv, adVars
<1>2. IF part' = "antifraud" THEN FraudIsSought' ELSE Hashed' = {}
  BY MarketRuns, FraudStep DEF AdsInv, fraudVars, Hashed
<1>3. IF part' = "visitors" THEN VisitsAreSound' ELSE VisitsAreKept'
  BY MarketRuns, VisitsStep DEF AdsInv, visitorVars, VisitsAreKept
<1>4. QED
  BY <1>1, <1>2, <1>3 DEF AdsInv, NoAd

LEMMA MarketInOrder == AdsInv => AdsAreInOrder
<1> SUFFICES ASSUME AdsInv PROVE WhatIsPublished /\ DuplicateIsFlagged /\ VisitsAreKept
  BY DEF AdsAreInOrder
<1>1. ad = NoAd => WhatIsPublished
  BY DEF WhatIsPublished, NoAd
<1>2. Hashed = {} => DuplicateIsFlagged
  BY DEF DuplicateIsFlagged
<1>3. QED
  BY <1>1, <1>2, AdInOrder, FraudFlagged, VisitsKept DEF AdsInv

\* However edits, reports, photo checks, visits and reviews overlap, and whoever
\* dies, what is on sale is in order and what its visitors leave is kept.
THEOREM AdsStayInOrder == PlatformSafeSpec => []AdsAreInOrder
BY MarketInit, MarketStep, MarketInOrder, PTL DEF PlatformSafeSpec
-----------------------------------------------------------------------------
\* The components of conversations.
LEMMA ConversationsRun ==
    ASSUME [PlatformNext]_platformVars
    PROVE  /\ part' = part
           /\ part = "support" => [SupportNext]_<<workerVars, supportVars>>
           /\ part # "support" => UNCHANGED supportVars
           /\ part = "chats" => [ChatsNext]_<<workerVars, chatVars>>
           /\ part # "chats" => UNCHANGED chatVars
           /\ part = "reviews" => [ReviewsNext]_<<workerVars, reviewVars>>
           /\ part # "reviews" => UNCHANGED reviewVars
           /\ part = "roadhelp" => [RoadHelpNext]_<<workerVars, roadVars>>
           /\ part # "roadhelp" => UNCHANGED roadVars
<1>1. part' = part
  BY DEF PlatformNext, platformVars
<1>2. /\ part = "support" => [SupportNext]_<<workerVars, supportVars>>
      /\ part # "support" => UNCHANGED supportVars
  BY DEF PlatformNext, Only, platformVars
<1>3. /\ part = "chats" => [ChatsNext]_<<workerVars, chatVars>>
      /\ part # "chats" => UNCHANGED chatVars
  BY DEF PlatformNext, Only, platformVars
<1>4. /\ part = "reviews" => [ReviewsNext]_<<workerVars, reviewVars>>
      /\ part # "reviews" => UNCHANGED reviewVars
  BY DEF PlatformNext, Only, platformVars
<1>5. /\ part = "roadhelp" => [RoadHelpNext]_<<workerVars, roadVars>>
      /\ part # "roadhelp" => UNCHANGED roadVars
  BY DEF PlatformNext, Only, platformVars
<1>6. QED
  BY <1>1, <1>2, <1>3, <1>4, <1>5

\* The components of users.
LEMMA UsersRun ==
    ASSUME [PlatformNext]_platformVars
    PROVE  /\ part' = part
           /\ part = "accounts" => [AccountsNext]_<<workerVars, accountVars>>
           /\ part # "accounts" => UNCHANGED accountVars
           /\ part = "contacts" => [ContactsNext]_<<workerVars, contactVars>>
           /\ part # "contacts" => UNCHANGED contactVars
           /\ part = "signin" => [SignInNext]_<<workerVars, signInVars>>
           /\ part # "signin" => UNCHANGED signInVars
           /\ part = "consents" => [ConsentsNext]_<<workerVars, consentVars>>
           /\ part # "consents" => UNCHANGED consentVars
           /\ part = "reveals" => [RevealLimitsNext]_<<workerVars, revealVars>>
           /\ part # "reveals" => UNCHANGED revealVars
<1>1. part' = part
  BY DEF PlatformNext, platformVars
<1>2. /\ part = "accounts" => [AccountsNext]_<<workerVars, accountVars>>
      /\ part # "accounts" => UNCHANGED accountVars
  BY DEF PlatformNext, Only, platformVars
<1>3. /\ part = "contacts" => [ContactsNext]_<<workerVars, contactVars>>
      /\ part # "contacts" => UNCHANGED contactVars
  BY DEF PlatformNext, Only, platformVars
<1>4. /\ part = "signin" => [SignInNext]_<<workerVars, signInVars>>
      /\ part # "signin" => UNCHANGED signInVars
  BY DEF PlatformNext, Only, platformVars
<1>5. /\ part = "consents" => [ConsentsNext]_<<workerVars, consentVars>>
      /\ part # "consents" => UNCHANGED consentVars
  BY DEF PlatformNext, Only, platformVars
<1>6. /\ part = "reveals" => [RevealLimitsNext]_<<workerVars, revealVars>>
      /\ part # "reveals" => UNCHANGED revealVars
  BY DEF PlatformNext, Only, platformVars
<1>7. QED
  BY <1>1, <1>2, <1>3, <1>4, <1>5, <1>6

-----------------------------------------------------------------------------
(* Telephones.                                                             *)

NumbersInv ==
    /\ IF part = "reveals" THEN RevealLimitsTypeOK /\ Reserved ELSE NumbersWithinLimit
    /\ IF part = "roadhelp" THEN AnswersAreDue ELSE told = {}

LEMMA NumbersInit == PlatformInit => NumbersInv
<1> SUFFICES ASSUME PlatformInit PROVE NumbersInv
  OBVIOUS
<1>1. RevealLimitsTypeOK /\ Reserved
  BY RevealTypeInit, ReservedInit DEF PlatformInit
<1>2. AnswersAreDue /\ told = {}
  BY AnswersInit DEF PlatformInit, RoadHelpInit
<1>3. QED
  BY <1>1, <1>2, ReservedIsWithin DEF NumbersInv

LEMMA NumbersStep == NumbersInv /\ [PlatformNext]_platformVars => NumbersInv'
<1> SUFFICES ASSUME NumbersInv, [PlatformNext]_platformVars PROVE NumbersInv'
  OBVIOUS
<1>1. IF part' = "reveals" THEN RevealLimitsTypeOK' /\ Reserved' ELSE NumbersWithinLimit'
  BY UsersRun, RevealTypeStep, ReservedStep DEF NumbersInv, revealVars, NumbersWithinLimit
<1>2. IF part' = "roadhelp" THEN AnswersAreDue' ELSE told' = {}
  BY ConversationsRun, AnswersStep DEF NumbersInv, roadVars
<1>3. QED
  BY <1>1, <1>2 DEF NumbersInv

LEMMA NumbersKept == NumbersInv => NumbersAreKept
BY ReservedIsWithin, AnswersGoToHelpers DEF NumbersInv, NumbersAreKept, NumberGoesToHelper

\* However handlers overlap, and whoever dies, a buyer is told no more telephones than
\* the limits and the requests on their way together let him, and that of a driver
\* in trouble is told to who may answer him, once his row is closed.
THEOREM NumbersStayKept == PlatformSafeSpec => []NumbersAreKept
BY NumbersInit, NumbersStep, NumbersKept, PTL DEF PlatformSafeSpec

-----------------------------------------------------------------------------
(* Pages and reports.                                                      *)

\* The components that are read.
LEMMA ReadingRuns ==
    ASSUME [PlatformNext]_platformVars
    PROVE  /\ part' = part
           /\ part = "catalogue" => [CatalogueNext]_catalogueVars
           /\ part = "freewindows" => [FreeWindowsNext]_windowVars
           /\ part = "board" => [BoardNext]_boardVars
           /\ part = "visits" => [VisitReportsNext]_visitReportVars
           /\ part = "payments" => [PaymentReportsNext]_paymentReportVars
           /\ part = "lists" => [ErpListsNext]_erpRows
           /\ part = "inbox" => [InboxNext]_<<workerVars, inboxVars>>
<1>1. part' = part
  BY DEF PlatformNext, platformVars
<1>2. part = "catalogue" => [CatalogueNext]_catalogueVars
  BY DEF PlatformNext, Only, platformVars
<1>3. part = "freewindows" => [FreeWindowsNext]_windowVars
  BY DEF PlatformNext, Only, platformVars
<1>4. part = "board" => [BoardNext]_boardVars
  BY DEF PlatformNext, Only, platformVars
<1>5. part = "visits" => [VisitReportsNext]_visitReportVars
  BY DEF PlatformNext, Only, platformVars
<1>6. part = "payments" => [PaymentReportsNext]_paymentReportVars
  BY DEF PlatformNext, Only, platformVars
<1>7. part = "lists" => [ErpListsNext]_erpRows
  BY DEF PlatformNext, Only, platformVars
<1>8. part = "inbox" => [InboxNext]_<<workerVars, inboxVars>>
  BY DEF PlatformNext, Only, platformVars
<1>9. QED
  BY <1>1, <1>2, <1>3, <1>4, <1>5, <1>6, <1>7, <1>8

PagesInv ==
    /\ part = "catalogue" => CatalogueInv
    /\ part = "freewindows" => FreeWindowsTypeOK
    /\ part = "board" => BoardInv

LEMMA PagesInit == PlatformInit => PagesInv
BY CatalogueInvInit, WindowsInit, BoardInvInit DEF PlatformInit, PagesInv

LEMMA PagesStep == PagesInv /\ [PlatformNext]_platformVars => PagesInv'
<1> SUFFICES ASSUME PagesInv, [PlatformNext]_platformVars PROVE PagesInv'
  OBVIOUS
<1>1. part' = "catalogue" => CatalogueInv'
  BY ReadingRuns, CatalogueStep DEF PagesInv
<1>2. part' = "freewindows" => FreeWindowsTypeOK'
  BY ReadingRuns, WindowsStep DEF PagesInv
<1>3. part' = "board" => BoardInv'
  BY ReadingRuns, BoardStep DEF PagesInv
<1>4. QED
  BY <1>1, <1>2, <1>3 DEF PagesInv

LEMMA PagesAgree == PagesInv => CatalogueAgrees
<1> SUFFICES ASSUME PagesInv PROVE CatalogueAgrees
  OBVIOUS
<1>1. part = "catalogue" =>
        MapShowsWhatIsFound /\ CountIsWhatIsFound /\ LinksFindSomething /\ CanonicalListsTheSame
  BY MapIsFound, CountsAreFound, LinksFind, CanonicalLists DEF PagesInv, CatalogueInv
<1>2. part = "board" => OnOneList /\ PricesArePrinted /\ ShopSellsItsOwners
  BY OneList, PricesPrinted, ShopsSell DEF PagesInv
<1>3. part = "freewindows" => CardAgrees /\ BadgeIsOnOffer /\ LiveIsListed /\ CalendarIsWhole
  BY CardsAgree, BadgesAreOnOffer, LiveAreListed, CalendarsAreWhole DEF PagesInv
<1>4. QED
  BY <1>1, <1>2, <1>3 DEF CatalogueAgrees

\* Whatever cards, ads and windows become, the pages that read them agree: the map
\* with the catalogue, the page of an ad with its list, the badge with the windows.
THEOREM PagesStayAgreed == PlatformSafeSpec => []CatalogueAgrees
BY PagesInit, PagesStep, PagesAgree, PTL DEF PlatformSafeSpec

-----------------------------------------------------------------------------
(* Reports and lists.                                                      *)

ReportsInv ==
    /\ part = "visits" => VisitsInOrder
    /\ part = "payments" => PaymentReportsTypeOK
    /\ part = "lists" => RowsAreOfVisits
    /\ part = "inbox" => StampsAreTaken
    /\ part = "subscriptions" => DatesInReach

LEMMA ReportsInit == PlatformInit => ReportsInv
BY SavesInit, RevenueInit, RowsInit, StampsInit, ReachInit DEF PlatformInit, ReportsInv

LEMMA ReportsStep == ReportsInv /\ [PlatformNext]_platformVars => ReportsInv'
<1> SUFFICES ASSUME ReportsInv, [PlatformNext]_platformVars PROVE ReportsInv'
  OBVIOUS
<1>1. part' = "visits" => VisitsInOrder'
  BY ReadingRuns, SavesStep DEF ReportsInv
<1>2. part' = "payments" => PaymentReportsTypeOK'
  BY ReadingRuns, RevenueStep DEF ReportsInv
<1>3. part' = "lists" => RowsAreOfVisits'
  BY ReadingRuns, RowsStep DEF ReportsInv
<1>4. part' = "inbox" => StampsAreTaken'
  BY ReadingRuns, StampsStep DEF ReportsInv
<1>5. part' = "subscriptions" => DatesInReach'
  BY MarketRuns, ReachStep DEF ReportsInv
<1>6. QED
  BY <1>1, <1>2, <1>3, <1>4, <1>5 DEF ReportsInv

LEMMA ReportsTell == ReportsInv => ReportsAgree
<1> SUFFICES ASSUME ReportsInv PROVE ReportsAgree
  OBVIOUS
<1>1. part = "visits" => FunnelNarrows /\ VisitReportsAgree /\ DashboardAgrees
  BY FunnelIsNarrow, ReportsOfVisitsAgree, FiguresAgree DEF ReportsInv
<1>2. part = "payments" => RevenueAgrees
  BY RevenueIsOne DEF ReportsInv
<1>3. part = "lists" => ListsAgree
  BY ListsAreOne DEF ReportsInv
<1>4. part = "inbox" => HeaderCountsTheLists
  BY HeaderCounts DEF ReportsInv
<1>5. part = "subscriptions" => RowTellsVisibility
  BY RowTells DEF ReportsInv
<1>6. QED
  BY <1>1, <1>2, <1>3, <1>4, <1>5 DEF ReportsAgree

\* Whatever is saved, and in whatever order handlers overlap, the reports and the lists
\* of the administrators, a user's header and an owner's row agree with each other.
THEOREM ReportsStayAgreed == PlatformSafeSpec => []ReportsAgree
BY ReportsInit, ReportsStep, ReportsTell, PTL DEF PlatformSafeSpec

-----------------------------------------------------------------------------
(* The tasks of the beat and the import.                                   *)

LEMMA BeatRuns ==
    ASSUME [PlatformNext]_platformVars
    PROVE  /\ part' = part
           /\ part = "reminders" => [RemindersNext]_<<workerVars, reminderVars>>
           /\ part # "reminders" => UNCHANGED reminderVars
           /\ part = "slotgrid" => [SlotGridNext]_<<workerVars, gridVars>>
           /\ part # "slotgrid" => UNCHANGED gridVars
           /\ part = "import" => [ImportNext]_<<workerVars, importVars>>
           /\ part # "import" => UNCHANGED importVars
<1>1. part' = part
  BY DEF PlatformNext, platformVars
<1>2. /\ part = "reminders" => [RemindersNext]_<<workerVars, reminderVars>>
      /\ part # "reminders" => UNCHANGED reminderVars
  BY DEF PlatformNext, Only, platformVars
<1>3. /\ part = "slotgrid" => [SlotGridNext]_<<workerVars, gridVars>>
      /\ part # "slotgrid" => UNCHANGED gridVars
  BY DEF PlatformNext, Only, platformVars
<1>4. /\ part = "import" => [ImportNext]_<<workerVars, importVars>>
      /\ part # "import" => UNCHANGED importVars
  BY DEF PlatformNext, Only, platformVars
<1>5. QED
  BY <1>1, <1>2, <1>3, <1>4

NoneConfirmed == \A v \in Visits : visit[v].status # "confirmed"

BeatInv ==
    /\ IF part = "reminders" THEN BeatsReachVisits ELSE NoneConfirmed
    /\ IF part = "slotgrid" THEN GridIsWorkedOff ELSE GridIsFilled
    /\ IF part = "import" THEN CardsAreKept ELSE CardGoesWithRole /\ WrittenPasswordsOpen

LEMMA BeatInit == PlatformInit => BeatInv
<1> SUFFICES ASSUME PlatformInit PROVE BeatInv
  OBVIOUS
<1>1. BeatsReachVisits /\ GridIsWorkedOff /\ CardsAreKept
  BY BeatsInit, GridInit, CardsInit DEF PlatformInit
<1>2. NoneConfirmed
  BY DEF PlatformInit, RemindersInit, NoneConfirmed
<1>3. QED
  BY <1>1, <1>2 DEF BeatInv, GridIsWorkedOff, CardsAreKept

LEMMA BeatStep == BeatInv /\ [PlatformNext]_platformVars => BeatInv'
<1> SUFFICES ASSUME BeatInv, [PlatformNext]_platformVars PROVE BeatInv'
  OBVIOUS
<1>1. IF part' = "reminders" THEN BeatsReachVisits' ELSE NoneConfirmed'
  BY BeatRuns, BeatsStep DEF BeatInv, NoneConfirmed, reminderVars
<1>2. IF part' = "slotgrid" THEN GridIsWorkedOff' ELSE GridIsFilled'
  BY BeatRuns, GridStep DEF BeatInv, GridIsFilled, gridVars
<1>3. IF part' = "import" THEN CardsAreKept' ELSE CardGoesWithRole' /\ WrittenPasswordsOpen'
  BY BeatRuns, CardsStep DEF BeatInv, CardGoesWithRole, WrittenPasswordsOpen, Known, importVars
<1>4. QED
  BY <1>1, <1>2, <1>3 DEF BeatInv

LEMMA BeatKept == BeatInv => BeatKeepsUp
<1> SUFFICES ASSUME BeatInv PROVE BeatKeepsUp
  OBVIOUS
<1>1. RemindedInTime
  BY RemindedIfBeaten DEF BeatInv, NoneConfirmed, RemindedInTime
<1>2. GridIsFilled
  BY DEF BeatInv, GridIsWorkedOff
<1>3. CardGoesWithRole /\ WrittenPasswordsOpen
  BY DEF BeatInv, CardsAreKept
<1>4. QED
  BY <1>1, <1>2, <1>3 DEF BeatKeepsUp

\* Whichever run of a task dies, is skipped or overlaps the next: clients are reminded,
\* the hours have their windows, and masters taken over have their cards.
THEOREM BeatGoesOn == PlatformSafeSpec => []BeatKeepsUp
BY BeatInit, BeatStep, BeatKept, PTL DEF PlatformSafeSpec

-----------------------------------------------------------------------------
(* One at a time: limits and badges.                                       *)

LimitsInv ==
    /\ IF part = "ads" THEN PhotosAreCounted ELSE photos = 0
    /\ IF part = "support" THEN SupportSerial ELSE Opened = {}
    /\ IF part = "visitors" THEN VisitorIsKnown ELSE VisitsAreCountedOnce
    /\ IF part = "roadhelp" THEN RoadSerial ELSE \A a \in Drivers : OpenWithin(a)

LEMMA LimitsInit == PlatformInit => LimitsInv
<1> SUFFICES ASSUME PlatformInit PROVE LimitsInv
  OBVIOUS
<1>1. PhotosAreCounted /\ photos = 0
  BY PhotosInit DEF PlatformInit, AdsInit
<1>2. SupportSerial /\ Opened = {}
  BY SupportInitSound DEF PlatformInit, SupportInit, Opened, NoTicket
<1>3. VisitorIsKnown /\ VisitsAreCountedOnce
  BY VisitorInit DEF PlatformInit, VisitorIsKnown, VisitsAreCountedOnce
<1>4. RoadSerial /\ \A a \in Drivers : OpenWithin(a)
  BY RoadInit DEF PlatformInit, RoadSerial
<1>5. QED
  BY <1>1, <1>2, <1>3, <1>4 DEF LimitsInv

LEMMA LimitsStep ==
    ASSUME \A p, q \in Procs : p = q, MaxCrashes = 0, OneSetOfCities,
           LimitsInv, [PlatformNext]_platformVars
    PROVE  LimitsInv'
<1>1. IF part' = "ads" THEN PhotosAreCounted' ELSE photos' = 0
  BY MarketRuns, PhotosStep DEF LimitsInv, adVars
<1>2. IF part' = "support" THEN SupportSerial' ELSE Opened' = {}
  BY ConversationsRun, SupportStepKeeps DEF LimitsInv, supportVars, Opened
<1>3. IF part' = "visitors" THEN VisitorIsKnown' ELSE VisitsAreCountedOnce'
  BY MarketRuns, VisitorStepKeeps DEF LimitsInv, visitorVars, VisitsAreCountedOnce
<1>4. IF part' = "roadhelp" THEN RoadSerial' ELSE \A a \in Drivers : OpenWithin(a)'
  BY ConversationsRun, RoadStepKeeps DEF LimitsInv, roadVars, OpenWithin, OpenOf, OpenPosts, Posted
<1>5. QED
  BY <1>1, <1>2, <1>3, <1>4 DEF LimitsInv

LEMMA LimitsKept == LimitsInv => LimitsHold /\ UnreadIffUnshown
<1> SUFFICES ASSUME LimitsInv
             PROVE  /\ PhotosWithinLimit /\ TicketsWithinLimit /\ VisitsAreCountedOnce
                    /\ OpenWithinLimit /\ UnreadIffUnshown
  BY DEF LimitsHold
<1>1. PhotosWithinLimit
  BY AdsAssumption DEF LimitsInv, PhotosAreCounted, PhotosWithinLimit
<1>2. TicketsWithinLimit
  <2>1. CASE Opened = {}
    <3>1. ASSUME NEW now \in Stamps
          PROVE  Cardinality({t \in Opened : ticket[t].made \in (now - Hour) + 1..now}) <= TicketLimit
      <4>1. {t \in Opened : ticket[t].made \in (now - Hour) + 1..now} = {}
        BY <2>1
      <4>2. TicketLimit \in Nat
        BY SupportAssumption
      <4>3. QED
        BY <4>1, <4>2, FS_EmptySet
    <3>2. QED
      BY <3>1 DEF TicketsWithinLimit
  <2>2. QED
    BY <2>1, HoursAreWithinLimit DEF LimitsInv
<1>3. VisitsAreCountedOnce
  BY DEF LimitsInv, VisitorIsKnown, VisitsAreCountedOnce
<1>4. UnreadIffUnshown
  BY BadgeIsExact DEF LimitsInv, UnreadIffUnshown, UnreadForUser
<1>5. OpenWithinLimit
  BY OpenIsWithinLimit DEF LimitsInv, OpenWithinLimit, OpenWithin
<1>6. QED
  BY <1>1, <1>2, <1>3, <1>4, <1>5

\* One at a time, and with one set of cities on every list, the limits hold, and the
\* badge of the cabinet is exact.
THEOREM LimitsAreKept ==
    ASSUME \A p, q \in Procs : p = q, MaxCrashes = 0, OneSetOfCities
    PROVE  PlatformSafeSpec => [](LimitsHold /\ UnreadIffUnshown)
<1>1. LimitsInv /\ [PlatformNext]_platformVars => LimitsInv'
  BY LimitsStep DEF platformVars
<1>2. QED
  BY <1>1, LimitsInit, LimitsKept, PTL DEF PlatformSafeSpec

-----------------------------------------------------------------------------
(* One at a time: what was closed.                                         *)

ClosedInv ==
    /\ part = "chats" => RoomIsOpen
    /\ part = "reviews" => EditKnowsTheStatus
    /\ part = "support" => SupportSerial
    /\ part = "roadhelp" => RoadSerial

LEMMA ClosedInit == PlatformInit => ClosedInv
BY RoomInit, ReviewInit, SupportInitSound, RoadInit DEF PlatformInit, ClosedInv

LEMMA ClosedStep ==
    ASSUME \A p, q \in Procs : p = q, MaxCrashes = 0, ClosedInv, [PlatformNext]_platformVars
    PROVE  ClosedInv'
<1>1. part' = "chats" => RoomIsOpen'
  BY ConversationsRun, RoomStep DEF ClosedInv
<1>2. part' = "reviews" => EditKnowsTheStatus'
  BY ConversationsRun, ReviewStepKeeps DEF ClosedInv
<1>3. part' = "support" => SupportSerial'
  BY ConversationsRun, SupportStepKeeps DEF ClosedInv
<1>4. part' = "roadhelp" => RoadSerial'
  BY ConversationsRun, RoadStepKeeps DEF ClosedInv
<1>5. QED
  BY <1>1, <1>2, <1>3, <1>4 DEF ClosedInv

\* The first three actions of WhatIsClosedStays, HelperKept being the fourth.
QuietIfOver == kind = "booking" /\ booking.over => InState("sent")' = InState("sent")
HiddenStays == review.status = "hidden" /\ review'.status # "hidden" => \E p \in Procs : ReviewPublish(p)
SettledUntilOpened ==
    \A t \in Tickets :
        ticket[t].status \in {"resolved", "closed"} /\ ticket'[t].status \in {"open", "in_progress"}
            => \E p \in Procs : SetTicketStatus(p, t, "open")

LEMMA ClosedStays ==
    ASSUME \A p, q \in Procs : p = q, ClosedInv, [PlatformNext]_platformVars
    PROVE  /\ [QuietIfOver]_chatVars /\ [HiddenStays]_reviewVars
           /\ [SettledUntilOpened]_supportVars /\ [HelperKept]_roadVars
<1>1. [QuietIfOver]_chatVars
  BY ConversationsRun, QuietStep DEF ClosedInv, QuietIfOver
<1>2. [HiddenStays]_reviewVars
  BY ConversationsRun, ReviewStepKeeps DEF ClosedInv, HiddenStays
<1>3. [SettledUntilOpened]_supportVars
  BY ConversationsRun, SettledStep DEF ClosedInv, SettledUntilOpened
<1>4. [HelperKept]_roadVars
  BY ConversationsRun, RoadStepKeeps DEF ClosedInv
<1>5. QED
  BY <1>1, <1>2, <1>3, <1>4

\* One at a time, nothing is said in a room whose visit is over, a hidden review
\* comes back by a publication only, a settled ticket by a decision of the staff, and
\* a call for help stays with who has answered it, the only one told the telephone.
THEOREM ClosedStaysClosed ==
    ASSUME \A p, q \in Procs : p = q, MaxCrashes = 0
    PROVE  PlatformSafeSpec => WhatIsClosedStays
<1>1. ClosedInv /\ [PlatformNext]_platformVars => ClosedInv'
  BY ClosedStep DEF platformVars
<1>2. ClosedInv /\ [PlatformNext]_platformVars
        => /\ [QuietIfOver]_chatVars /\ [HiddenStays]_reviewVars
           /\ [SettledUntilOpened]_supportVars /\ [HelperKept]_roadVars
  BY ClosedStays DEF platformVars
<1>3. PlatformSafeSpec => [][QuietIfOver]_chatVars /\ [][HiddenStays]_reviewVars
                            /\ [][SettledUntilOpened]_supportVars /\ [][HelperKept]_roadVars
  BY <1>1, <1>2, ClosedInit, PTL DEF PlatformSafeSpec
<1>4. QED
  BY <1>3 DEF WhatIsClosedStays, ClosedRoomIsQuiet, HiddenUntilPublished, SettledStays,
     HelperStays, QuietIfOver, HiddenStays, SettledUntilOpened, HelperKept

-----------------------------------------------------------------------------
(* One at a time: owners and their contacts.                               *)

OwnersInv ==
    /\ IF part = "accounts" THEN OneOfHisOwn ELSE OnboardedOnce
    /\ IF part = "contacts" THEN NumberIsInForce ELSE ContactIsInForce /\ contact.number = inForce
    /\ IF part = "signin" THEN SignInSerial ELSE BoxesDiffer /\ LinkIsLast

LEMMA OwnersInit == PlatformInit => OwnersInv
<1> SUFFICES ASSUME PlatformInit PROVE OwnersInv
  OBVIOUS
<1>1. OneOfHisOwn /\ OnboardedOnce
  BY OwnInit, OwnIsOne DEF PlatformInit
<1>2. NumberIsInForce /\ ContactIsInForce /\ contact.number = inForce
  BY NumberInit DEF PlatformInit, NumberIsInForce, ContactIsInForce
<1>3. SignInSerial /\ BoxesDiffer /\ LinkIsLast
  BY SignInInitSound DEF PlatformInit, SignInSerial
<1>4. QED
  BY <1>1, <1>2, <1>3 DEF OwnersInv

LEMMA OwnersStep ==
    ASSUME \A p, q \in Procs : p = q, OwnersInv, [PlatformNext]_platformVars
    PROVE  OwnersInv'
<1>1. IF part' = "accounts" THEN OneOfHisOwn' ELSE OnboardedOnce'
  BY UsersRun, OwnStepKeeps DEF OwnersInv, accountVars, OnboardedOnce, Made
<1>2. IF part' = "contacts" THEN NumberIsInForce' ELSE (ContactIsInForce /\ contact.number = inForce)'
  BY UsersRun, NumberStepKeeps DEF OwnersInv, contactVars, ContactIsInForce
<1>3. IF part' = "signin" THEN SignInSerial' ELSE (BoxesDiffer /\ LinkIsLast)'
  BY UsersRun, SignInStepKeeps DEF OwnersInv, signInVars, BoxesDiffer, BoxIsFree, LinkIsLast
<1>4. QED
  BY <1>1, <1>2, <1>3 DEF OwnersInv

LEMMA OwnersKept == OwnersInv => OnboardedOnce /\ ContactsAreTheirs
<1> SUFFICES ASSUME OwnersInv
             PROVE  OnboardedOnce /\ ContactIsInForce /\ MailboxesDiffer /\ OnlyTheLastLetterConfirms
  BY DEF ContactsAreTheirs
<1>1. OnboardedOnce
  BY OwnIsOne DEF OwnersInv
<1>2. ContactIsInForce
  BY NumberHolds DEF OwnersInv
<1>3. BoxesDiffer /\ LinkIsLast
  BY DEF OwnersInv, SignInSerial
<1>4. QED
  BY <1>1, <1>2, <1>3, BoxesAreTheirs

LEMMA ConsentStays ==
    ASSUME [PlatformNext]_platformVars
    PROVE  [consent \subseteq consent']_consentVars
BY UsersRun, ConsentsAreKept

\* One at a time, the number in force is the one its holder gave or an administrator
\* approved, no two accounts hold one mailbox, and only the last letter confirms.
THEOREM ContactsStayTheirs ==
    ASSUME \A p, q \in Procs : p = q
    PROVE  PlatformSafeSpec => []ContactsAreTheirs
<1>1. OwnersInv /\ [PlatformNext]_platformVars => OwnersInv'
  BY OwnersStep DEF platformVars
<1>2. QED
  BY <1>1, OwnersInit, OwnersKept, PTL DEF PlatformSafeSpec

\* One at a time, an account is given one station of its own; and whatever overlaps,
\* no consent is taken back.
THEOREM OwnersStayAdmitted ==
    ASSUME \A p, q \in Procs : p = q
    PROVE  PlatformSafeSpec => OwnerStaysAdmitted
<1>1. OwnersInv /\ [PlatformNext]_platformVars => OwnersInv'
  BY OwnersStep DEF platformVars
<1>2. [PlatformNext]_platformVars => [consent \subseteq consent']_consentVars
  BY ConsentStays DEF platformVars
<1>3. PlatformSafeSpec => []OnboardedOnce /\ [][consent \subseteq consent']_consentVars
  BY <1>1, <1>2, OwnersInit, OwnersKept, PTL DEF PlatformSafeSpec
<1>4. QED
  BY <1>3 DEF OwnerStaysAdmitted, ConsentIsKept
=============================================================================

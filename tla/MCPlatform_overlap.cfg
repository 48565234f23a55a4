SPECIFICATION PlatformSafeSpec
CONSTANTS
    PartsChosen = {"wallet", "subscriptions", "calls", "chats", "ads", "antifraud", "reviews",
                   "accounts", "contacts", "toasts", "reminders", "slotgrid", "signin", "reveals", "roadhelp",
                   "visits", "payments", "lists", "catalogue", "freewindows",
                   "board", "visitors", "import", "inbox"}
    RoadPosts = {1}
    Drivers = {d1, d2, d3}
    Masters = {d1, d2}
    NoDriver = NoDriver
    MostHelp = 1
    WeekSpan = 1
    MonthLength = 2
    MonthsShown = 1
    WeekLength = 2
    Procs = {p1, p2}
    MaxCrashes = 1
    Withdrawals = {w1, w2}
    MaxReleased = 2
    Payments = {e1, e2}
    Period = 2
    MaxDay = 3
    MaxFaults = 1
    Users = {u1, u2}
    CallIds = {c1}
    NoCall = NoCall
    MaxDrops = 1
    ChatMessages = {m1}
    ChatKinds = {"ad"}
    MaxThreads = 1
    MaxLost = 0
    Reporters = {u1, u2}
    ReportLimit = 2
    PhotoLimit = 2
    Photos = {1, 2}
    Sellers = {u1, u2}
    Pictures = {cat, dog}
    Unreadable = Unreadable
    Complaints = {c1, c2}
    StationIds = {s1}
    NoStation = NoStation
    Numbers = {n1, n2}
    NoNumber = NoNumber
    PhoneRequests = {1, 2}
    Toasts = {1, 2}
    ToastLimit = 1
    Visits = {v1}
    VisitStart <- MCVisitStart
    MaxClock = 6
    ClosingTime = 3
    HoursOnOffer <- MCHoursOnOffer
    DefaultHours <- MCDefaultHours
    NoHours = NoHours
    Members = {m1, m2}
    NoMember = NoMember
    Mailboxes = {a1, a2}
    NoAddress = NoAddress
    VkIds = {v1}
    MaxLetters = 0
    Editions = {1, 2}
    SeedEdition = 1
    Texts = {old, new}
    NoText = NoText
    MaxDeployDay = 1
    Tickets = {1, 2}
    TicketLimit = 1
    Hour = 2
    HourLimit = 2
    DayLimit = 3
    Clients = {k1}
    VisitIds = {1}
    Garages = {g1}
    ReportSpan = 1
    MaxReportDay = 2
    MaxSaves = 4
    Intents = {1, 2}
    Payers = {g1, g2}
    RevenueSpan = 1
    MaxPayDay = 2
    ErpUsers = {k1}
    ErpStations = {g1}
    PageLimit = 1
    SheetLimit = 2
    MaxRows = 3
    MaxStamp = 5
    Cards = {s1, s2}
    NoCard = NoCard
    k1 = k1
    x1 = x1
    x2 = x2
    b1 = b1
    b2 = b2
    t1 = t1
    Categories = {k1}
    Sections = {x1, x2}
    SectionOf <- MCSectionOf
    Brands = {b1, b2}
    PopularBrands = {b1}
    Cities = {t1}
    Nothing = Nothing
    ServicesOnOffer <- MCServicesOnOffer
    Windows = {1, 2, 3}
    WindowStart <- MCWindowStart
    DayLength = 4
    Ahead = 2
    MaxHour = 9
    MaxAds = 2
    Traders = {r1, r2}
    NoTrader = NoTrader
    g1 = g1
    Groups = {g1}
    NoGroup = NoGroup
    MaxAsked = 2
    FormsOnOffer <- MCFormsOnOffer
    VisitedAds = {a1, a2}
    FavouriteAds = {a1}
    Reviewers = {r1}
    Stars = {5}
    NoOpinion = NoOpinion
    CityLists <- MCOneCity
    NoCity = NoCity
    y1 = y1
    y2 = y2
    MaxViews = 1
    f1 = f1
    f2 = f2
    Phones = {f1, f2}
    NoPhone = NoPhone
    ImportLists <- MCImportLists
    Services = {1, 2}
    MaxQuoted = 1
    Makes = {b1, b2}
    MaxImports = 2
    Conversations = {1, 2}
    MaxPosts = 2
    Registrations = {"driver", "autoservice"}
INVARIANTS
    PlatformTypeOK
    MoneyIsDecided
    OwnCallOnly
    AdsAreInOrder
    StationComesOnByRight
    BeatKeepsUp
    NumbersAreKept
    
    VkEntersOneAccount
    CatalogueAgrees
CHECK_DEADLOCK FALSE

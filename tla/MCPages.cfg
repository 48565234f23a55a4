SPECIFICATION PagesSpec
CONSTANTS
    Mine = {o1}
    Masked = {}
    Theirs = {o2, o3}
    NoMessage = NoMessage
    SocketWorks = FALSE
    SendLimit = 1
    MaxCloses = 0
    Approved = TRUE
    Works = {"user"}
    MaxUnread = 1
    Ads = {a1}
    Tabs = {p1, p2}
    Flights = {f1, f2}
    NoTab = NoTab
    MaxDue = 2
    w1 = w1
    w2 = w2
    w3 = w3
    w4 = w4
    w5 = w5
    Words = {w1, w2, w3, w4, w5}
    NoiseWords = {w4}
    Forms <- MCForms
    Likeness <- MCLikeness
    ServiceNames <- MCServiceNames
    Aliases <- MCAliases
    PhraseFiles <- MCPhraseFiles
    PhraseTexts <- MCPhraseTexts
    PhraseWeights = {1, 10}
    Shops = {1, 2}
    ShopText <- MCShopText
    ShopServices <- MCShopServices
    Asks <- MCAsks
    NoAnswer = NoAnswer
    ServiceLimit = 1
    ShopLimit = 2
    CandidateLimit = 1
    MaxEdits = 1
INVARIANTS
    PagesTypeOK
    SearchAnswers
PROPERTIES
    EveryoneLands
    
    NumbersAreGuarded
CHECK_DEADLOCK FALSE

------------------------------- MODULE AdBoard -------------------------------
(***************************************************************************)
(* Where the ads are found: the board with its tabs and its filter of      *)
(* prices, the page of an ad with what is similar and the way back, the    *)
(* pages of sellers and shops (classifieds/views.py, detail_schema.py),    *)
(* and the counts of the administrators (erp_stats.py), over the rows that *)
(* AdForm saves.                                                           *)
(*                                                                         *)
(* Of the many filters by an equal column the model has one, the category  *)
(* of a part and the brand of a car.  Keys come in the order of creation,  *)
(* which is the order of the lists.  Ads tells who may publish what.       *)
(***************************************************************************)
EXTENDS Integers, Sequences, FiniteSets

CONSTANTS MaxAds,
          Traders,      \* users who sell
          NoTrader,
          Groups,       \* part categories and car brands
          NoGroup,
          MaxAsked,     \* the highest price
          FormsOnOffer  \* what sellers may post, nonsense included

NoPrice == -1  \* NULL
AskingPrices == 0..MaxAsked
AdForm == [kind : {"part", "car"}, deal : {"sale", "rent"}, vehicle : {"", "car", "special"},
           price : AskingPrices, hour : AskingPrices \cup {NoPrice}, day : AskingPrices \cup {NoPrice},
           category : Groups \cup {NoGroup}, brand : Groups \cup {NoGroup}]
BoardRow == [form : AdForm, seller : Traders, shop : Traders \cup {NoTrader}, published : BOOLEAN]

ASSUME AdBoardAssumption ==
    /\ MaxAds \in Nat /\ MaxAsked \in Nat
    /\ NoTrader \notin Traders /\ NoGroup \notin Groups
    /\ FormsOnOffer \subseteq AdForm

VARIABLES board,  \* Ad rows by primary key, 1..MaxAds at most
          shops,  \* the traders with an AutoShopProfile
          groups  \* the categories and brands that there are

boardVars == <<board, shops, groups>>

BoardInit == board = << >> /\ shops = {} /\ groups = Groups

-----------------------------------------------------------------------------
\* AdForm.clean: what it refuses, and what it takes off.
\* Mutant: a rent of nothing in particular.
AcceptedWithoutVehicle(f) ==
    f.kind = "car" =>
        /\ f.deal = "sale" => f.price > 0
        /\ f.deal = "rent" => f.hour > 0 \/ f.day > 0
Accepted(f) ==
    f.kind = "car" =>
        /\ f.deal = "sale" => f.price > 0
        /\ f.deal = "rent" => f.vehicle # "" /\ (f.hour > 0 \/ f.day > 0)

Unrented(f) == [f EXCEPT !.vehicle = "", !.hour = NoPrice, !.day = NoPrice]
Cleaned(f) ==
    CASE f.kind = "part" -> [Unrented(f) EXCEPT !.deal = "sale", !.brand = NoGroup]
      [] f.kind = "car" /\ f.deal = "sale" -> [Unrented(f) EXCEPT !.category = NoGroup]
      [] OTHER -> [f EXCEPT !.category = NoGroup, !.price = 0]

Postable == {Cleaned(f) : f \in {g \in FormsOnOffer : Accepted(g) /\ {g.category, g.brand} \subseteq groups \cup {NoGroup}}}

\* MyAdCreateView: the ad of a user with a shop is the shop's.
\* Mutant: it is the shop's that there is.
ShopOfAny(u) == IF shops = {} THEN NoTrader ELSE CHOOSE s \in shops : TRUE
ShopOf(u) == IF u \in shops THEN u ELSE NoTrader
BoardAdPosted ==
    /\ Len(board) < MaxAds
    /\ \E u \in Traders, form \in Postable, published \in BOOLEAN :
          board' = Append(board, [form |-> form, seller |-> u, shop |-> ShopOf(u), published |-> published])
    /\ UNCHANGED <<shops, groups>>

\* MyAdUpdateView leaves seller and shop as they are.
BoardAdEdited ==
    /\ \E a \in DOMAIN board, form \in Postable, published \in BOOLEAN :
          board' = [board EXCEPT ![a].form = form, ![a].published = published]
    /\ UNCHANGED <<shops, groups>>

\* MyAdUnpublishView, or the reports.
BoardAdWithdrawn ==
    /\ \E a \in DOMAIN board : board' = [board EXCEPT ![a].published = FALSE]
    /\ UNCHANGED <<shops, groups>>

\* A user becomes a shop; an administrator deletes it, or a category or brand.
ShopOpened == \E u \in Traders : shops' = shops \cup {u} /\ UNCHANGED <<board, groups>>

Without(g, held) == IF held = g THEN NoGroup ELSE held
ShopDeleted ==
    \E u \in shops :
        /\ shops' = shops \ {u}
        /\ board' = [a \in DOMAIN board |-> IF board[a].shop = u THEN [board[a] EXCEPT !.shop = NoTrader] ELSE board[a]]
        /\ UNCHANGED groups
GroupDeleted ==
    \E g \in groups :
        /\ groups' = groups \ {g}
        /\ board' = [a \in DOMAIN board |-> [board[a] EXCEPT !.form.category = Without(g, @), !.form.brand = Without(g, @)]]
        /\ UNCHANGED shops

BoardNext ==
    BoardAdPosted \/ BoardAdEdited \/ BoardAdWithdrawn \/ ShopOpened \/ ShopDeleted \/ GroupDeleted

BoardSpec == BoardInit /\ [][BoardNext]_boardVars

-----------------------------------------------------------------------------
OnSite == {a \in DOMAIN board : board[a].published}

\* The four lists: parts, and cars by deal.
Deals == {"sale", "rent_car", "rent_special"}
BoardFilters ==
    [tab : {"part", "car"}, deal : Deals, min : AskingPrices \cup {NoPrice}, max : AskingPrices \cup {NoPrice},
     group : Groups \cup {NoGroup}]
Tab(tab, deal) == [tab |-> tab, deal |-> deal, min |-> NoPrice, max |-> NoPrice, group |-> NoGroup]
\* ClassifiedCarDealListSitemap.
DealPages == {Tab("car", d) : d \in Deals}
Tabs == {Tab("part", "sale")} \cup DealPages

OfDeal(f, deal) ==
    CASE deal = "sale" -> f.deal = "sale"
      [] deal = "rent_car" -> f.deal = "rent" /\ f.vehicle = "car"
      [] OTHER -> f.deal = "rent" /\ f.vehicle = "special"

\* A column that is NULL is in no range.
InRange(price, min, max) ==
    /\ min # NoPrice => price # NoPrice /\ price >= min
    /\ max # NoPrice => price # NoPrice /\ price <= max

\* The price a filter is about.  Mutant: the price of sale, whatever the deal.
SalePrice(f, filter) == f.price
PriceAsked(f, filter) == IF filter.tab = "car" /\ filter.deal # "sale" THEN f.day ELSE f.price

\* The category of a filter need not exist, a brand that does not is no filter.
OfGroup(f, filter) ==
    filter.group # NoGroup =>
        IF filter.tab = "part" THEN f.category = filter.group
        ELSE filter.group \in groups => f.brand = filter.group

\* AdsListView.get_queryset.
OnList(a, filter) ==
    LET f == board[a].form
    IN  /\ a \in OnSite /\ f.kind = filter.tab
        /\ filter.tab = "car" => OfDeal(f, filter.deal)
        /\ InRange(PriceAsked(f, filter), filter.min, filter.max)
        /\ OfGroup(f, filter)
ListedOn(filter) == {a \in OnSite : OnList(a, filter)}

\* sort=price_asc: is a listed before b?
Cheaper(a, b) ==
    LET p == board[a].form.price
        q == board[b].form.price
    IN  p < q \/ (p = q /\ a > b)

\* AdDetailView: the prices it prints and gives to search engines, the ads that
\* are like it, and the list its breadcrumbs lead to.
Offers(a) ==
    LET f == board[a].form
    IN  IF f.kind = "car" /\ f.deal = "rent" THEN {f.hour, f.day} \ {NoPrice, 0} ELSE {f.price}

SameGroup(f, g) ==
    CASE f.kind = "part" /\ f.category # NoGroup -> g.category = f.category
      [] f.kind = "car" /\ f.brand # NoGroup -> g.brand = f.brand
      [] OTHER -> TRUE
\* Bound: no more than the eight the page shows.
Similar(a) ==
    {b \in OnSite \ {a} : board[b].form.kind = board[a].form.kind /\ SameGroup(board[a].form, board[b].form)}

\* Mutant: a rent is a rent of cars.
WayBackOfCars(a) ==
    LET f == board[a].form
    IN  IF f.kind = "car" THEN Tab("car", IF f.deal = "rent" THEN "rent_car" ELSE "sale") ELSE Tab("part", "sale")
WayBack(a) ==
    LET f == board[a].form
    IN  IF f.kind = "part" THEN Tab("part", "sale")
        ELSE Tab("car", IF f.deal # "rent" THEN "sale"
                        ELSE IF f.vehicle = "special" THEN "rent_special" ELSE "rent_car")

SellerPage(u) == {a \in OnSite : board[a].seller = u}
ShopPage(u) == {a \in OnSite : board[a].shop = u}
ShopProducts(u) == {a \in DOMAIN board : board[a].shop = u}
\* MapPlacesAPIView: shops with an ad of the brand.  Every shop has a location.
\* Mutant: whether or not the ad is on the site.
ShopsOnMapAnyhow(b) == {u \in shops : \E a \in DOMAIN board : board[a].shop = u /\ board[a].form.brand = b}
ShopsOnMap(b) == {u \in shops : \E a \in OnSite : board[a].shop = u /\ board[a].form.brand = b}
MyAds(u) == {a \in DOMAIN board : board[a].seller = u}

\* platform_classifieds_stats_context.
ActivePublished(kind) == {a \in OnSite : board[a].form.kind = kind}

\* What the address of the list asks for, and the one search engines are told of.
TabAsked(tab, deal) ==
    IF tab = "car" THEN Tab("car", IF deal \in Deals THEN deal ELSE "sale") ELSE Tab("part", "sale")
CanonicalTab(tab, deal) ==
    CASE tab = "part" -> [tab |-> "part", deal |-> ""]
      [] tab = "car" -> [tab |-> "car", deal |-> IF deal \in Deals THEN deal ELSE "sale"]
      [] OTHER -> [tab |-> "", deal |-> ""]

-----------------------------------------------------------------------------
AdBoardTypeOK ==
    /\ Len(board) <= MaxAds /\ \A a \in DOMAIN board : board[a] \in BoardRow
    /\ shops \subseteq Traders /\ groups \subseteq Groups

\* However an ad is edited from a part to a car and from sale to rent, and whatever
\* is deleted under it, it is on one list of the board, the one its page leads back
\* to; the counts of the administrators are of the ads that are listed, and the
\* address search engines are told of has the list of the one that was asked for.
OnOneList ==
    /\ \A a \in OnSite : {t \in Tabs : OnList(a, t)} = {WayBack(a)}
    /\ ActivePublished("car") = UNION {ListedOn(page) : page \in DealPages}
    /\ \A tab \in {"part", "car", "", "?"}, deal \in Deals \cup {"", "?"} :
          LET c == CanonicalTab(tab, deal)
          IN  ListedOn(TabAsked(c.tab, c.deal)) = ListedOn(TabAsked(tab, deal))

\* An ad that a range of prices finds prints a price in that range, an ad of a car
\* prints some price, and one whose prices are all in the range is found on its list,
\* unless it is rented out by the hour only.
PricesArePrinted ==
    \A filter \in {f \in BoardFilters : f.group = NoGroup} :
        /\ filter.min > 0 \/ filter.deal = "sale" =>
              \A a \in ListedOn(filter) : \E p \in Offers(a) : InRange(p, filter.min, filter.max)
        /\ \A a \in OnSite :
              LET f == board[a].form
              IN  /\ f.kind = "car" => \E p \in Offers(a) : p > 0
                  /\ /\ OnList(a, Tab(filter.tab, filter.deal))
                     /\ \A p \in Offers(a) : InRange(p, filter.min, filter.max)
                     => (f.deal = "rent" /\ f.day <= 0) \/ OnList(a, filter)

\* A shop sells what its owner sells, on its page as in its cabinet; what a trader
\* has posted before is his and not the shop's.  One that the map shows for a brand
\* has an ad of that brand to show.
ShopSellsItsOwners ==
    \A u \in Traders :
        /\ ShopPage(u) \subseteq SellerPage(u) /\ ShopProducts(u) \subseteq MyAds(u)
        /\ u \notin shops => ShopProducts(u) = {}
        /\ \A b \in Groups : u \in ShopsOnMap(b) =>
              \E a \in ShopPage(u) : board[a].form.brand = b

\* Refuted by TLC (see README): the list of rents is sorted by the price that its
\* filter and its cards speak of.
SortedByPriceAsked ==
    \A t \in Tabs : \A a, b \in ListedOn(t) :
        PriceAsked(board[a].form, t) < PriceAsked(board[b].form, t) => Cheaper(a, b)
=============================================================================

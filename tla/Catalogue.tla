----------------------------- MODULE Catalogue -----------------------------
(***************************************************************************)
(* What a visitor finds: the catalogue and its filters                     *)
(* (stations/catalog_query.py, catalog_city.py), the places of the map     *)
(* (core/map_api.py), the landing pages of categories, sections and brands *)
(* with the links they print (stations/landing.py, catalog_redirect.py)    *)
(* and the tiles of the home page (stations/homepage.py), over the cards   *)
(* the owners and the staff edit (owner_views.py, erp/views.py).           *)
(*                                                                         *)
(* A card's city is the one its district or its address names.  The        *)
(* filters the map does not know (free today, verified, rating, amenities, *)
(* the text of a search) are left out.                                     *)
(***************************************************************************)
EXTENDS Naturals, FiniteSets

CONSTANTS Cards,         \* primary keys of ServiceStation rows
          NoCard,
          Categories,
          Sections,
          SectionOf,     \* the section of each category
          Brands,
          PopularBrands,
          Cities,
          Nothing,       \* a filter that is not set, a city that is not known
          ServicesOnOffer \* what an owner may tick: categories, sections, brands, all brands,
                          \* the brands the text of the card names

ASSUME CatalogueAssumption ==
    /\ NoCard \notin Cards /\ PopularBrands \subseteq Brands
    /\ SectionOf \in [Categories -> Sections]
    /\ Nothing \notin Categories \cup Sections \cup Brands \cup Cities
    /\ ServicesOnOffer \subseteq
           [categories : SUBSET Categories, sections : SUBSET Sections, brands : SUBSET Brands,
            all : BOOLEAN, named : SUBSET Brands]

VARIABLE card

catalogueVars == <<card>>

Kinds == {"sto", "private"}
Card == [kind : Kinds, parent : Cards \cup {NoCard}, listed : BOOLEAN, located : BOOLEAN,
         city : Cities \cup {Nothing}, services : ServicesOnOffer]

Missing == [listed |-> FALSE]
Present == {s \in Cards : card[s] # Missing}

CatalogueInit == card = [s \in Cards |-> Missing]

-----------------------------------------------------------------------------
\* The card a registration makes; the geocoder may or may not know its address.
CardRegister ==
    \E s \in Cards \ Present, kind \in Kinds, located \in BOOLEAN, bare \in ServicesOnOffer :
        /\ bare.categories = {} /\ bare.sections = {} /\ bare.brands = {} /\ ~bare.all
        /\ card' = [card EXCEPT ![s] =
               [kind |-> kind, parent |-> NoCard, listed |-> TRUE, located |-> located,
                city |-> Nothing, services |-> bare]]

\* StationProfileEditView, StationBrandsUpdateView.
ProfileEdit ==
    \E s \in Present, services \in ServicesOnOffer, kind \in Kinds, city \in Cities \cup {Nothing} :
        card' = [card EXCEPT ![s].services = services, ![s].kind = kind, ![s].city = city]

\* MasterCreateView: a master of a service starts from what the service has.
MasterCreate ==
    \E m \in Cards \ Present, s \in Present, services \in ServicesOnOffer, located \in BOOLEAN :
        /\ card[s].kind = "sto"
        /\ card' = [card EXCEPT ![m] =
               [kind |-> "private", parent |-> s, listed |-> card[s].listed, located |-> located,
                city |-> card[s].city, services |-> services]]

\* master_inherit: the brands and the address of the service, not its services.
\* Bound: to what is on offer.
BrandsInherit ==
    \E m \in Present :
        LET of == card[card[m].parent]
            new == [card[m].services EXCEPT !.brands = of.services.brands, !.all = of.services.all]
        IN  /\ card[m].kind = "private" /\ card[m].parent # NoCard
            /\ new \in ServicesOnOffer
            /\ card' = [card EXCEPT ![m].city = of.city, ![m].services = new]

\* master_delete.
MasterDelete ==
    \E m \in Present :
        /\ card[m].kind = "private" /\ card[m].parent # NoCard
        /\ card' = [s \in Cards |->
               IF s = m THEN Missing
               ELSE IF card[s] # Missing /\ card[s].parent = m THEN [card[s] EXCEPT !.parent = NoCard] ELSE card[s]]

\* The subscription, the ERP, the point on the map.
Moderate ==
    \E s \in Present, listed, located \in BOOLEAN :
        card' = [card EXCEPT ![s].listed = listed, ![s].located = located]

CatalogueNext ==
    \/ CardRegister \/ ProfileEdit \/ MasterCreate \/ BrandsInherit \/ MasterDelete \/ Moderate

CatalogueSpec == CatalogueInit /\ [][CatalogueNext]_catalogueVars

-----------------------------------------------------------------------------
\* visible_in_catalog.
InListing == {s \in Cards : card[s].listed}
InCity(c) == {s \in InListing : c = Nothing \/ card[s].city = c}

\* A card answers to a section by a category of it or by the section itself.
InSection(s, x) ==
    \/ x \in card[s].services.sections
    \/ \E c \in card[s].services.categories : SectionOf[c] = x

WorksOn(s, b) == card[s].services.all \/ b \in card[s].services.brands

Filters == [exec : SUBSET Kinds, cats : SUBSET Categories, section : Sections \cup {Nothing},
            brand : Brands \cup {Nothing}, city : Cities \cup {Nothing}]
NoFilter == [exec |-> {}, cats |-> {}, section |-> Nothing, brand |-> Nothing, city |-> Nothing]

\* build_catalog_queryset.
InCatalogue(s, f) ==
    /\ s \in InCity(f.city)
    /\ f.exec # {} => card[s].kind \in f.exec
    /\ f.cats # {} => f.cats \cap card[s].services.categories # {}
    /\ f.section # Nothing => InSection(s, f.section)
    /\ f.brand # Nothing => WorksOn(s, f.brand) \/ f.brand \in card[s].services.named
Found(f) == {s \in Cards : InCatalogue(s, f)}

\* MapPlacesAPIView, with the filters that the catalogue hands to its map.
\* Mutant: a card that is not in the catalogue.
OnMapUnlisted(s, f) ==
    /\ s \in Present /\ card[s].located
    /\ f.exec # {} => card[s].kind \in f.exec
    /\ f.cats # {} => f.cats \cap card[s].services.categories # {}
    /\ f.section # Nothing => InSection(s, f.section)
    /\ f.brand # Nothing => WorksOn(s, f.brand)
\* The types of place that stand for a choice of executors.
MapTypes(exec) ==
    IF exec = {} THEN {"sto", "master"}
    ELSE {IF k = "sto" THEN "sto" ELSE "master" : k \in exec}
MapKind(type) == IF type = "sto" THEN "sto" ELSE "private"
OnMap(s, f) ==
    LET types == MapTypes(f.exec)
    IN  /\ s \in InListing /\ card[s].located
        /\ card[s].kind \in {MapKind(t) : t \in types}
        /\ "master" \notin types => card[s].parent = NoCard
        /\ "sto" \notin types => card[s].parent # NoCard
        /\ f.section # Nothing => InSection(s, f.section)
        /\ f.cats # {} => f.cats \cap card[s].services.categories # {}
        /\ f.brand # Nothing => WorksOn(s, f.brand)
Places(f) == {s \in Cards : OnMap(s, f)}

\* list_nearby_stations, wide enough.
Nearby == {s \in InListing : card[s].located}

-----------------------------------------------------------------------------
\* The landing pages: who they count, and where their links lead.
CategoryProviders(c, city) == {s \in InCity(city) : c \in card[s].services.categories}
\* Mutant: a count that forgets the city.
SectionProvidersAnywhere(x, city) == {s \in InListing : InSection(s, x)}
SectionProviders(x, city) == {s \in InCity(city) : InSection(s, x)}
BrandProviders(b, city) == {s \in InCity(city) : WorksOn(s, b)}

OwnBrands(providers) == UNION {card[s].services.brands : s \in providers}
AnyBrand(providers) == \E s \in providers : card[s].services.all
\* Bound: no list of brands is longer than a page prints.
CategoryBrands(c, city) ==
    LET p == CategoryProviders(c, city)
    IN  OwnBrands(p) \cup (IF AnyBrand(p) \/ OwnBrands(p) = {} THEN PopularBrands ELSE {})
\* Mutant: as CategoryBrands does.
SectionBrandsOrPopular(x, city) ==
    LET p == SectionProviders(x, city)
    IN  OwnBrands(p) \cup (IF AnyBrand(p) \/ OwnBrands(p) = {} THEN PopularBrands ELSE {})
SectionBrands(x, city) ==
    LET p == SectionProviders(x, city)
    IN  OwnBrands(p) \cup (IF AnyBrand(p) THEN PopularBrands ELSE {})
BrandSections(b, city) == {x \in Sections : \E s \in BrandProviders(b, city) : InSection(s, x)}

CategoryHref(c, city) == [NoFilter EXCEPT !.cats = {c}, !.city = city]
SectionHref(x, city) == [NoFilter EXCEPT !.section = x, !.city = city]
BrandHref(b, city) == [NoFilter EXCEPT !.brand = b, !.city = city]
CategoryBrandHref(c, b, city) == [CategoryHref(c, city) EXCEPT !.brand = b]
SectionBrandHref(x, b, city) == [SectionHref(x, city) EXCEPT !.brand = b]

\* redirect_if_service_only_catalog: the address asks for one category and for
\* nothing else but a city.
Redirected(f) == \E c \in Categories : f = CategoryHref(c, f.city)

\* The tiles of the home page, for the city of the visitor.
CategoryTiles(city) == {c \in Categories : CategoryProviders(c, city) # {}}
SectionTiles(city) == {x \in Sections : \E s \in InCity(city) : InSection(s, x)}

\* The landing pages that search engines are told of (core/sitemaps.py).
\* Mutant: the brands of any card.
SitemapBrandsOfAll == {b \in Brands : \E s \in Present : b \in card[s].services.brands}
SitemapCategories == {c \in Categories : \E s \in InListing : c \in card[s].services.categories}
SitemapSections == {SectionOf[c] : c \in SitemapCategories} \cup UNION {card[s].services.sections : s \in InListing}
SitemapBrands == UNION {card[s].services.brands : s \in InListing}

\* The addresses of a list, which may leave sorting and page (0) out, and may say what
\* campaign they come from.
Plain(f) == [filter |-> f, sort |-> "", page |-> 0, tracked |-> FALSE]
ListAddresses ==
    [filter : Filters, sort : {"", "relevance", "rating"}, page : 0..2, tracked : BOOLEAN]
\* The order and the page that are shown.
Shown(a) ==
    [sort |-> IF a.sort = "" THEN "relevance" ELSE a.sort, page |-> IF a.page = 0 THEN 1 ELSE a.page]

\* build_catalog_canonical_query, which knows no section.
\* Mutant: nor a brand.
CanonicalFilterOfPlace(f) == [f EXCEPT !.section = Nothing, !.brand = Nothing]
CanonicalFilter(f) == [f EXCEPT !.section = Nothing]
CanonicalQuery(a) ==
    [filter |-> CanonicalFilter(a.filter), sort |-> IF a.sort = "relevance" THEN "" ELSE a.sort,
     page |-> IF a.page = 1 THEN 0 ELSE a.page, tracked |-> FALSE]

\* build_canonical_url, for the list, a landing page, the page of a card and others.
CanonicalUrl(view, a) ==
    CASE view = "list" -> CanonicalQuery(a)
      [] view = "landing" -> Plain([NoFilter EXCEPT !.city = a.filter.city])
      [] view = "detail" -> Plain(NoFilter)
      [] OTHER -> [a EXCEPT !.tracked = FALSE]

-----------------------------------------------------------------------------
CatalogueTypeOK == card \in [Cards -> Card \cup {Missing}]

MapFilters == {f \in Filters : f.city = Nothing}
AnyCity == Cities \cup {Nothing}

\* Whoever edits which card, a place of the map is a card the catalogue finds with
\* the same filters, and the map without filters is the list of what is nearby.
MapShowsWhatIsFound ==
    /\ \A f \in MapFilters : Places(f) \subseteq Found(f)
    /\ Places(NoFilter) = Nearby

\* The number of providers a landing page prints is the number of cards its link
\* to the catalogue finds; the page of a brand may count fewer, as the catalogue
\* also finds the cards that only name the brand.
CountIsWhatIsFound ==
    \A city \in AnyCity :
        /\ \A c \in Categories : CategoryProviders(c, city) = Found(CategoryHref(c, city))
        /\ \A x \in Sections : SectionProviders(x, city) = Found(SectionHref(x, city))
        /\ \A b \in Brands : BrandProviders(b, city) \subseteq Found(BrandHref(b, city))

\* No tile of the home page and no line of the sitemap opens an empty landing page,
\* the sitemap has every category and section that has a provider, and no link of
\* the page of a section or of a brand opens an empty catalogue.
LinksFindSomething ==
    \A city \in AnyCity :
        /\ \A c \in CategoryTiles(city) : Found(CategoryHref(c, city)) # {}
        /\ \A x \in SectionTiles(city) : SectionProviders(x, city) # {}
        /\ \A x \in Sections : \A b \in SectionBrands(x, city) : Found(SectionBrandHref(x, b, city)) # {}
        /\ \A b \in Brands : \A x \in BrandSections(b, city) : Found(SectionBrandHref(x, b, city)) # {}
        /\ city = Nothing =>
              /\ SitemapCategories = CategoryTiles(city) /\ SitemapSections = SectionTiles(city)
              /\ \A b \in SitemapBrands : BrandProviders(b, city) # {}

\* A canonical address is its own, and the order and page of a list are those asked for.
CanonicalIsFixed ==
    \A a \in ListAddresses :
        /\ Shown(CanonicalUrl("list", a)) = Shown(a)
        /\ \A view \in {"list", "landing", "detail", "other"} :
              CanonicalUrl(view, CanonicalUrl(view, a)) = CanonicalUrl(view, a)

\* Search engines are told of one address for what has several: it lists the same
\* cards on the same page, unless a section is asked for, and counts the same
\* providers on a landing page.
CanonicalListsTheSame ==
    /\ CanonicalIsFixed
    /\ \A f \in Filters : f.section = Nothing => Found(CanonicalUrl("list", Plain(f)).filter) = Found(f)
    /\ \A city \in AnyCity, c \in Categories :
          CategoryProviders(c, CanonicalUrl("landing", Plain(CategoryHref(c, city))).filter.city)
              = CategoryProviders(c, city)

\* Refuted by TLC (see README): every page of a list is its own canonical one.
CanonicalOfSection ==
    \A f \in Filters : Found(CanonicalUrl("list", Plain(f)).filter) = Found(f)

\* The executors a visitor chooses are the types of place the map shows: what the
\* catalogue finds among them and has a location is on the map.
ExecutorsOnMap ==
    \A f \in MapFilters : f.exec # {} /\ f.brand = Nothing => Found(f) \cap Nearby \subseteq Places(f)

\* The page of a category that has no provider for any brand links the brands that
\* are really bound to a provider of it: no link opens an empty catalogue.
CategoryLinksFind ==
    \A city \in AnyCity : \A c \in CategoryTiles(city) : \A b \in CategoryBrands(c, city) :
        Found(CategoryBrandHref(c, b, city)) # {}

\* The link of the page of a category that has providers opens the catalogue.
CategoryOpensCatalogue ==
    \A city \in AnyCity : \A c \in CategoryTiles(city) : ~Redirected(CategoryHref(c, city))
=============================================================================

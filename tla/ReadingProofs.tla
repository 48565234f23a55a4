---------------------------- MODULE ReadingProofs ----------------------------
(***************************************************************************)
(* Theorems about what the pages and the reports read: the catalogue, the  *)
(* board of ads, the windows of a station and the reports of the           *)
(* administrators; and about the windows a station has, which generators   *)
(* fill in from its hours.                                                 *)
(***************************************************************************)
EXTENDS Catalogue, FreeWindows, AdBoard, ErpReports, Inbox, SlotGrid,
        FiniteSetTheorems, WellFoundedInduction, TLAPS

-----------------------------------------------------------------------------
(* The catalogue.                                                          *)

\* A master's service is there: types alone are not inductive, as a master inherits
\* the city and the brands of his service.
ServiceIsThere == \A s \in Present : card[s].parent # NoCard => card[s].parent \in Present

CatalogueInv == CatalogueTypeOK /\ ServiceIsThere

\* A card that is listed is a card.
LEMMA ListedCards ==
    ASSUME CatalogueTypeOK
    PROVE  /\ \A s \in Cards : s \in Present <=> card[s] \in Card
           /\ \A s \in InListing : s \in Cards /\ card[s] \in Card
<1>1. Missing \notin Card
  BY DEF Missing, Card
<1>2. ASSUME NEW s \in Cards, card[s].listed PROVE card[s] \in Card
  BY <1>2 DEF CatalogueTypeOK, Missing
<1>3. QED
  BY <1>1, <1>2 DEF CatalogueTypeOK, Present, InListing

\* What the fields of a card hold.
LEMMA CardFields ==
    ASSUME NEW row \in Card
    PROVE  /\ row.kind \in Kinds /\ row.parent \in Cards \cup {NoCard}
           /\ row.listed \in BOOLEAN /\ row.city \in Cities \cup {Nothing}
           /\ row.services \in ServicesOnOffer
           /\ row.services.categories \subseteq Categories
           /\ row.services.sections \subseteq Sections
           /\ row.services.brands \subseteq Brands
           /\ row.services.all \in BOOLEAN
<1>1. row.services \in ServicesOnOffer
  BY DEF Card
<1>2. row.services \in [categories : SUBSET Categories, sections : SUBSET Sections,
                         brands : SUBSET Brands, all : BOOLEAN, named : SUBSET Brands]
  BY <1>1, CatalogueAssumption
<1>3. QED
  BY <1>1, <1>2 DEF Card

LEMMA CatalogueInvInit == CatalogueInit => CatalogueInv
BY DEF CatalogueInit, CatalogueInv, CatalogueTypeOK, ServiceIsThere, Present

\* A card that is saved over its own keeps its place among the others.
LEMMA CardSaved ==
    ASSUME CatalogueInv, NEW s \in Cards, NEW row \in Card, card' = [card EXCEPT ![s] = row],
           row.parent # NoCard => row.parent \in Present
    PROVE  CatalogueInv'
<1>1. card' \in [Cards -> Card \cup {Missing}]
  BY DEF CatalogueInv, CatalogueTypeOK
<1>2. row # Missing
  BY DEF Card, Missing
<1>3. card'[s] = row /\ \A o \in Cards : o # s => card'[o] = card[o]
  BY DEF CatalogueInv, CatalogueTypeOK
<1>4. Present' = Present \cup {s}
  BY <1>2, <1>3 DEF Present
<1>5. ServiceIsThere'
  BY <1>3, <1>4 DEF CatalogueInv, ServiceIsThere
<1>6. QED
  BY <1>1, <1>5 DEF CatalogueInv, CatalogueTypeOK

LEMMA CatalogueStep == CatalogueInv /\ [CatalogueNext]_catalogueVars => CatalogueInv'
<1> SUFFICES ASSUME CatalogueInv, [CatalogueNext]_catalogueVars PROVE CatalogueInv'
  OBVIOUS
<1>1. \A s \in Present : /\ s \in Cards /\ card[s] \in Card
                         /\ card[s].parent # NoCard => card[s].parent \in Present
  BY ListedCards DEF CatalogueInv, ServiceIsThere, Present
<1>2. CASE CardRegister
  <2>1. PICK s \in Cards : \E kind \in Kinds, located \in BOOLEAN, bare \in ServicesOnOffer :
            card' = [card EXCEPT ![s] =
                [kind |-> kind, parent |-> NoCard, listed |-> TRUE, located |-> located,
                 city |-> Nothing, services |-> bare]]
    BY <1>2 DEF CardRegister
  <2>2. PICK kind \in Kinds, located \in BOOLEAN, bare \in ServicesOnOffer :
            card' = [card EXCEPT ![s] =
                [kind |-> kind, parent |-> NoCard, listed |-> TRUE, located |-> located,
                 city |-> Nothing, services |-> bare]]
    BY <2>1
  <2>3. PICK row \in Card : row.parent = NoCard /\ card' = [card EXCEPT ![s] = row]
    BY <2>2 DEF Card
  <2>4. QED
    BY <2>3, CardSaved
<1>3. CASE ProfileEdit
  <2>1. PICK s \in Present, services \in ServicesOnOffer, kind \in Kinds, city \in Cities \cup {Nothing} :
            card' = [card EXCEPT ![s].services = services, ![s].kind = kind, ![s].city = city]
    BY <1>3 DEF ProfileEdit
  <2>2. card' = [card EXCEPT ![s] = [card[s] EXCEPT !.services = services, !.kind = kind, !.city = city]]
    BY <1>1, <2>1 DEF CatalogueInv, CatalogueTypeOK
  <2>3. /\ [card[s] EXCEPT !.services = services, !.kind = kind, !.city = city] \in Card
        /\ [card[s] EXCEPT !.services = services, !.kind = kind, !.city = city].parent = card[s].parent
    <3>1. card[s] \in Card
      BY <1>1
    <3>2. QED
      BY <3>1 DEF Card
  <2>4. QED
    BY <1>1, <2>2, <2>3, CardSaved
<1>4. CASE MasterCreate
  <2>1. PICK m \in Cards \ Present, s \in Present, services \in ServicesOnOffer, located \in BOOLEAN :
            card' = [card EXCEPT ![m] =
                [kind |-> "private", parent |-> s, listed |-> card[s].listed, located |-> located,
                 city |-> card[s].city, services |-> services]]
    BY <1>4 DEF MasterCreate
  <2>2. card[s].listed \in BOOLEAN /\ card[s].city \in Cities \cup {Nothing} /\ s \in Cards
    BY <1>1, CardFields
  <2>3. [kind |-> "private", parent |-> s, listed |-> card[s].listed, located |-> located,
         city |-> card[s].city, services |-> services] \in Card
    BY <2>2 DEF Card, Kinds
  <2>4. QED
    BY <2>1, <2>3, CardSaved
<1>5. CASE BrandsInherit
  <2>1. PICK m \in Present :
            /\ card[m].parent # NoCard
            /\ \E new \in ServicesOnOffer :
                  card' = [card EXCEPT ![m].city = card[card[m].parent].city, ![m].services = new]
    BY <1>5 DEF BrandsInherit
  <2>2. PICK new \in ServicesOnOffer :
            card' = [card EXCEPT ![m].city = card[card[m].parent].city, ![m].services = new]
    BY <2>1
  <2>3. PICK city \in Cities \cup {Nothing} : city = card[card[m].parent].city
    BY <1>1, <2>1, CardFields
  <2>4. card' = [card EXCEPT ![m] = [card[m] EXCEPT !.city = city, !.services = new]]
    BY <1>1, <2>2, <2>3 DEF CatalogueInv, CatalogueTypeOK
  <2>5. /\ [card[m] EXCEPT !.city = city, !.services = new] \in Card
        /\ [card[m] EXCEPT !.city = city, !.services = new].parent = card[m].parent
    <3>1. card[m] \in Card
      BY <1>1
    <3>2. QED
      BY <3>1 DEF Card
  <2>6. QED
    BY <1>1, <2>4, <2>5, CardSaved
<1>6. CASE MasterDelete
  <2>1. PICK m \in Present :
            card' = [s \in Cards |->
                IF s = m THEN Missing
                ELSE IF card[s] # Missing /\ card[s].parent = m THEN [card[s] EXCEPT !.parent = NoCard] ELSE card[s]]
    BY <1>6 DEF MasterDelete
  <2>2. ASSUME NEW s \in Present, s # m
        PROVE  /\ card'[s] \in Card
               /\ card'[s].parent # NoCard => card'[s].parent = card[s].parent /\ card[s].parent # m
    <3>1. card[s] \in Card /\ card[s] # Missing /\ s \in Cards
      BY <1>1 DEF Present
    <3>2. /\ [card[s] EXCEPT !.parent = NoCard] \in Card
          /\ [card[s] EXCEPT !.parent = NoCard].parent = NoCard
      BY <3>1 DEF Card
    <3>3. card'[s] = IF card[s].parent = m THEN [card[s] EXCEPT !.parent = NoCard] ELSE card[s]
      BY <2>1, <2>2, <3>1
    <3>4. QED
      BY <3>1, <3>2, <3>3
  <2>3. \A s \in Cards : s \notin Present \/ s = m => card'[s] = Missing
    BY <2>1 DEF Present
  <2>4. card' \in [Cards -> Card \cup {Missing}]
    <3>1. \A s \in Cards : card'[s] \in Card \cup {Missing}
      BY <2>2, <2>3
    <3>2. QED
      BY <2>1, <3>1
  <2>5. Present' = Present \ {m}
    <3>1. Missing \notin Card
      BY DEF Missing, Card
    <3>2. \A s \in Cards : s \in Present' <=> card'[s] # Missing
      BY DEF Present
    <3>3. QED
      BY <2>2, <2>3, <3>1, <3>2 DEF Present
  <2>6. ServiceIsThere'
    <3>1. ASSUME NEW s \in Present \ {m}, card'[s].parent # NoCard PROVE card'[s].parent \in Present \ {m}
      BY <1>1, <2>2, <3>1
    <3>2. QED
      BY <2>5, <3>1 DEF ServiceIsThere
  <2>7. QED
    BY <2>4, <2>6 DEF CatalogueInv, CatalogueTypeOK
<1>7. CASE Moderate
  <2>1. PICK s \in Present, listed \in BOOLEAN, located \in BOOLEAN :
            card' = [card EXCEPT ![s].listed = listed, ![s].located = located]
    BY <1>7 DEF Moderate
  <2>2. card' = [card EXCEPT ![s] = [card[s] EXCEPT !.listed = listed, !.located = located]]
    BY <1>1, <2>1 DEF CatalogueInv, CatalogueTypeOK
  <2>3. /\ [card[s] EXCEPT !.listed = listed, !.located = located] \in Card
        /\ [card[s] EXCEPT !.listed = listed, !.located = located].parent = card[s].parent
    <3>1. card[s] \in Card
      BY <1>1
    <3>2. QED
      BY <3>1 DEF Card
  <2>4. QED
    BY <1>1, <2>2, <2>3, CardSaved
<1>8. CASE UNCHANGED catalogueVars
  BY <1>8 DEF CatalogueInv, CatalogueTypeOK, ServiceIsThere, Present, catalogueVars
<1>9. QED
  BY <1>2, <1>3, <1>4, <1>5, <1>6, <1>7, <1>8 DEF CatalogueNext

-----------------------------------------------------------------------------
\* What the fields of a filter hold, and what the links ask for.
LEMMA FilterFields ==
    ASSUME NEW f \in Filters
    PROVE  /\ f.exec \subseteq Kinds /\ f.cats \subseteq Categories
           /\ f.section \in Sections \cup {Nothing} /\ f.brand \in Brands \cup {Nothing}
BY DEF Filters

LEMMA LinksAsk ==
    /\ NoFilter.exec = {} /\ NoFilter.cats = {} /\ NoFilter.section = Nothing
    /\ NoFilter.brand = Nothing /\ NoFilter.city = Nothing
    /\ \A c, city : LET f == CategoryHref(c, city) IN
          f.exec = {} /\ f.cats = {c} /\ f.section = Nothing /\ f.brand = Nothing /\ f.city = city
    /\ \A x, city : LET f == SectionHref(x, city) IN
          f.exec = {} /\ f.cats = {} /\ f.section = x /\ f.brand = Nothing /\ f.city = city
    /\ \A b, city : LET f == BrandHref(b, city) IN
          f.exec = {} /\ f.cats = {} /\ f.section = Nothing /\ f.brand = b /\ f.city = city
    /\ \A x, b, city : LET f == SectionBrandHref(x, b, city) IN
          f.exec = {} /\ f.cats = {} /\ f.section = x /\ f.brand = b /\ f.city = city
BY DEF NoFilter, CategoryHref, SectionHref, BrandHref, SectionBrandHref

\* The map against the catalogue.
LEMMA MapIsFound == CatalogueTypeOK => MapShowsWhatIsFound
<1> SUFFICES ASSUME CatalogueTypeOK PROVE MapShowsWhatIsFound
  OBVIOUS
<1>1. ASSUME NEW f \in MapFilters, NEW s \in Places(f) PROVE s \in Found(f)
  <2>1. f \in Filters /\ f.city = Nothing
    BY DEF MapFilters
  <2>2. s \in Cards /\ OnMap(s, f)
    BY DEF Places
  <2>3. s \in InListing /\ card[s].kind \in {MapKind(t) : t \in MapTypes(f.exec)}
    BY <2>2 DEF OnMap
  <2>4. f.exec # {} => card[s].kind \in f.exec
    BY <2>1, <2>3, FilterFields DEF MapTypes, MapKind, Kinds
  <2>5. InCatalogue(s, f)
    BY <2>1, <2>2, <2>3, <2>4 DEF InCatalogue, OnMap, InCity
  <2>6. QED
    BY <2>2, <2>5 DEF Found
<1>2. ASSUME NEW s \in Cards PROVE s \in Places(NoFilter) <=> s \in Nearby
  <2>1. MapTypes(NoFilter.exec) = {"sto", "master"}
    BY LinksAsk DEF MapTypes
  <2>2. s \in InListing => card[s].kind \in {MapKind(t) : t \in {"sto", "master"}}
    BY ListedCards, CardFields DEF MapKind, Kinds
  <2>3. QED
    BY <2>1, <2>2, LinksAsk DEF Places, OnMap, Nearby
<1>3. Places(NoFilter) = Nearby
  BY <1>2 DEF Places, Nearby, InListing
<1>4. QED
  BY <1>1, <1>3 DEF MapShowsWhatIsFound

\* The counts of the landing pages.
LEMMA CountsAreFound == CatalogueTypeOK => CountIsWhatIsFound
<1> SUFFICES ASSUME CatalogueTypeOK, NEW city \in AnyCity
             PROVE  /\ \A c \in Categories : CategoryProviders(c, city) = Found(CategoryHref(c, city))
                    /\ \A x \in Sections : SectionProviders(x, city) = Found(SectionHref(x, city))
                    /\ \A b \in Brands : BrandProviders(b, city) \subseteq Found(BrandHref(b, city))
  BY DEF CountIsWhatIsFound
<1>0. InCity(city) \subseteq Cards
  BY DEF InCity, InListing
<1>1. ASSUME NEW c \in Categories PROVE CategoryProviders(c, city) = Found(CategoryHref(c, city))
  <2>1. \A s \in Cards : InCatalogue(s, CategoryHref(c, city)) <=> s \in CategoryProviders(c, city)
    <3>1. \A S : {c} # {} /\ ({c} \cap S # {} <=> c \in S)
      OBVIOUS
    <3>2. QED
      BY <3>1, LinksAsk DEF InCatalogue, CategoryProviders
  <2>2. QED
    BY <1>0, <2>1 DEF Found, CategoryProviders
<1>2. ASSUME NEW x \in Sections PROVE SectionProviders(x, city) = Found(SectionHref(x, city))
  <2>1. \A s \in Cards : InCatalogue(s, SectionHref(x, city)) <=> s \in SectionProviders(x, city)
    BY LinksAsk, CatalogueAssumption DEF InCatalogue, SectionProviders
  <2>2. QED
    BY <1>0, <2>1 DEF Found, SectionProviders
<1>3. ASSUME NEW b \in Brands PROVE BrandProviders(b, city) \subseteq Found(BrandHref(b, city))
  <2>1. \A s \in BrandProviders(b, city) : InCatalogue(s, BrandHref(b, city))
    BY LinksAsk DEF InCatalogue, BrandProviders
  <2>2. QED
    BY <1>0, <2>1 DEF Found, BrandProviders
<1>4. QED
  BY <1>1, <1>2, <1>3

\* A link to a section and a brand finds who answers to both.
LEMMA SectionBrandFound ==
    ASSUME CatalogueTypeOK, NEW x \in Sections, NEW b \in Brands, NEW city \in AnyCity,
           NEW s \in InCity(city), InSection(s, x), WorksOn(s, b)
    PROVE  Found(SectionBrandHref(x, b, city)) # {}
<1>1. s \in Cards
  BY DEF InCity, InListing
<1>2. InCatalogue(s, SectionBrandHref(x, b, city))
  BY LinksAsk DEF InCatalogue
<1>3. QED
  BY <1>1, <1>2 DEF Found

\* The links of the landing pages, of the home page and of the sitemap.
LEMMA LinksFind == CatalogueTypeOK => LinksFindSomething
<1> SUFFICES ASSUME CatalogueTypeOK, NEW city \in AnyCity
             PROVE  /\ \A c \in CategoryTiles(city) : Found(CategoryHref(c, city)) # {}
                    /\ \A x \in SectionTiles(city) : SectionProviders(x, city) # {}
                    /\ \A x \in Sections : \A b \in SectionBrands(x, city) :
                          Found(SectionBrandHref(x, b, city)) # {}
                    /\ \A b \in Brands : \A x \in BrandSections(b, city) :
                          Found(SectionBrandHref(x, b, city)) # {}
                    /\ city = Nothing =>
                          /\ SitemapCategories = CategoryTiles(city)
                          /\ SitemapSections = SectionTiles(city)
                          /\ \A b \in SitemapBrands : BrandProviders(b, city) # {}
  BY DEF LinksFindSomething
<1>0. \A s \in InListing : /\ s \in Cards
                           /\ card[s].services.categories \subseteq Categories
                           /\ card[s].services.sections \subseteq Sections
                           /\ card[s].services.brands \subseteq Brands
  BY ListedCards, CardFields
<1>1. ASSUME NEW c \in CategoryTiles(city) PROVE Found(CategoryHref(c, city)) # {}
  BY <1>1, CountsAreFound DEF CategoryTiles, CountIsWhatIsFound
<1>2. ASSUME NEW x \in SectionTiles(city) PROVE SectionProviders(x, city) # {}
  BY <1>2 DEF SectionTiles, SectionProviders
<1>3. ASSUME NEW x \in Sections, NEW b \in SectionBrands(x, city)
      PROVE  Found(SectionBrandHref(x, b, city)) # {}
  <2>1. PICK s \in SectionProviders(x, city) :
            b \in card[s].services.brands \/ (card[s].services.all /\ b \in PopularBrands)
    BY <1>3 DEF SectionBrands, OwnBrands, AnyBrand
  <2>2. s \in InCity(city) /\ InSection(s, x) /\ s \in InListing
    BY <2>1 DEF SectionProviders, InCity
  <2>3. b \in Brands /\ WorksOn(s, b)
    BY <1>0, <2>1, <2>2, CatalogueAssumption DEF WorksOn
  <2>4. QED
    BY <2>2, <2>3, SectionBrandFound
<1>4. ASSUME NEW b \in Brands, NEW x \in BrandSections(b, city)
      PROVE  Found(SectionBrandHref(x, b, city)) # {}
  <2>1. PICK s \in InCity(city) : InSection(s, x) /\ WorksOn(s, b)
    BY <1>4 DEF BrandSections, BrandProviders
  <2>2. QED
    BY <1>4, <2>1, SectionBrandFound DEF BrandSections
<1>5. ASSUME city = Nothing
      PROVE  /\ SitemapCategories = CategoryTiles(city) /\ SitemapSections = SectionTiles(city)
             /\ \A b \in SitemapBrands : BrandProviders(b, city) # {}
  <2>1. InCity(city) = InListing
    BY <1>5 DEF InCity
  <2>2. SitemapCategories = CategoryTiles(city)
    BY <2>1 DEF SitemapCategories, CategoryTiles, CategoryProviders
  <2>3. \A x : x \in SitemapSections <=> \E s \in InListing :
            \/ x \in card[s].services.sections
            \/ \E c \in card[s].services.categories : SectionOf[c] = x
    BY <1>0 DEF SitemapSections, SitemapCategories
  <2>4. \A x \in SitemapSections : x \in Sections
    BY <1>0, <2>3, CatalogueAssumption
  <2>5. SitemapSections = SectionTiles(city)
    BY <2>1, <2>3, <2>4 DEF SectionTiles, InSection
  <2>6. \A b \in SitemapBrands : BrandProviders(b, city) # {}
    BY <2>1 DEF SitemapBrands, BrandProviders, WorksOn
  <2>7. QED
    BY <2>2, <2>5, <2>6
<1>6. QED
  BY <1>1, <1>2, <1>3, <1>4, <1>5

-----------------------------------------------------------------------------
\* A canonical address.
SortTold(a) == IF a.sort = "relevance" THEN "" ELSE a.sort
PageTold(a) == IF a.page = 1 THEN 0 ELSE a.page

LEMMA QueryFields ==
    ASSUME NEW a
    PROVE  /\ CanonicalQuery(a) = [filter |-> CanonicalFilter(a.filter), sort |-> SortTold(a),
                                   page |-> PageTold(a), tracked |-> FALSE]
           /\ CanonicalQuery(a).filter = CanonicalFilter(a.filter)
           /\ CanonicalQuery(a).sort = SortTold(a)
           /\ CanonicalQuery(a).page = PageTold(a)
<1>1. CanonicalQuery(a) = [filter |-> CanonicalFilter(a.filter), sort |-> SortTold(a),
                           page |-> PageTold(a), tracked |-> FALSE]
  BY Zenon DEF CanonicalQuery, SortTold, PageTold
<1>2. \A g, o, n, t, q : q = [filter |-> g, sort |-> o, page |-> n, tracked |-> t]
                           => q.filter = g /\ q.sort = o /\ q.page = n
  OBVIOUS
<1>3. \A t : CanonicalQuery(a) = [filter |-> CanonicalFilter(a.filter), sort |-> SortTold(a),
                                   page |-> PageTold(a), tracked |-> t]
              => /\ CanonicalQuery(a).filter = CanonicalFilter(a.filter)
                 /\ CanonicalQuery(a).sort = SortTold(a)
                 /\ CanonicalQuery(a).page = PageTold(a)
  BY <1>2
<1>4. QED
  BY <1>1, <1>3, Zenon

LEMMA FilterIsFixed ==
    ASSUME NEW f \in Filters
    PROVE  /\ CanonicalFilter(f) \in Filters
           /\ CanonicalFilter(CanonicalFilter(f)) = CanonicalFilter(f)
           /\ f.section = Nothing => CanonicalFilter(f) = f
BY DEF CanonicalFilter, Filters

LEMMA QueryIsFixed ==
    ASSUME NEW a \in ListAddresses
    PROVE  /\ CanonicalQuery(a) \in ListAddresses
           /\ CanonicalQuery(CanonicalQuery(a)) = CanonicalQuery(a)
           /\ Shown(CanonicalQuery(a)) = Shown(a)
<1>1. /\ a.filter \in Filters /\ a.sort \in {"", "relevance", "rating"} /\ a.page \in 0..2
  BY DEF ListAddresses
<1>2. /\ CanonicalFilter(a.filter) \in Filters
      /\ SortTold(a) \in {"", "relevance", "rating"} /\ PageTold(a) \in 0..2
  <2>1. CanonicalFilter(a.filter) \in Filters
    BY <1>1, FilterIsFixed
  <2>2. SortTold(a) \in {"", "relevance", "rating"}
    BY <1>1 DEF SortTold
  <2>3. PageTold(a) \in 0..2
    <3>1. PICK n \in 0..2 : n = a.page
      BY <1>1
    <3>2. QED
      BY <3>1 DEF PageTold
  <2>4. QED
    BY <2>1, <2>2, <2>3
<1>3. CanonicalQuery(a) \in ListAddresses
  <2>1. \A t \in BOOLEAN : [filter |-> CanonicalFilter(a.filter), sort |-> SortTold(a),
                            page |-> PageTold(a), tracked |-> t] \in ListAddresses
    BY <1>2 DEF ListAddresses
  <2>2. QED
    BY <2>1, QueryFields, Zenon
<1>4. CanonicalQuery(CanonicalQuery(a)) = CanonicalQuery(a)
  <2>1. /\ CanonicalFilter(CanonicalFilter(a.filter)) = CanonicalFilter(a.filter)
        /\ SortTold(CanonicalQuery(a)) = SortTold(a) /\ PageTold(CanonicalQuery(a)) = PageTold(a)
    BY <1>1, QueryFields, FilterIsFixed DEF SortTold, PageTold
  <2>2. CanonicalQuery(CanonicalQuery(a)) =
            [filter |-> CanonicalFilter(CanonicalQuery(a).filter), sort |-> SortTold(CanonicalQuery(a)),
             page |-> PageTold(CanonicalQuery(a)), tracked |-> FALSE]
    BY QueryFields, Zenon
  <2>3. QED
    BY <2>1, <2>2, QueryFields, Zenon
<1>5. Shown(CanonicalQuery(a)) = Shown(a)
  BY <1>1, QueryFields DEF Shown, SortTold, PageTold
<1>6. QED
  BY <1>4, <1>5, <1>3

LEMMA CanonicalFixed == CanonicalIsFixed
<1> SUFFICES ASSUME NEW a \in ListAddresses
             PROVE  /\ Shown(CanonicalUrl("list", a)) = Shown(a)
                    /\ \A view \in {"list", "landing", "detail", "other"} :
                          CanonicalUrl(view, CanonicalUrl(view, a)) = CanonicalUrl(view, a)
  BY DEF CanonicalIsFixed
<1>1. CanonicalUrl("list", a) = CanonicalQuery(a)
  BY DEF CanonicalUrl
<1>2. CanonicalUrl("list", CanonicalUrl("list", a)) = CanonicalUrl("list", a)
  BY <1>1, QueryIsFixed DEF CanonicalUrl
<1>3. CanonicalUrl("landing", CanonicalUrl("landing", a)) = CanonicalUrl("landing", a)
  <2>1. CanonicalUrl("landing", a).filter.city = a.filter.city
    BY DEF CanonicalUrl, Plain, NoFilter
  <2>2. \A u : CanonicalUrl("landing", u) = Plain([NoFilter EXCEPT !.city = u.filter.city])
    BY DEF CanonicalUrl
  <2>3. QED
    BY <2>1, <2>2
<1>4. CanonicalUrl("detail", CanonicalUrl("detail", a)) = CanonicalUrl("detail", a)
  BY DEF CanonicalUrl
<1>5. CanonicalUrl("other", CanonicalUrl("other", a)) = CanonicalUrl("other", a)
  <2>1. \A u : CanonicalUrl("other", u) = [u EXCEPT !.tracked = FALSE]
    BY DEF CanonicalUrl
  <2>2. [[a EXCEPT !.tracked = FALSE] EXCEPT !.tracked = FALSE] = [a EXCEPT !.tracked = FALSE]
    BY DEF ListAddresses
  <2>3. QED
    BY <2>1, <2>2
<1>6. QED
  BY <1>1, <1>2, <1>3, <1>4, <1>5, QueryIsFixed

LEMMA CanonicalLists == CanonicalListsTheSame
<1>1. ASSUME NEW f \in Filters, f.section = Nothing
      PROVE  Found(CanonicalUrl("list", Plain(f)).filter) = Found(f)
  <2>1. CanonicalUrl("list", Plain(f)).filter = CanonicalFilter(f)
    BY DEF CanonicalUrl, CanonicalQuery, Plain
  <2>2. QED
    BY <1>1, <2>1, FilterIsFixed
<1>2. ASSUME NEW city \in AnyCity, NEW c \in Categories
      PROVE  CategoryProviders(c, CanonicalUrl("landing", Plain(CategoryHref(c, city))).filter.city)
                 = CategoryProviders(c, city)
  <2>1. CanonicalUrl("landing", Plain(CategoryHref(c, city))).filter.city = city
    BY DEF CanonicalUrl, Plain, CategoryHref, NoFilter
  <2>2. QED
    BY <2>1
<1>3. QED
  BY <1>1, <1>2, CanonicalFixed DEF CanonicalListsTheSame

\* Whoever edits which card, the cards keep to their types, and the map, the landing
\* pages, the sitemap and the canonical addresses agree with the catalogue.
THEOREM CatalogueTypeCorrect == CatalogueSpec => []CatalogueTypeOK
BY CatalogueInvInit, CatalogueStep, PTL DEF CatalogueSpec, CatalogueInv

THEOREM PagesAgreeWithCatalogue ==
    CatalogueSpec => [](/\ MapShowsWhatIsFound /\ CountIsWhatIsFound /\ LinksFindSomething
                        /\ CanonicalListsTheSame)
<1>1. CatalogueInv => /\ MapShowsWhatIsFound /\ CountIsWhatIsFound /\ LinksFindSomething
                      /\ CanonicalListsTheSame
  BY MapIsFound, CountsAreFound, LinksFind, CanonicalLists DEF CatalogueInv
<1>2. QED
  BY <1>1, CatalogueInvInit, CatalogueStep, PTL DEF CatalogueSpec
-----------------------------------------------------------------------------
(* The windows of a station.                                               *)

\* Days and weeks of any length, in whole numbers.
LEMMA DivisionRemains ==
    ASSUME NEW a \in Nat, NEW n \in Nat \ {0}
    PROVE  /\ a \div n \in Nat /\ a % n \in 0 .. n - 1
           /\ a = n * (a \div n) + (a % n)
OBVIOUS

\* Multiples do not leave out the order.
LEMMA DivisionIsMonotone ==
    ASSUME NEW a \in Nat, NEW b \in Nat, NEW n \in Nat \ {0}, a <= b
    PROVE  a \div n <= b \div n
<1> DEFINE q == a \div n
           r == b \div n
<1>1. /\ q \in Nat /\ r \in Nat /\ a % n \in 0 .. n - 1 /\ b % n \in 0 .. n - 1
      /\ a = n * q + (a % n) /\ b = n * r + (b % n)
  BY DivisionRemains
<1> HIDE DEF q, r
<1>2. ASSUME q > r PROVE FALSE
  <2>1. q - r - 1 \in Nat
    BY <1>1, <1>2
  <2>2. n * (q - r - 1) \in Nat
    BY <2>1
  <2>3. n * q = n * r + n + n * (q - r - 1)
    BY <1>1
  <2>4. n * q \in Nat /\ n * r \in Nat
    BY <1>1
  <2>5. QED
    BY <1>1, <2>2, <2>3, <2>4
<1>3. QED
  BY <1>1, <1>2 DEF q, r

\* The week after a week begins where it ends.
LEMMA WeekAfterWeek ==
    ASSUME NEW a \in Nat, NEW n \in Nat \ {0}
    PROVE  /\ a - (a % n) \in Nat
           /\ (a - (a % n) + n) % n = 0
<1> DEFINE q == a \div n
           b == a - (a % n) + n
           k == b \div n
           m == b % n
<1>1. q \in Nat /\ a % n \in 0 .. n - 1 /\ a = n * q + (a % n)
  BY DivisionRemains
<1>2. n * q \in Nat
  BY <1>1
<1>3. b = n * q + n /\ b \in Nat
  BY <1>1, <1>2
<1>4. k \in Nat /\ m \in 0 .. n - 1 /\ b = n * k + m
  BY <1>3, DivisionRemains
<1> HIDE DEF q, b, k, m
<1>5. n * k \in Nat
  BY <1>4
<1>6. n * (q + 1 - k) = m
  BY <1>1, <1>3, <1>4
<1>7. q + 1 - k = 0
  <2>1. CASE q + 1 - k >= 1
    <3>1. n * (q + 1 - k) >= n
      BY <1>1, <1>4, <2>1
    <3>2. QED
      BY <1>4, <1>6, <3>1
  <2>2. CASE q + 1 - k <= -1
    <3>1. n * (q + 1 - k) <= -n
      BY <1>1, <1>4, <2>2
    <3>2. QED
      BY <1>4, <1>6, <3>1
  <2>3. QED
    BY <1>1, <1>4, <2>1, <2>2
<1>8. m = 0
  BY <1>6, <1>7
<1>9. QED
  BY <1>1, <1>2, <1>8 DEF b, m

\* Every set of whole numbers that is not empty has a least one.
LEMMA LeastThereIs ==
    ASSUME NEW S, S \subseteq Nat, S # {}
    PROVE  \E n \in S : \A o \in S : n <= o
<1>1. PICK n \in S : \A o \in S : ~(<<o, n>> \in OpToRel(<, Nat))
  BY NatLessThanWellFounded, WFMin
<1>2. n \in S /\ \A o \in S : ~(o < n)
  BY <1>1 DEF OpToRel
<1>3. QED
  BY <1>2

LEMMA WindowsInit == FreeWindowsInit => FreeWindowsTypeOK
BY FreeWindowsAssumption DEF FreeWindowsInit, FreeWindowsTypeOK, Window, BookedAs

LEMMA WindowsStep == FreeWindowsTypeOK /\ [FreeWindowsNext]_windowVars => FreeWindowsTypeOK'
<1> SUFFICES ASSUME FreeWindowsTypeOK, [FreeWindowsNext]_windowVars PROVE FreeWindowsTypeOK'
  OBVIOUS
<1>0. /\ window \in [Windows -> Window] /\ hour \in 0..MaxHour
      /\ \A w \in Windows : window[w] \in Window
  BY DEF FreeWindowsTypeOK
<1>1. ASSUME NEW w \in Windows, NEW row \in Window, window' = [window EXCEPT ![w] = row], hour' = hour
      PROVE  FreeWindowsTypeOK'
  BY <1>0, <1>1 DEF FreeWindowsTypeOK
<1>2. CASE Book
  <2>1. PICK w \in Windows : window' = [window EXCEPT ![w].booked = "pending"] /\ hour' = hour
    BY <1>2 DEF Book
  <2>2. [window[w] EXCEPT !.booked = "pending"] \in Window
    BY <1>0 DEF Window, BookedAs
  <2>3. window' = [window EXCEPT ![w] = [window[w] EXCEPT !.booked = "pending"]]
    BY <1>0, <2>1
  <2>4. QED
    BY <1>1, <2>1, <2>2, <2>3
<1>3. CASE Advance
  <2>1. PICK w \in Windows :
            /\ window[w].booked \in {"pending", "confirmed", "in_progress"}
            /\ window' = [window EXCEPT ![w].booked =
                   CASE @ = "pending" -> "confirmed" [] @ = "confirmed" -> "in_progress"
                     [] @ = "in_progress" -> "completed"]
            /\ hour' = hour
    BY <1>3 DEF Advance
  <2>2. PICK new \in BookedAs :
            new = CASE window[w].booked = "pending" -> "confirmed"
                    [] window[w].booked = "confirmed" -> "in_progress"
                    [] window[w].booked = "in_progress" -> "completed"
    BY <2>1 DEF BookedAs
  <2>3. window' = [window EXCEPT ![w] = [window[w] EXCEPT !.booked = new]]
    BY <1>0, <2>1, <2>2
  <2>4. [window[w] EXCEPT !.booked = new] \in Window
    BY <1>0 DEF Window
  <2>5. QED
    BY <1>1, <2>1, <2>3, <2>4
<1>4. CASE Release
  <2>1. PICK w \in Windows, also \in SUBSET Windows :
            /\ window' = [v \in Windows |->
                   IF v = w THEN [window[v] EXCEPT !.booked = "nobody"]
                   ELSE IF v \in also THEN [window[v] EXCEPT !.proposed = FALSE] ELSE window[v]]
            /\ hour' = hour
    BY <1>4 DEF Release
  <2>2. \A v \in Windows : /\ [window[v] EXCEPT !.booked = "nobody"] \in Window
                           /\ [window[v] EXCEPT !.proposed = FALSE] \in Window
    BY <1>0 DEF Window, BookedAs
  <2>3. QED
    BY <1>0, <2>1, <2>2 DEF FreeWindowsTypeOK
<1>5. CASE Propose
  <2>1. PICK v \in Windows : window' = [window EXCEPT ![v].proposed = TRUE] /\ hour' = hour
    BY <1>5 DEF Propose
  <2>2. [window[v] EXCEPT !.proposed = TRUE] \in Window
    BY <1>0 DEF Window
  <2>3. window' = [window EXCEPT ![v] = [window[v] EXCEPT !.proposed = TRUE]]
    BY <1>0, <2>1
  <2>4. QED
    BY <1>1, <2>1, <2>2, <2>3
<1>6. CASE ToggleBlock
  <2>1. PICK w \in Windows : window' = [window EXCEPT ![w].available = ~@] /\ hour' = hour
    BY <1>6 DEF ToggleBlock
  <2>2. [window[w] EXCEPT !.available = ~window[w].available] \in Window
    BY <1>0 DEF Window
  <2>3. window' = [window EXCEPT ![w] = [window[w] EXCEPT !.available = ~window[w].available]]
    BY <1>0, <2>1
  <2>4. QED
    BY <1>1, <2>1, <2>2, <2>3
<1>7. CASE WindowHourPasses
  BY <1>0, <1>7, FreeWindowsAssumption DEF WindowHourPasses, FreeWindowsTypeOK
<1>8. CASE UNCHANGED windowVars
  BY <1>8 DEF FreeWindowsTypeOK, windowVars
<1>9. QED
  BY <1>2, <1>3, <1>4, <1>5, <1>6, <1>7, <1>8 DEF FreeWindowsNext

-----------------------------------------------------------------------------
\* What begins later does not begin on an earlier day.
LEMMA DaysInOrder ==
    ASSUME FreeWindowsTypeOK
    PROVE  /\ hour \in Nat /\ Today \in Nat
           /\ \A w \in Windows : /\ Start(w) \in Nat /\ DayOf(Start(w)) \in Nat
                                 /\ Start(w) <= hour => DayOf(Start(w)) <= Today
           /\ \A v, w \in Windows : Start(v) <= Start(w) => DayOf(Start(v)) <= DayOf(Start(w))
<1>1. hour \in Nat /\ \A w \in Windows : Start(w) \in Nat
  BY FreeWindowsAssumption DEF FreeWindowsTypeOK, Start
<1>2. DayLength \in Nat \ {0}
  BY FreeWindowsAssumption
<1>3. \A h \in Nat : DayOf(h) \in Nat
  BY <1>2, DivisionRemains DEF DayOf
<1>4. \A g, h \in Nat : g <= h => DayOf(g) <= DayOf(h)
  BY <1>2, DivisionIsMonotone DEF DayOf
<1>5. QED
  BY <1>1, <1>3, <1>4 DEF Today

\* If a window is still to come, one is the nearest.
LEMMA NearestThereIs ==
    ASSUME FreeWindowsTypeOK, NEW w \in NearestAmong
    PROVE  \E n \in Nearest : Start(n) <= Start(w)
<1> DEFINE starts == {Start(v) : v \in NearestAmong}
<1>1. NearestAmong \subseteq Windows
  BY DEF NearestAmong
<1>2. starts \subseteq Nat /\ starts # {}
  BY <1>1, DaysInOrder
<1>3. PICK s \in starts : \A o \in starts : s <= o
  BY <1>2, LeastThereIs
<1>4. PICK n \in NearestAmong : Start(n) = s
  BY <1>3
<1>5. \A o \in NearestAmong : Start(n) <= Start(o)
  BY <1>3, <1>4
<1>6. QED
  BY <1>5 DEF Nearest

LEMMA CardsAgree == FreeWindowsTypeOK => CardAgrees
<1> SUFFICES ASSUME FreeWindowsTypeOK PROVE CardAgrees
  OBVIOUS
<1>1. ASSUME NEW w \in Nearest PROVE w \in NearestAmong /\ w \in Windows
  BY DEF Nearest, NearestAmong
<1>2. ASSUME NEW w \in NearestAmong, DayOf(Start(w)) = Today PROVE w \in FreeOn(Today)
  BY <1>2, DaysInOrder DEF NearestAmong, FreeOn
<1>3. ASSUME NEW d \in {Today, Today + 1}, NEW w \in FreeOn(d)
      PROVE  w \in NearestAmong /\ DayOf(Start(w)) = d
  BY <1>3, DaysInOrder DEF NearestAmong, FreeOn
<1>4. ASSUME NEW d \in {Today, Today + 1}, NEW w \in FreeOn(d)
      PROVE  \E n \in Nearest : Today <= DayOf(Start(n)) /\ DayOf(Start(n)) <= d /\ n \in Windows
  <2>1. w \in NearestAmong /\ DayOf(Start(w)) = d /\ w \in Windows
    BY <1>3 DEF FreeOn
  <2>2. PICK n \in Nearest : Start(n) <= Start(w)
    BY <2>1, NearestThereIs
  <2>3. n \in Windows /\ DayOf(Start(n)) >= Today
    BY <1>1 DEF NearestAmong
  <2>4. DayOf(Start(n)) <= d
    BY <2>1, <2>2, <2>3, DaysInOrder
  <2>5. QED
    BY <2>3, <2>4, DaysInOrder
<1>5. HasSlotsToday => \E w \in Nearest : DayOf(Start(w)) = Today
  BY <1>4, DaysInOrder DEF HasSlotsToday
<1>6. (\E w \in Nearest : DayOf(Start(w)) = Today) => HasSlotsToday
  BY <1>1, <1>2 DEF HasSlotsToday
<1>7. ~HasSlotsToday /\ HasSlotsTomorrow => \E w \in Nearest : DayOf(Start(w)) = Today + 1
  <2> SUFFICES ASSUME ~HasSlotsToday, HasSlotsTomorrow
               PROVE  \E w \in Nearest : DayOf(Start(w)) = Today + 1
    OBVIOUS
  <2>1. PICK n \in Nearest : Today <= DayOf(Start(n)) /\ DayOf(Start(n)) <= Today + 1 /\ n \in Windows
    BY <1>4 DEF HasSlotsTomorrow
  <2>2. DayOf(Start(n)) # Today
    BY <1>1, <1>2 DEF HasSlotsToday
  <2>3. QED
    BY <2>1, <2>2, DaysInOrder
<1>8. QED
  BY <1>5, <1>6, <1>7 DEF CardAgrees

LEMMA BadgesAreOnOffer == FreeWindowsTypeOK => BadgeIsOnOffer
<1> SUFFICES ASSUME FreeWindowsTypeOK, NEW d \in {Today, Today + 1}
             PROVE  FreeOn(d) = {w \in OnOfferOn(d) : Start(w) # hour}
                                   \cup {w \in FreeOn(d) : window[w].proposed}
  BY DEF BadgeIsOnOffer
<1>1. ASSUME NEW w \in FreeOn(d), ~window[w].proposed PROVE w \in OnOfferOn(d) /\ Start(w) # hour
  <2>1. w \in Windows /\ DayOf(Start(w)) = d /\ window[w].available /\ window[w].booked = "nobody"
    BY DEF FreeOn
  <2>2. d = Today => Start(w) > hour
    BY DEF FreeOn
  <2>3. Start(w) # hour
    BY <2>1, <2>2, DaysInOrder DEF Today
  <2>4. Bookable(w)
    BY <1>1, <2>1, <2>2, DaysInOrder DEF Bookable
  <2>5. QED
    BY <2>1, <2>3, <2>4 DEF OnOfferOn
<1>2. ASSUME NEW w \in OnOfferOn(d), Start(w) # hour PROVE w \in FreeOn(d)
  BY <1>2, DaysInOrder DEF OnOfferOn, Bookable, FreeOn
<1>3. QED
  BY <1>1, <1>2

LEMMA LiveAreListed == FreeWindowsTypeOK => LiveIsListed
<1> SUFFICES ASSUME FreeWindowsTypeOK, NEW w \in Windows,
                    \/ window[w].booked = "pending"
                    \/ /\ window[w].booked \in {"confirmed", "in_progress"}
                       /\ DayOf(Start(w)) \in {Today, Today + 1}
                    \/ window[w].booked = "confirmed" /\ DayOf(Start(w)) >= Today
             PROVE  w \in DayTab(Today) \cup DayTab(Today + 1) \cup Upcoming
  BY DEF LiveIsListed
<1>1. CASE window[w].booked = "pending"
  BY <1>1 DEF Upcoming
<1>2. CASE window[w].booked \in {"confirmed", "in_progress"} /\ DayOf(Start(w)) \in {Today, Today + 1}
  BY <1>2 DEF DayTab
<1>3. CASE window[w].booked = "confirmed" /\ DayOf(Start(w)) > Today
  <2>1. Start(w) >= hour
    BY <1>3, DaysInOrder
  <2>2. QED
    BY <1>3, <2>1 DEF Upcoming
<1>4. QED
  BY <1>1, <1>2, <1>3, DaysInOrder

LEMMA CalendarsAreWhole == CalendarIsWhole
<1>1. DayOf(MaxHour) \in Nat
  BY FreeWindowsAssumption, DivisionRemains DEF DayOf
<1> SUFFICES ASSUME NEW d \in 0 .. DayOf(MaxHour)
             PROVE  /\ DayTab(d) \subseteq CalendarHeld(d)
                    /\ CalendarHeld(d) = UNION {DayTab(MondayOf(d) + i) : i \in 0 .. WeekLength - 1}
                    /\ \A i, j \in 0 .. WeekLength - 1 : i # j => CalendarDay(d, i) \cap CalendarDay(d, j) = {}
                    /\ CalendarHeld(d) \cap CalendarHeld(MondayOf(d) + WeekLength) = {}
  BY DEF CalendarIsWhole
<1>2. d \in Nat /\ WeekLength \in Nat \ {0}
  BY <1>1, FreeWindowsAssumption
<1>3. d % WeekLength \in 0 .. WeekLength - 1 /\ MondayOf(d) \in Nat /\ MondayOf(d) + (d % WeekLength) = d
  <2>1. d % WeekLength \in 0 .. WeekLength - 1
    BY <1>2, DivisionRemains
  <2>2. d - (d % WeekLength) \in Nat
    BY <1>2, WeekAfterWeek
  <2>3. QED
    BY <1>2, <2>1, <2>2 DEF MondayOf
<1>4. MondayOf(MondayOf(d) + WeekLength) = MondayOf(d) + WeekLength
  <2>1. (d - (d % WeekLength) + WeekLength) % WeekLength = 0
    BY <1>2, WeekAfterWeek
  <2>2. (MondayOf(d) + WeekLength) % WeekLength = 0
    BY <2>1 DEF MondayOf
  <2>3. \A a : MondayOf(a) = a - (a % WeekLength)
    BY DEF MondayOf
  <2>4. QED
    BY <1>2, <1>3, <2>2, <2>3
<1>5. \A a : CalendarHeld(a) = UNION {DayTab(MondayOf(a) + i) : i \in 0 .. WeekLength - 1}
  BY DEF CalendarHeld, CalendarDay, DayTab
<1>6. DayTab(d) \subseteq CalendarHeld(d)
  <2>1. \E i \in 0 .. WeekLength - 1 : MondayOf(d) + i = d
    BY <1>3
  <2>2. QED
    BY <1>5, <2>1
<1>7. ASSUME NEW i \in 0 .. WeekLength - 1, NEW j \in 0 .. WeekLength - 1, i # j
      PROVE  CalendarDay(d, i) \cap CalendarDay(d, j) = {}
  BY <1>2, <1>3, <1>7 DEF CalendarDay
<1>8. CalendarHeld(d) \cap CalendarHeld(MondayOf(d) + WeekLength) = {}
  <2> SUFFICES ASSUME NEW w \in CalendarHeld(d), w \in CalendarHeld(MondayOf(d) + WeekLength) PROVE FALSE
    OBVIOUS
  <2>1. PICK i \in 0 .. WeekLength - 1 : w \in DayTab(MondayOf(d) + i)
    BY <1>5
  <2>2. PICK j \in 0 .. WeekLength - 1 : w \in DayTab(MondayOf(d) + WeekLength + j)
    BY <1>4, <1>5
  <2>3. MondayOf(d) + i = MondayOf(d) + WeekLength + j
    BY <2>1, <2>2 DEF DayTab
  <2>4. QED
    BY <1>2, <1>3, <2>3
<1>9. QED
  BY <1>5, <1>6, <1>7, <1>8

\* Whatever is booked, moved, closed and left to pass, and whatever the length of days
\* and weeks, card, badge, dashboard and calendar agree about the windows.
THEOREM WindowsTypeCorrect == FreeWindowsSpec => []FreeWindowsTypeOK
BY WindowsInit, WindowsStep, PTL DEF FreeWindowsSpec

THEOREM WindowsAgree ==
    FreeWindowsSpec => [](CardAgrees /\ BadgeIsOnOffer /\ LiveIsListed /\ CalendarIsWhole)
<1>1. FreeWindowsTypeOK => CardAgrees /\ BadgeIsOnOffer /\ LiveIsListed /\ CalendarIsWhole
  BY CardsAgree, BadgesAreOnOffer, LiveAreListed, CalendarsAreWhole
<1>2. QED
  BY <1>1, WindowsInit, WindowsStep, PTL DEF FreeWindowsSpec
-----------------------------------------------------------------------------
(* The board of ads.                                                       *)

\* What AdForm saves: a part is sold, a car is sold for a price or rented out for one,
\* by the hour or by the day, and nothing is left of what is not asked for.
Sold(f) == f.deal = "sale" /\ f.vehicle = "" /\ f.hour = NoPrice /\ f.day = NoPrice
InForm(f) ==
    /\ f \in AdForm
    /\ f.kind = "part" => Sold(f)
    /\ f.kind = "car" /\ f.deal = "sale" => Sold(f) /\ f.price > 0
    /\ f.kind = "car" /\ f.deal = "rent" => f.vehicle # "" /\ (f.hour > 0 \/ f.day > 0)

\* A shop that an ad is of is its seller's, and is there.
InShop(row) == row.shop = NoTrader \/ (row.shop = row.seller /\ row.shop \in shops)

BoardInv ==
    /\ board \in Seq(BoardRow) /\ Len(board) <= MaxAds
    /\ shops \subseteq Traders /\ groups \subseteq Groups
    /\ \A a \in DOMAIN board : InForm(board[a].form) /\ InShop(board[a])

LEMMA PostableIsInForm == ASSUME NEW f \in Postable PROVE InForm(f)
<1>1. PICK g \in FormsOnOffer : Accepted(g) /\ f = Cleaned(g)
  BY DEF Postable
<1>2. g \in AdForm
  BY <1>1, AdBoardAssumption
<1>3. /\ g.kind \in {"part", "car"} /\ g.deal \in {"sale", "rent"}
      /\ g.price \in AskingPrices
  BY <1>2 DEF AdForm
<1>4. /\ Unrented(g) \in AdForm /\ Unrented(g).kind = g.kind /\ Unrented(g).deal = g.deal
      /\ Unrented(g).price = g.price /\ Unrented(g).vehicle = ""
      /\ Unrented(g).hour = NoPrice /\ Unrented(g).day = NoPrice
  BY <1>2 DEF Unrented, AdForm
<1>5. CASE g.kind = "part"
  <2>1. f = [Unrented(g) EXCEPT !.deal = "sale", !.brand = NoGroup]
    BY <1>1, <1>5 DEF Cleaned
  <2>2. f \in AdForm /\ f.kind = "part" /\ Sold(f)
    BY <1>4, <1>5, <2>1 DEF AdForm, Sold
  <2>3. QED
    BY <2>2 DEF InForm
<1>6. CASE g.kind = "car" /\ g.deal = "sale"
  <2>1. f = [Unrented(g) EXCEPT !.category = NoGroup]
    BY <1>1, <1>6 DEF Cleaned
  <2>2. f \in AdForm /\ f.kind = "car" /\ Sold(f) /\ f.price = g.price
    BY <1>4, <1>6, <2>1 DEF AdForm, Sold
  <2>3. g.price > 0
    BY <1>1, <1>6 DEF Accepted
  <2>4. QED
    BY <2>2, <2>3 DEF InForm, Sold
<1>7. CASE g.kind = "car" /\ g.deal = "rent"
  <2>1. f = [g EXCEPT !.category = NoGroup, !.price = 0]
    BY <1>1, <1>7 DEF Cleaned
  <2>2. 0 \in AskingPrices
    BY AdBoardAssumption DEF AskingPrices
  <2>3. /\ f \in AdForm /\ f.kind = "car" /\ f.deal = "rent" /\ f.vehicle = g.vehicle
        /\ f.hour = g.hour /\ f.day = g.day
    BY <1>2, <1>7, <2>1, <2>2 DEF AdForm
  <2>4. g.vehicle # "" /\ (g.hour > 0 \/ g.day > 0)
    BY <1>1, <1>7 DEF Accepted
  <2>5. QED
    BY <2>3, <2>4 DEF InForm
<1>8. QED
  BY <1>3, <1>5, <1>6, <1>7

LEMMA BoardInvInit == BoardInit => BoardInv
BY AdBoardAssumption DEF BoardInit, BoardInv

\* The rows after a step, one by one.
LEMMA RowsKept ==
    ASSUME BoardInv, board' \in Seq(BoardRow), Len(board') <= MaxAds,
           shops' \subseteq Traders, groups' \subseteq Groups,
           \A a \in DOMAIN board' : InForm(board'[a].form) /\ InShop(board[a])'
    PROVE  BoardInv'
BY DEF BoardInv

LEMMA BoardStep == BoardInv /\ [BoardNext]_boardVars => BoardInv'
<1> SUFFICES ASSUME BoardInv, [BoardNext]_boardVars PROVE BoardInv'
  OBVIOUS
<1>0. /\ board \in Seq(BoardRow) /\ Len(board) \in Nat /\ DOMAIN board = 1 .. Len(board)
      /\ \A a \in DOMAIN board : board[a] \in BoardRow
  BY DEF BoardInv
<1>1. ASSUME NEW a \in DOMAIN board, NEW row \in BoardRow, board' = [board EXCEPT ![a] = row],
             UNCHANGED <<shops, groups>>, InForm(row.form),
             row.shop = board[a].shop, row.seller = board[a].seller
      PROVE  BoardInv'
  <2>1. board' \in Seq(BoardRow) /\ Len(board') = Len(board)
    BY <1>0, <1>1
  <2>2. DOMAIN board' = DOMAIN board /\ board'[a] = row /\ \A b \in DOMAIN board : b # a => board'[b] = board[b]
    BY <1>0, <1>1
  <2>3. QED
    BY <1>1, <2>1, <2>2 DEF BoardInv, InShop
<1>2. CASE BoardAdPosted
  <2>1. PICK u \in Traders, form \in Postable, published \in BOOLEAN :
            board' = Append(board, [form |-> form, seller |-> u, shop |-> ShopOf(u), published |-> published])
    BY <1>2 DEF BoardAdPosted
  <2>2. InForm(form) /\ form \in AdForm
    BY PostableIsInForm DEF InForm
  <2>3. ShopOf(u) \in Traders \cup {NoTrader} /\ (ShopOf(u) = NoTrader \/ (ShopOf(u) = u /\ u \in shops))
    BY DEF ShopOf
  <2>4. PICK row \in BoardRow : /\ row.form = form /\ row.seller = u /\ row.shop = ShopOf(u)
                                /\ board' = Append(board, row)
    BY <2>1, <2>2, <2>3 DEF BoardRow
  <2>5. /\ board' \in Seq(BoardRow) /\ Len(board') = Len(board) + 1
        /\ DOMAIN board' = 1 .. Len(board) + 1 /\ board'[Len(board) + 1] = row
        /\ \A a \in DOMAIN board : board'[a] = board[a]
    BY <1>0, <2>4
  <2>6. Len(board') <= MaxAds /\ UNCHANGED <<shops, groups>>
    BY <1>0, <1>2, <2>5, AdBoardAssumption DEF BoardAdPosted
  <2>7. \A a \in DOMAIN board' : a \in DOMAIN board \/ a = Len(board) + 1
    BY <1>0, <2>5
  <2>8. \A a \in DOMAIN board' : InForm(board'[a].form) /\ InShop(board[a])'
    BY <2>2, <2>3, <2>4, <2>5, <2>6, <2>7 DEF BoardInv, InShop
  <2>9. QED
    BY <2>5, <2>6, <2>8 DEF BoardInv
<1>3. CASE BoardAdEdited
  <2>1. PICK a \in DOMAIN board, form \in Postable, published \in BOOLEAN :
            board' = [board EXCEPT ![a].form = form, ![a].published = published]
    BY <1>3 DEF BoardAdEdited
  <2>2. InForm(form) /\ form \in AdForm
    BY PostableIsInForm DEF InForm
  <2>3. board' = [board EXCEPT ![a] = [board[a] EXCEPT !.form = form, !.published = published]]
    BY <1>0, <2>1
  <2>4. PICK row \in BoardRow :
            /\ row.form = form /\ row.shop = board[a].shop /\ row.seller = board[a].seller
            /\ row = [board[a] EXCEPT !.form = form, !.published = published]
    BY <1>0, <2>2 DEF BoardRow
  <2>5. QED
    BY <1>1, <1>3, <2>2, <2>3, <2>4 DEF BoardAdEdited
<1>4. CASE BoardAdWithdrawn
  <2>1. PICK a \in DOMAIN board : board' = [board EXCEPT ![a].published = FALSE]
    BY <1>4 DEF BoardAdWithdrawn
  <2>2. board' = [board EXCEPT ![a] = [board[a] EXCEPT !.published = FALSE]]
    BY <1>0, <2>1
  <2>3. PICK row \in BoardRow :
            /\ row.form = board[a].form /\ row.shop = board[a].shop /\ row.seller = board[a].seller
            /\ row = [board[a] EXCEPT !.published = FALSE]
    BY <1>0 DEF BoardRow
  <2>4. InForm(row.form)
    BY <2>3 DEF BoardInv
  <2>5. QED
    BY <1>1, <1>4, <2>2, <2>3, <2>4 DEF BoardAdWithdrawn
<1>5. CASE ShopOpened
  <2>1. PICK u \in Traders : shops' = shops \cup {u} /\ UNCHANGED <<board, groups>>
    BY <1>5 DEF ShopOpened
  <2>2. QED
    BY <2>1 DEF BoardInv, InShop
<1>6. ASSUME board' = [a \in DOMAIN board |-> board'[a]], \A a \in DOMAIN board : board'[a] \in BoardRow
      PROVE  board' \in Seq(BoardRow) /\ Len(board') = Len(board) /\ DOMAIN board' = DOMAIN board
  <2>1. board' \in [1 .. Len(board) -> BoardRow]
    BY <1>0, <1>6
  <2>2. QED
    BY <1>0, <2>1
<1>7. CASE ShopDeleted
  <2>1. PICK u \in shops :
            /\ shops' = shops \ {u}
            /\ board' = [a \in DOMAIN board |->
                   IF board[a].shop = u THEN [board[a] EXCEPT !.shop = NoTrader] ELSE board[a]]
            /\ UNCHANGED groups
    BY <1>7 DEF ShopDeleted
  <2>2. ASSUME NEW a \in DOMAIN board
        PROVE  /\ board'[a] \in BoardRow /\ board'[a].form = board[a].form
               /\ board'[a].seller = board[a].seller
               /\ board'[a].shop = IF board[a].shop = u THEN NoTrader ELSE board[a].shop
    <3>1. board[a] \in BoardRow
      BY <1>0
    <3>2. board'[a] = IF board[a].shop = u THEN [board[a] EXCEPT !.shop = NoTrader] ELSE board[a]
      BY <2>1
    <3>3. QED
      BY <3>1, <3>2 DEF BoardRow
  <2>3. board' \in Seq(BoardRow) /\ Len(board') = Len(board) /\ DOMAIN board' = DOMAIN board
    BY <1>6, <2>1, <2>2
  <2>4. ASSUME NEW a \in DOMAIN board PROVE InForm(board'[a].form) /\ InShop(board[a])'
    <3>1. InForm(board[a].form) /\ InShop(board[a])
      BY DEF BoardInv
    <3>2. CASE board[a].shop = u
      BY <2>2, <3>1, <3>2 DEF InShop
    <3>3. CASE board[a].shop # u
      BY <2>1, <2>2, <3>1, <3>3 DEF InShop
    <3>4. QED
      BY <3>2, <3>3
  <2>5. QED
    BY <2>1, <2>3, <2>4, RowsKept DEF BoardInv
<1>8. CASE GroupDeleted
  <2>1. PICK g \in groups :
            /\ groups' = groups \ {g}
            /\ board' = [a \in DOMAIN board |->
                   [board[a] EXCEPT !.form.category = Without(g, @), !.form.brand = Without(g, @)]]
            /\ UNCHANGED shops
    BY <1>8 DEF GroupDeleted
  <2>2. ASSUME NEW a \in DOMAIN board
        PROVE  /\ board'[a] \in BoardRow /\ InForm(board'[a].form)
               /\ board'[a].seller = board[a].seller /\ board'[a].shop = board[a].shop
    <3>1. board[a] \in BoardRow /\ InForm(board[a].form)
      BY <1>0 DEF BoardInv
    <3>2. PICK c \in Groups \cup {NoGroup}, b \in Groups \cup {NoGroup} :
              c = Without(g, board[a].form.category) /\ b = Without(g, board[a].form.brand)
      BY <3>1 DEF Without, InForm, AdForm
    <3>3. board'[a] = [board[a] EXCEPT !.form = [board[a].form EXCEPT !.category = c, !.brand = b]]
      BY <2>1, <3>1, <3>2 DEF BoardRow, AdForm
    <3>4. InForm([board[a].form EXCEPT !.category = c, !.brand = b])
      BY <3>1 DEF InForm, AdForm, Sold
    <3>5. QED
      BY <3>1, <3>3, <3>4 DEF BoardRow, InForm
  <2>3. board' \in Seq(BoardRow) /\ Len(board') = Len(board) /\ DOMAIN board' = DOMAIN board
    BY <1>6, <2>1, <2>2
  <2>4. ASSUME NEW a \in DOMAIN board PROVE InShop(board[a])'
    <3>1. InShop(board[a])
      BY DEF BoardInv
    <3>2. shops' = shops
      BY <2>1
    <3>3. QED
      BY <2>2, <3>1, <3>2 DEF InShop
  <2>5. QED
    BY <2>1, <2>2, <2>3, <2>4, RowsKept DEF BoardInv
<1>9. CASE UNCHANGED boardVars
  BY <1>9 DEF BoardInv, InShop, boardVars
<1>10. QED
  BY <1>2, <1>3, <1>4, <1>5, <1>7, <1>8, <1>9 DEF BoardNext

LEMMA BoardTyped == BoardInv => AdBoardTypeOK
BY DEF BoardInv, AdBoardTypeOK

\* An ad on the site is in form.
LEMMA OnSiteInForm ==
    ASSUME BoardInv, NEW a \in OnSite
    PROVE  /\ a \in DOMAIN board /\ InForm(board[a].form) /\ board[a].form \in AdForm
           /\ board[a].form.kind \in {"part", "car"} /\ board[a].form.deal \in {"sale", "rent"}
           /\ board[a].form.vehicle \in {"", "car", "special"}
           /\ board[a].form.price \in Nat
           /\ board[a].form.hour \in Nat \cup {NoPrice} /\ board[a].form.day \in Nat \cup {NoPrice}
<1>1. a \in DOMAIN board /\ InForm(board[a].form) /\ board[a].form \in AdForm
  BY DEF OnSite, BoardInv, InForm
<1>2. AskingPrices \subseteq Nat
  BY AdBoardAssumption DEF AskingPrices
<1>3. QED
  BY <1>1, <1>2 DEF AdForm

\* What is more than nothing is a price, and so is what a range from more than
\* nothing holds.
LEMMA PositiveIsPrice ==
    ASSUME NEW p \in Nat \cup {NoPrice}
    PROVE  /\ p > 0 => p \notin {NoPrice, 0}
           /\ ~(p <= 0) => p \notin {NoPrice, 0}
BY DEF NoPrice

LEMMA PriceInRange ==
    ASSUME NEW p \in Nat \cup {NoPrice}, NEW m \in Nat \cup {NoPrice}, NEW x, m > 0, InRange(p, m, x)
    PROVE  p \notin {NoPrice, 0}
<1>1. m # NoPrice
  BY DEF NoPrice
<1>2. p # NoPrice /\ p >= m
  BY <1>1 DEF InRange
<1>3. QED
  BY <1>2 DEF NoPrice

\* A tab asks for no price and for no group.
LEMMA TabFields ==
    ASSUME NEW tab, NEW deal
    PROVE  /\ Tab(tab, deal).tab = tab /\ Tab(tab, deal).deal = deal
           /\ Tab(tab, deal).min = NoPrice /\ Tab(tab, deal).max = NoPrice
           /\ Tab(tab, deal).group = NoGroup
BY DEF Tab

LEMMA OnTab ==
    ASSUME NEW a \in OnSite, NEW tab, NEW deal
    PROVE  OnList(a, Tab(tab, deal)) <=> /\ board[a].form.kind = tab
                                         /\ tab = "car" => OfDeal(board[a].form, deal)
BY TabFields DEF OnList, InRange, OfGroup

LEMMA OneList == BoardInv => OnOneList
<1> SUFFICES ASSUME BoardInv PROVE OnOneList
  OBVIOUS
<1>1. Tabs = {Tab("part", "sale"), Tab("car", "sale"), Tab("car", "rent_car"), Tab("car", "rent_special")}
  BY DEF Tabs, DealPages, Deals
<1>2. ASSUME NEW a \in OnSite
      PROVE  /\ WayBack(a) \in Tabs
             /\ \A t \in Tabs : OnList(a, t) <=> t = WayBack(a)
             /\ board[a].form.kind = "car" => WayBack(a) \in DealPages
  <2> DEFINE f == board[a].form
  <2>1. /\ f.kind \in {"part", "car"} /\ f.deal \in {"sale", "rent"}
        /\ f.vehicle \in {"", "car", "special"}
        /\ f.kind = "car" /\ f.deal = "rent" => f.vehicle # ""
    BY OnSiteInForm DEF InForm
  <2>2. CASE f.kind = "part"
    <3>1. WayBack(a) = Tab("part", "sale")
      BY <2>2 DEF WayBack
    <3>2. OnList(a, Tab("part", "sale")) /\ \A d : ~OnList(a, Tab("car", d))
      BY <2>2, OnTab
    <3>3. Tab("part", "sale").tab # "car" /\ \A d : Tab("car", d).tab = "car"
      BY TabFields
    <3>4. QED
      BY <1>1, <2>2, <3>1, <3>2, <3>3
  <2>3. ASSUME NEW d \in Deals, f.kind = "car",
               WayBack(a) = Tab("car", d), \A e \in Deals : OfDeal(f, e) <=> e = d
        PROVE  /\ WayBack(a) \in Tabs /\ WayBack(a) \in DealPages
               /\ \A t \in Tabs : OnList(a, t) <=> t = WayBack(a)
    <3>1. \A e \in Deals : OnList(a, Tab("car", e)) <=> e = d
      BY <2>3, OnTab
    <3>2. ~OnList(a, Tab("part", "sale")) /\ Tab("part", "sale") # WayBack(a)
      BY <2>3, OnTab, TabFields
    <3>3. \A e \in Deals : Tab("car", e) = Tab("car", d) <=> e = d
      BY TabFields
    <3>4. \A t \in Tabs : t = Tab("part", "sale") \/ \E e \in Deals : t = Tab("car", e)
      BY DEF Tabs, DealPages
    <3>5. QED
      BY <2>3, <3>1, <3>2, <3>3, <3>4 DEF Tabs, DealPages
  <2>4. CASE f.kind = "car" /\ f.deal = "sale"
    <3>1. WayBack(a) = Tab("car", "sale")
      BY <2>4 DEF WayBack
    <3>2. \A e \in Deals : OfDeal(f, e) <=> e = "sale"
      BY <2>4 DEF OfDeal, Deals
    <3>3. QED
      BY <2>3, <2>4, <3>1, <3>2 DEF Deals
  <2>5. CASE f.kind = "car" /\ f.deal = "rent" /\ f.vehicle = "special"
    <3>1. WayBack(a) = Tab("car", "rent_special")
      BY <2>5 DEF WayBack
    <3>2. \A e \in Deals : OfDeal(f, e) <=> e = "rent_special"
      BY <2>5 DEF OfDeal, Deals
    <3>3. QED
      BY <2>3, <2>5, <3>1, <3>2 DEF Deals
  <2>6. CASE f.kind = "car" /\ f.deal = "rent" /\ f.vehicle = "car"
    <3>1. WayBack(a) = Tab("car", "rent_car")
      BY <2>6 DEF WayBack
    <3>2. \A e \in Deals : OfDeal(f, e) <=> e = "rent_car"
      BY <2>6 DEF OfDeal, Deals
    <3>3. QED
      BY <2>3, <2>6, <3>1, <3>2 DEF Deals
  <2>7. QED
    BY <2>1, <2>2, <2>4, <2>5, <2>6
<1>3. \A a \in OnSite : {t \in Tabs : OnList(a, t)} = {WayBack(a)}
  BY <1>2
<1>4. ActivePublished("car") = UNION {ListedOn(page) : page \in DealPages}
  <2>1. ASSUME NEW a \in ActivePublished("car") PROVE \E page \in DealPages : a \in ListedOn(page)
    <3>1. a \in OnSite /\ board[a].form.kind = "car"
      BY DEF ActivePublished
    <3>2. WayBack(a) \in DealPages /\ OnList(a, WayBack(a))
      BY <1>2, <3>1
    <3>3. QED
      BY <3>1, <3>2 DEF ListedOn
  <2>2. ASSUME NEW page \in DealPages, NEW a \in ListedOn(page) PROVE a \in ActivePublished("car")
    <3>1. a \in OnSite /\ OnList(a, page) /\ page.tab = "car"
      BY TabFields DEF ListedOn, DealPages
    <3>2. QED
      BY <3>1 DEF OnList, ActivePublished
  <2>3. QED
    BY <2>1, <2>2
<1>5. ASSUME NEW tab \in {"part", "car", "", "?"}, NEW deal \in Deals \cup {"", "?"}
      PROVE  TabAsked(CanonicalTab(tab, deal).tab, CanonicalTab(tab, deal).deal) = TabAsked(tab, deal)
  <2>1. CASE tab = "part"
    BY <2>1 DEF CanonicalTab, TabAsked
  <2>2. CASE tab = "car"
    BY <2>2 DEF CanonicalTab, TabAsked, Deals
  <2>3. CASE tab \notin {"part", "car"}
    BY <2>3 DEF CanonicalTab, TabAsked
  <2>4. QED
    BY <2>1, <2>2, <2>3
<1>6. QED
  BY <1>3, <1>4, <1>5 DEF OnOneList

LEMMA PricesPrinted == BoardInv => PricesArePrinted
<1> SUFFICES ASSUME BoardInv, NEW filter \in BoardFilters, filter.group = NoGroup
             PROVE  /\ filter.min > 0 \/ filter.deal = "sale" =>
                          \A a \in ListedOn(filter) : \E p \in Offers(a) : InRange(p, filter.min, filter.max)
                    /\ \A a \in OnSite :
                          /\ board[a].form.kind = "car" => \E p \in Offers(a) : p > 0
                          /\ /\ OnList(a, Tab(filter.tab, filter.deal))
                             /\ \A p \in Offers(a) : InRange(p, filter.min, filter.max)
                             => (board[a].form.deal = "rent" /\ board[a].form.day <= 0) \/ OnList(a, filter)
  BY DEF PricesArePrinted
<1>0. /\ filter.tab \in {"part", "car"} /\ filter.deal \in Deals
      /\ filter.min \in Nat \cup {NoPrice} /\ filter.max \in Nat \cup {NoPrice}
  BY AdBoardAssumption DEF BoardFilters, AskingPrices
<1>1. ASSUME NEW a \in OnSite
      PROVE  /\ board[a].form.kind = "car" /\ board[a].form.deal = "rent" =>
                   Offers(a) = {board[a].form.hour, board[a].form.day} \ {NoPrice, 0}
             /\ ~(board[a].form.kind = "car" /\ board[a].form.deal = "rent") =>
                   Offers(a) = {board[a].form.price}
  BY DEF Offers
<1>2. ASSUME NEW a \in OnSite, OfDeal(board[a].form, filter.deal)
      PROVE  board[a].form.deal = IF filter.deal = "sale" THEN "sale" ELSE "rent"
  BY <1>0, <1>2 DEF OfDeal, Deals
<1>3. ASSUME filter.min > 0 \/ filter.deal = "sale", NEW a \in ListedOn(filter)
      PROVE  \E p \in Offers(a) : InRange(p, filter.min, filter.max)
  <2> DEFINE f == board[a].form
  <2>1. /\ a \in OnSite /\ f.kind = filter.tab
        /\ filter.tab = "car" => OfDeal(f, filter.deal)
        /\ InRange(PriceAsked(f, filter), filter.min, filter.max)
    BY DEF ListedOn, OnList
  <2>2. CASE filter.tab = "car" /\ filter.deal # "sale"
    <3>1. f.kind = "car" /\ f.deal = "rent" /\ PriceAsked(f, filter) = f.day
      BY <1>2, <2>1, <2>2 DEF PriceAsked
    <3>2. filter.min > 0 /\ InRange(f.day, filter.min, filter.max) /\ f.day \in Nat \cup {NoPrice}
      BY <1>3, <2>1, <2>2, <3>1, OnSiteInForm
    <3>3. f.day \notin {NoPrice, 0}
      BY <1>0, <3>2, PriceInRange
    <3>4. f.day \in Offers(a)
      BY <1>1, <2>1, <3>1, <3>3
    <3>5. QED
      BY <2>1, <3>1, <3>4
  <2>3. CASE ~(filter.tab = "car" /\ filter.deal # "sale")
    <3>1. ~(f.kind = "car" /\ f.deal = "rent") /\ PriceAsked(f, filter) = f.price
      BY <1>2, <2>1, <2>3 DEF PriceAsked
    <3>2. Offers(a) = {f.price}
      BY <1>1, <2>1, <3>1
    <3>3. QED
      BY <2>1, <3>1, <3>2
  <2>4. QED
    BY <2>2, <2>3
<1>4. ASSUME NEW a \in OnSite, board[a].form.kind = "car" PROVE \E p \in Offers(a) : p > 0
  <2> DEFINE f == board[a].form
  <2>1. CASE f.deal = "sale"
    <3>1. f.price > 0 /\ Offers(a) = {f.price}
      BY <1>1, <1>4, <2>1, OnSiteInForm DEF InForm
    <3>2. QED
      BY <3>1
  <2>2. CASE f.deal = "rent"
    <3>1. (f.hour > 0 \/ f.day > 0) /\ Offers(a) = {f.hour, f.day} \ {NoPrice, 0}
      BY <1>1, <1>4, <2>2, OnSiteInForm DEF InForm
    <3>2. /\ f.hour > 0 => f.hour \notin {NoPrice, 0}
          /\ f.day > 0 => f.day \notin {NoPrice, 0}
      BY PositiveIsPrice, OnSiteInForm
    <3>3. QED
      BY <3>1, <3>2
  <2>3. QED
    BY <2>1, <2>2, OnSiteInForm
<1>5. ASSUME NEW a \in OnSite, OnList(a, Tab(filter.tab, filter.deal)),
             \A p \in Offers(a) : InRange(p, filter.min, filter.max),
             ~(board[a].form.deal = "rent" /\ board[a].form.day <= 0)
      PROVE  OnList(a, filter)
  <2> DEFINE f == board[a].form
  <2>1. f.kind = filter.tab /\ (filter.tab = "car" => OfDeal(f, filter.deal))
    BY <1>5, OnTab
  <2>2. PriceAsked(f, filter) \in Offers(a)
    <3>1. CASE filter.tab = "car" /\ filter.deal # "sale"
      <4>1. f.kind = "car" /\ f.deal = "rent" /\ PriceAsked(f, filter) = f.day
        BY <1>2, <2>1, <3>1 DEF PriceAsked
      <4>2. f.day \notin {NoPrice, 0}
        <5>1. f.day \in Nat \cup {NoPrice} /\ ~(f.day <= 0)
          BY <1>5, <4>1, OnSiteInForm
        <5>2. QED
          BY <5>1, PositiveIsPrice
      <4>3. QED
        BY <1>1, <4>1, <4>2
    <3>2. CASE ~(filter.tab = "car" /\ filter.deal # "sale")
      BY <1>1, <1>2, <2>1, <3>2 DEF PriceAsked
    <3>3. QED
      BY <3>1, <3>2
  <2>3. OfGroup(f, filter)
    BY DEF OfGroup
  <2>4. QED
    BY <1>5, <2>1, <2>2, <2>3 DEF OnList
<1>6. QED
  BY <1>3, <1>4, <1>5

LEMMA ShopsSell == BoardInv => ShopSellsItsOwners
<1> SUFFICES ASSUME BoardInv, NEW u \in Traders
             PROVE  /\ ShopPage(u) \subseteq SellerPage(u) /\ ShopProducts(u) \subseteq MyAds(u)
                    /\ u \notin shops => ShopProducts(u) = {}
                    /\ \A b \in Groups : u \in ShopsOnMap(b) =>
                          \E a \in ShopPage(u) : board[a].form.brand = b
  BY DEF ShopSellsItsOwners
<1>1. \A a \in DOMAIN board : board[a].shop = u => board[a].seller = u /\ u \in shops
  BY AdBoardAssumption DEF BoardInv, InShop
<1>2. QED
  BY <1>1 DEF ShopPage, SellerPage, ShopProducts, MyAds, ShopsOnMap, OnSite

\* However ads are edited, and whatever is deleted under them, an ad is on one list, at
\* a price its page prints, and with the shop of its seller.
THEOREM BoardTypeCorrect == BoardSpec => []AdBoardTypeOK
BY BoardInvInit, BoardStep, BoardTyped, PTL DEF BoardSpec

THEOREM BoardAgrees == BoardSpec => [](OnOneList /\ PricesArePrinted /\ ShopSellsItsOwners)
<1>1. BoardInv => OnOneList /\ PricesArePrinted /\ ShopSellsItsOwners
  BY OneList, PricesPrinted, ShopsSell
<1>2. QED
  BY <1>1, BoardInvInit, BoardStep, PTL DEF BoardSpec
-----------------------------------------------------------------------------
(* The reports about bookings.                                             *)

\* A row was saved as completed once the booking was made, and by a day.
CompletedBy(v, d) ==
    \E h \in historyRows[v] : h.status = "completed" /\ h.day \in bookingRow[v].made .. d

\* What is completed was saved so, and what has a review was by the day of the review.
VisitsInOrder ==
    /\ VisitReportsTypeOK
    /\ \A v \in DOMAIN bookingRow : bookingRow[v].status = "completed" => CompletedBy(v, onDay)
    /\ \A v \in DOMAIN reviewRow : reviewRow[v].made \in 0 .. onDay /\ CompletedBy(v, reviewRow[v].made)

VisitRow == [client : DOMAIN joinedOn, station : Garages, made : 0 .. onDay, status : Statuses]
SavedRow == [status : Statuses, day : 0 .. onDay]

LEMMA SavesInit == VisitReportsInit => VisitsInOrder
BY VisitReportsAssumption DEF VisitReportsInit, VisitsInOrder, VisitReportsTypeOK, ReportDays

\* A booking is saved, with a row of its history.
LEMMA VisitSaved ==
    ASSUME VisitsInOrder, NEW v \in VisitIds, NEW row \in VisitRow, SaveBooking(v, row),
           v \in DOMAIN bookingRow => row.made = bookingRow[v].made,
           UNCHANGED <<onDay, joinedOn, reviewRow>>
    PROVE  VisitsInOrder'
<1> DEFINE saved == [status |-> row.status, day |-> onDay]
           before == IF v \in DOMAIN historyRows THEN historyRows[v] ELSE {}
<1>0. /\ onDay \in Nat /\ row.status \in Statuses /\ row.made \in 0 .. onDay
      /\ saved \in SavedRow /\ saved.status = row.status /\ saved.day = onDay
  BY VisitReportsAssumption DEF VisitsInOrder, VisitReportsTypeOK, ReportDays, VisitRow, SavedRow
<1>1. /\ DOMAIN bookingRow' = DOMAIN bookingRow \cup {v} /\ bookingRow'[v] = row
      /\ \A w \in DOMAIN bookingRow : w # v => bookingRow'[w] = bookingRow[w]
  BY DEF SaveBooking, Put
<1>2. historyRows' = Put(historyRows, v, before \cup {saved})
  BY DEF SaveBooking
<1>3. /\ DOMAIN historyRows' = DOMAIN historyRows \cup {v} /\ historyRows'[v] = before \cup {saved}
      /\ \A w \in DOMAIN historyRows : w # v => historyRows'[w] = historyRows[w]
  <2> HIDE DEF saved, before
  <2>1. QED
    BY <1>2 DEF Put
<1>4. /\ DOMAIN historyRows = DOMAIN bookingRow
      /\ \A w \in DOMAIN bookingRow : bookingRow[w] \in VisitRow /\ historyRows[w] \subseteq SavedRow
  BY DEF VisitsInOrder, VisitReportsTypeOK, VisitRow, SavedRow
<1> HIDE DEF saved
<1>5. ASSUME NEW w \in DOMAIN bookingRow'
      PROVE  bookingRow'[w] \in VisitRow /\ historyRows'[w] \subseteq SavedRow
  <2>1. CASE w = v
    BY <1>0, <1>1, <1>3, <1>4, <2>1
  <2>2. CASE w # v
    BY <1>1, <1>3, <1>4, <1>5, <2>2
  <2>3. QED
    BY <2>1, <2>2
<1>6. VisitReportsTypeOK'
  <2>1. VisitRow' = VisitRow /\ SavedRow' = SavedRow
    BY DEF VisitRow, SavedRow
  <2>2. \A w \in DOMAIN bookingRow' : bookingRow'[w] \in VisitRow' /\ historyRows'[w] \subseteq SavedRow'
    BY <1>5, <2>1
  <2>3. QED
    BY <1>1, <1>3, <1>4, <2>2 DEF VisitsInOrder, VisitReportsTypeOK, VisitRow, SavedRow
<1>7. ASSUME NEW w \in DOMAIN bookingRow, NEW d \in 0 .. onDay, CompletedBy(w, d)
      PROVE  CompletedBy(w, d)'
  <2>1. bookingRow'[w].made = bookingRow[w].made
    BY <1>1, <1>7
  <2>2. historyRows[w] \subseteq historyRows'[w]
    BY <1>3, <1>4, <1>7
  <2>3. QED
    BY <1>7, <2>1, <2>2 DEF CompletedBy
<1>8. ASSUME NEW w \in DOMAIN bookingRow', bookingRow'[w].status = "completed"
      PROVE  CompletedBy(w, onDay)'
  <2>1. CASE w = v
    <3>1. saved \in historyRows'[w] /\ bookingRow'[w] = row
      BY <1>1, <1>3, <2>1
    <3>2. saved.status = "completed" /\ saved.day \in row.made .. onDay
      BY <1>0, <1>8, <3>1
    <3>3. QED
      BY <3>1, <3>2 DEF CompletedBy
  <2>2. CASE w # v
    <3>1. w \in DOMAIN bookingRow /\ CompletedBy(w, onDay) /\ onDay \in 0 .. onDay
      BY <1>0, <1>1, <1>8, <2>2 DEF VisitsInOrder
    <3>2. QED
      BY <1>7, <3>1 DEF CompletedBy
  <2>3. QED
    BY <2>1, <2>2
<1>9. ASSUME NEW w \in DOMAIN reviewRow'
      PROVE  reviewRow'[w].made \in 0 .. onDay' /\ CompletedBy(w, reviewRow[w].made)'
  <2>1. /\ w \in DOMAIN bookingRow /\ reviewRow[w].made \in 0 .. onDay
        /\ CompletedBy(w, reviewRow[w].made)
    BY <1>9 DEF VisitsInOrder, VisitReportsTypeOK
  <2>2. QED
    BY <1>7, <2>1 DEF CompletedBy
<1>10. QED
  BY <1>6, <1>8, <1>9 DEF VisitsInOrder, CompletedBy

LEMMA SavesStep == VisitsInOrder /\ [VisitReportsNext]_visitReportVars => VisitsInOrder'
<1> SUFFICES ASSUME VisitsInOrder, [VisitReportsNext]_visitReportVars PROVE VisitsInOrder'
  OBVIOUS
<1>0. /\ onDay \in Nat /\ onDay <= MaxReportDay /\ MaxReportDay \in Nat
      /\ DOMAIN historyRows = DOMAIN bookingRow /\ DOMAIN bookingRow \subseteq VisitIds
      /\ DOMAIN reviewRow \subseteq DOMAIN bookingRow
      /\ \A c \in DOMAIN joinedOn : c \in Clients /\ joinedOn[c] \in 0 .. onDay
      /\ \A v \in DOMAIN bookingRow : bookingRow[v] \in VisitRow /\ historyRows[v] \subseteq SavedRow
  BY VisitReportsAssumption DEF VisitsInOrder, VisitReportsTypeOK, ReportDays, VisitRow, SavedRow
<1>1. ASSUME NEW c \in Clients, Registers(c) PROVE VisitsInOrder'
  <2>1. /\ DOMAIN joinedOn' = DOMAIN joinedOn \cup {c} /\ joinedOn'[c] = onDay
        /\ \A d \in DOMAIN joinedOn : joinedOn'[d] = joinedOn[d]
    BY <1>1 DEF Registers, Put
  <2>2. \A d \in DOMAIN joinedOn' : d \in Clients /\ joinedOn'[d] \in 0 .. onDay
    BY <1>0, <2>1
  <2>3. VisitRow \subseteq VisitRow' /\ SavedRow' = SavedRow
    BY <1>1, <2>1 DEF VisitRow, SavedRow, Registers
  <2>4. UNCHANGED <<onDay, bookingRow, historyRows, reviewRow>>
    BY <1>1 DEF Registers
  <2>5. \A v \in DOMAIN bookingRow' : bookingRow'[v] \in VisitRow' /\ historyRows'[v] \subseteq SavedRow'
    BY <1>0, <2>3, <2>4
  <2>6. VisitReportsTypeOK'
    BY <1>0, <2>2, <2>4, <2>5 DEF VisitReportsTypeOK, VisitRow, SavedRow, ReportDays
  <2>7. QED
    BY <2>4, <2>6 DEF VisitsInOrder, CompletedBy
<1>2. ASSUME NEW c \in Clients, NEW v \in VisitIds, NEW g \in Garages, Books(c, v, g)
      PROVE  VisitsInOrder'
  <2> DEFINE row == [client |-> c, station |-> g, made |-> onDay, status |-> "pending"]
  <2>1. row \in VisitRow
    BY <1>0, <1>2 DEF VisitRow, Books, Statuses
  <2>2. SaveBooking(v, row) /\ v \notin DOMAIN bookingRow /\ UNCHANGED <<onDay, joinedOn, reviewRow>>
    BY <1>2 DEF Books
  <2> HIDE DEF row
  <2>3. QED
    BY <2>1, <2>2, VisitSaved
<1>3. ASSUME NEW v \in VisitIds, NEW s \in Statuses, SetsStatus(v, s) \/ AdminSaves(v, s)
      PROVE  VisitsInOrder'
  <2> DEFINE row == [bookingRow[v] EXCEPT !.status = s]
  <2>1. v \in DOMAIN bookingRow /\ SaveBooking(v, row) /\ UNCHANGED <<onDay, joinedOn, reviewRow>>
    BY <1>3 DEF SetsStatus, AdminSaves
  <2>2. row \in VisitRow /\ row.made = bookingRow[v].made
    BY <1>0, <2>1 DEF VisitRow
  <2> HIDE DEF row
  <2>3. QED
    BY <2>1, <2>2, VisitSaved
<1>4. ASSUME NEW v \in VisitIds, ExpiresUnseen(v) PROVE VisitsInOrder'
  <2>1. /\ UNCHANGED <<onDay, joinedOn, historyRows, reviewRow>> /\ v \in DOMAIN bookingRow
        /\ bookingRow' = [bookingRow EXCEPT ![v].status = "canceled"]
    BY <1>4 DEF ExpiresUnseen
  <2>2. /\ DOMAIN bookingRow' = DOMAIN bookingRow
        /\ bookingRow'[v] = [bookingRow[v] EXCEPT !.status = "canceled"]
        /\ \A w \in DOMAIN bookingRow : w # v => bookingRow'[w] = bookingRow[w]
    BY <2>1
  <2>3. /\ bookingRow'[v] \in VisitRow /\ bookingRow'[v].made = bookingRow[v].made
        /\ bookingRow'[v].status = "canceled"
    BY <1>0, <2>1, <2>2 DEF VisitRow, Statuses
  <2>4. /\ \A w \in DOMAIN bookingRow' : bookingRow'[w] \in VisitRow /\ bookingRow'[w].made = bookingRow[w].made
        /\ VisitRow' = VisitRow /\ SavedRow' = SavedRow
    BY <1>0, <2>1, <2>2, <2>3 DEF VisitRow, SavedRow
  <2>5. VisitReportsTypeOK'
    <3>1. \A w \in DOMAIN bookingRow' : bookingRow'[w] \in VisitRow' /\ historyRows'[w] \subseteq SavedRow'
      BY <1>0, <2>1, <2>2, <2>4
    <3>2. QED
      BY <1>0, <2>1, <2>2, <3>1 DEF VisitReportsTypeOK, VisitRow, SavedRow, ReportDays
  <2>6. QED
    BY <1>0, <2>1, <2>2, <2>3, <2>4, <2>5 DEF VisitsInOrder, CompletedBy
<1>5. ASSUME NEW v \in VisitIds, ReviewsVisit(v) PROVE VisitsInOrder'
  <2>1. /\ UNCHANGED <<onDay, joinedOn, bookingRow, historyRows>> /\ v \in DOMAIN bookingRow
        /\ bookingRow[v].status = "completed"
        /\ reviewRow' = Put(reviewRow, v, [made |-> onDay, moderation |-> "ok"])
    BY <1>5 DEF ReviewsVisit
  <2>2. /\ DOMAIN reviewRow' = DOMAIN reviewRow \cup {v} /\ reviewRow'[v].made = onDay
        /\ \A w \in DOMAIN reviewRow : w # v => reviewRow'[w] = reviewRow[w]
    BY <2>1 DEF Put
  <2>3. VisitReportsTypeOK'
    BY <1>0, <2>1, <2>2 DEF VisitsInOrder, VisitReportsTypeOK
  <2>4. CompletedBy(v, onDay)
    BY <2>1 DEF VisitsInOrder
  <2>5. \A w \in DOMAIN reviewRow' : reviewRow'[w].made \in 0 .. onDay /\ CompletedBy(w, reviewRow'[w].made)
    BY <1>0, <2>2, <2>4 DEF VisitsInOrder
  <2>6. QED
    BY <2>1, <2>3, <2>5 DEF VisitsInOrder, CompletedBy
<1>6. ASSUME NEW v \in VisitIds, NEW m, Moderates(v, m) PROVE VisitsInOrder'
  <2>1. /\ UNCHANGED <<onDay, joinedOn, bookingRow, historyRows>> /\ v \in DOMAIN reviewRow
        /\ reviewRow' = [reviewRow EXCEPT ![v].moderation = m]
    BY <1>6 DEF Moderates
  <2>2. /\ DOMAIN reviewRow' = DOMAIN reviewRow
        /\ \A w \in DOMAIN reviewRow : reviewRow'[w].made = reviewRow[w].made
    BY <2>1
  <2>3. VisitReportsTypeOK'
    BY <2>1, <2>2 DEF VisitsInOrder, VisitReportsTypeOK
  <2>4. QED
    BY <2>1, <2>2, <2>3 DEF VisitsInOrder, CompletedBy
<1>7. ASSUME DayEnds PROVE VisitsInOrder'
  <2>1. /\ onDay' = onDay + 1 /\ onDay < MaxReportDay
        /\ UNCHANGED <<joinedOn, bookingRow, historyRows, reviewRow>>
    BY <1>7 DEF DayEnds
  <2>2. 0 .. onDay \subseteq 0 .. onDay' /\ onDay' \in ReportDays
    BY <1>0, <2>1 DEF ReportDays
  <2>3. VisitRow \subseteq VisitRow' /\ SavedRow \subseteq SavedRow'
    BY <2>1, <2>2 DEF VisitRow, SavedRow
  <2>4. \A v \in DOMAIN bookingRow' : bookingRow'[v] \in VisitRow' /\ historyRows'[v] \subseteq SavedRow'
    BY <1>0, <2>1, <2>3
  <2>5. VisitReportsTypeOK'
    BY <1>0, <2>1, <2>2, <2>4 DEF VisitReportsTypeOK, VisitRow, SavedRow
  <2>6. ASSUME NEW v \in DOMAIN bookingRow, bookingRow[v].status = "completed"
        PROVE  CompletedBy(v, onDay)'
    <3>1. PICK h \in historyRows[v] : h.status = "completed" /\ h.day \in bookingRow[v].made .. onDay
      BY <2>6 DEF VisitsInOrder, CompletedBy
    <3>2. bookingRow[v].made \in Nat
      BY <1>0 DEF VisitRow
    <3>3. h.day \in bookingRow[v].made .. onDay'
      BY <1>0, <2>1, <3>1, <3>2
    <3>4. QED
      BY <2>1, <3>1, <3>3 DEF CompletedBy
  <2>7. QED
    BY <1>0, <2>1, <2>2, <2>5, <2>6 DEF VisitsInOrder, CompletedBy
<1>8. CASE UNCHANGED visitReportVars
  BY <1>8 DEF visitReportVars, VisitsInOrder, VisitReportsTypeOK, CompletedBy
<1>9. QED
  BY <1>1, <1>2, <1>3, <1>4, <1>5, <1>6, <1>7, <1>8 DEF VisitReportsNext

\* The ends of a period do not depend on who is named first, and hold what is between.
LEMMA PeriodEnds ==
    ASSUME NEW a \in Int, NEW b \in Int
    PROVE  /\ PeriodOf(a, b) = PeriodOf(b, a)
           /\ a <= b => PeriodOf(a, b) = a .. b
           /\ \E c \in Int, d \in Int : PeriodOf(a, b) = c .. d
BY DEF PeriodOf

\* What is reviewed in a period, of a booking made in it, was completed in it.
LEMMA ReviewedWasCompleted ==
    ASSUME VisitsInOrder, NEW c \in Int, NEW d \in Int, NEW v \in ReviewedVisits(c .. d)
    PROVE  v \in CompletedVisits(c .. d)
<1>1. /\ v \in CohortVisits(c .. d) /\ v \in DOMAIN reviewRow /\ reviewRow[v].made \in c .. d
      /\ bookingRow[v].made \in c .. d
  BY DEF ReviewedVisits, ReviewStands, CohortVisits
<1>2. PICK h \in historyRows[v] : h.status = "completed" /\ h.day \in bookingRow[v].made .. reviewRow[v].made
  BY <1>1 DEF VisitsInOrder, CompletedBy
<1>3. h.day \in c .. d
  BY <1>1, <1>2
<1>4. QED
  BY <1>1, <1>2, <1>3 DEF CompletedVisits, Reached

LEMMA FunnelIsNarrow == VisitsInOrder => FunnelNarrows
<1> SUFFICES ASSUME VisitsInOrder, NEW a \in ReportDays, NEW b \in ReportDays
             PROVE  /\ FunnelSteps(PeriodOf(a, b)) = AdminFunnelSteps(PeriodOf(b, a))
                    /\ \A i \in 2 .. 5 : FunnelSteps(PeriodOf(a, b))[i] \subseteq FunnelSteps(PeriodOf(a, b))[i - 1]
  BY DEF FunnelNarrows
<1>1. a \in Int /\ b \in Int
  BY VisitReportsAssumption DEF ReportDays
<1>2. PICK c \in Int, d \in Int : PeriodOf(a, b) = c .. d
  BY <1>1, PeriodEnds
<1>3. PeriodOf(b, a) = c .. d
  BY <1>1, <1>2, PeriodEnds
<1> DEFINE days == c .. d
           steps == FunnelSteps(days)
<1>4. FunnelSteps(days) = AdminFunnelSteps(days)
  BY DEF FunnelSteps, AdminFunnelSteps, CohortVisits, ConfirmedVisits, CompletedVisits, ReviewedVisits
<1>5. /\ CohortVisits(days) \subseteq DOMAIN bookingRow
      /\ ConfirmedVisits(days) \subseteq CohortVisits(days)
      /\ CompletedVisits(days) \subseteq ConfirmedVisits(days)
      /\ ReviewedVisits(days) \subseteq CompletedVisits(days)
  <2>1. ReviewedVisits(days) \subseteq CompletedVisits(days)
    BY ReviewedWasCompleted
  <2>2. CompletedVisits(days) \subseteq ConfirmedVisits(days)
    BY DEF CompletedVisits, ConfirmedVisits, Reached
  <2>3. QED
    BY <2>1, <2>2 DEF CohortVisits, ConfirmedVisits
<1>6. \A v \in CohortVisits(days) : bookingRow[v].client \in Cohort(days)
  BY DEF CohortVisits
<1>7. /\ ClientsOf(CohortVisits(days)) \subseteq Cohort(days)
      /\ ClientsOf(ConfirmedVisits(days)) \subseteq ClientsOf(CohortVisits(days))
      /\ ClientsOf(CompletedVisits(days)) \subseteq ClientsOf(ConfirmedVisits(days))
      /\ ClientsOf(ReviewedVisits(days)) \subseteq ClientsOf(CompletedVisits(days))
  BY <1>5, <1>6 DEF ClientsOf
<1>8. /\ steps[1] = Cohort(days) /\ steps[2] = ClientsOf(CohortVisits(days))
      /\ steps[3] = ClientsOf(ConfirmedVisits(days)) /\ steps[4] = ClientsOf(CompletedVisits(days))
      /\ steps[5] = ClientsOf(ReviewedVisits(days))
  BY DEF FunnelSteps
<1>9. ASSUME NEW i \in 2 .. 5 PROVE steps[i] \subseteq steps[i - 1]
  <2> HIDE DEF steps
  <2>1. i = 2 \/ i = 3 \/ i = 4 \/ i = 5
    BY <1>9
  <2>2. CASE i = 2
    BY <1>7, <1>8, <2>2
  <2>3. CASE i = 3
    BY <1>7, <1>8, <2>3
  <2>4. CASE i = 4
    BY <1>7, <1>8, <2>4
  <2>5. CASE i = 5
    BY <1>7, <1>8, <2>5
  <2>6. QED
    BY <2>1, <2>2, <2>3, <2>4, <2>5
<1>10. QED
  BY <1>2, <1>3, <1>4, <1>9

\* What a report reads of a booking, a client and a day.
LEMMA VisitFields ==
    ASSUME VisitsInOrder
    PROVE  /\ onDay \in Nat /\ ReportSpan \in Nat
           /\ \A v \in DOMAIN bookingRow :
                 /\ bookingRow[v].client \in DOMAIN joinedOn /\ bookingRow[v].station \in Garages
                 /\ bookingRow[v].made \in 0 .. onDay /\ bookingRow[v].status \in Statuses
           /\ \A c \in DOMAIN joinedOn : joinedOn[c] \in 0 .. onDay
           /\ LastDays = (onDay - ReportSpan) .. onDay
<1>1. /\ onDay \in Nat /\ ReportSpan \in Nat
      /\ \A v \in DOMAIN bookingRow : bookingRow[v] \in VisitRow
      /\ \A c \in DOMAIN joinedOn : joinedOn[c] \in 0 .. onDay
  BY VisitReportsAssumption DEF VisitsInOrder, VisitReportsTypeOK, VisitRow, ReportDays
<1>2. LastDays = (onDay - ReportSpan) .. onDay
  BY <1>1, PeriodEnds DEF LastDays
<1>3. QED
  BY <1>1, <1>2 DEF VisitRow

LEMMA ReportsOfVisitsAgree == VisitsInOrder => VisitReportsAgree
<1> SUFFICES ASSUME VisitsInOrder PROVE VisitReportsAgree
  OBVIOUS
<1>0. /\ onDay \in Nat /\ ReportSpan \in Nat /\ LastDays = (onDay - ReportSpan) .. onDay
      /\ \A v \in DOMAIN bookingRow : bookingRow[v].station \in Garages /\ bookingRow[v].status \in Statuses
  BY VisitFields
<1>1. ASSUME NEW a \in 0 .. onDay, NEW g \in Garages,
             NEW v \in ActivityIn(g, "completed", a .. onDay) \cap CohortVisits(a .. onDay)
      PROVE  v \in CompletedVisits(a .. onDay)
  <2>1. /\ v \in CohortVisits(a .. onDay) /\ v \in DOMAIN bookingRow
        /\ bookingRow[v].status = "completed" /\ bookingRow[v].made \in a .. onDay
    BY DEF ActivityIn, ActivityVisits, CohortVisits
  <2>2. PICK h \in historyRows[v] : h.status = "completed" /\ h.day \in bookingRow[v].made .. onDay
    BY <2>1 DEF VisitsInOrder, CompletedBy
  <2>3. h.day \in a .. onDay
    BY <1>0, <2>1, <2>2
  <2>4. QED
    BY <2>1, <2>2, <2>3 DEF CompletedVisits, Reached
<1>2. CompletedVisits(LastDays) \subseteq DashboardCompleted
  BY <1>0 DEF CompletedVisits, DashboardCompleted, CohortVisits
<1>3. ReviewedVisits(LastDays) \subseteq DashboardReviewed
  <2>1. ASSUME NEW v \in ReviewedVisits(LastDays) PROVE v \in DashboardReviewed
    <3>1. v \in CompletedVisits(LastDays)
      BY <1>0, ReviewedWasCompleted
    <3>2. ReviewStands(v)
      BY DEF ReviewedVisits
    <3>3. QED
      BY <1>2, <3>1, <3>2 DEF DashboardReviewed
  <2>2. QED
    BY <2>1
<1>4. ASSUME NEW d
      PROVE  /\ BarOf(d) = UNION {BarOfStatus(d, s) : s \in Statuses}
             /\ BarOf(d) = UNION {ActivityVisits(g, {d}) : g \in Garages}
  BY <1>0 DEF BarOf, BarOfStatus, ActivityVisits
<1>5. QED
  BY <1>1, <1>2, <1>3, <1>4 DEF VisitReportsAgree

\* The days of a month are those that divide to it.
LEMMA MonthIsItsDays ==
    ASSUME NEW d \in Nat, NEW m \in Nat
    PROVE  MonthOf(d) = m <=> d \in m * MonthLength .. (m + 1) * MonthLength - 1
<1> DEFINE n == MonthLength
           q == d \div n
<1>1. n \in Nat \ {0}
  BY VisitReportsAssumption
<1>2. q \in Nat /\ d % n \in 0 .. n - 1 /\ d = n * q + (d % n)
  BY <1>1, DivisionRemains
<1>3. n * q \in Nat /\ n * m \in Nat /\ m * n = n * m /\ (m + 1) * n = n * m + n
  BY <1>1, <1>2
<1> HIDE DEF n, q
<1>4. CASE q = m
  BY <1>1, <1>2, <1>3, <1>4 DEF MonthOf, n, q
<1>5. CASE q > m
  <2>1. q - m - 1 \in Nat
    BY <1>2, <1>5
  <2>2. n * (q - m - 1) \in Nat
    BY <1>1, <2>1
  <2>3. n * q = n * m + n + n * (q - m - 1)
    BY <1>1, <1>2
  <2>4. d >= n * m + n
    BY <1>1, <1>2, <1>3, <2>2, <2>3
  <2>5. d \notin m * n .. (m + 1) * n - 1
    BY <1>1, <1>3, <2>4
  <2>6. QED
    BY <1>2, <1>5, <2>5 DEF MonthOf, n, q
<1>6. CASE q < m
  <2>1. m - q - 1 \in Nat
    BY <1>2, <1>6
  <2>2. n * (m - q - 1) \in Nat
    BY <1>1, <2>1
  <2>3. n * m = n * q + n + n * (m - q - 1)
    BY <1>1, <1>2
  <2>4. d < n * m
    BY <1>1, <1>2, <1>3, <2>2, <2>3
  <2>5. d \notin m * n .. (m + 1) * n - 1
    BY <1>1, <1>3, <2>4
  <2>6. QED
    BY <1>2, <1>6, <2>5 DEF MonthOf, n, q
<1>7. QED
  BY <1>2, <1>4, <1>5, <1>6

LEMMA FiguresAgree == VisitsInOrder => DashboardAgrees
<1> SUFFICES ASSUME VisitsInOrder PROVE DashboardAgrees
  OBVIOUS
<1>0. /\ onDay \in Nat /\ WeekSpan \in 0 .. ReportSpan /\ ReportSpan \in Nat
      /\ \A v \in DOMAIN bookingRow :
            /\ bookingRow[v].client \in DOMAIN joinedOn /\ bookingRow[v].station \in Garages
            /\ bookingRow[v].made \in 0 .. onDay /\ bookingRow[v].status \in Statuses
      /\ \A c \in DOMAIN joinedOn : joinedOn[c] \in 0 .. onDay
  BY VisitFields, VisitReportsAssumption
<1>1. AllBookings = UNION {BookingsIn(s) : s \in Statuses} /\ AllBookings = ExportedBookings("any")
  <2>1. AllBookings = UNION {BookingsIn(s) : s \in Statuses}
    BY <1>0 DEF AllBookings, BookingsIn
  <2>2. AllBookings = ExportedBookings("any")
    BY DEF AllBookings, ExportedBookings
  <2>3. QED
    BY <2>1, <2>2
<1>2. \A s \in Statuses : BookingsIn(s) = ExportedBookings(s)
  BY DEF BookingsIn, ExportedBookings, Statuses
<1>3. PendingBookings = BookingsIn("pending")
  BY DEF PendingBookings, BookingsIn
<1>4. /\ BookingsToday = BarOf(onDay)
      /\ DoneToday = BarOfStatus(onDay, "completed") /\ CanceledToday = BarOfStatus(onDay, "canceled")
  BY DEF BookingsToday, BarOf, DoneToday, CanceledToday, BarOfStatus
<1>5. BookingsOfWeek = UNION {BarOf(d) : d \in (onDay - WeekSpan) .. onDay}
  BY <1>0 DEF BookingsOfWeek, BarOf
<1>6. JoinedSince(onDay - WeekSpan) = UNION {RegistrationBar(d) : d \in (onDay - WeekSpan) .. onDay}
  BY <1>0 DEF JoinedSince, RegistrationBar
<1>7. UsersWithBooking = FunnelSteps(0 .. onDay)[2]
  <2>1. CohortVisits(0 .. onDay) = DOMAIN bookingRow
    BY <1>0 DEF CohortVisits, Cohort
  <2>2. FunnelSteps(0 .. onDay)[2] = ClientsOf(DOMAIN bookingRow)
    BY <2>1 DEF FunnelSteps
  <2>3. QED
    BY <1>0, <2>2 DEF UsersWithBooking, ClientsOf
<1>8. ASSUME NEW g \in Garages, NEW m \in Months
      PROVE  MonthBar(g, m) = ActivityVisits(g, m * MonthLength .. (m + 1) * MonthLength - 1)
                                \ ActivityIn(g, "canceled", m * MonthLength .. (m + 1) * MonthLength - 1)
  <2> DEFINE days == m * MonthLength .. (m + 1) * MonthLength - 1
  <2>1. m \in Nat
    BY DEF Months
  <2>2. \A v \in DOMAIN bookingRow : MonthOf(bookingRow[v].made) = m <=> bookingRow[v].made \in days
    BY <1>0, <2>1, MonthIsItsDays
  <2>3. \A v \in DOMAIN bookingRow : bookingRow[v].made \in days => bookingRow[v].made >= m * MonthLength
    BY <1>0, <2>1, VisitReportsAssumption
  <2> HIDE DEF days
  <2>4. MonthBar(g, m) = ActivityVisits(g, days) \ ActivityIn(g, "canceled", days)
    BY <1>8, <2>2, <2>3 DEF MonthBar, ActivityVisits, ActivityIn
  <2>5. QED
    BY <2>4 DEF days
<1>9. QED
  BY <1>1, <1>2, <1>3, <1>4, <1>5, <1>6, <1>7, <1>8 DEF DashboardAgrees

\* The rows the reports on bookings read are well formed.
THEOREM VisitReportsTypeCorrect == VisitReportsSpec => []VisitReportsTypeOK
BY SavesInit, SavesStep, PTL DEF VisitReportsSpec, VisitsInOrder

\* However bookings are made, saved past the rules, expired and reviewed, the funnel
\* narrows step by step, and it, the activity, the dashboard and the months agree.
THEOREM VisitReportsTellOneStory ==
    VisitReportsSpec => [](FunnelNarrows /\ VisitReportsAgree /\ DashboardAgrees)
BY SavesInit, SavesStep, FunnelIsNarrow, ReportsOfVisitsAgree, FiguresAgree, PTL DEF VisitReportsSpec

-----------------------------------------------------------------------------
(* The reports about payments, and the lists.                              *)

PaymentRow == [station : Payers, made : 0 .. payDay, status : IntentStatuses]

LEMMA RevenueInit == PaymentReportsInit => PaymentReportsTypeOK
BY PaymentReportsAssumption DEF PaymentReportsInit, PaymentReportsTypeOK

LEMMA RevenueStep ==
    PaymentReportsTypeOK /\ [PaymentReportsNext]_paymentReportVars => PaymentReportsTypeOK'
<1> SUFFICES ASSUME PaymentReportsTypeOK, [PaymentReportsNext]_paymentReportVars
             PROVE  PaymentReportsTypeOK'
  OBVIOUS
<1>0. /\ payDay \in Nat /\ payDay <= MaxPayDay /\ MaxPayDay \in Nat /\ DOMAIN intent \subseteq Intents
      /\ \A e \in DOMAIN intent : intent[e] \in PaymentRow
  BY PaymentReportsAssumption DEF PaymentReportsTypeOK, PaymentRow
<1>1. ASSUME NEW e \in Intents, NEW s \in Payers, IntentCreated(e, s) PROVE PaymentReportsTypeOK'
  <2> DEFINE row == [station |-> s, made |-> payDay, status |-> "pending"]
  <2>1. row \in PaymentRow
    BY <1>0, <1>1 DEF PaymentRow, IntentStatuses
  <2>2. UNCHANGED payDay /\ intent' = [x \in DOMAIN intent \cup {e} |-> IF x = e THEN row ELSE intent[x]]
    BY <1>1 DEF IntentCreated
  <2> HIDE DEF row
  <2>3. DOMAIN intent' \subseteq Intents /\ \A x \in DOMAIN intent' : intent'[x] \in PaymentRow
    BY <1>0, <2>1, <2>2
  <2>4. QED
    BY <1>0, <2>2, <2>3 DEF PaymentReportsTypeOK, PaymentRow
<1>2. ASSUME NEW e \in Intents, NEW status \in IntentStatuses,
             IntentSucceeds(e) \/ IntentEdited(e, status)
      PROVE  PaymentReportsTypeOK'
  <2>1. PICK new \in IntentStatuses :
          e \in DOMAIN intent /\ UNCHANGED payDay /\ intent' = [intent EXCEPT ![e].status = new]
    BY <1>2 DEF IntentSucceeds, IntentEdited, IntentStatuses
  <2>2. [intent[e] EXCEPT !.status = new] \in PaymentRow
    BY <1>0, <2>1 DEF PaymentRow
  <2>3. DOMAIN intent' = DOMAIN intent /\ \A x \in DOMAIN intent' : intent'[x] \in PaymentRow
    BY <1>0, <2>1, <2>2
  <2>4. QED
    BY <1>0, <2>1, <2>3 DEF PaymentReportsTypeOK, PaymentRow
<1>3. ASSUME PayDayEnds PROVE PaymentReportsTypeOK'
  <2>1. payDay' = payDay + 1 /\ payDay < MaxPayDay /\ UNCHANGED intent
    BY <1>3 DEF PayDayEnds
  <2>2. 0 .. payDay \subseteq 0 .. payDay' /\ payDay' \in 0 .. MaxPayDay
    BY <1>0, <2>1
  <2>3. PaymentRow \subseteq PaymentRow'
    BY <2>2 DEF PaymentRow
  <2>4. QED
    BY <1>0, <2>1, <2>2, <2>3 DEF PaymentReportsTypeOK, PaymentRow
<1>4. CASE UNCHANGED paymentReportVars
  BY <1>4 DEF paymentReportVars, PaymentReportsTypeOK
<1>5. QED
  BY <1>1, <1>2, <1>3, <1>4 DEF PaymentReportsNext, IntentStatuses

LEMMA RevenueIsOne == PaymentReportsTypeOK => RevenueAgrees
<1> SUFFICES ASSUME PaymentReportsTypeOK PROVE RevenueAgrees
  OBVIOUS
<1>0. /\ payDay \in Nat /\ RevenueSpan \in Nat
      /\ \A e \in DOMAIN intent :
            intent[e].station \in Payers /\ intent[e].made \in 0 .. payDay /\ intent[e].status \in IntentStatuses
  BY PaymentReportsAssumption DEF PaymentReportsTypeOK
<1>1. DashboardRevenue = BillingRevenue((payDay - RevenueSpan) .. payDay)
  BY <1>0 DEF DashboardRevenue, BillingRevenue, Succeeded, MadeIn
<1>2. ASSUME NEW from \in 0 .. payDay, NEW to \in from .. payDay
      PROVE  /\ BillingRevenue(from .. to) = UNION {StationSucceeded(s, from, to) : s \in Payers}
             /\ BillingRows(from .. to, "succeeded") = BillingRevenue(from .. to)
             /\ \A status : BillingRows(from .. to, status) = BillingSheet(from .. to, status)
  <2>1. \A e \in DOMAIN intent : intent[e].station \in Payers
    BY <1>0
  <2>2. BillingRevenue(from .. to) = UNION {StationSucceeded(s, from, to) : s \in Payers}
    BY <2>1 DEF BillingRevenue, StationSucceeded, Succeeded, OfStation, MadeIn
  <2>3. BillingRows(from .. to, "succeeded") = BillingRevenue(from .. to)
    BY DEF BillingRows, BillingRevenue, Succeeded
  <2>4. \A status : BillingRows(from .. to, status) = BillingSheet(from .. to, status)
    BY DEF BillingRows, BillingSheet
  <2>5. QED
    BY <2>2, <2>3, <2>4
<1>3. ASSUME NEW from \in 0 .. payDay, NEW to \in from .. payDay, NEW s \in Payers
      PROVE  /\ \A o \in Payers \ {s} : StationSucceeded(s, from, to) \cap StationSucceeded(o, from, to) = {}
             /\ StationSucceeded(s, from, to) = UNION {StationBar(s, from, to, d) : d \in from .. to}
             /\ \A c, d \in from .. to :
                   c # d => StationBar(s, from, to, c) \cap StationBar(s, from, to, d) = {}
             /\ StationRows(s, from, to, "any") \ StationRows(s, from, to, "pending")
                   = StationSucceeded(s, from, to) \cup StationFailed(s, from, to)
             /\ StationRows(s, from, to, "any") \subseteq StationWorkbook(s)
  <2>1. \A o \in Payers \ {s} : StationSucceeded(s, from, to) \cap StationSucceeded(o, from, to) = {}
    BY DEF StationSucceeded, Succeeded, OfStation
  <2>2. StationSucceeded(s, from, to) = UNION {StationBar(s, from, to, d) : d \in from .. to}
    BY DEF StationBar, StationSucceeded, Succeeded, OfStation, MadeIn
  <2>3. \A c, d \in from .. to :
            c # d => StationBar(s, from, to, c) \cap StationBar(s, from, to, d) = {}
    BY DEF StationBar, MadeIn
  <2>4. StationRows(s, from, to, "any") \ StationRows(s, from, to, "pending")
            = StationSucceeded(s, from, to) \cup StationFailed(s, from, to)
    <3>1. \A e \in DOMAIN intent : intent[e].status \in {"pending", "succeeded", "failed", "canceled"}
      BY <1>0 DEF IntentStatuses
    <3>2. OfStation(s) \cap MadeIn(from .. to) \subseteq DOMAIN intent
      BY DEF OfStation
    <3>3. QED
      BY <3>1, <3>2 DEF StationRows, StationSucceeded, StationFailed, Succeeded, FailedLike
  <2>5. StationRows(s, from, to, "any") \subseteq StationWorkbook(s)
    BY DEF StationRows, StationWorkbook
  <2>6. QED
    BY <2>1, <2>2, <2>3, <2>4, <2>5
<1>4. QED
  BY <1>1, <1>2, <1>3 DEF RevenueAgrees

\* However payments are started, succeed late and are edited, the revenue is one
\* figure, wherever it is read.
THEOREM RevenueIsOneFigure == PaymentReportsSpec => []RevenueAgrees
BY RevenueInit, RevenueStep, RevenueIsOne, PTL DEF PaymentReportsSpec

\* The lists: only a review may be of no visit.
RowsAreOfVisits ==
    /\ erpRows \in Seq(ErpRow) /\ Len(erpRows) <= MaxRows
    /\ \A i \in DOMAIN erpRows : erpRows[i].kind # "review" => erpRows[i].ofVisit

LEMMA RowsInit == ErpListsInit => RowsAreOfVisits
BY ErpListsAssumption DEF ErpListsInit, RowsAreOfVisits

LEMMA Appended ==
    ASSUME NEW S, NEW s \in Seq(S), NEW x \in S
    PROVE  /\ Append(s, x) \in Seq(S) /\ Len(Append(s, x)) = Len(s) + 1
           /\ DOMAIN Append(s, x) = 1 .. Len(s) + 1
           /\ \A i \in DOMAIN s : Append(s, x)[i] = s[i]
           /\ Append(s, x)[Len(s) + 1] = x
OBVIOUS

LEMMA RowsStep == RowsAreOfVisits /\ [ErpListsNext]_erpRows => RowsAreOfVisits'
<1> SUFFICES ASSUME RowsAreOfVisits, [ErpListsNext]_erpRows PROVE RowsAreOfVisits'
  OBVIOUS
<1>0. /\ erpRows \in Seq(ErpRow) /\ Len(erpRows) \in Nat /\ Len(erpRows) <= MaxRows /\ MaxRows \in Nat
      /\ DOMAIN erpRows = 1 .. Len(erpRows)
  BY ErpListsAssumption DEF RowsAreOfVisits
<1>1. ASSUME NEW row \in ErpRow, RowAdded(row) PROVE RowsAreOfVisits'
  <2>1. /\ erpRows' = Append(erpRows, row) /\ Len(erpRows) < MaxRows
        /\ row.kind # "review" => row.ofVisit
    BY <1>1 DEF RowAdded
  <2>2. /\ Append(erpRows, row) \in Seq(ErpRow) /\ Len(Append(erpRows, row)) = Len(erpRows) + 1
        /\ DOMAIN Append(erpRows, row) = 1 .. Len(erpRows) + 1
        /\ \A i \in DOMAIN erpRows : Append(erpRows, row)[i] = erpRows[i]
        /\ Append(erpRows, row)[Len(erpRows) + 1] = row
    BY <1>0, Appended
  <2> DEFINE rows == Append(erpRows, row)
  <2> HIDE DEF rows
  <2>3. /\ rows \in Seq(ErpRow) /\ Len(rows) = Len(erpRows) + 1 /\ DOMAIN rows = 1 .. Len(erpRows) + 1
        /\ \A i \in DOMAIN erpRows : rows[i] = erpRows[i]
        /\ rows[Len(erpRows) + 1] = row
    BY <2>2 DEF rows
  <2>4. ASSUME NEW i \in DOMAIN rows PROVE rows[i].kind # "review" => rows[i].ofVisit
    <3>1. i = Len(erpRows) + 1 \/ i \in DOMAIN erpRows
      BY <1>0, <2>3
    <3>2. CASE i = Len(erpRows) + 1
      BY <2>1, <2>3, <3>2
    <3>3. CASE i \in DOMAIN erpRows
      BY <2>3, <3>3 DEF RowsAreOfVisits
    <3>4. QED
      BY <3>1, <3>2, <3>3
  <2>5. erpRows' = rows
    BY <2>1 DEF rows
  <2>6. Len(rows) <= MaxRows
    <3>1. Len(rows) = Len(erpRows) + 1 /\ Len(erpRows) < MaxRows /\ Len(erpRows) \in Nat /\ MaxRows \in Nat
      BY <1>0, <2>1, <2>3, Zenon
    <3>2. \A n \in Nat, m \in Nat : n < m => n + 1 <= m
      OBVIOUS
    <3>3. QED
      BY <3>1, <3>2, Zenon
  <2>7. QED
    BY <2>3, <2>4, <2>5, <2>6 DEF RowsAreOfVisits
<1>2. ASSUME NEW i \in DOMAIN erpRows, NEW state \in RowStates, RowChanged(i, state)
      PROVE  RowsAreOfVisits'
  <2> DEFINE row == [erpRows[i] EXCEPT !.state = state]
  <2>1. erpRows' = [erpRows EXCEPT ![i] = row]
    BY <1>2 DEF RowChanged
  <2>2. erpRows[i] \in ErpRow
    BY <1>0
  <2>3. row \in ErpRow /\ row.kind = erpRows[i].kind /\ row.ofVisit = erpRows[i].ofVisit
    BY <2>2 DEF ErpRow
  <2> HIDE DEF row
  <2>4. /\ erpRows' \in Seq(ErpRow) /\ Len(erpRows') = Len(erpRows)
        /\ \A j \in DOMAIN erpRows' :
              j \in DOMAIN erpRows /\ (erpRows'[j] = erpRows[j] \/ (j = i /\ erpRows'[j] = row))
    BY <1>0, <2>1, <2>3
  <2>5. QED
    BY <1>0, <2>3, <2>4 DEF RowsAreOfVisits
<1>3. CASE UNCHANGED erpRows
  BY <1>3 DEF RowsAreOfVisits
<1>4. QED
  BY <1>1, <1>2, <1>3 DEF ErpListsNext

\* The rows a query finds are finitely many keys.
LEMMA FoundAreKeys ==
    ASSUME RowsAreOfVisits, NEW F \in SUBSET DOMAIN erpRows
    PROVE  IsFiniteSet(F) /\ F \subseteq Nat
<1>1. DOMAIN erpRows = 1 .. Len(erpRows) /\ Len(erpRows) \in Nat
  BY DEF RowsAreOfVisits
<1>2. IsFiniteSet(1 .. Len(erpRows))
  BY <1>1, FS_Interval
<1>3. QED
  BY <1>1, <1>2, FS_Subset

\* The longer list continues the shorter one.
LEMMA LongerContinues ==
    ASSUME RowsAreOfVisits, NEW F \in SUBSET DOMAIN erpRows
    PROVE  Continues(Newest(F, PageLimit), Newest(F, SheetLimit))
<1>0. IsFiniteSet(F) /\ F \subseteq Nat /\ PageLimit \in Nat /\ SheetLimit \in Nat /\ PageLimit <= SheetLimit
  BY FoundAreKeys, ErpListsAssumption
<1> DEFINE since(i) == {j \in F : j >= i}
<1>1. \A i : IsFiniteSet(since(i)) /\ Cardinality(since(i)) \in Nat
  BY <1>0, FS_Subset, FS_CardinalityType
<1>2. ASSUME NEW i \in F, NEW j \in F, j >= i PROVE Cardinality(since(j)) <= Cardinality(since(i))
  <2>1. since(j) \subseteq since(i)
    BY <1>0, <1>2
  <2>2. QED
    BY <1>1, <2>1, FS_Subset
<1>3. Newest(F, PageLimit) \subseteq Newest(F, SheetLimit)
  BY <1>0, <1>1 DEF Newest
<1>4. ASSUME NEW i \in Newest(F, PageLimit), NEW j \in Newest(F, SheetLimit) \ Newest(F, PageLimit)
      PROVE  j < i
  <2>1. /\ i \in F /\ j \in F /\ Cardinality(since(i)) <= PageLimit /\ ~(Cardinality(since(j)) <= PageLimit)
    BY DEF Newest
  <2>2. ~(j >= i)
    <3> HIDE DEF since
    <3>1. QED
      BY <1>0, <1>1, <1>2, <2>1
  <2>3. QED
    BY <1>0, <2>1, <2>2
<1>5. QED
  BY <1>3, <1>4 DEF Continues

LEMMA ListsAreOne == RowsAreOfVisits => ListsAgree
<1> SUFFICES ASSUME RowsAreOfVisits PROVE ListsAgree
  OBVIOUS
<1>0. /\ \A k, state : OfKind(k, state) \subseteq DOMAIN erpRows
      /\ \A i \in DOMAIN erpRows : erpRows[i].user \in ErpUsers /\ erpRows[i].station \in ErpStations
      /\ \A i \in DOMAIN erpRows : erpRows[i].kind # "review" => erpRows[i].ofVisit
      /\ \A u \in ErpUsers : u # Everything /\ u \notin ErpStations
      /\ \A s \in ErpStations : s # Everything /\ s \notin ErpUsers
  <2>1. \A i \in DOMAIN erpRows : erpRows[i] \in ErpRow
    BY DEF RowsAreOfVisits
  <2>2. QED
    BY <2>1, ErpListsAssumption DEF OfKind, ErpRow, RowsAreOfVisits, Everything
<1>1. ASSUME NEW q, NEW state
      PROVE  /\ Continues(UsersPage(q, state), UsersSheet(q, state))
             /\ Continues(StationsPage(q, state), StationsSheet(q, state))
             /\ Continues(BookingsPage(q, state), BookingsSheet(q, state))
             /\ Continues(ReviewsPage(q, state), ReviewsSheet(q, state))
  <2>1. Continues(UsersPage(q, state), UsersSheet(q, state))
    BY <1>0, LongerContinues DEF UsersPage, UsersSheet
  <2>2. Continues(StationsPage(q, state), StationsSheet(q, state))
    BY <1>0, LongerContinues DEF StationsPage, StationsSheet
  <2>3. Continues(BookingsPage(q, state), BookingsSheet(q, state))
    BY <1>0, LongerContinues DEF BookingsPage, BookingsSheet
  <2>4. Continues(ReviewsPage(q, state), ReviewsSheet(q, state))
    BY <1>0, LongerContinues DEF ReviewsPage, ReviewsSheet
  <2>5. QED
    BY <2>1, <2>2, <2>3, <2>4
<1>2. ASSUME NEW u \in ErpUsers
      PROVE  /\ BookingsPage(u, Everything) = UserDetail("booking", u)
             /\ ReviewsPage(u, Everything) = UserDetail("review", u)
             /\ Continues(UserDetail("booking", u), UserBookingsSheet(u))
             /\ Continues(UserDetail("review", u), UserReviewsSheet(u))
  <2>1. {i \in OfKind("booking", Everything) : BookingFound(erpRows[i], u)}
          = {i \in OfKind("booking", Everything) : erpRows[i].user = u /\ erpRows[i].ofVisit}
    BY <1>0 DEF BookingFound, OfKind
  <2>2. {i \in OfKind("review", Everything) : ReviewFound(erpRows[i], u)}
          = {i \in OfKind("review", Everything) : erpRows[i].user = u /\ erpRows[i].ofVisit}
    BY <1>0 DEF ReviewFound
  <2>3. \A k : Continues(UserRows(k, u, PageLimit), UserRows(k, u, SheetLimit))
    BY <1>0, LongerContinues DEF UserRows
  <2>4. QED
    BY <2>1, <2>2, <2>3 DEF BookingsPage, ReviewsPage, UserDetail, UserRows, UserBookingsSheet, UserReviewsSheet
<1>3. ASSUME NEW s \in ErpStations
      PROVE  /\ BookingsPage(s, Everything) = StationDetail("booking", s)
             /\ Continues(StationDetail("booking", s), StationBookingsSheet(s))
             /\ Continues(StationDetail("review", s), StationReviewsSheet(s))
  <2>1. {i \in OfKind("booking", Everything) : BookingFound(erpRows[i], s)}
          = {i \in OfKind("booking", Everything) : erpRows[i].station = s}
    BY <1>0 DEF BookingFound
  <2>2. \A k : Continues(StationRowsOf(k, s, PageLimit), StationRowsOf(k, s, SheetLimit))
    BY <1>0, LongerContinues DEF StationRowsOf
  <2>3. QED
    BY <2>1, <2>2 DEF BookingsPage, StationDetail, StationRowsOf, StationBookingsSheet, StationReviewsSheet
<1>4. QED
  BY <1>1, <1>2, <1>3 DEF ListsAgree

\* Whatever rows there are, a workbook continues its page, and the search in a list
\* finds what the page of the user or of the station shows.
THEOREM ListsTellOneStory == ErpListsSpec => []ListsAgree
BY RowsInit, RowsStep, ListsAreOne, PTL DEF ErpListsSpec

-----------------------------------------------------------------------------
(* The lists of conversations and the number in the header.                *)

\* The messages that have a stamp have the first ones, and a request that saves one
\* has a stamp of theirs.
StampsAreTaken ==
    /\ talk \in [Conversations -> Talk] /\ admitted \in BOOLEAN
    /\ post \in [PostStamps -> Post \cup {NoPost}]
    /\ upTo \in [Conversations -> 0..MaxPosts] /\ lastAt \in [Conversations -> 0..MaxPosts]
    /\ Now \in 0..MaxPosts /\ \A s \in PostStamps : post[s] # NoPost <=> s <= Now
    /\ req \in [Procs -> {Idle} \cup [op : {"post_save"}, stamp : 1..Now]]

LEMMA NowIsLast ==
    ASSUME NEW n \in 0..MaxPosts, \A s \in PostStamps : post[s] # NoPost <=> s <= n
    PROVE  Now = n
<1>1. n \in Nat /\ MaxPosts \in Nat
  BY InboxAssumption
<1>2. {s \in PostStamps : post[s] # NoPost} = 1..n
  BY <1>1 DEF PostStamps
<1>3. Cardinality(1..n) = n
  BY <1>1, FS_Interval
<1>4. QED
  BY <1>2, <1>3 DEF Now

LEMMA PostIsThere == ASSUME NEW r \in Post PROVE r # NoPost /\ DOMAIN r = {"of", "mine", "saved"}
<1>1. DOMAIN r = {"of", "mine", "saved"}
  BY DEF Post
<1>2. DOMAIN NoPost = {"of"}
  BY DEF NoPost
<1>3. "mine" \in DOMAIN r /\ "mine" \notin DOMAIN NoPost
  BY <1>1, <1>2
<1>4. QED
  BY <1>1, <1>3

LEMMA StampsInit == WorkersInit /\ InboxInit => StampsAreTaken
<1> SUFFICES ASSUME WorkersInit, InboxInit PROVE StampsAreTaken
  OBVIOUS
<1>1. MaxPosts \in Nat
  BY InboxAssumption
<1>2. \A s \in PostStamps : post[s] # NoPost <=> s <= 0
  BY <1>1 DEF InboxInit, PostStamps
<1>3. Now = 0
  BY <1>1, <1>2, NowIsLast
<1>4. HasStation \in BOOLEAN
  BY DEF HasStation
<1>5. QED
  BY <1>1, <1>2, <1>3, <1>4 DEF StampsAreTaken, WorkersInit, InboxInit

LEMMA StampsStep == StampsAreTaken /\ [InboxNext]_<<workerVars, inboxVars>> => StampsAreTaken'
<1> SUFFICES ASSUME StampsAreTaken, [InboxNext]_<<workerVars, inboxVars>> PROVE StampsAreTaken'
  OBVIOUS
<1> DEFINE Saves(n) == [op : {"post_save"}, stamp : 1..n]
<1>0. /\ MaxPosts \in Nat /\ Now \in Nat /\ Now <= MaxPosts
      /\ \A s \in PostStamps : post[s] # NoPost <=> s <= Now
      /\ req \in [Procs -> {Idle} \cup Saves(Now)]
  BY InboxAssumption DEF StampsAreTaken
<1>1. ASSUME NEW p \in Procs, NEW k \in Conversations, NEW mine \in BOOLEAN, PostStamped(p, k, mine)
      PROVE  StampsAreTaken'
  <2> DEFINE row == [of |-> k, mine |-> mine, saved |-> FALSE]
             r == [op |-> "post_save", stamp |-> Now + 1]
  <2>1. /\ Now < MaxPosts /\ post' = [post EXCEPT ![Now + 1] = row]
        /\ req' = [req EXCEPT ![p] = r] /\ UNCHANGED <<talk, admitted, upTo, lastAt>>
    BY <1>1 DEF PostStamped, Begin
  <2>2. row \in Post /\ row # NoPost
    <3>1. row \in Post
      BY DEF Post
    <3>2. QED
      BY <3>1, PostIsThere
  <2>3. r \in Saves(Now + 1) /\ Saves(Now) \subseteq Saves(Now + 1)
    BY <1>0
  <2> HIDE DEF row, r, Saves
  <2>4. Now + 1 \in PostStamps
    BY <1>0, <2>1 DEF PostStamps
  <2>5. post' \in [PostStamps -> Post \cup {NoPost}]
    BY <2>1, <2>2 DEF StampsAreTaken
  <2>6. /\ post'[Now + 1] = row
        /\ \A s \in PostStamps : s # Now + 1 => post'[s] = post[s]
    BY <2>1, <2>4 DEF StampsAreTaken
  <2>7. \A s \in PostStamps : post'[s] # NoPost <=> s <= Now + 1
    <3>1. \A s \in PostStamps : s \in Nat
      BY <1>0 DEF PostStamps
    <3>2. QED
      BY <1>0, <2>2, <2>6, <3>1
  <2>8. Now' = Now + 1
    <3>1. Now + 1 \in 0..MaxPosts
      BY <1>0, <2>1
    <3>2. {s \in PostStamps : post'[s] # NoPost} = 1..Now + 1
      BY <1>0, <2>1, <2>7 DEF PostStamps
    <3>3. Cardinality(1..Now + 1) = Now + 1
      BY <1>0, FS_Interval
    <3>4. QED
      BY <3>2, <3>3 DEF Now, PostStamps
  <2>9. req' \in [Procs -> {Idle} \cup Saves(Now')]
    BY <1>0, <2>1, <2>3, <2>8
  <2>10. Now' \in 0..MaxPosts /\ \A s \in PostStamps' : post'[s] # NoPost <=> s <= Now'
    BY <1>0, <2>1, <2>7, <2>8 DEF PostStamps
  <2>11. post' \in [PostStamps' -> Post' \cup {NoPost'}]
    BY <2>5 DEF PostStamps, Post, NoPost
  <2>12. QED
    BY <2>1, <2>9, <2>10, <2>11 DEF StampsAreTaken, Saves, Talk
<1>2. ASSUME NEW p \in Procs, PostSaved(p) PROVE StampsAreTaken'
  <2> DEFINE n == req[p].stamp
             k == post[n].of
  <2>1. /\ req[p].op = "post_save" /\ post' = [post EXCEPT ![n].saved = TRUE]
        /\ req' = [req EXCEPT ![p] = Idle] /\ UNCHANGED <<talk, admitted, upTo>>
        /\ lastAt' = IF talk[k].kind = "booking" THEN lastAt ELSE [lastAt EXCEPT ![k] = n]
    BY <1>2 DEF PostSaved, At, End, Continue
  <2>2. n \in 1..Now
    BY <1>0, <2>1 DEF Idle
  <2>3. n \in PostStamps /\ n \in 0..MaxPosts /\ post[n] # NoPost
    BY <1>0, <2>2 DEF PostStamps
  <2> HIDE DEF n
  <2>4. post[n] \in Post
    BY <2>3 DEF StampsAreTaken
  <2>5. k \in Conversations /\ [post[n] EXCEPT !.saved = TRUE] \in Post
    BY <2>4 DEF Post
  <2>6. post' = [post EXCEPT ![n] = [post[n] EXCEPT !.saved = TRUE]]
    BY <2>1
  <2>7. /\ post' \in [PostStamps -> Post \cup {NoPost}]
        /\ \A s \in PostStamps : post'[s] # NoPost <=> post[s] # NoPost
    <3> DEFINE row == [post[n] EXCEPT !.saved = TRUE]
    <3>1. row \in Post /\ row # NoPost
      BY <2>5, PostIsThere
    <3> HIDE DEF row
    <3>2. post' = [post EXCEPT ![n] = row]
      BY <2>6 DEF row
    <3>3. QED
      BY <2>3, <3>1, <3>2 DEF StampsAreTaken
  <2>8. Now' = Now
    <3>1. {s \in PostStamps : post'[s] # NoPost} = {s \in PostStamps : post[s] # NoPost}
      BY <2>7
    <3>2. QED
      BY <3>1 DEF Now, PostStamps, NoPost
  <2>9. lastAt' \in [Conversations -> 0..MaxPosts]
    BY <2>1, <2>3, <2>5 DEF StampsAreTaken
  <2>10. req' \in [Procs -> {Idle} \cup Saves(Now')]
    BY <1>0, <2>1, <2>8
  <2>11. /\ Now' \in 0..MaxPosts /\ \A s \in PostStamps' : post'[s] # NoPost' <=> s <= Now'
         /\ post' \in [PostStamps' -> Post' \cup {NoPost'}]
    BY <1>0, <2>7, <2>8 DEF PostStamps, Post, NoPost
  <2>12. QED
    BY <2>1, <2>9, <2>10, <2>11 DEF StampsAreTaken, Talk
<1>3. ASSUME NEW k \in Conversations, RowOpened(k) PROVE StampsAreTaken'
  <2>1. upTo' = [upTo EXCEPT ![k] = Now] /\ UNCHANGED <<talk, admitted, post, lastAt, req>>
    BY <1>3 DEF RowOpened, workerVars
  <2>2. upTo' \in [Conversations -> 0..MaxPosts] /\ Now' = Now
    BY <1>0, <2>1 DEF StampsAreTaken, Now, PostStamps, NoPost
  <2>3. QED
    BY <2>1, <2>2 DEF StampsAreTaken, PostStamps, Post, NoPost, Talk
<1>4. ASSUME Moderated PROVE StampsAreTaken'
  BY <1>4 DEF Moderated, StampsAreTaken, Now, PostStamps, Post, NoPost, Talk, workerVars
<1>5. ASSUME NEW p \in Procs, InboxCrash(p) PROVE StampsAreTaken'
  <2>1. req' = [req EXCEPT ![p] = Idle] /\ UNCHANGED inboxVars
    BY <1>5 DEF InboxCrash, Crash
  <2>2. Now' = Now /\ req' \in [Procs -> {Idle} \cup Saves(Now)]
    BY <1>0, <2>1 DEF Now, inboxVars, PostStamps, NoPost
  <2>3. QED
    BY <2>1, <2>2 DEF StampsAreTaken, inboxVars, PostStamps, Post, NoPost, Talk
<1>6. CASE UNCHANGED <<workerVars, inboxVars>>
  BY <1>6 DEF workerVars, inboxVars, StampsAreTaken, Now, PostStamps, Post, NoPost, Talk
<1>7. QED
  BY <1>1, <1>2, <1>3, <1>4, <1>5, <1>6 DEF InboxNext

LEMMA StampsTyped == StampsAreTaken => InboxTypeOK
<1> SUFFICES ASSUME StampsAreTaken, NEW p \in Procs
             PROVE  req[p] = Idle \/ (At(p, "post_save") /\ req[p].stamp <= Now)
  BY DEF StampsAreTaken, InboxTypeOK
<1>1. req[p] \in {Idle} \cup [op : {"post_save"}, stamp : 1..Now]
  BY DEF StampsAreTaken
<1>2. QED
  BY <1>1 DEF At

LEMMA HeaderCounts == StampsAreTaken => HeaderCountsTheLists
<1> SUFFICES ASSUME StampsAreTaken PROVE HeaderCountsTheLists
  OBVIOUS
<1>0. /\ admitted \in BOOLEAN
      /\ \A k \in Conversations :
            /\ talk[k].kind \in {"booking", "direct", "ad"} /\ talk[k].side \in {"client", "owner"}
            /\ \A a, b : talk[k] = [kind |-> a, side |-> b] <=> talk[k].kind = a /\ talk[k].side = b
  BY DEF StampsAreTaken, Talk
<1>1. \A k \in HeaderList : k \in InNumber
  BY <1>0 DEF HeaderList, OwnerList, CabinetList, InNumber
<1>2. \A k \in InNumber :
        k \in CabinetList \cup OwnerList \/ (~admitted /\ talk[k] = [kind |-> "booking", side |-> "owner"])
  BY <1>0 DEF InNumber, OwnerList, CabinetList
<1>3. NavNumber = InNumber
  <2>1. CASE admitted
    BY <1>0, <2>1 DEF NavNumber, UserNumber, InNumber, RoomsInNumber, AdsInNumber, ThreadsInNumber
  <2>2. CASE ~admitted
    BY <1>0, <2>2 DEF NavNumber, UserNumber, InNumber, RoomsInNumber, AdsInNumber, ThreadsInNumber
  <2>3. QED
    BY <2>1, <2>2
<1>4. ApiUnread = {k \in InNumber : talk[k].kind = "booking" /\ UnreadIn(k) # {}}
  BY DEF ApiUnread, ApiRooms, InNumber
<1>5. OwnerRooms \subseteq ApiRooms
  BY DEF OwnerRooms, OwnerList, ApiRooms
<1>6. QED
  BY <1>1, <1>2, <1>3, <1>4, <1>5 DEF HeaderCountsTheLists

\* However messages, readers and the staff overlap, and whoever dies, the number in
\* the header counts what is unread on the lists, and the pages agree on it.
THEOREM HeaderStaysExact == InboxSpec => [](InboxTypeOK /\ HeaderCountsTheLists)
BY StampsInit, StampsStep, StampsTyped, HeaderCounts, PTL DEF InboxSpec

-----------------------------------------------------------------------------
(* The grid of a day.                                                      *)

USE DEF workerVars, gridVars

\* A multiple that is not the first comes a step after one.
LEMMA MultipleBefore ==
    ASSUME NEW a \in Nat, NEW n \in Nat \ {0}, a # 0, a % n = 0
    PROVE  n <= a /\ (a - n) % n = 0
<1> DEFINE q == a \div n
           k == (a - n) \div n
           m == (a - n) % n
<1>1. q \in Nat /\ a = n * q
  BY DivisionRemains
<1> HIDE DEF q
<1>2. q >= 1
  <2>1. q # 0
    BY <1>1
  <2>2. QED
    BY <1>1, <2>1
<1>3. q - 1 \in Nat /\ n * (q - 1) \in Nat /\ a = n * (q - 1) + n
  <2>1. q - 1 \in Nat
    BY <1>1, <1>2
  <2>2. n * (q - 1) \in Nat
    BY <2>1
  <2>3. n * q = n * (q - 1) + n
    BY <1>1
  <2>4. QED
    BY <1>1, <2>1, <2>2, <2>3
<1>4. n <= a /\ a - n \in Nat /\ a - n = n * (q - 1)
  BY <1>3
<1>5. k \in Nat /\ m \in 0 .. n - 1 /\ a - n = n * k + m
  BY <1>4, DivisionRemains
<1> HIDE DEF k, m
<1>6. n * (q - 1 - k) = m
  BY <1>1, <1>4, <1>5
<1>7. q - 1 - k = 0
  <2>1. CASE q - 1 - k >= 1
    <3>1. n * (q - 1 - k) >= n
      BY <1>1, <1>5, <2>1
    <3>2. QED
      BY <1>5, <1>6, <3>1
  <2>2. CASE q - 1 - k <= -1
    <3>1. n * (q - 1 - k) <= -n
      BY <1>1, <1>5, <2>2
    <3>2. QED
      BY <1>5, <1>6, <3>1
  <2>3. QED
    BY <1>1, <1>5, <2>1, <2>2
<1>8. m = 0
  BY <1>6, <1>7
<1>9. QED
  BY <1>4, <1>8 DEF m

\* What the loop looks at: a window from here, and the rest of the day.
AtHand(h, cur) == [from |-> cur, to |-> cur + h.step]
Body(h, rest, cur) ==
    IF AtHand(h, cur).to > h.closes THEN <<>>
    ELSE (IF Overlaps(AtHand(h, cur), h.breaks) THEN <<>> ELSE <<AtHand(h, cur)>>) \o rest[AtHand(h, cur).to]
IsLoop(h, f) == f = [cur \in 0..ClosingTime |-> Body(h, f, cur)]

\* The loop can be run from the end of the day backwards: its recursion has a solution.
LEMMA LoopExists ==
    ASSUME NEW h \in WorkingHours
    PROVE  \E f : IsLoop(h, f)
<1> DEFINE DayFrom(n) == ClosingTime + 1 - n .. ClosingTime
           Ends(n, f) == f = [cur \in DayFrom(n) |-> Body(h, f, cur)]
           Bad == {n \in 0..ClosingTime + 1 : ~\E f : Ends(n, f)}
<1>0. ClosingTime \in Nat /\ h.step \in Nat /\ h.step >= 1 /\ h.closes \in Nat /\ h.closes <= ClosingTime
  BY SlotGridAssumption DEF WorkingHours
<1>1. Bad = {}
  <2>1. SUFFICES ASSUME Bad # {} PROVE FALSE
    OBVIOUS
  <2>2. PICK n \in Bad : \A o \in Bad : n <= o
    <3>1. Bad \subseteq Nat
      BY <1>0
    <3>2. QED
      BY <2>1, <3>1, LeastThereIs
  <2>3. n \in Nat /\ n <= ClosingTime + 1 /\ ~\E f : Ends(n, f)
    BY <1>0
  <2>4. CASE n = 0
    <3>1. DayFrom(0) = {}
      BY <1>0
    <3>2. Ends(0, [cur \in {} |-> 0])
      BY <3>1
    <3>3. QED
      BY <2>3, <2>4, <3>2
  <2>5. CASE n # 0
    <3>1. n - 1 \notin Bad /\ n - 1 \in 0..ClosingTime + 1
      <4>1. n - 1 \in 0..ClosingTime + 1 /\ ~(n <= n - 1)
        BY <1>0, <2>3, <2>5
      <4> HIDE DEF Bad
      <4>2. QED
        BY <2>2, <4>1
    <3>2. PICK f : Ends(n - 1, f)
      BY <3>1
    <3> DEFINE start == ClosingTime + 1 - n
               g == [cur \in DayFrom(n) |-> IF cur = start THEN Body(h, f, cur) ELSE f[cur]]
    <3>3. start \in Nat /\ start \in DayFrom(n) /\ \A c \in DayFrom(n) : c = start \/ (c \in DayFrom(n - 1) /\ c # start)
      BY <1>0, <2>3, <2>5
    <3>4. ASSUME NEW c \in DayFrom(n) PROVE g[c] = Body(h, f, c)
      BY <3>2, <3>3, <3>4
    <3>5. ASSUME NEW c \in DayFrom(n) PROVE Body(h, g, c) = Body(h, f, c)
      <4> DEFINE to == AtHand(h, c).to
      <4>1. to = c + h.step
        BY DEF AtHand
      <4>2. CASE to > h.closes
        BY <4>2 DEF Body
      <4>3. CASE ~(to > h.closes)
        <5>1. to \in DayFrom(n) /\ to # start
          BY <1>0, <2>3, <3>5, <4>1, <4>3
        <5>2. g[to] = f[to]
          BY <5>1
        <5>3. QED
          BY <5>2 DEF Body
      <4>4. QED
        BY <4>2, <4>3
    <3>6. g = [cur \in DayFrom(n) |-> Body(h, g, cur)]
      <4>1. \A c \in DayFrom(n) : g[c] = Body(h, g, c)
        BY <3>4, <3>5
      <4>2. g = [cur \in DayFrom(n) |-> g[cur]]
        OBVIOUS
      <4> HIDE DEF g
      <4>3. QED
        BY <4>1, <4>2
    <3>7. QED
      BY <2>3, <3>6
  <2>6. QED
    BY <2>4, <2>5
<1>2. PICK f : Ends(ClosingTime + 1, f)
  <2>1. ClosingTime + 1 \in 0..ClosingTime + 1
    BY <1>0
  <2>2. QED
    BY <1>1, <2>1
<1>3. DayFrom(ClosingTime + 1) = 0..ClosingTime
  BY <1>0
<1>4. QED
  BY <1>2, <1>3 DEF IsLoop

LEMMA LoopIs ==
    ASSUME NEW h \in WorkingHours
    PROVE  \E f : IsLoop(h, f) /\ Loop(h) = f[h.opens]
<1> DEFINE f == CHOOSE f : IsLoop(h, f)
<1>1. IsLoop(h, f)
  BY LoopExists
<1>2. Loop(h) = f[h.opens]
  BY DEF Loop, IsLoop, Body, AtHand
<1>3. QED
  BY <1>1, <1>2

\* Windows of the grid that begins at a time of the day.
GridFrom(h, cur) ==
    {w \in Interval :
        /\ w.from >= cur /\ w.to <= h.closes
        /\ (w.from - cur) % h.step = 0 /\ w.to = w.from + h.step
        /\ \A b \in h.breaks : w.to <= b.from \/ b.to <= w.from}

LEMMA JoinedSeqs ==
    ASSUME NEW S, NEW s \in Seq(S), NEW t \in Seq(S)
    PROVE  s \o t \in Seq(S) /\ ToSet(s \o t) = ToSet(s) \cup ToSet(t)
<1>1. /\ s \o t \in Seq(S) /\ Len(s \o t) = Len(s) + Len(t) /\ Len(s) \in Nat /\ Len(t) \in Nat
      /\ \A i \in 1..Len(s) : (s \o t)[i] = s[i]
      /\ \A i \in 1..Len(t) : (s \o t)[Len(s) + i] = t[i]
      /\ DOMAIN s = 1..Len(s) /\ DOMAIN t = 1..Len(t) /\ DOMAIN (s \o t) = 1..Len(s) + Len(t)
  OBVIOUS
<1>2. ToSet(s) \cup ToSet(t) \subseteq ToSet(s \o t)
  <2>1. ASSUME NEW i \in 1..Len(s) PROVE s[i] \in ToSet(s \o t)
    <3>1. i \in 1..Len(s) + Len(t)
      BY <1>1
    <3>2. QED
      BY <1>1, <3>1 DEF ToSet
  <2>2. ASSUME NEW i \in 1..Len(t) PROVE t[i] \in ToSet(s \o t)
    <3>1. Len(s) + i \in 1..Len(s) + Len(t)
      BY <1>1
    <3>2. QED
      BY <1>1, <3>1 DEF ToSet
  <2>3. QED
    BY <1>1, <2>1, <2>2 DEF ToSet
<1>3. ToSet(s \o t) \subseteq ToSet(s) \cup ToSet(t)
  <2>1. ASSUME NEW i \in 1..Len(s) + Len(t) PROVE (s \o t)[i] \in ToSet(s) \cup ToSet(t)
    <3>1. CASE i <= Len(s)
      <4>1. i \in 1..Len(s)
        BY <1>1, <3>1
      <4>2. QED
        BY <1>1, <4>1 DEF ToSet
    <3>2. CASE ~(i <= Len(s))
      <4>1. i - Len(s) \in 1..Len(t) /\ Len(s) + (i - Len(s)) = i
        BY <1>1, <3>2
      <4>2. (s \o t)[i] = t[i - Len(s)]
        BY <1>1, <4>1
      <4>3. QED
        BY <1>1, <4>1, <4>2 DEF ToSet
    <3>3. QED
      BY <3>1, <3>2
  <2>2. QED
    BY <1>1, <2>1 DEF ToSet
<1>4. QED
  BY <1>1, <1>2, <1>3

\* From every time on, the loop finds the windows of the grid.
LEMMA LoopFillsGrid ==
    ASSUME NEW h \in WorkingHours, NEW f, IsLoop(h, f)
    PROVE  \A cur \in 0..ClosingTime : f[cur] \in Seq(Interval) /\ GridFrom(h, cur) \subseteq ToSet(f[cur])
<1> DEFINE Fills(cur) == f[cur] \in Seq(Interval) /\ GridFrom(h, cur) \subseteq ToSet(f[cur])
           Bad == {n \in 0..ClosingTime : ~Fills(ClosingTime - n)}
<1>0. ClosingTime \in Nat /\ h.step \in Nat \ {0} /\ h.closes \in Nat /\ h.closes <= ClosingTime
  BY SlotGridAssumption DEF WorkingHours
<1>1. Bad = {}
  <2>1. SUFFICES ASSUME Bad # {} PROVE FALSE
    OBVIOUS
  <2>2. PICK n \in Bad : \A o \in Bad : n <= o
    <3>1. Bad \subseteq Nat
      BY <1>0
    <3>2. QED
      BY <2>1, <3>1, LeastThereIs
  <2> DEFINE c == ClosingTime - n
             w == AtHand(h, c)
  <2>3. n \in 0..ClosingTime /\ ~Fills(c)
    BY <2>2
  <2>4. c \in 0..ClosingTime /\ f[c] = Body(h, f, c)
    BY <1>0, <2>3 DEF IsLoop
  <2>5. w.from = c /\ w.to = c + h.step /\ w = [from |-> c, to |-> c + h.step]
    BY DEF AtHand
  <2>6. \A v \in Interval : v.from \in 0..ClosingTime /\ v.to \in 0..ClosingTime /\ v = [from |-> v.from, to |-> v.to]
    BY DEF Interval
  <2> HIDE DEF c
  <2>7. CASE w.to > h.closes
    <3>1. f[c] = <<>>
      BY <2>4, <2>7 DEF Body
    <3>2. GridFrom(h, c) = {}
      <4>1. SUFFICES ASSUME NEW v \in GridFrom(h, c) PROVE FALSE
        OBVIOUS
      <4>2. v.from >= c /\ v.to <= h.closes /\ v.to = v.from + h.step /\ v.from \in 0..ClosingTime
        BY <2>6 DEF GridFrom
      <4> HIDE DEF w
      <4>3. QED
        BY <1>0, <2>4, <2>5, <2>7, <4>2
    <3>3. QED
      BY <2>3, <3>1, <3>2
  <2>8. CASE ~(w.to > h.closes)
    <3> DEFINE d == c + h.step
               head == IF Overlaps(w, h.breaks) THEN <<>> ELSE <<w>>
    <3>1. d \in 0..ClosingTime /\ ClosingTime - d \in 0..ClosingTime /\ ClosingTime - d < n /\ c < d
          /\ ClosingTime - (ClosingTime - d) = d
      BY <1>0, <2>3, <2>4, <2>5, <2>8 DEF c
    <3>2. Fills(d)
      <4> DEFINE k == ClosingTime - d
      <4>1. k \notin Bad
        <5>1. ~(n <= k)
          BY <1>0, <2>3, <3>1
        <5> HIDE DEF Bad, k
        <5>2. QED
          BY <2>2, <5>1
      <4>2. k \in 0..ClosingTime /\ ClosingTime - k = d
        BY <3>1
      <4> HIDE DEF k, d, Fills
      <4>3. QED
        BY <4>1, <4>2
    <3>3. f[c] = head \o f[d]
      BY <2>4, <2>5, <2>8 DEF Body
    <3>4. w \in Interval
      <4>1. c \in 0..ClosingTime /\ d \in 0..ClosingTime /\ c < d
        BY <2>4, <3>1
      <4> HIDE DEF d
      <4>2. w = [from |-> c, to |-> d]
        BY <2>5 DEF d
      <4>3. QED
        BY <4>1, <4>2 DEF Interval
    <3>5. head \in Seq(Interval) /\ (~Overlaps(w, h.breaks) => ToSet(head) = {w})
      <4> HIDE DEF w
      <4>1. <<w>> \in Seq(Interval) /\ <<>> \in Seq(Interval)
        BY <3>4
      <4>2. ToSet(<<w>>) = {w}
        BY DEF ToSet
      <4>3. QED
        BY <4>1, <4>2
    <3>6. f[c] \in Seq(Interval) /\ ToSet(f[c]) = ToSet(head) \cup ToSet(f[d])
      <4> HIDE DEF head, d
      <4>1. QED
        BY <3>2, <3>3, <3>5, JoinedSeqs
    <3>7. ASSUME NEW v \in GridFrom(h, c) PROVE v \in ToSet(f[c])
      <4>1. /\ v \in Interval /\ v.from >= c /\ v.to <= h.closes
            /\ (v.from - c) % h.step = 0 /\ v.to = v.from + h.step
            /\ \A b \in h.breaks : v.to <= b.from \/ b.to <= v.from
        BY DEF GridFrom
      <4>2. v.from \in 0..ClosingTime /\ v.to \in 0..ClosingTime
        BY <2>6, <4>1
      <4>3. CASE v.from = c
        <5>1. v = w
          BY <2>5, <2>6, <4>1, <4>3
        <5>2. ~Overlaps(w, h.breaks)
          <6>1. \A b \in h.breaks : b.from \in 0..ClosingTime /\ b.to \in 0..ClosingTime
            BY <2>6 DEF WorkingHours
          <6> HIDE DEF w
          <6>2. QED
            BY <1>0, <4>1, <4>2, <5>1, <6>1 DEF Overlaps
        <5>3. QED
          BY <3>5, <3>6, <5>1, <5>2
      <4>4. CASE v.from # c
        <5> DEFINE a == v.from - c
        <5>1. a \in Nat /\ a # 0 /\ a % h.step = 0
          BY <2>4, <4>1, <4>2, <4>4
        <5>2. h.step <= a /\ (a - h.step) % h.step = 0
          <6> HIDE DEF a
          <6>1. QED
            BY <1>0, <5>1, MultipleBefore
        <5>3. v.from >= d /\ v.from - d = a - h.step
          BY <1>0, <2>4, <4>2, <5>2
        <5>4. v \in GridFrom(h, d)
          <6>1. (v.from - d) % h.step = 0
            BY <5>2, <5>3
          <6> HIDE DEF d
          <6>2. QED
            BY <4>1, <5>3, <6>1 DEF GridFrom
        <5>5. QED
          BY <3>2, <3>6, <5>4
      <4>5. QED
        BY <4>3, <4>4
    <3>8. QED
      BY <2>3, <3>6, <3>7
  <2>9. QED
    BY <2>7, <2>8
<1>2. ASSUME NEW cur \in 0..ClosingTime PROVE Fills(cur)
  <2> DEFINE n == ClosingTime - cur
  <2>1. n \in 0..ClosingTime /\ ClosingTime - n = cur
    BY <1>0
  <2> HIDE DEF n, Fills
  <2>2. QED
    BY <1>1, <2>1
<1>3. QED
  BY <1>2

\* What iter_slot_times_for_day promises.
LEMMA TimesFillGrid ==
    ASSUME NEW h \in WorkingHours
    PROVE  SlotTimes(h) \in Seq(Interval) /\ GridOf(h) \subseteq ToSet(SlotTimes(h))
<1>0. h.opens \in 0..ClosingTime /\ h.closes \in 0..ClosingTime /\ h.step \in Nat \ {0}
      /\ ClosingTime \in Nat
  BY SlotGridAssumption DEF WorkingHours
<1>1. CASE h.opens >= h.closes
  <2>1. SlotTimes(h) = <<>>
    BY <1>1 DEF SlotTimes
  <2>2. GridOf(h) = {}
    <3>1. SUFFICES ASSUME NEW v \in GridOf(h) PROVE FALSE
      OBVIOUS
    <3>2. v.from \in 0..ClosingTime /\ v.to \in 0..ClosingTime /\ v.from < v.to
          /\ v.from >= h.opens /\ v.to <= h.closes
      BY DEF GridOf, Interval
    <3>3. QED
      BY <1>0, <1>1, <3>2
  <2>3. QED
    BY <2>1, <2>2
<1>2. CASE ~(h.opens >= h.closes)
  <2>1. PICK f : IsLoop(h, f) /\ Loop(h) = f[h.opens]
    BY LoopIs
  <2>2. GridOf(h) = GridFrom(h, h.opens)
    BY DEF GridOf, GridFrom
  <2>3. QED
    BY <1>0, <1>2, <2>1, <2>2, LoopFillsGrid DEF SlotTimes
<1>3. QED
  BY <1>1, <1>2

KnownHours == HoursOnOffer \cup {DefaultHours}
Generators == [op : {"slots"}, hours : KnownHours, left : Seq(Interval)]

\* Some window begins when this one does.
Begun(w) == \E v \in windows : v.from = w.from

\* What a generator has not come to yet is before it, what it has come to is there.
GridIsWorkedOff ==
    /\ hours \in KnownHours \cup {NoHours} /\ windows \subseteq Interval /\ generated \subseteq KnownHours
    /\ req \in [Procs -> Generators \cup {[op |-> "slots_read"], Idle}]
    /\ \A p \in Procs : At(p, "slots_read") => hours # NoHours
    /\ \A p \in Procs : At(p, "slots") =>
          \A w \in GridOf(req[p].hours) : Begun(w) \/ w \in ToSet(req[p].left)
    /\ GridIsFilled

LEMMA GridInit == WorkersInit /\ SlotGridInit => GridIsWorkedOff
<1> SUFFICES ASSUME WorkersInit, SlotGridInit PROVE GridIsWorkedOff
  OBVIOUS
<1>1. req \in [Procs -> Generators \cup {[op |-> "slots_read"], Idle}]
  BY DEF WorkersInit
<1>2. \A p \in Procs : ~At(p, "slots_read") /\ ~At(p, "slots")
  BY DEF WorkersInit, At, Idle
<1>3. QED
  BY <1>1, <1>2 DEF SlotGridInit, GridIsWorkedOff, GridIsFilled

LEMMA KnownHoursWork == KnownHours \subseteq WorkingHours /\ NoHours \notin KnownHours
BY SlotGridAssumption DEF KnownHours

\* The request of one worker changes, and windows are only added.
LEMMA WorkedOffStep ==
    ASSUME GridIsWorkedOff, NEW p \in Procs,
           NEW r \in Generators \cup {[op |-> "slots_read"], Idle}, req' = [req EXCEPT ![p] = r],
           windows' = windows, hours' \in KnownHours \cup {NoHours},
           hours # NoHours => hours' # NoHours, r.op = "slots_read" => hours' # NoHours,
           r.op = "slots" => \A w \in GridOf(r.hours) : Begun(w) \/ w \in ToSet(r.left),
           generated' = generated
    PROVE  GridIsWorkedOff'
<1> DEFINE R == Generators \cup {[op |-> "slots_read"], Idle}
<1>1. req' \in [Procs -> R]
  <2>1. req \in [Procs -> R] /\ r \in R
    BY DEF GridIsWorkedOff
  <2> HIDE DEF R
  <2>2. QED
    BY <2>1
<1>2. \A q \in Procs : req'[q] = IF q = p THEN r ELSE req[q]
  BY DEF GridIsWorkedOff
<1>3. ASSUME NEW q \in Procs
      PROVE  /\ At(q, "slots_read")' => hours' # NoHours
             /\ At(q, "slots")' => \A w \in GridOf(req'[q].hours) : Begun(w) \/ w \in ToSet(req'[q].left)
  <2>1. CASE q = p
    BY <1>2, <2>1 DEF At
  <2>2. CASE q # p
    BY <1>2, <2>2 DEF At, GridIsWorkedOff
  <2>3. QED
    BY <2>1, <2>2
<1>4. GridIsFilled'
  BY DEF GridIsWorkedOff, GridIsFilled
<1>5. Begun(0)' = Begun(0) /\ \A w : Begun(w)' <=> Begun(w)
  BY DEF Begun
<1>6. QED
  BY <1>1, <1>3, <1>4, <1>5 DEF GridIsWorkedOff, GridOf

LEMMA GridStep == GridIsWorkedOff /\ [SlotGridNext]_<<workerVars, gridVars>> => GridIsWorkedOff'
<1> SUFFICES ASSUME GridIsWorkedOff, [SlotGridNext]_<<workerVars, gridVars>> PROVE GridIsWorkedOff'
  OBVIOUS
<1>0. /\ hours \in KnownHours \cup {NoHours} /\ windows \subseteq Interval /\ generated \subseteq KnownHours
      /\ req \in [Procs -> Generators \cup {[op |-> "slots_read"], Idle}]
      /\ GridIsFilled
  BY DEF GridIsWorkedOff
<1>1. CASE UNCHANGED <<workerVars, gridVars>>
  BY <1>1 DEF GridIsWorkedOff, GridIsFilled, At, Begun
<1>2. ASSUME NEW h \in HoursOnOffer, HoursSaved(h) PROVE GridIsWorkedOff'
  <2>1. h \in KnownHours /\ h # NoHours
    BY KnownHoursWork DEF KnownHours
  <2>2. hours' = h /\ UNCHANGED <<windows, generated, req, crashes>>
    BY <1>2 DEF HoursSaved
  <2>3. QED
    BY <2>1, <2>2 DEF GridIsWorkedOff, GridIsFilled, At, Begun
<1>3. ASSUME NEW w \in Interval, SlotByHand(w) PROVE GridIsWorkedOff'
  <2>1. /\ \A v \in windows : v.from # w.from
        /\ windows' = windows \cup {w} /\ UNCHANGED <<hours, generated, req, crashes>>
    BY <1>3 DEF SlotByHand
  <2>2. \A v : Begun(v) => Begun(v)'
    BY <2>1 DEF Begun
  <2>3. GridIsFilled'
    BY <1>0, <2>1 DEF GridIsFilled
  <2>4. windows' \subseteq Interval
    BY <1>0, <2>1
  <2>5. QED
    BY <2>1, <2>2, <2>3, <2>4 DEF GridIsWorkedOff, At
<1>4. ASSUME NEW p \in Procs, WeeklyRead(p) PROVE GridIsWorkedOff'
  <2> DEFINE r == [op |-> "slots", hours |-> hours, left |-> SlotTimes(hours)]
  <2>1. hours # NoHours /\ req' = [req EXCEPT ![p] = r] /\ UNCHANGED gridVars
    BY <1>4 DEF WeeklyRead, GenerateFrom, Begin
  <2>2. hours \in KnownHours
    BY <1>0, <2>1
  <2>3. SlotTimes(hours) \in Seq(Interval) /\ GridOf(hours) \subseteq ToSet(SlotTimes(hours))
    BY <2>2, KnownHoursWork, TimesFillGrid
  <2>4. r \in Generators /\ r.op = "slots" /\ r.hours = hours /\ r.left = SlotTimes(hours)
    BY <2>2, <2>3 DEF Generators
  <2> HIDE DEF r
  <2>5. QED
    BY <1>0, <2>1, <2>3, <2>4, WorkedOffStep
<1>5. ASSUME NEW p \in Procs, StationEnsured(p) PROVE GridIsWorkedOff'
  <2> DEFINE r == [op |-> "slots_read"]
  <2>1. /\ hours' = IF hours = NoHours THEN DefaultHours ELSE hours
        /\ req' = [req EXCEPT ![p] = r] /\ UNCHANGED <<windows, generated>>
    BY <1>5 DEF StationEnsured, Begin
  <2>2. hours' \in KnownHours
    BY <1>0, <2>1 DEF KnownHours
  <2>3. hours' # NoHours
    BY <2>2, KnownHoursWork
  <2>4. r \in {[op |-> "slots_read"]} /\ r.op = "slots_read"
    OBVIOUS
  <2> HIDE DEF r
  <2>5. QED
    BY <2>1, <2>2, <2>3, <2>4, WorkedOffStep
<1>6. ASSUME NEW p \in Procs, StationRead(p) PROVE GridIsWorkedOff'
  <2> DEFINE r == [op |-> "slots", hours |-> hours, left |-> SlotTimes(hours)]
  <2>1. At(p, "slots_read") /\ req' = [req EXCEPT ![p] = r] /\ UNCHANGED gridVars
    BY <1>6 DEF StationRead, Continue
  <2>2. hours \in KnownHours
    BY <1>0, <2>1 DEF GridIsWorkedOff
  <2>3. SlotTimes(hours) \in Seq(Interval) /\ GridOf(hours) \subseteq ToSet(SlotTimes(hours))
    BY <2>2, KnownHoursWork, TimesFillGrid
  <2>4. r \in Generators /\ r.op = "slots" /\ r.hours = hours /\ r.left = SlotTimes(hours)
    BY <2>2, <2>3 DEF Generators
  <2> HIDE DEF r
  <2>5. QED
    BY <1>0, <2>1, <2>3, <2>4, WorkedOffStep
<1>7. ASSUME NEW p \in Procs, SlotInserted(p) PROVE GridIsWorkedOff'
  <2> DEFINE s == req[p].left
             w == Head(s)
             r == [req[p] EXCEPT !.left = Tail(s)]
  <2>1. /\ At(p, "slots") /\ s # <<>> /\ windows' = Insert(w)
        /\ req' = [req EXCEPT ![p] = r] /\ UNCHANGED <<hours, generated>>
    BY <1>7 DEF SlotInserted, Continue
  <2>2. req[p] \in Generators
    BY <1>0, <2>1 DEF At, Idle
  <2>3. s \in Seq(Interval) /\ w \in Interval /\ Tail(s) \in Seq(Interval) /\ ToSet(s) \subseteq {w} \cup ToSet(Tail(s))
    <3>1. s \in Seq(Interval)
      BY <2>2 DEF Generators
    <3> HIDE DEF s
    <3>2. /\ Tail(s) \in Seq(Interval) /\ w = s[1] /\ w \in Interval
          /\ Len(s) \in Nat /\ Len(Tail(s)) = Len(s) - 1 /\ Len(s) >= 1
          /\ DOMAIN s = 1..Len(s) /\ DOMAIN Tail(s) = 1..Len(s) - 1
          /\ \A i \in 1..Len(s) - 1 : Tail(s)[i] = s[i + 1]
      BY <2>1, <3>1
    <3>3. ASSUME NEW i \in 1..Len(s) PROVE s[i] \in {w} \cup ToSet(Tail(s))
      <4>1. CASE i = 1
        BY <3>2, <4>1
      <4>2. CASE i # 1
        <5>1. i - 1 \in 1..Len(s) - 1 /\ i - 1 + 1 = i
          BY <3>2, <4>2
        <5>2. s[i] = Tail(s)[i - 1]
          BY <3>2, <5>1
        <5>3. QED
          BY <3>2, <5>1, <5>2 DEF ToSet
      <4>3. QED
        BY <4>1, <4>2
    <3>4. ToSet(s) \subseteq {w} \cup ToSet(Tail(s))
      BY <3>2, <3>3 DEF ToSet
    <3>5. QED
      BY <3>1, <3>2, <3>4
  <2>4. r \in Generators /\ r.op = "slots" /\ r.hours = req[p].hours /\ r.left = Tail(s)
    <3>1. Tail(s) \in Seq(Interval)
      BY <2>3
    <3> HIDE DEF s
    <3>2. QED
      BY <2>2, <3>1 DEF Generators
  <2> HIDE DEF r, s, w
  <2>5. (\E v \in windows' : v.from = w.from) /\ \A v : Begun(v) => Begun(v)'
    <3>1. (\E v \in windows : v.from = w.from) \/ w \in windows'
      BY <2>1 DEF Insert
    <3>2. windows \subseteq windows'
      BY <2>1 DEF Insert
    <3>3. QED
      BY <3>1, <3>2 DEF Begun
  <2>6. windows' \subseteq Interval
    BY <1>0, <2>1, <2>3 DEF Insert
  <2>7. GridIsFilled'
    <3>1. \A u, v \in windows' : u.from = v.from => u = v
      BY <1>0, <2>1 DEF GridIsFilled, Insert
    <3>2. \A h \in generated' : \A v \in GridOf(h) : Begun(v)'
      BY <1>0, <2>1, <2>5 DEF GridIsFilled, Begun
    <3>3. QED
      BY <3>1, <3>2 DEF GridIsFilled, Begun
  <2>8. \A q \in Procs : req'[q] = IF q = p THEN r ELSE req[q]
    BY <1>0, <2>1
  <2>9. ASSUME NEW q \in Procs
        PROVE  /\ At(q, "slots_read")' => hours' # NoHours
               /\ At(q, "slots")' => \A v \in GridOf(req'[q].hours) : Begun(v)' \/ v \in ToSet(req'[q].left)
    <3>1. CASE q = p
      <4>1. \A v \in GridOf(req[p].hours) : Begun(v) \/ v \in ToSet(s)
        BY <2>1 DEF GridIsWorkedOff, s
      <4>2. req'[q] = r
        BY <2>8, <3>1
      <4>3. \A v \in GridOf(r.hours) : Begun(v)' \/ v \in ToSet(Tail(s))
        <5>1. ToSet(s) \subseteq {w} \cup ToSet(Tail(s))
          BY <2>3
        <5>2. r.hours = req[p].hours
          BY <2>4
        <5>3. \A v : v = w => Begun(v)'
          BY <2>5 DEF Begun
        <5>4. QED
          BY <2>5, <4>1, <5>1, <5>2, <5>3
      <4>4. r.op = "slots" /\ r.left = Tail(s)
        BY <2>4
      <4>5. ~At(q, "slots_read")'
        BY <4>2, <4>4 DEF At
      <4>6. QED
        BY <4>2, <4>3, <4>4, <4>5
    <3>2. CASE q # p
      BY <2>1, <2>5, <2>8, <3>2 DEF At, GridIsWorkedOff
    <3>3. QED
      BY <3>1, <3>2
  <2>10. req' \in [Procs -> Generators \cup {[op |-> "slots_read"], Idle}]
    <3> DEFINE R == Generators \cup {[op |-> "slots_read"], Idle}
    <3>1. req \in [Procs -> R] /\ r \in R /\ req' = [req EXCEPT ![p] = r]
      BY <1>0, <2>1, <2>4
    <3> HIDE DEF R
    <3>2. req' \in [Procs -> R]
      BY <3>1
    <3>3. QED
      BY <3>2 DEF R
  <2>11. hours' = hours /\ generated' = generated
    BY <2>1
  <2>12. QED
    BY <1>0, <2>6, <2>7, <2>9, <2>10, <2>11 DEF GridIsWorkedOff
<1>8. ASSUME NEW p \in Procs, SlotsDone(p) PROVE GridIsWorkedOff'
  <2>1. /\ At(p, "slots") /\ req[p].left = <<>> /\ generated' = generated \cup {req[p].hours}
        /\ req' = [req EXCEPT ![p] = Idle] /\ UNCHANGED <<hours, windows>>
    BY <1>8 DEF SlotsDone, End, Continue
  <2>2. req[p] \in Generators
    BY <1>0, <2>1 DEF At, Idle
  <2>3. req[p].hours \in KnownHours
    BY <2>2 DEF Generators
  <2>4. \A w \in GridOf(req[p].hours) : Begun(w)
    <3>1. ToSet(<<>>) = {}
      BY DEF ToSet
    <3>2. QED
      BY <2>1, <3>1 DEF GridIsWorkedOff
  <2>5. GridIsFilled'
    BY <1>0, <2>1, <2>4 DEF GridIsFilled, Begun
  <2>6. \A q \in Procs : req'[q] = IF q = p THEN Idle ELSE req[q]
    BY <1>0, <2>1
  <2>7. \A q \in Procs : (At(q, "slots")' \/ At(q, "slots_read")') => q # p
    BY <2>6 DEF At, Idle
  <2>8. req' \in [Procs -> Generators \cup {[op |-> "slots_read"], Idle}]
    BY <1>0, <2>1
  <2>9. generated' \subseteq KnownHours
    BY <1>0, <2>1, <2>3
  <2>10. QED
    BY <2>1, <2>5, <2>6, <2>7, <2>8, <2>9 DEF GridIsWorkedOff, At, Begun
<1>9. ASSUME NEW p \in Procs, SlotGridCrash(p) PROVE GridIsWorkedOff'
  <2>1. req' = [req EXCEPT ![p] = Idle] /\ UNCHANGED gridVars
    BY <1>9 DEF SlotGridCrash, Crash
  <2>2. Idle.op = "idle"
    BY DEF Idle
  <2>3. QED
    BY <1>0, <2>1, <2>2, WorkedOffStep
<1>10. QED
  BY <1>1, <1>2, <1>3, <1>4, <1>5, <1>6, <1>7, <1>8, <1>9 DEF SlotGridNext, SlotGridStep

LEMMA GridTyped == GridIsWorkedOff => SlotGridTypeOK
<1> SUFFICES ASSUME GridIsWorkedOff PROVE SlotGridTypeOK
  OBVIOUS
<1>1. ASSUME NEW s \in Seq(Interval) PROVE ToSet(s) \subseteq Interval
  BY DEF ToSet
<1>2. ASSUME NEW p \in Procs
      PROVE  \/ req[p] = Idle \/ At(p, "slots_read")
             \/ At(p, "slots") /\ req[p].hours \in KnownHours /\ ToSet(req[p].left) \subseteq Interval
  <2>1. req[p] \in Generators \cup {[op |-> "slots_read"], Idle}
    BY DEF GridIsWorkedOff
  <2>2. CASE req[p] \in Generators
    <3>1. req[p].op = "slots" /\ req[p].hours \in KnownHours /\ req[p].left \in Seq(Interval)
      BY <2>2 DEF Generators
    <3>2. QED
      BY <1>1, <3>1 DEF At
  <2>3. CASE req[p] = [op |-> "slots_read"]
    BY <2>3 DEF At
  <2>4. QED
    BY <2>1, <2>2, <2>3
<1>3. QED
  BY <1>2 DEF GridIsWorkedOff, SlotGridTypeOK, KnownHours

\* Whatever hours are saved and however generators overlap, die and meet windows added
\* by hand, the grid of hours worked off is there, with no window twice.
THEOREM GridFillsUp == SlotGridSpec => [](SlotGridTypeOK /\ GridIsFilled)
<1>1. GridIsWorkedOff => SlotGridTypeOK /\ GridIsFilled
  BY GridTyped DEF GridIsWorkedOff
<1>2. QED
  BY GridInit, GridStep, <1>1, PTL DEF SlotGridSpec
=============================================================================

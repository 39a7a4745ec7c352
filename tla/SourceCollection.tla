-------------------------- MODULE SourceCollection --------------------------
(***************************************************************************)
(* How the connectors gather the evidence of one unit while the site       *)
(* changes under them, up to the rows that RowPreparation goes on with:    *)
(*   apple, huawei     one page that carries every SKU,                    *)
(*   oppo, vivo        a first answer that lists the SKUs, then one request*)
(*                     per SKU,                                            *)
(*   xiaomi, skuPages  a walk of the browser over the variant options of a *)
(*                     page; skuPages are the pages of Huawei, OPPO and    *)
(*                     vivo whose snapshots name the SKU,                  *)
(*   shanghai, mofcom  the publication of a day, found before it is read.  *)
(* A listing stands for the variant or commodity it is about.  What MOFCOM *)
(* publishes is an average of a market in a region: there an element of    *)
(* Listing stands for such a quote, and MarketOf names its market.         *)
(***************************************************************************)
EXTENDS RowPreparation, SequencesExt

CONSTANTS
  Kind,      \* the kinds of source that are collected
  National,  \* the region of every request here
  Dims,      \* number of variant dimensions of a page
  SpecOf,    \* of each listing its value for each dimension, or None
  Mapped,    \* the commodities asked of Shanghai
  MarketOf,  \* of each quote of MOFCOM the listing of its market
  QuotedIn,  \* and its region
  Silent,    \* the price of what the site shows with no price and no reason
  Published, \* what a site may publish: prices by listing, None: not sold
  Limit,     \* max_snapshots
  Today,     \* the day of the fetches
  Changes    \* bound on the changes of the site during one collection

VARIABLES
  site,      \* what is collected, or None when the page is given
  at,        \* where the collection stands
  source,    \* what the site publishes now: day and offer
  past,      \* what it published since the collection began
  day,       \* the source date of a data set, or None
  todo,      \* SKUs still to be asked for
  evidence,  \* what was gathered: prices, the SKUs advertised, those said to be down
  tab        \* the browser page, or None

collectVars == <<site, at, source, past, day, todo, evidence, tab>>

Datasets == {"shanghai", "mofcom"}
Devices == {"apple", "huawei", "xiaomi", "skuPages", "oppo", "vivo"}
Walked == {"xiaomi", "skuPages"}

NoEvidence == [price |-> <<>>, advertised |-> {}, down |-> {}]

ASSUME CollectionAssumption ==
  /\ Kind \subseteq Devices \cup Datasets
  /\ Mapped \subseteq Listing /\ IsFiniteSet(Mapped)
  /\ MarketOf \in [Listing -> Listing] /\ QuotedIn \in [Listing -> Region \ {Unknown}]
  /\ \A v, w \in Listing : MarketOf[v] = MarketOf[w] /\ QuotedIn[v] = QuotedIn[w] => v = w
  /\ National \in Region \ {Unknown}
  /\ Dims \in Nat
  /\ \A v, w \in Listing : (\A i \in 1 .. Dims : SpecOf[v][i] = SpecOf[w][i]) => v = w
  /\ \A o \in Published :
       /\ DOMAIN o \subseteq Listing /\ DOMAIN o # {} /\ IsFiniteSet(DOMAIN o)
       /\ \A v \in DOMAIN o : o[v] \in Amount \cup {Silent}
       /\ \A v, w \in DOMAIN o, d \in 1 .. Dims :
            (\A i \in 1 .. d - 1 : SpecOf[v][i] = SpecOf[w][i]) => (SpecOf[v][d] = None) = (SpecOf[w][d] = None)
  /\ Silent \notin Amount

-----------------------------------------------------------------------------
(* The site.                                                               *)

Publish ==
  /\ stage = "collecting" /\ at # "discover"
  /\ Cardinality(past) <= Changes
  /\ \E o \in Published, d \in {source.day, source.day + 1} :
       /\ d # source.day => site \in Datasets
       /\ source' = [day |-> d, offer |-> o]
       /\ source' # source
       /\ past' = past \cup {source'}
  /\ UNCHANGED <<vars, site, at, day, todo, evidence, tab>>

-----------------------------------------------------------------------------
(* Steps of a collection.                                                  *)

\* The unit fails: a request did, or an answer is not what it must be.
Raise ==
  /\ stage' = "raised"
  /\ UNCHANGED <<page, prepared, facts, switched, collectVars>>

Reaches(place) == at' = place /\ UNCHANGED <<vars, site, source, past>>

At(kinds, place) == stage = "collecting" /\ site \in kinds /\ at = place

RequestFails == stage = "collecting" /\ at # "parse" /\ Raise

\* A product whose first answer is 404 or 410 is left to the guards.
ProductGone ==
  /\ At(Devices, "fetch")
  /\ stage' = "gone"
  /\ UNCHANGED <<page, prepared, facts, switched, collectVars>>

\* discover_products: the product, and for OPPO the SKU that stands for it.
DiscoverProduct ==
  /\ At(Devices, "discover")
  /\ \E seed \in DOMAIN source.offer : todo' = IF site = "oppo" THEN {seed} ELSE {}
  /\ Reaches("fetch")
  /\ UNCHANGED <<day, evidence, tab>>

\* discover_dataset: the newest publication named by the index, then its article.
ReadIndex ==
  /\ At({"shanghai"}, "discover")
  /\ day' = source.day
  /\ Reaches("article")
  /\ UNCHANGED <<todo, evidence, tab>>

ReadArticle ==
  /\ At({"shanghai"}, "article")
  /\ \E s \in past :
       IF s.day # day \/ day > Today THEN Raise
       ELSE Reaches("fetch") /\ UNCHANGED <<day, todo, evidence, tab>>

DiscoverDay ==
  /\ At({"mofcom"}, "discover")
  /\ IF source.day > Today THEN Raise
     ELSE day' = source.day /\ Reaches("fetch") /\ UNCHANGED <<todo, evidence, tab>>

\* fetch_dataset and the dates parse_dataset reads.  The address of Shanghai's
\* attachment may go on showing what was published there before.
SameDayAnyway(s) == TRUE
SameDay(s) == s.day = day

FetchTable ==
  /\ At(Datasets, "fetch")
  /\ \E s \in IF site = "shanghai" THEN past ELSE {source} :
       IF ~ SameDay(s) THEN Raise
       ELSE /\ evidence' = [NoEvidence EXCEPT !.price = s.offer, !.advertised = DOMAIN s.offer]
            /\ Reaches("parse")
            /\ UNCHANGED <<day, todo, tab>>

FetchPage ==
  /\ At({"apple", "huawei"}, "fetch")
  /\ evidence' = [NoEvidence EXCEPT !.price = source.offer, !.advertised = DOMAIN source.offer]
  /\ Reaches("parse")
  /\ UNCHANGED <<day, todo, tab>>

\* The prices gathered, with that of one more SKU.
PricesWith(v, price) ==
  [w \in DOMAIN evidence.price \cup {v} |-> IF w = v THEN price ELSE evidence.price[w]]

\* The answer for one SKU: its price, and for OPPO the SKUs it advertises.
AnsweredFor(v) ==
  [evidence EXCEPT !.price = PricesWith(v, source.offer[v]),
                   !.advertised = IF site = "oppo" THEN @ \cup DOMAIN source.offer ELSE @]

Advance(v, left) ==
  /\ evidence' = AnsweredFor(v)
  /\ todo' = left
  /\ Reaches(IF left = {} THEN "parse" ELSE "details")
  /\ UNCHANGED <<day, tab>>

\* A site asked for a SKU it no longer sells answers an error or another SKU.
FetchOppoSeed ==
  /\ At({"oppo"}, "fetch")
  /\ \E v \in todo :
       IF v \in DOMAIN source.offer THEN Advance(v, DOMAIN source.offer \ {v}) ELSE Raise

FetchVivoInfo ==
  /\ At({"vivo"}, "fetch")
  /\ evidence' = [NoEvidence EXCEPT !.advertised = DOMAIN source.offer,
                                    !.down = {v \in DOMAIN source.offer : source.offer[v] = None}]
  /\ todo' = DOMAIN source.offer
  /\ Reaches("details")
  /\ UNCHANGED <<day, tab>>

FetchDetail ==
  /\ At({"oppo", "vivo"}, "details")
  /\ \E v \in todo :
       IF v \in DOMAIN source.offer THEN Advance(v, todo \ {v}) ELSE Raise

-----------------------------------------------------------------------------
(* fetch_snapshots.  A page shows no variants but those it was loaded with; *)
(* what it shows of one is of its loading or of the click on it.  An option *)
(* is offered if a variant has it with the values chosen above it, and a   *)
(* click keeps those.  enter is the dimension _walk_dimensions is called   *)
(* for, 0 when it has returned; todoAt holds the options its callers have  *)
(* still to try.  A page rendered anew may have lost an option or disabled *)
(* it: the walk passes over it, and skipped records the variants it had.   *)

OpenTab ==
  /\ At(Walked, "fetch")
  /\ \E v \in DOMAIN source.offer :
       /\ tab' = [offer |-> source.offer, active |-> v, shown |-> source.offer[v],
                  enter |-> 1, todoAt |-> <<>>, seen |-> {}, skipped |-> {}]
       /\ Reaches("walk")
       /\ UNCHANGED <<day, todo, evidence>>

Agree(v, w, d) == \A i \in 1 .. d : SpecOf[v][i] = SpecOf[w][i]

\* A page of Xiaomi must have colours; other dimensions may be absent.
Optional(d) == site # "xiaomi" \/ d # 1

\* _option_values of dimension d.
OptionValues(d) ==
  {SpecOf[v][d] : v \in {w \in DOMAIN tab.offer : Agree(w, tab.active, d - 1)}} \ {None}

Proceeds(t) == tab' = t /\ Reaches("walk") /\ UNCHANGED <<day, todo>>

\* max_snapshots is checked on every call.
Overflows == tab.enter # 0 /\ Cardinality(tab.seen) >= Limit

StopAtLimitQuietly ==
  /\ At(Walked, "walk") /\ Overflows
  /\ Proceeds([tab EXCEPT !.enter = 0, !.todoAt = <<>>]) /\ UNCHANGED evidence
StopAtLimit == At(Walked, "walk") /\ Overflows /\ Raise

Walks == At(Walked, "walk") /\ ~ Overflows

\* _active_selections and a snapshot, unless these selections have one.
Capture ==
  /\ Walks /\ tab.enter = Dims + 1
  /\ evidence' = IF tab.active \in tab.seen THEN evidence
                 ELSE [evidence EXCEPT !.price = PricesWith(tab.active, tab.shown)]
  /\ Proceeds([tab EXCEPT !.enter = 0, !.seen = @ \cup {tab.active}])

\* A dimension without options is passed over, ends this branch, or is an error.
EnterDimension ==
  /\ Walks /\ tab.enter \in 1 .. Dims
  /\ LET d == tab.enter IN
     \/ /\ OptionValues(d) # {}
        /\ Proceeds([tab EXCEPT !.enter = 0, !.todoAt = Append(@, [dim |-> d, left |-> OptionValues(d)])])
        /\ UNCHANGED evidence
     \/ /\ OptionValues(d) = {} /\ (Optional(d) \/ d > 1)
        /\ Proceeds([tab EXCEPT !.enter = IF Optional(d) THEN d + 1 ELSE 0])
        /\ UNCHANGED evidence
     \/ /\ OptionValues(d) = {} /\ ~ Optional(d) /\ d = 1
        /\ Raise

\* The variants the page was loaded with that have option x of dimension d.
Behind(d, x) == {w \in DOMAIN tab.offer : Agree(w, tab.active, d - 1) /\ SpecOf[w][d] = x}

InLoop == Walks /\ tab.enter = 0 /\ tab.todoAt # <<>>

ClickOption ==
  /\ InLoop
  /\ LET k == Len(tab.todoAt)
         d == tab.todoAt[k].dim
     IN \E x \in tab.todoAt[k].left : \E v \in Behind(d, x), o \in {tab.offer, source.offer} :
          /\ v \in DOMAIN o
          /\ Proceeds([tab EXCEPT !.todoAt[k].left = @ \ {x}, !.active = v, !.shown = o[v], !.enter = d + 1])
  /\ UNCHANGED evidence

\* The option read before is gone or disabled now; no plan excludes values.
SkipOption ==
  /\ InLoop
  /\ LET k == Len(tab.todoAt)
         d == tab.todoAt[k].dim
     IN \E x \in tab.todoAt[k].left :
          Proceeds([tab EXCEPT !.todoAt[k].left = @ \ {x}, !.skipped = @ \cup Behind(d, x)])
  /\ UNCHANGED evidence

LeaveDimension ==
  /\ InLoop
  /\ tab.todoAt[Len(tab.todoAt)].left = {}
  /\ Proceeds([tab EXCEPT !.todoAt = SubSeq(@, 1, Len(@) - 1)])
  /\ UNCHANGED evidence

EndWalk ==
  /\ Walks /\ tab.enter = 0 /\ tab.todoAt = <<>>
  /\ Reaches("parse")
  /\ UNCHANGED <<day, todo, evidence, tab>>

-----------------------------------------------------------------------------
(* parse_product and parse_dataset: what a connector accepts as evidence.  *)

Priced(v) == evidence.price[v] \notin {None, Silent}
Explained(v) == Priced(v) \/ evidence.price[v] = None \/ v \in evidence.down

AppleParses == \A v \in DOMAIN evidence.price : Priced(v)
HuaweiParses == \A v \in DOMAIN evidence.price : Explained(v)
XiaomiParses == \A v \in DOMAIN evidence.price : SpecOf[v][1] # None /\ Explained(v)
SkuPagesParse == \A v \in DOMAIN evidence.price : Explained(v)

\* An answer that came later may advertise a SKU the first one did not list.
OppoParses ==
  /\ evidence.advertised \subseteq DOMAIN evidence.price
  /\ \A v \in DOMAIN evidence.price : Explained(v)

VivoParses ==
  /\ DOMAIN evidence.price = evidence.advertised
  /\ \A v \in DOMAIN evidence.price : Explained(v)

\* Every commodity of the mapping has exactly one column with a number; the
\* other columns are left alone.
ShanghaiParses == \A v \in Mapped : v \in DOMAIN evidence.price /\ Priced(v)

MofcomParses == \A v \in DOMAIN evidence.price : Priced(v)

Parses ==
  CASE site = "apple" -> AppleParses
    [] site = "huawei" -> HuaweiParses
    [] site = "xiaomi" -> XiaomiParses
    [] site = "skuPages" -> SkuPagesParse
    [] site = "oppo" -> OppoParses
    [] site = "vivo" -> VivoParses
    [] site = "shanghai" -> ShanghaiParses
    [] site = "mofcom" -> MofcomParses

\* The rows of MOFCOM are markets, with one candidate for each region; all other
\* listings are quoted once.
ListingOf(v) == IF site = "mofcom" THEN MarketOf[v] ELSE v
RegionQuoted(v) == IF site = "mofcom" THEN QuotedIn[v] ELSE National
QuotesOf(l) == {v \in DOMAIN evidence.price : ListingOf(v) = l}

\* _price_candidate of a mall: a price, or the explicit absence of one.  The
\* availability vivo lists may be older than the price of the SKU.
MallCandidate(v) ==
  [region |-> IF site \in {"oppo", "vivo"} THEN None ELSE National,
   price |-> IF Priced(v) THEN evidence.price[v] ELSE None,
   original |-> None,
   type |-> IF Priced(v) THEN "DIRECT_UNCONDITIONAL" ELSE "AVAILABILITY_ONLY",
   basis |-> IF Priced(v) THEN "PACKAGE_TOTAL" ELSE "UNKNOWN",
   availability |-> IF Priced(v) /\ v \notin evidence.down THEN "ON_SALE" ELSE "OFF_SHELF",
   fee |-> IF Priced(v) THEN "ITEM_ONLY" ELSE "NOT_APPLICABLE",
   promo |-> FALSE, unitPrice |-> None, unit |-> None, rejection |-> None, own |-> None]

AverageCandidate(v) ==
  [region |-> RegionQuoted(v), price |-> evidence.price[v], original |-> None,
   type |-> "PUBLISHED_VALUE", basis |-> "UNIT_QUOTED", availability |-> "UNKNOWN",
   fee |-> "NOT_APPLICABLE", promo |-> FALSE, unitPrice |-> None, unit |-> None,
   rejection |-> None, own |-> 1]

CandidatesOf(l) ==
  LET quotes == SetToSeq(QuotesOf(l)) IN
  [k \in DOMAIN quotes |->
     IF site \in Devices THEN MallCandidate(quotes[k]) ELSE AverageCandidate(quotes[k])]

DeviceRow(l) ==
  [listing |-> l, inScope |-> TRUE, nature |-> "RETAIL_OFFER", official |-> TRUE,
   identity |-> "ACCEPTED", quantity |-> 1, candidates |-> CandidatesOf(l)]

AverageRow(l, nature) ==
  [listing |-> l, inScope |-> TRUE, nature |-> nature, official |-> FALSE,
   identity |-> "ACCEPTED", quantity |-> 1, candidates |-> CandidatesOf(l)]

ShanghaiRow(l) == AverageRow(l, "RETAIL_AVERAGE")
MofcomRow(l) == AverageRow(l, "WHOLESALE_AVERAGE")

RowOf(l) ==
  IF site \in Devices THEN DeviceRow(l)
  ELSE IF site = "shanghai" THEN ShanghaiRow(l) ELSE MofcomRow(l)

ListingsRead == IF site = "shanghai" THEN Mapped ELSE {ListingOf(v) : v \in DOMAIN evidence.price}
Listed == SetToSeq(ListingsRead)

ParsedEvidence ==
  [kind |-> IF site \in Devices THEN "product" ELSE "dataset",
   region |-> IF site = "mofcom" THEN None ELSE National,
   rows |-> [i \in DOMAIN Listed |-> RowOf(Listed[i])]]

Parse ==
  /\ stage = "collecting" /\ at = "parse"
  /\ IF DOMAIN evidence.price = {} \/ ~ Parses THEN Raise
     ELSE /\ stage' = "parsed"
          /\ page' = ParsedEvidence
          /\ UNCHANGED <<prepared, facts, switched, collectVars>>

-----------------------------------------------------------------------------
(* A unit from its collection, or from a page given, to its observations.  *)

CollectInit ==
  /\ prepared = None /\ facts = {} /\ switched = {}
  /\ day = None /\ todo = {} /\ evidence = NoEvidence /\ tab = None
  /\ \/ /\ stage = "parsed" /\ page \in Pages
        /\ site = None /\ at = "parse" /\ source = None /\ past = {}
     \/ /\ stage = "collecting" /\ page = None
        /\ site \in Kind /\ at = "discover"
        /\ source \in [day : {Today, Today + 1}, offer : Published]
        /\ past = {source}

Collect ==
  \/ RequestFails \/ ProductGone
  \/ DiscoverProduct \/ ReadIndex \/ ReadArticle \/ DiscoverDay
  \/ FetchTable \/ FetchPage \/ FetchOppoSeed \/ FetchVivoInfo \/ FetchDetail
  \/ OpenTab \/ StopAtLimit \/ Capture \/ EnterDimension \/ ClickOption \/ SkipOption
  \/ LeaveDimension \/ EndWalk
  \/ Parse

CollectNext ==
  \/ Publish
  \/ Collect
  \/ Prepare /\ UNCHANGED collectVars
  \/ Persist /\ UNCHANGED collectVars

CollectSpec == CollectInit /\ [][CollectNext]_<<vars, collectVars>>

-----------------------------------------------------------------------------
(* Properties.                                                             *)

Collected == stage = "stored" /\ site # None

\* The site published this price since the collection began, for a data set on
\* the very day it is stored for.
PublishedAs(v, price) ==
  \E s \in past :
    /\ v \in DOMAIN s.offer /\ s.offer[v] = price
    /\ day # None => s.day = day

SpeaksOf(f, v) == f.listing = ListingOf(v) /\ f.is.region = RegionQuoted(v)

\* What is stored of a listing and region the site published during the
\* collection, also when it changed between two requests.
FactsWerePublished ==
  Collected =>
    \A f \in facts : \E v \in Listing : SpeaksOf(f, v) /\ PublishedAs(v, f.is.cand.price)

\* Variants whose options were gone or disabled when the walk came to them.
Skipped == IF site \in Walked THEN tab.skipped ELSE {}

\* A unit that is stored speaks of everything the site published all along,
\* unless the page itself withheld the option that leads to it: nothing is
\* missed because an answer, a changed page or the limit cut the collection short.
OnlyWithheldIsMissed ==
  Collected =>
    \A v \in IF site = "shanghai" THEN Mapped ELSE Listing :
      (\A s \in past : v \in DOMAIN s.offer) => v \in Skipped \/ \E f \in facts : SpeaksOf(f, v)

\* A device that is quoted twice in one region, differently and trusted.
QuotesTwice(p) ==
  /\ p.kind = "product"
  /\ \E v, w \in PlacesOf(p) :
       /\ v[1] = w[1] /\ EvaluatedAt(p, v).region = EvaluatedAt(p, w).region
       /\ EvaluatedAt(p, v).quality = "ACCEPTED" /\ EvaluatedAt(p, w).quality = "ACCEPTED"
       /\ EvaluatedAt(p, v) # EvaluatedAt(p, w)

\* A unit price of the page rounds to zero: a small price of a large quantity.
RoundsToZero(p) ==
  \E w \in PlacesOf(p) : Expected(p.rows[w[1]].candidates[w[2]], p.rows[w[1]]) = 0

\* What the policy made of a page is stored, unless the page quotes a device
\* twice or has a unit price of zero; what a connector collects always is.
RefusedForCause ==
  stage = "refused" => site = None /\ (QuotesTwice(page) \/ RoundsToZero(page))

\* A row that says the same thing twice.
RepeatsItself(p) ==
  \E v, w \in PlacesOf(p) : v # w /\ v[1] = w[1] /\ EvaluatedAt(p, v) = EvaluatedAt(p, w)

\* The counts and the status of a unit are about the facts it stored.  A
\* candidate that is repeated is counted again and stored once; no connector
\* repeats one.
VerdictMatchesFacts ==
  stage = "stored" =>
    LET Trusted == {f \in facts : f.is.quality = "ACCEPTED"} IN
    /\ acceptedCount >= Cardinality(Trusted)
    /\ site # None \/ ~ RepeatsItself(page) => acceptedCount = Cardinality(Trusted)
    /\ status = "FAILED" <=> Trusted = {}
    /\ status = "SUCCEEDED" =>
         \A w \in PlacesOf(page) :
           \E f \in Trusted : f.listing = page.rows[w[1]].listing /\ f.is.region = EvaluatedAt(page, w).region

-----------------------------------------------------------------------------
(* The inductive invariant behind these properties.                        *)

\* Everything gathered was published, and somewhere on the way to "parse" one
\* state of the site was heard of as a whole.
EvidenceInv ==
  /\ DOMAIN evidence = {"price", "advertised", "down"}
  /\ IsFiniteSet(DOMAIN evidence.price)
  /\ \A v \in DOMAIN evidence.price : PublishedAs(v, evidence.price[v])
  /\ \A v \in evidence.down : PublishedAs(v, None)
  /\ site \notin {"oppo", "vivo"} => evidence.advertised \subseteq DOMAIN evidence.price

HeardOfAll ==
  \E s \in past : DOMAIN s.offer \subseteq DOMAIN evidence.price \cup evidence.advertised \cup Skipped

Option == {SpecOf[v][d] : v \in Listing, d \in 1 .. Dims}

Tab ==
  [offer : Published, active : Listing, shown : Amount \cup {Silent}, enter : 0 .. Dims + 1,
   todoAt : Seq([dim : 1 .. Dims, left : SUBSET Option]), seen : SUBSET Listing, skipped : SUBSET Listing]

\* The variant is among those the walk has yet to come by.
StillToTry(v) ==
  \/ tab.enter # 0 /\ Agree(v, tab.active, tab.enter - 1)
  \/ \E k \in DOMAIN tab.todoAt :
       LET d == tab.todoAt[k].dim IN Agree(v, tab.active, d - 1) /\ SpecOf[v][d] \in tab.todoAt[k].left

\* The walk of the browser is a depth-first search: its loops are nested in the
\* order of the dimensions, and what it has not seen or skipped it has still to
\* try.
WalkInv ==
  /\ tab \in Tab
  /\ \E s \in past : s.offer = tab.offer
  /\ tab.active \in DOMAIN tab.offer
  /\ PublishedAs(tab.active, tab.shown)
  /\ tab.seen \subseteq DOMAIN evidence.price
  /\ \A j, k \in DOMAIN tab.todoAt : j < k => tab.todoAt[j].dim < tab.todoAt[k].dim
  /\ tab.enter # 0 => \A k \in DOMAIN tab.todoAt : tab.todoAt[k].dim < tab.enter
  /\ \A v \in DOMAIN tab.offer : v \in tab.seen \cup tab.skipped \/ StillToTry(v)

CollectingInv ==
  /\ site \in Kind /\ source \in past
  /\ at \in {"discover", "article", "fetch", "details", "walk", "parse"}
  /\ site \in Devices => day = None
  /\ at \in {"discover", "article"} => evidence = NoEvidence
  /\ at = "walk" => WalkInv
  /\ at \in {"details", "parse"} => HeardOfAll

CollectInv ==
  /\ PreparationInv
  /\ stage \in {"collecting", "gone", "parsed", "prepared", "stored", "raised", "refused"}
  /\ \A s \in past : s.offer \in Published
  /\ EvidenceInv
  /\ stage = "collecting" => CollectingInv
  /\ stage \in {"parsed", "prepared", "stored", "refused"} =>
       \/ site = None /\ page \in Pages
       \/ site \in Kind /\ HeardOfAll /\ Parses /\ page = ParsedEvidence
=============================================================================

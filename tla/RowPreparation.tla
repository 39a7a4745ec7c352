--------------------------- MODULE RowPreparation ---------------------------
(***************************************************************************)
(* From the rows a connector parsed to the observations of one unit:       *)
(* prepare_catalog_rows and prepare_catalog_product, CatalogPricePolicy,   *)
(* and what then stands between a candidate and the table: the validators  *)
(* of CatalogPriceObservation and the CHECK constraints, which state the   *)
(* rules of the policy a second and a third time.                          *)
(*                                                                         *)
(* Amounts are integers; a unit price is in 1/Scale of the unit of amounts.*)
(***************************************************************************)
EXTENDS Integers, Sequences, FiniteSets

CONSTANTS
  Listing,   \* discovery keys
  Region,    \* concrete regions, Unknown among them
  Unknown,   \* the region UNKNOWN
  None,
  Scale,     \* 1 / _UNIT_PRICE_SCALE
  Pages      \* the parsed pages: kind, request and rows

VARIABLES
  stage,     \* parsed, prepared, stored, raised or refused
  page,      \* the parsed unit
  prepared,  \* PreparedCatalogRows, or None
  facts,     \* observations stored
  switched   \* listings whose current revision follows this unit

vars == <<stage, page, prepared, facts, switched>>

Amount == (Nat \ {0}) \cup {None}
Quality == {"ACCEPTED", "REVIEW_REQUIRED", "REJECTED"}
Offers == {"RETAIL_OFFER", "WHOLESALE_OFFER"}
Averages == {"RETAIL_AVERAGE", "WHOLESALE_AVERAGE", "MARKET_AVERAGE"}
NotSelling == {"OFF_SHELF", "OUT_OF_STOCK", "COMING_SOON"}
ExactBasis == {"PACKAGE_TOTAL", "UNIT_QUOTED"}
ItemFees == {"ITEM_ONLY", "SEPARATE_FEES_EXCLUDED"}

\* own: the time and hash the source gave the candidate, None for those of the
\* fetch.  unit is "proven" for CNY per base unit of the listing, "other" for
\* another one.
Candidate ==
  [region : Region \cup {None}, price : Amount, original : Amount,
   type : {"DIRECT_UNCONDITIONAL", "PUBLISHED_VALUE", "AVAILABILITY_ONLY", "COUPON"},
   basis : ExactBasis \cup {"VARIABLE_ESTIMATE", "UNKNOWN"},
   availability : NotSelling \cup {"ON_SALE", "UNKNOWN"},
   fee : ItemFees \cup {"NOT_APPLICABLE", "INSEPARABLE"},
   promo : BOOLEAN, unitPrice : Amount, unit : {"proven", "other", None},
   rejection : {None, "SOURCE"}, own : Nat \cup {None}]

Nature == Offers \cup Averages \cup {"UNKNOWN"}

\* identity and quantity are what the category rule says of the row; official:
\* a verified seller of the brand.
Row ==
  [listing : Listing, inScope : BOOLEAN, nature : Nature, official : BOOLEAN,
   identity : Quality, quantity : Amount, candidates : Seq(Candidate)]

\* region is the one region of the request, or None for a request of several.
Page ==
  [kind : {"product", "dataset"}, region : (Region \ {Unknown}) \cup {None},
   rows : Seq(Row)]

\* A unit price comes with its unit.
UnitsArePaired(p) ==
  \A i \in DOMAIN p.rows : \A k \in DOMAIN p.rows[i].candidates :
    LET c == p.rows[i].candidates[k] IN (c.unitPrice = None) = (c.unit = None)

ParsedPage == {p \in Page : UnitsArePaired(p)}

ASSUME PreparationAssumption ==
  /\ Unknown \in Region /\ None \notin Region \cup Nat
  /\ None \notin {"proven", "POLICY", "PRODUCT_IDENTITY_UNTRUSTED"}
  /\ Scale \in Nat \ {0}
  /\ Pages \subseteq ParsedPage

-----------------------------------------------------------------------------
(* CatalogPricePolicy.evaluate.                                            *)

RegionOf(c, p) ==
  IF c.region # None THEN c.region ELSE IF p.region # None THEN p.region ELSE Unknown

HalfUp(n, d) == (2 * n + d) \div (2 * d)

\* The unit price that follows from the price and the proven quantity.
Expected(c, row) ==
  IF c.basis \in ExactBasis /\ c.price # None /\ row.quantity # None
  THEN HalfUp(c.price * Scale, row.quantity) ELSE None

\* A candidate without unit price takes the expected one.
UnitPriced(c, row) ==
  IF c.unitPrice = None /\ Expected(c, row) # None
  THEN [c EXCEPT !.unitPrice = Expected(c, row), !.unit = "proven"] ELSE c

\* _rejection_code of what only tells that nothing is sold.
TrustedAbsence(c, region, nature) ==
  /\ region # Unknown
  /\ nature = "RETAIL_OFFER"
  /\ c.availability \in NotSelling
  /\ c.price = None /\ c.original = None /\ c.unitPrice = None /\ c.unit = None
  /\ c.basis = "UNKNOWN" /\ c.fee = "NOT_APPLICABLE" /\ ~ c.promo

TrustedTerms(c, nature) ==
  \/ /\ nature \in Offers
     /\ c.type = "DIRECT_UNCONDITIONAL"
     /\ c.fee \in ItemFees
     /\ nature = "RETAIL_OFFER" /\ c.original # None => c.original >= c.price
  \/ /\ nature \in Averages
     /\ c.type = "PUBLISHED_VALUE"
     /\ c.fee = "NOT_APPLICABLE"

\* _rejection_code of a price; stated is the candidate as the source gave it.
TrustedPrice(c, region, nature, stated, expected) ==
  /\ c.price # None
  /\ region # Unknown
  /\ nature # "UNKNOWN"
  /\ c.basis \in ExactBasis
  /\ c.basis = "UNIT_QUOTED" => c.unitPrice # None
  /\ stated.unitPrice # None /\ expected # None => c.unitPrice = expected /\ c.unit = "proven"
  /\ TrustedTerms(c, nature)

TrustsFromAnywhere(c, region, nature, stated, expected) ==
  IF c.type = "AVAILABILITY_ONLY"
  THEN TrustedAbsence(c, "somewhere", nature)
  ELSE TrustedPrice(c, region, nature, stated, expected)
Trusts(c, region, nature, stated, expected) ==
  IF c.type = "AVAILABILITY_ONLY"
  THEN TrustedAbsence(c, region, nature)
  ELSE TrustedPrice(c, region, nature, stated, expected)

Evaluate(c, row, p) ==
  LET u == [UnitPriced(c, row) EXCEPT !.region = RegionOf(c, p)]
      isTrusted == /\ c.rejection = None
                   /\ Trusts(u, RegionOf(c, p), row.nature, c, Expected(c, row))
  IN [cand |-> u, region |-> RegionOf(c, p), nature |-> row.nature,
      quality |-> IF isTrusted THEN "ACCEPTED" ELSE "REJECTED",
      code |-> IF isTrusted THEN None ELSE IF c.rejection # None THEN c.rejection ELSE "POLICY"]

-----------------------------------------------------------------------------
(* prepare_catalog_rows and prepare_catalog_product.                       *)

Places(rows) == {<<i, k>> : i \in DOMAIN rows, k \in UNION {DOMAIN rows[j].candidates : j \in DOMAIN rows}}
PlacesOf(p) == {w \in Places(p.rows) : w[2] \in DOMAIN p.rows[w[1]].candidates}

EvaluatedAt(p, w) == Evaluate(p.rows[w[1]].candidates[w[2]], p.rows[w[1]], p)

\* DUPLICATE_LISTING, CATEGORY_OUT_OF_SCOPE, REGION_OUT_OF_SCOPE.
RowsRaise(p) ==
  \/ \E i, j \in DOMAIN p.rows : i # j /\ p.rows[i].listing = p.rows[j].listing
  \/ \E i \in DOMAIN p.rows : ~ p.rows[i].inScope
  \/ p.region # None /\ \E w \in PlacesOf(p) : EvaluatedAt(p, w).region # p.region

\* SELLER_UNTRUSTED, DEVICE_EVIDENCE_OVERRIDE.
ProductRaises(p) ==
  \/ \E i \in DOMAIN p.rows : p.rows[i].nature # "RETAIL_OFFER" \/ ~ p.rows[i].official
  \/ \E w \in PlacesOf(p) : p.rows[w[1]].candidates[w[2]].own # None

Raises(p) ==
  \/ RowsRaise(p)
  \/ p.kind = "product" /\ ProductRaises(p)

IdentityOf(p, w) == p.rows[w[1]].identity

\* One unproven identity withholds every price of a product.
WithheldOfRow(p, w) == p.kind = "product" /\ IdentityOf(p, w) # "ACCEPTED"
Withheld(p, w) == p.kind = "product" /\ \E i \in DOMAIN p.rows : p.rows[i].identity # "ACCEPTED"

Prepared(p) ==
  [w \in PlacesOf(p) |->
     LET e == EvaluatedAt(p, w) IN
     IF Withheld(p, w) /\ e.quality = "ACCEPTED"
     THEN [e EXCEPT !.quality = "REVIEW_REQUIRED", !.code = "PRODUCT_IDENTITY_UNTRUSTED"]
     ELSE e]

Prepare ==
  /\ stage = "parsed"
  /\ IF Raises(page)
     THEN stage' = "raised" /\ UNCHANGED prepared
     ELSE stage' = "prepared" /\ prepared' = Prepared(page)
  /\ UNCHANGED <<page, facts, switched>>

\* quality_counts: the candidates of a row count only when its identity does.
CountedAnyway(w) == prepared[w].quality = "ACCEPTED"
Counted(w) == prepared[w].quality = "ACCEPTED" /\ IdentityOf(page, w) = "ACCEPTED"

acceptedCount == Cardinality({w \in DOMAIN prepared : Counted(w)})

\* PreparedCatalogRows.complete: every row is identified and every region it
\* names has an accepted candidate.
QuotesEveryRegion(i) ==
  /\ \E w \in DOMAIN prepared : w[1] = i
  /\ \A w \in DOMAIN prepared : w[1] = i =>
       \E v \in DOMAIN prepared :
         v[1] = i /\ prepared[v].region = prepared[w].region /\ prepared[v].quality = "ACCEPTED"

complete ==
  /\ DOMAIN page.rows # {}
  /\ \A i \in DOMAIN page.rows : page.rows[i].identity = "ACCEPTED" /\ QuotesEveryRegion(i)

status == IF acceptedCount = 0 THEN "FAILED" ELSE IF complete THEN "SUCCEEDED" ELSE "PARTIAL"

-----------------------------------------------------------------------------
(* CatalogPriceObservation and v2_price_observation.                       *)

Positive(c) ==
  /\ c.original # None => c.original > 0
  /\ c.price # None => c.price > 0
  /\ c.unitPrice # None => c.unitPrice > 0

\* _validate_current_eligibility.
Eligible(e) ==
  LET c == e.cand IN
  IF c.type = "AVAILABILITY_ONLY"
  THEN /\ e.nature = "RETAIL_OFFER" /\ e.region # Unknown
       /\ c.availability \in NotSelling
       /\ c.price = None /\ c.original = None /\ c.unitPrice = None /\ c.unit = None
       /\ c.basis = "UNKNOWN" /\ c.fee = "NOT_APPLICABLE" /\ ~ c.promo
  ELSE /\ c.price # None /\ e.region # Unknown /\ e.nature # "UNKNOWN"
       /\ c.basis \in ExactBasis
       /\ c.basis = "UNIT_QUOTED" => c.unitPrice # None
       /\ e.nature \in Offers => c.type = "DIRECT_UNCONDITIONAL" /\ c.fee \in ItemFees
       /\ e.nature \in Averages => c.type = "PUBLISHED_VALUE" /\ c.fee = "NOT_APPLICABLE"

\* validate_semantics.
Valid(e) ==
  /\ Positive(e.cand)
  /\ (e.cand.unitPrice = None) = (e.cand.unit = None)
  /\ (e.quality = "ACCEPTED") = (e.code = None)
  /\ e.quality = "ACCEPTED" => Eligible(e)

\* The constraints original_price .. quality_semantics and accepted_eligibility.
CheckedAnyTerms(e) == e.cand.price # None /\ e.region # Unknown
Checked(e) ==
  LET c == e.cand
      absent == /\ c.type = "AVAILABILITY_ONLY"
                /\ e.nature = "RETAIL_OFFER" /\ e.region # Unknown
                /\ c.availability \in {"OFF_SHELF", "OUT_OF_STOCK", "COMING_SOON"}
                /\ c.price = None /\ c.original = None /\ c.unitPrice = None /\ c.unit = None
                /\ c.basis = "UNKNOWN" /\ c.fee = "NOT_APPLICABLE" /\ ~ c.promo
      quoted == /\ c.price # None /\ e.region # Unknown /\ e.nature # "UNKNOWN"
                /\ \/ c.basis = "PACKAGE_TOTAL"
                   \/ c.basis = "UNIT_QUOTED" /\ c.unitPrice # None
                /\ \/ /\ e.nature \in {"RETAIL_OFFER", "WHOLESALE_OFFER"}
                      /\ c.type = "DIRECT_UNCONDITIONAL"
                      /\ c.fee \in {"ITEM_ONLY", "SEPARATE_FEES_EXCLUDED"}
                   \/ /\ e.nature \in {"RETAIL_AVERAGE", "WHOLESALE_AVERAGE", "MARKET_AVERAGE"}
                      /\ c.type = "PUBLISHED_VALUE" /\ c.fee = "NOT_APPLICABLE"
  IN /\ Positive(c)
     /\ (c.unitPrice = None) <=> (c.unit = None)
     /\ (e.quality = "ACCEPTED") <=> (e.code = None)
     /\ e.quality = "ACCEPTED" => absent \/ quoted

-----------------------------------------------------------------------------
(* _persist_success: rows of proven identity become observations; one that *)
(* is refused rolls the whole unit back.  The ledger holds no fact of these *)
(* instants yet; links to earlier ones are the subject of PriceLedger.      *)

Written == {w \in DOMAIN prepared : IdentityOf(page, w) = "ACCEPTED"}

\* An observation is what its observation_key is built from: record returns the
\* stored one for a candidate that repeats it.
FactAt(w) == [listing |-> page.rows[w[1]].listing, is |-> prepared[w]]

\* assert_same_time_consistent: a device has one accepted quote of a region at a
\* time.  The differing ones of a data set become a chain of corrections.
Clash(v, w) ==
  /\ v[1] = w[1] /\ prepared[v].region = prepared[w].region
  /\ prepared[v].quality = "ACCEPTED" /\ prepared[w].quality = "ACCEPTED"
  /\ prepared[v] # prepared[w]
Conflicts == page.kind = "product" /\ \E v, w \in Written : Clash(v, w)

Storable == \A w \in Written : Valid(prepared[w]) /\ Checked(prepared[w])

Persist ==
  /\ stage = "prepared"
  /\ IF Storable /\ ~ Conflicts
     THEN /\ stage' = "stored"
          /\ facts' = {FactAt(w) : w \in Written}
          /\ switched' = {page.rows[w[1]].listing : w \in {v \in Written : prepared[v].quality = "ACCEPTED"}}
     ELSE stage' = "refused" /\ UNCHANGED <<facts, switched>>
  /\ UNCHANGED <<page, prepared>>

Init ==
  /\ stage = "parsed"
  /\ page \in Pages
  /\ prepared = None
  /\ facts = {}
  /\ switched = {}

Next == Prepare \/ Persist

Spec == Init /\ [][Next]_vars

-----------------------------------------------------------------------------
(* Properties.                                                             *)

\* The validators and the constraints agree on every candidate, also if it
\* were accepted: neither lets through what the other refuses.
ValidatorsAgreeWithConstraints ==
  stage = "prepared" =>
    \A w \in DOMAIN prepared :
      LET e == prepared[w] IN
      /\ Valid(e) = Checked(e)
      /\ LET a == [e EXCEPT !.quality = "ACCEPTED", !.code = None] IN Valid(a) = Checked(a)

\* A product one of whose specifications is unproven changes no trusted price
\* and no current revision.
ProductIsAllOrNothing ==
  stage = "stored" /\ page.kind = "product" /\ (\E i \in DOMAIN page.rows : page.rows[i].identity # "ACCEPTED") =>
    switched = {} /\ \A f \in facts : f.is.quality # "ACCEPTED"

-----------------------------------------------------------------------------
(* What each stage leaves behind: the first half of the inductive          *)
(* invariant of SourceCollection.                                          *)

PreparationInv ==
  /\ stage \in {"prepared", "stored", "refused"} => ~ Raises(page) /\ prepared = Prepared(page)
  /\ stage = "stored" =>
       /\ facts = {FactAt(w) : w \in Written}
       /\ switched = {page.rows[w[1]].listing : w \in {v \in Written : prepared[v].quality = "ACCEPTED"}}
  /\ stage = "refused" => ~ Storable \/ Conflicts
=============================================================================

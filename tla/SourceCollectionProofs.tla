----------------------- MODULE SourceCollectionProofs -----------------------
(***************************************************************************)
(* Theorems about RowPreparation and SourceCollection: what the connectors *)
(* gather was published, nothing is missed but what a page withheld, and   *)
(* what the policy makes of a page, given or collected, is stored as the   *)
(* counts say or refused for one of two causes.                            *)
(***************************************************************************)
EXTENDS SourceCollection, FiniteSetTheorems, TLAPS

-----------------------------------------------------------------------------
(* The policy, the validators and the constraints, candidate by candidate. *)

\* CatalogPriceObservation and the CHECK constraints state one rule: they agree
\* on whatever the policy may hand them, accepted or not.
LEMMA SameRule ==
  ASSUME NEW e, e.nature \in Nature
  PROVE  Valid(e) <=> Checked(e)
<1>. DEFINE c == e.cand
            absent == /\ c.type = "AVAILABILITY_ONLY"
                      /\ e.nature = "RETAIL_OFFER" /\ e.region # Unknown
                      /\ c.availability \in {"OFF_SHELF", "OUT_OF_STOCK", "COMING_SOON"}
                      /\ c.price = None /\ c.original = None /\ c.unitPrice = None /\ c.unit = None
                      /\ c.basis = "UNKNOWN" /\ c.fee = "NOT_APPLICABLE" /\ ~ c.promo
            quoted == /\ c.price # None /\ e.region # Unknown /\ e.nature # "UNKNOWN"
                      /\ \/ c.basis = "PACKAGE_TOTAL"
                         \/ c.basis = "UNIT_QUOTED" /\ c.unitPrice # None
                      /\ \/ /\ e.nature \in {"RETAIL_OFFER", "WHOLESALE_OFFER"}
                            /\ c.type = "DIRECT_UNCONDITIONAL"
                            /\ c.fee \in {"ITEM_ONLY", "SEPARATE_FEES_EXCLUDED"}
                         \/ /\ e.nature \in {"RETAIL_AVERAGE", "WHOLESALE_AVERAGE", "MARKET_AVERAGE"}
                            /\ c.type = "PUBLISHED_VALUE" /\ c.fee = "NOT_APPLICABLE"
<1>1. CASE e.cand.type = "AVAILABILITY_ONLY"
  <2>1. Eligible(e) <=> absent
    BY <1>1 DEF Eligible, NotSelling
  <2>2. ~ quoted
    BY <1>1
  <2>. QED
    BY <2>1, <2>2 DEF Valid, Checked
<1>2. CASE e.cand.type # "AVAILABILITY_ONLY"
  <2>1. Eligible(e) <=> quoted
    BY <1>2 DEF Eligible, Nature, Offers, Averages, ExactBasis, ItemFees
  <2>2. ~ absent
    BY <1>2
  <2>. QED
    BY <2>1, <2>2 DEF Valid, Checked
<1>. QED
  BY <1>1, <1>2

\* A place of a page holds a candidate of a row.
LEMMA PlacesHoldCandidates ==
  ASSUME NEW p \in ParsedPage, NEW w \in PlacesOf(p)
  PROVE  /\ w[1] \in DOMAIN p.rows /\ p.rows[w[1]] \in Row
         /\ p.rows[w[1]].candidates[w[2]] \in Candidate
         /\ (p.rows[w[1]].candidates[w[2]].unitPrice = None)
              <=> (p.rows[w[1]].candidates[w[2]].unit = None)
<1>1. p.rows \in Seq(Row)
  BY DEF ParsedPage, Page
<1>2. w[1] \in DOMAIN p.rows /\ w[2] \in DOMAIN p.rows[w[1]].candidates
  BY DEF PlacesOf, Places
<1>3. p.rows[w[1]] \in Row
  BY <1>1, <1>2
<1>4. p.rows[w[1]].candidates \in Seq(Candidate)
  BY <1>3 DEF Row
<1>5. p.rows[w[1]].candidates[w[2]] \in Candidate
  BY <1>2, <1>4
<1>6. (p.rows[w[1]].candidates[w[2]].unitPrice = None) = (p.rows[w[1]].candidates[w[2]].unit = None)
  BY <1>2 DEF ParsedPage, UnitsArePaired
<1>. QED
  BY <1>2, <1>3, <1>5, <1>6

\* What the policy accepts, the validators accept, unless a unit price was
\* rounded to zero.
LEMMA AcceptedIsValid ==
  ASSUME NEW p, NEW row \in Row, NEW c \in Candidate, (c.unitPrice = None) <=> (c.unit = None),
         Expected(c, row) # 0
  PROVE  Valid(Evaluate(c, row, p))
<1>. DEFINE u == [UnitPriced(c, row) EXCEPT !.region = RegionOf(c, p)]
            e == Evaluate(c, row, p)
<1>. USE PreparationAssumption
<1>1. Expected(c, row) = None \/ Expected(c, row) \in Nat \ {0}
  <2>1. CASE c.basis \in ExactBasis /\ c.price # None /\ row.quantity # None
    <3>1. c.price \in Nat \ {0} /\ row.quantity \in Nat \ {0} /\ Scale \in Nat
      BY <2>1 DEF Candidate, Row, Amount
    <3>2. c.price * Scale \in Nat
      BY <3>1
    <3>3. ASSUME NEW n \in Nat, NEW d \in Nat \ {0} PROVE HalfUp(n, d) \in Nat
      BY DEF HalfUp
    <3>4. Expected(c, row) = HalfUp(c.price * Scale, row.quantity)
      BY <2>1 DEF Expected
    <3>. QED
      BY <3>1, <3>2, <3>3, <3>4
  <2>2. CASE ~ (c.basis \in ExactBasis /\ c.price # None /\ row.quantity # None)
    BY <2>2 DEF Expected
  <2>. QED
    BY <2>1, <2>2
<1>2. /\ u.price = c.price /\ u.original = c.original /\ u.type = c.type /\ u.basis = c.basis
      /\ u.availability = c.availability /\ u.fee = c.fee /\ u.promo = c.promo
      /\ u.unitPrice \in Amount /\ ((u.unitPrice = None) <=> (u.unit = None))
  <2>1. CASE c.unitPrice = None /\ Expected(c, row) # None
    <3>1. u = [c EXCEPT !.unitPrice = Expected(c, row), !.unit = "proven", !.region = RegionOf(c, p)]
      BY <2>1 DEF UnitPriced, Candidate
    <3>. QED
      BY <2>1, <3>1, <1>1 DEF Candidate, Amount
  <2>2. CASE ~ (c.unitPrice = None /\ Expected(c, row) # None)
    <3>1. u = [c EXCEPT !.region = RegionOf(c, p)]
      BY <2>2 DEF UnitPriced
    <3>. QED
      BY <3>1 DEF Candidate
  <2>. QED
    BY <2>1, <2>2
<1>. HIDE DEF u
<1>3. /\ e.cand = u /\ e.region = RegionOf(c, p) /\ e.nature = row.nature
      /\ e.quality = "ACCEPTED" => Trusts(u, RegionOf(c, p), row.nature, c, Expected(c, row))
      /\ (e.quality = "ACCEPTED") <=> (e.code = None)
  BY DEF Evaluate, u
<1>. HIDE DEF e
<1>4. Positive(u)
  <2>1. u.price \in Amount /\ u.original \in Amount
    BY <1>2 DEF Candidate
  <2>. QED
    BY <2>1, <1>2 DEF Positive, Amount
<1>5. e.quality = "ACCEPTED" => Eligible(e)
  <2>. SUFFICES ASSUME Trusts(u, RegionOf(c, p), row.nature, c, Expected(c, row)) PROVE Eligible(e)
    BY <1>3
  <2>1. CASE u.type = "AVAILABILITY_ONLY"
    BY <2>1, <1>3 DEF Trusts, TrustedAbsence, Eligible
  <2>2. CASE u.type # "AVAILABILITY_ONLY"
    BY <2>2, <1>3 DEF Trusts, TrustedPrice, TrustedTerms, Eligible, Offers, Averages
  <2>. QED
    BY <2>1, <2>2
<1>6. Valid(e)
  BY <1>2, <1>3, <1>4, <1>5 DEF Valid
<1>. QED
  BY <1>6 DEF e

\* What is prepared of a place is the policy's evaluation, with a trust that is
\* withheld at most.
LEMMA PreparedPlace ==
  ASSUME NEW p \in ParsedPage, NEW w \in PlacesOf(p)
  PROVE  /\ Prepared(p)[w].cand = EvaluatedAt(p, w).cand
         /\ Prepared(p)[w].region = EvaluatedAt(p, w).region
         /\ Prepared(p)[w].nature \in Nature
         /\ Prepared(p)[w] = [cand |-> Prepared(p)[w].cand, region |-> Prepared(p)[w].region,
                              nature |-> Prepared(p)[w].nature, quality |-> Prepared(p)[w].quality,
                              code |-> Prepared(p)[w].code]
         /\ Withheld(p, w) => Prepared(p)[w].quality # "ACCEPTED"
         /\ Prepared(p)[w].quality = "ACCEPTED" => Prepared(p)[w] = EvaluatedAt(p, w)
         /\ Valid(EvaluatedAt(p, w)) => Valid(Prepared(p)[w])
<1>. DEFINE e == EvaluatedAt(p, w)
            f == Prepared(p)[w]
<1>1. f = IF Withheld(p, w) /\ e.quality = "ACCEPTED"
          THEN [e EXCEPT !.quality = "REVIEW_REQUIRED", !.code = "PRODUCT_IDENTITY_UNTRUSTED"]
          ELSE e
  BY DEF Prepared
<1>2. e = [cand |-> e.cand, region |-> e.region, nature |-> e.nature, quality |-> e.quality, code |-> e.code]
      /\ e.nature \in Nature
  BY PlacesHoldCandidates DEF EvaluatedAt, Evaluate, Row
<1>. HIDE DEF e, f
<1>3. CASE Withheld(p, w) /\ e.quality = "ACCEPTED"
  <2>1. f = [cand |-> e.cand, region |-> e.region, nature |-> e.nature,
             quality |-> "REVIEW_REQUIRED", code |-> "PRODUCT_IDENTITY_UNTRUSTED"]
    BY <1>1, <1>2, <1>3
  <2>2. Valid(e) => Valid(f)
    BY <2>1, PreparationAssumption DEF Valid
  <2>. QED
    BY <1>2, <2>1, <2>2 DEF e, f
<1>4. CASE ~ (Withheld(p, w) /\ e.quality = "ACCEPTED")
  <2>1. f = e
    BY <1>1, <1>4
  <2>. QED
    BY <1>2, <1>4, <2>1 DEF e, f
<1>. QED
  BY <1>3, <1>4

LEMMA PreparedDomain ==
  ASSUME NEW p
  PROVE  DOMAIN Prepared(p) = PlacesOf(p)
BY DEF Prepared

\* A page is finite.
LEMMA PlacesFinite ==
  ASSUME NEW p \in ParsedPage
  PROVE  IsFiniteSet(PlacesOf(p))
<1>. DEFINE I == DOMAIN p.rows
            K == UNION {DOMAIN p.rows[j].candidates : j \in I}
<1>1. p.rows \in Seq(Row)
  BY DEF ParsedPage, Page
<1>2. IsFiniteSet(I)
  <2>1. Len(p.rows) \in Nat /\ I = 1 .. Len(p.rows)
    BY <1>1
  <2>. QED
    BY <2>1, FS_Interval
<1>3. IsFiniteSet(K)
  <2>1. ASSUME NEW j \in I PROVE IsFiniteSet(DOMAIN p.rows[j].candidates)
    <3>1. p.rows[j].candidates \in Seq(Candidate)
      <4>1. p.rows[j] \in Row
        BY <1>1
      <4>. QED
        BY <4>1 DEF Row
    <3>2. Len(p.rows[j].candidates) \in Nat
          /\ DOMAIN p.rows[j].candidates = 1 .. Len(p.rows[j].candidates)
      BY <3>1
    <3>. QED
      BY <3>2, FS_Interval
  <2>2. IsFiniteSet({DOMAIN p.rows[j].candidates : j \in I})
    <3>. DEFINE T == {DOMAIN p.rows[j].candidates : j \in I}
                f == [j \in I |-> DOMAIN p.rows[j].candidates]
    <3>1. f \in Surjection(I, T)
      BY DEF Surjection
    <3>. QED
      BY <3>1, <1>2, FS_Surjection
  <2>. QED
    BY <2>1, <2>2, FS_UNION
<1>4. IsFiniteSet(I \X K)
  BY <1>2, <1>3, FS_Product
<1>5. PlacesOf(p) \subseteq I \X K
  BY DEF PlacesOf, Places
<1>. QED
  BY <1>4, <1>5, FS_Subset

-----------------------------------------------------------------------------
(* The rows of what was collected.                                         *)

\* SetToSeq lists every element of a finite set, and nothing else.
LEMMA SequenceOfSet ==
  ASSUME NEW S, IsFiniteSet(S)
  PROVE  /\ SetToSeq(S) \in Seq(S)
         /\ \A x \in S : \E i \in DOMAIN SetToSeq(S) : SetToSeq(S)[i] = x
         /\ \A i, j \in DOMAIN SetToSeq(S) : SetToSeq(S)[i] = SetToSeq(S)[j] => i = j
<1>1. PICK f : f \in Bijection(1 .. Cardinality(S), S)
  BY FS_CardinalityType DEF ExistsBijection
<1>2. f \in [1 .. Cardinality(S) -> S] /\ IsInjective(f)
  BY <1>1 DEF Bijection, Injection
<1>3. SetToSeq(S) \in [1 .. Cardinality(S) -> S] /\ IsInjective(SetToSeq(S))
  BY <1>2 DEF SetToSeq
<1>4. SetToSeq(S) \in Injection(1 .. Cardinality(S), S)
  BY <1>3 DEF Injection
<1>5. /\ Cardinality(S) \in Nat /\ IsFiniteSet(1 .. Cardinality(S))
      /\ Cardinality(1 .. Cardinality(S)) = Cardinality(S)
  BY FS_CardinalityType, FS_Interval
<1>6. SetToSeq(S) \in Surjection(1 .. Cardinality(S), S)
  BY <1>4, <1>5, FS_Injection
<1>7. SetToSeq(S) \in Seq(S)
  BY <1>3, <1>5
<1>8. \A x \in S : \E i \in 1 .. Cardinality(S) : SetToSeq(S)[i] = x
  BY <1>6 DEF Surjection
<1>9. \A i, j \in DOMAIN SetToSeq(S) : SetToSeq(S)[i] = SetToSeq(S)[j] => i = j
  BY <1>3 DEF IsInjective
<1>. QED
  BY <1>3, <1>7, <1>8, <1>9

\* The quotes that become rows.
ToList == IF site = "shanghai" THEN Mapped ELSE DOMAIN evidence.price

\* What the site published is a listing with a price, an absence or a silence.
LEMMA PublishedIsPrice ==
  ASSUME \A s \in past : s.offer \in Published, NEW v, NEW price, PublishedAs(v, price)
  PROVE  v \in Listing /\ price \in Amount \cup {Silent}
BY CollectionAssumption DEF PublishedAs

\* What each connector demands of its evidence.
LEMMA ParsesDemands ==
  ASSUME EvidenceInv, site \in Kind, Parses
  PROVE  /\ evidence.advertised \subseteq DOMAIN evidence.price
         /\ ToList \subseteq DOMAIN evidence.price
         /\ site \in Devices => \A v \in ToList : Explained(v)
         /\ site \in Datasets => \A v \in ToList : Priced(v)
<1>. site \in Devices \cup Datasets
  BY CollectionAssumption
<1>1. CASE site = "apple"
  BY <1>1 DEF Parses, AppleParses, Explained, ToList, EvidenceInv, Devices, Datasets
<1>2. CASE site = "huawei"
  BY <1>2 DEF Parses, HuaweiParses, ToList, EvidenceInv, Devices, Datasets
<1>3. CASE site = "xiaomi"
  BY <1>3 DEF Parses, XiaomiParses, ToList, EvidenceInv, Devices, Datasets
<1>4. CASE site = "skuPages"
  BY <1>4 DEF Parses, SkuPagesParse, ToList, EvidenceInv, Devices, Datasets
<1>5. CASE site = "oppo"
  BY <1>5 DEF Parses, OppoParses, ToList, Devices, Datasets
<1>6. CASE site = "vivo"
  BY <1>6 DEF Parses, VivoParses, ToList, Devices, Datasets
<1>7. CASE site = "shanghai"
  BY <1>7 DEF Parses, ShanghaiParses, ToList, EvidenceInv, Devices, Datasets
<1>8. CASE site = "mofcom"
  BY <1>8 DEF Parses, MofcomParses, ToList, EvidenceInv, Devices, Datasets
<1>. QED
  BY <1>1, <1>2, <1>3, <1>4, <1>5, <1>6, <1>7, <1>8 DEF Devices, Datasets

CandidateOf(v) == IF site \in Devices THEN MallCandidate(v) ELSE AverageCandidate(v)

\* The quote behind a candidate of a row.
Quote(l, k) == SetToSeq(QuotesOf(l))[k]

\* A row is of quotes that were read, and of at least one.
LEMMA QuotesOfListing ==
  ASSUME EvidenceInv, site \in Kind, Parses, NEW l \in ListingsRead
  PROVE  /\ QuotesOf(l) \subseteq ToList /\ QuotesOf(l) # {} /\ IsFiniteSet(QuotesOf(l))
         /\ \A v \in QuotesOf(l) : ListingOf(v) = l
<1>1. IsFiniteSet(QuotesOf(l)) /\ \A v \in QuotesOf(l) : ListingOf(v) = l
  <2>1. QuotesOf(l) \subseteq DOMAIN evidence.price
    BY DEF QuotesOf
  <2>. QED
    BY <2>1, FS_Subset DEF EvidenceInv, QuotesOf
<1>2. CASE site = "shanghai"
  <2>1. l \in Mapped /\ l \in DOMAIN evidence.price /\ \A v : ListingOf(v) = v
    BY <1>2, ParsesDemands DEF ListingsRead, ListingOf, ToList
  <2>. QED
    BY <1>1, <1>2, <2>1 DEF QuotesOf, ToList
<1>3. CASE site # "shanghai"
  BY <1>1, <1>3 DEF ListingsRead, QuotesOf, ToList
<1>. QED
  BY <1>2, <1>3

\* No two quotes of a row are of one region.
LEMMA QuotesApart ==
  ASSUME EvidenceInv, \A s \in past : s.offer \in Published, site \in Kind, Parses,
         NEW l \in ListingsRead, NEW v \in QuotesOf(l), NEW w \in QuotesOf(l),
         RegionQuoted(v) = RegionQuoted(w)
  PROVE  v = w
<1>1. ListingOf(v) = ListingOf(w)
  BY QuotesOfListing
<1>2. v \in Listing /\ w \in Listing
  <2>1. PublishedAs(v, evidence.price[v]) /\ PublishedAs(w, evidence.price[w])
    BY DEF QuotesOf, EvidenceInv
  <2>. QED
    BY <2>1, PublishedIsPrice
<1>3. CASE site = "mofcom"
  BY <1>1, <1>2, <1>3, CollectionAssumption DEF ListingOf, RegionQuoted
<1>4. CASE site # "mofcom"
  BY <1>1, <1>4 DEF ListingOf
<1>. QED
  BY <1>3, <1>4

\* A candidate is one of the region quoted, whose price the site published.
LEMMA CandidateOfEvidence ==
  ASSUME EvidenceInv, \A s \in past : s.offer \in Published, site \in Kind, Parses,
         NEW v \in ToList
  PROVE  /\ CandidateOf(v) \in Candidate
         /\ CandidateOf(v).unitPrice = None /\ CandidateOf(v).unit = None
         /\ PublishedAs(v, CandidateOf(v).price)
         /\ RegionOf(CandidateOf(v), ParsedEvidence) = RegionQuoted(v)
         /\ v \in Listing /\ ListingOf(v) \in Listing
<1>1. PublishedAs(v, evidence.price[v])
  BY ParsesDemands DEF EvidenceInv
<1>2. v \in Listing /\ evidence.price[v] \in Amount \cup {Silent}
  BY <1>1, PublishedIsPrice
<1>3. /\ None \in Amount /\ 1 \in Amount /\ Silent # None /\ None \notin Region
      /\ National \in Region /\ RegionQuoted(v) \in Region /\ ListingOf(v) \in Listing
  BY <1>2, CollectionAssumption, PreparationAssumption DEF Amount, RegionQuoted, ListingOf
<1>4. ParsedEvidence.region = IF site = "mofcom" THEN None ELSE National
  BY DEF ParsedEvidence
<1>5. CASE site \in Devices
  <2>. DEFINE c == MallCandidate(v)
  <2>1. c.price = IF Priced(v) THEN evidence.price[v] ELSE None
    BY DEF MallCandidate
  <2>2. c \in Candidate
    BY <1>2, <1>3 DEF MallCandidate, Candidate, Priced, Amount, NotSelling, ItemFees, ExactBasis
  <2>3. PublishedAs(v, c.price)
    <3>1. CASE Priced(v)
      BY <1>1, <2>1, <3>1
    <3>2. CASE ~ Priced(v)
      <4>1. evidence.price[v] = None \/ v \in evidence.down
        BY <1>5, <3>2, ParsesDemands DEF Explained
      <4>2. PublishedAs(v, None)
        BY <1>1, <4>1 DEF EvidenceInv
      <4>. QED
        BY <2>1, <3>2, <4>2
    <3>. QED
      BY <3>1, <3>2
  <2>4. c.unitPrice = None /\ c.unit = None /\ c.region \in {None, National}
    BY DEF MallCandidate
  <2>. HIDE DEF c
  <2>5. site # "mofcom" /\ RegionQuoted(v) = National
    BY <1>5 DEF Devices, RegionQuoted
  <2>6. RegionOf(c, ParsedEvidence) = RegionQuoted(v)
    BY <1>3, <1>4, <2>4, <2>5 DEF RegionOf
  <2>7. CandidateOf(v) = c
    BY <1>5 DEF CandidateOf, c
  <2>. QED
    BY <1>2, <1>3, <2>2, <2>3, <2>4, <2>6, <2>7
<1>6. CASE site \in Datasets
  <2>. DEFINE c == AverageCandidate(v)
  <2>1. c.price = evidence.price[v] /\ c.unitPrice = None /\ c.unit = None /\ c.region = RegionQuoted(v)
    BY DEF AverageCandidate
  <2>2. Priced(v)
    BY <1>6, ParsesDemands
  <2>3. c \in Candidate
    BY <1>2, <1>3, <2>2 DEF AverageCandidate, Candidate, Priced, Amount, NotSelling, ItemFees, ExactBasis
  <2>. HIDE DEF c
  <2>4. CandidateOf(v) = c
    BY <1>6 DEF CandidateOf, Devices, Datasets, c
  <2>5. RegionOf(c, ParsedEvidence) = RegionQuoted(v)
    BY <1>3, <2>1 DEF RegionOf
  <2>. QED
    BY <1>1, <1>2, <1>3, <2>1, <2>3, <2>4, <2>5
<1>. QED
  BY <1>5, <1>6, CollectionAssumption

\* A row is of proven identity and of one piece, and has one candidate for each
\* quote of its listing.
LEMMA RowOfEvidence ==
  ASSUME EvidenceInv, \A s \in past : s.offer \in Published, site \in Kind, Parses,
         NEW l \in ListingsRead
  PROVE  /\ RowOf(l) \in Row
         /\ RowOf(l).listing = l /\ RowOf(l).identity = "ACCEPTED" /\ RowOf(l).quantity = 1
         /\ \A k \in DOMAIN RowOf(l).candidates :
              Quote(l, k) \in QuotesOf(l) /\ RowOf(l).candidates[k] = CandidateOf(Quote(l, k))
         /\ \A v \in QuotesOf(l) : \E k \in DOMAIN RowOf(l).candidates : Quote(l, k) = v
         /\ \A j, k \in DOMAIN RowOf(l).candidates : Quote(l, j) = Quote(l, k) => j = k
<1>. DEFINE quotes == SetToSeq(QuotesOf(l))
            cs == CandidatesOf(l)
            nature == IF site \in Devices THEN "RETAIL_OFFER"
                      ELSE IF site = "shanghai" THEN "RETAIL_AVERAGE" ELSE "WHOLESALE_AVERAGE"
            official == IF site \in Devices THEN TRUE ELSE FALSE
<1>1. /\ QuotesOf(l) \subseteq ToList /\ QuotesOf(l) # {} /\ IsFiniteSet(QuotesOf(l))
      /\ \A v \in QuotesOf(l) : ListingOf(v) = l
  BY QuotesOfListing
<1>2. /\ quotes \in Seq(QuotesOf(l))
      /\ \A v \in QuotesOf(l) : \E k \in DOMAIN quotes : quotes[k] = v
      /\ \A j, k \in DOMAIN quotes : quotes[j] = quotes[k] => j = k
  BY <1>1, SequenceOfSet
<1>3. \A k \in DOMAIN quotes : quotes[k] \in QuotesOf(l) /\ quotes[k] = Quote(l, k)
  BY <1>2 DEF Quote
<1>4. cs = [k \in DOMAIN quotes |-> CandidateOf(quotes[k])]
  BY DEF CandidatesOf, CandidateOf
<1>5. cs \in Seq(Candidate)
  <2>1. \A k \in DOMAIN quotes : CandidateOf(quotes[k]) \in Candidate
    BY <1>1, <1>3, CandidateOfEvidence
  <2>2. Len(quotes) \in Nat /\ DOMAIN quotes = 1 .. Len(quotes)
    BY <1>2
  <2>. QED
    BY <1>4, <2>1, <2>2
<1>6. l \in Listing
  <2>1. PICK v \in QuotesOf(l) : TRUE
    BY <1>1
  <2>. QED
    BY <1>1, <2>1, CandidateOfEvidence
<1>. HIDE DEF quotes, cs
<1>7. RowOf(l) = [listing |-> l, inScope |-> TRUE, nature |-> nature, official |-> official,
                  identity |-> "ACCEPTED", quantity |-> 1, candidates |-> cs]
  <2>1. CASE site \in Devices
    BY <2>1 DEF RowOf, DeviceRow, cs
  <2>2. CASE site \notin Devices
    BY <2>2 DEF RowOf, ShanghaiRow, MofcomRow, AverageRow, cs
  <2>. QED
    BY <2>1, <2>2
<1>8. nature \in Nature /\ 1 \in Amount /\ official \in BOOLEAN /\ "ACCEPTED" \in Quality
  BY DEF Nature, Offers, Averages, Amount, Quality
<1>. HIDE DEF nature, official
<1>9. RowOf(l) \in Row
  BY <1>5, <1>6, <1>7, <1>8 DEF Row
<1>10. /\ RowOf(l).listing = l /\ RowOf(l).identity = "ACCEPTED" /\ RowOf(l).quantity = 1
       /\ RowOf(l).candidates = cs /\ DOMAIN cs = DOMAIN quotes
  BY <1>4, <1>7
<1>. QED
  BY <1>2, <1>3, <1>4, <1>9, <1>10

\* What was collected is a page the policy can be asked about; its rows are of
\* the listings read.
LEMMA EvidenceIsPage ==
  ASSUME EvidenceInv, \A s \in past : s.offer \in Published, site \in Kind, Parses
  PROVE  /\ ParsedEvidence \in ParsedPage
         /\ DOMAIN ParsedEvidence.rows = DOMAIN Listed
         /\ \A i \in DOMAIN Listed : Listed[i] \in ListingsRead /\ ParsedEvidence.rows[i] = RowOf(Listed[i])
         /\ \A l \in ListingsRead : \E i \in DOMAIN Listed : Listed[i] = l
<1>. DEFINE p == ParsedEvidence
<1>1. IsFiniteSet(ListingsRead)
  <2>1. CASE site = "shanghai"
    BY <2>1, CollectionAssumption DEF ListingsRead
  <2>2. CASE site # "shanghai"
    <3>. DEFINE S == DOMAIN evidence.price
                T == {ListingOf(v) : v \in S}
                f == [v \in S |-> ListingOf(v)]
    <3>1. f \in Surjection(S, T)
      BY DEF Surjection
    <3>2. IsFiniteSet(T)
      BY <3>1, FS_Surjection DEF EvidenceInv
    <3>. QED
      BY <2>2, <3>2 DEF ListingsRead
  <2>. QED
    BY <2>1, <2>2
<1>2. /\ Listed \in Seq(ListingsRead)
      /\ \A l \in ListingsRead : \E i \in DOMAIN Listed : Listed[i] = l
  BY <1>1, SequenceOfSet DEF Listed
<1>3. \A i \in DOMAIN Listed : Listed[i] \in ListingsRead
  BY <1>2
<1>4. p.rows = [i \in DOMAIN Listed |-> RowOf(Listed[i])]
  BY DEF ParsedEvidence
<1>5. p.rows \in Seq(Row)
  <2>1. \A i \in DOMAIN Listed : RowOf(Listed[i]) \in Row
    BY <1>3, RowOfEvidence
  <2>2. Len(Listed) \in Nat /\ DOMAIN Listed = 1 .. Len(Listed)
    BY <1>2
  <2>. QED
    BY <1>4, <2>1, <2>2
<1>6. p \in Page
  BY <1>5, CollectionAssumption DEF ParsedEvidence, Page
<1>7. UnitsArePaired(p)
  <2>. SUFFICES ASSUME NEW i \in DOMAIN p.rows, NEW k \in DOMAIN p.rows[i].candidates
                PROVE  p.rows[i].candidates[k].unitPrice = None /\ p.rows[i].candidates[k].unit = None
    BY DEF UnitsArePaired
  <2>. DEFINE l == Listed[i]
  <2>1. l \in ListingsRead /\ p.rows[i] = RowOf(l)
    BY <1>3, <1>4
  <2>. HIDE DEF l, p
  <2>2. Quote(l, k) \in ToList /\ RowOf(l).candidates[k] = CandidateOf(Quote(l, k))
    BY <2>1, RowOfEvidence, QuotesOfListing
  <2>. QED
    BY <2>1, <2>2, CandidateOfEvidence
<1>. QED
  BY <1>2, <1>3, <1>4, <1>6, <1>7 DEF ParsedPage
-----------------------------------------------------------------------------
(* Evidence.                                                               *)

\* What was published stays published.
LEMMA PublishedStays ==
  ASSUME past \subseteq past', day' = day
  PROVE  \A v, price : PublishedAs(v, price) => PublishedAs(v, price)'
BY DEF PublishedAs

LEMMA EvidenceStays ==
  ASSUME past \subseteq past', UNCHANGED <<site, day, evidence>>
  PROVE  /\ EvidenceInv => EvidenceInv'
         /\ tab' = tab => (HeardOfAll => HeardOfAll')
<1>1. EvidenceInv => EvidenceInv'
  BY PublishedStays DEF EvidenceInv
<1>2. tab' = tab => (HeardOfAll => HeardOfAll')
  BY DEF HeardOfAll, Skipped
<1>. QED
  BY <1>1, <1>2

\* One more price, which the site published, is evidence as well.
LEMMA OneMorePrice ==
  ASSUME EvidenceInv, UNCHANGED <<site, past, day>>,
         NEW v, NEW price, PublishedAs(v, price),
         DOMAIN evidence' = {"price", "advertised", "down"},
         evidence'.price = PricesWith(v, price),
         evidence'.down = evidence.down,
         site \notin {"oppo", "vivo"} => evidence'.advertised = evidence.advertised
  PROVE  /\ EvidenceInv'
         /\ DOMAIN evidence'.price = DOMAIN evidence.price \cup {v}
<1>1. DOMAIN evidence'.price = DOMAIN evidence.price \cup {v}
  BY DEF PricesWith
<1>2. IsFiniteSet(DOMAIN evidence'.price)
  BY <1>1, FS_AddElement DEF EvidenceInv
<1>3. \A w \in DOMAIN evidence'.price : PublishedAs(w, evidence'.price[w])
  BY <1>1 DEF EvidenceInv, PricesWith
<1>4. \A w, x : PublishedAs(w, x)' <=> PublishedAs(w, x)
  BY DEF PublishedAs
<1>5. \A w \in DOMAIN evidence'.price : PublishedAs(w, evidence.price[w])'
  BY <1>3, <1>4
<1>. QED
  BY <1>1, <1>2, <1>4, <1>5 DEF EvidenceInv

\* Whole evidence: what one state of the site said of everything.
LEMMA WholeEvidence ==
  ASSUME \A s \in past : s.offer \in Published, UNCHANGED <<site, past, day>>,
         NEW s \in past, day # None => s.day = day,
         evidence' = [NoEvidence EXCEPT !.price = s.offer, !.advertised = DOMAIN s.offer]
  PROVE  EvidenceInv' /\ HeardOfAll'
<1>1. evidence' = [price |-> s.offer, advertised |-> DOMAIN s.offer, down |-> {}]
  BY DEF NoEvidence
<1>2. \A v \in DOMAIN s.offer : PublishedAs(v, s.offer[v])
  BY DEF PublishedAs
<1>3. \A w, x : PublishedAs(w, x)' <=> PublishedAs(w, x)
  BY DEF PublishedAs
<1>4. \A v \in DOMAIN evidence'.price : PublishedAs(v, evidence.price[v])'
  BY <1>1, <1>2, <1>3
<1>5. IsFiniteSet(DOMAIN s.offer)
  BY CollectionAssumption
<1>6. /\ DOMAIN evidence' = {"price", "advertised", "down"}
      /\ evidence'.price = s.offer /\ evidence'.advertised = DOMAIN s.offer /\ evidence'.down = {}
  <2>1. DOMAIN evidence' = {"price", "advertised", "down"}
    BY ONLY <1>1
  <2>2. evidence'.price = s.offer /\ evidence'.advertised = DOMAIN s.offer /\ evidence'.down = {}
    BY ONLY <1>1
  <2>. QED
    BY <2>1, <2>2
<1>7. EvidenceInv'
  BY <1>4, <1>5, <1>6 DEF EvidenceInv
<1>8. HeardOfAll'
  BY <1>6 DEF HeardOfAll
<1>. QED
  BY <1>7, <1>8
-----------------------------------------------------------------------------
(* The steps of a collection, but for the walk.                            *)

LEMMA InitCollect == CollectInit => CollectInv
<1>. SUFFICES ASSUME CollectInit PROVE CollectInv
  OBVIOUS
<1>1. \A s \in past : s.offer \in Published
  BY DEF CollectInit
<1>2. EvidenceInv
  BY FS_EmptySet DEF CollectInit, EvidenceInv, NoEvidence
<1>3. PreparationInv
  BY DEF CollectInit, PreparationInv
<1>4. stage = "collecting" => CollectingInv
  BY DEF CollectInit, CollectingInv
<1>. QED
  BY <1>1, <1>2, <1>3, <1>4 DEF CollectInit, CollectInv

\* Nothing is said of what is prepared before it is.
LEMMA NotPrepared ==
  ASSUME stage' \notin {"prepared", "stored", "refused"}
  PROVE  PreparationInv'
BY DEF PreparationInv

LEMMA RaiseKeeps ==
  ASSUME CollectInv, stage' \in {"raised", "gone"}, UNCHANGED collectVars
  PROVE  CollectInv'
<1>1. EvidenceInv'
  BY EvidenceStays DEF CollectInv, collectVars
<1>. QED
  BY <1>1, NotPrepared DEF CollectInv, collectVars

LEMMA CollectsOn ==
  ASSUME stage' = "collecting", \A s \in past' : s.offer \in Published, EvidenceInv', CollectingInv'
  PROVE  CollectInv'
BY NotPrepared DEF CollectInv

LEMMA WalkStays ==
  ASSUME WalkInv, past \subseteq past', UNCHANGED <<site, day, evidence, tab>>
  PROVE  WalkInv'
<1>1. PublishedAs(tab.active, tab.shown)'
  BY PublishedStays DEF WalkInv
<1>2. \A v : StillToTry(v)' <=> StillToTry(v)
  BY DEF StillToTry, Agree
<1>. QED
  BY <1>1, <1>2 DEF WalkInv

LEMMA StepPublish == CollectInv /\ Publish => CollectInv'
<1>. SUFFICES ASSUME CollectInv, Publish PROVE CollectInv'
  OBVIOUS
<1>1. /\ past \subseteq past' /\ source' \in past' /\ stage' = "collecting" /\ stage = "collecting"
      /\ UNCHANGED <<site, at, day, evidence, tab>>
      /\ \A s \in past' : s.offer \in Published
  BY DEF Publish, CollectInv, vars
<1>2. EvidenceInv' /\ (HeardOfAll => HeardOfAll')
  BY <1>1, EvidenceStays DEF CollectInv
<1>3. at = "walk" => WalkInv'
  BY <1>1, WalkStays DEF CollectInv, CollectingInv
<1>4. CollectingInv'
  BY <1>1, <1>2, <1>3 DEF CollectInv, CollectingInv
<1>. QED
  BY <1>1, <1>2, <1>4, CollectsOn

\* What every step of a collection that goes on leaves alone.
LEMMA ReachesLeaves ==
  ASSUME CollectInv, stage = "collecting", NEW place, Reaches(place)
  PROVE  /\ stage' = "collecting" /\ at' = place /\ UNCHANGED <<site, source, past>>
         /\ CollectingInv /\ EvidenceInv
         /\ \A s \in past : s.offer \in Published
         /\ \A s \in past' : s.offer \in Published
BY DEF CollectInv, Reaches, vars

\* The steps that find out what to ask for.
LEMMA StepDiscovery ==
  CollectInv /\ (DiscoverProduct \/ ReadIndex \/ ReadArticle \/ DiscoverDay) => CollectInv'
<1>. SUFFICES ASSUME CollectInv, DiscoverProduct \/ ReadIndex \/ ReadArticle \/ DiscoverDay
              PROVE  CollectInv'
  OBVIOUS
<1>1. stage = "collecting" /\ at \in {"discover", "article"}
  BY DEF DiscoverProduct, ReadIndex, ReadArticle, DiscoverDay, At
<1>2. evidence = NoEvidence
  BY <1>1 DEF CollectInv, CollectingInv
<1>3. CASE Raise
  BY <1>3, RaiseKeeps DEF Raise
<1>4. ASSUME NEW place \in {"article", "fetch"}, Reaches(place), evidence' = evidence,
             site \in Devices => day' = day
      PROVE  CollectInv'
  <2>1. EvidenceInv'
    BY <1>2, <1>4, FS_EmptySet DEF EvidenceInv, NoEvidence
  <2>2. CollectingInv'
    BY <1>1, <1>2, <1>4, ReachesLeaves DEF CollectingInv
  <2>. QED
    BY <1>1, <1>4, <2>1, <2>2, ReachesLeaves, CollectsOn
<1>5. CASE DiscoverProduct
  BY <1>4, <1>5 DEF DiscoverProduct
<1>6. CASE ReadIndex
  BY <1>4, <1>6 DEF ReadIndex, At, Devices
<1>7. CASE ReadArticle
  BY <1>3, <1>4, <1>7 DEF ReadArticle
<1>8. CASE DiscoverDay
  BY <1>3, <1>4, <1>8 DEF DiscoverDay, At, Devices
<1>. QED
  BY <1>5, <1>6, <1>7, <1>8

\* The steps that read everything at once.
LEMMA StepWhole == CollectInv /\ (FetchTable \/ FetchPage) => CollectInv'
<1>. SUFFICES ASSUME CollectInv, FetchTable \/ FetchPage PROVE CollectInv'
  OBVIOUS
<1>1. stage = "collecting" /\ CollectingInv
  BY DEF FetchTable, FetchPage, At, CollectInv
<1>2. ASSUME NEW s \in past, day # None => s.day = day, Reaches("parse"), day' = day,
             evidence' = [NoEvidence EXCEPT !.price = s.offer, !.advertised = DOMAIN s.offer]
      PROVE  CollectInv'
  <2>1. EvidenceInv' /\ HeardOfAll'
    BY <1>1, <1>2, ReachesLeaves, WholeEvidence
  <2>2. CollectingInv'
    BY <1>1, <1>2, <2>1, ReachesLeaves DEF CollectingInv
  <2>. QED
    BY <1>1, <1>2, <2>1, <2>2, ReachesLeaves, CollectsOn
<1>3. CASE FetchTable
  <2>1. PICK s \in IF site = "shanghai" THEN past ELSE {source} :
          IF ~ SameDay(s) THEN Raise
          ELSE /\ evidence' = [NoEvidence EXCEPT !.price = s.offer, !.advertised = DOMAIN s.offer]
               /\ Reaches("parse")
               /\ UNCHANGED <<day, todo, tab>>
    BY <1>3 DEF FetchTable
  <2>2. s \in past
    BY <1>1 DEF CollectingInv
  <2>3. CASE Raise
    BY <2>3, RaiseKeeps DEF Raise
  <2>4. CASE ~ Raise
    BY <1>2, <2>1, <2>2, <2>4 DEF SameDay
  <2>. QED
    BY <2>3, <2>4
<1>4. CASE FetchPage
  <2>1. source \in past /\ day = None
    BY <1>1, <1>4 DEF CollectingInv, FetchPage, At, Devices
  <2>. QED
    BY <1>2, <1>4, <2>1 DEF FetchPage
<1>. QED
  BY <1>3, <1>4

\* The answers for one SKU.
LEMMA StepDetails == CollectInv /\ (FetchOppoSeed \/ FetchVivoInfo \/ FetchDetail) => CollectInv'
<1>. SUFFICES ASSUME CollectInv, FetchOppoSeed \/ FetchVivoInfo \/ FetchDetail PROVE CollectInv'
  OBVIOUS
<1>1. stage = "collecting" /\ CollectingInv /\ EvidenceInv /\ site \in {"oppo", "vivo"} /\ source \in past
  BY DEF FetchOppoSeed, FetchVivoInfo, FetchDetail, At, CollectInv, CollectingInv
<1>2. day = None
  BY <1>1 DEF CollectingInv, Devices
<1>3. ASSUME NEW v \in DOMAIN source.offer, NEW left, Advance(v, left),
             site = "oppo" \/ at = "details"
      PROVE  CollectInv'
  <2>1. PICK place \in {"parse", "details"} : Reaches(place)
    BY <1>3 DEF Advance
  <2>2. /\ DOMAIN evidence' = {"price", "advertised", "down"}
        /\ evidence'.price = PricesWith(v, source.offer[v])
        /\ evidence'.down = evidence.down
        /\ evidence'.advertised = IF site = "oppo" THEN evidence.advertised \cup DOMAIN source.offer
                                  ELSE evidence.advertised
    BY <1>1, <1>3 DEF Advance, AnsweredFor, EvidenceInv
  <2>3. PublishedAs(v, source.offer[v])
    BY <1>1, <1>2 DEF PublishedAs
  <2>4. EvidenceInv' /\ DOMAIN evidence'.price = DOMAIN evidence.price \cup {v}
    BY <1>1, <1>3, <2>1, <2>2, <2>3, ReachesLeaves, OneMorePrice DEF Advance
  <2>5. HeardOfAll'
    <3>1. CASE site = "oppo"
      BY <1>1, <2>1, <2>2, <3>1, ReachesLeaves DEF HeardOfAll
    <3>2. CASE at = "details"
      BY <1>1, <2>1, <2>2, <2>4, <3>2, ReachesLeaves DEF HeardOfAll, CollectingInv, Skipped, Walked
    <3>. QED
      BY <1>3, <3>1, <3>2
  <2>6. CollectingInv'
    BY <1>1, <1>3, <2>1, <2>5, ReachesLeaves DEF CollectingInv, Advance
  <2>. QED
    BY <1>1, <2>1, <2>4, <2>6, ReachesLeaves, CollectsOn
<1>4. CASE FetchOppoSeed
  BY <1>3, <1>4, RaiseKeeps DEF FetchOppoSeed, At, Raise
<1>5. CASE FetchDetail
  BY <1>3, <1>5, RaiseKeeps DEF FetchDetail, At, Raise
<1>6. CASE FetchVivoInfo
  <2>1. Reaches("details") /\ day' = day
    BY <1>6 DEF FetchVivoInfo
  <2>2. /\ DOMAIN evidence' = {"price", "advertised", "down"}
        /\ DOMAIN evidence'.price = {}
        /\ evidence'.advertised = DOMAIN source.offer
        /\ evidence'.down = {v \in DOMAIN source.offer : source.offer[v] = None}
    BY <1>6 DEF FetchVivoInfo, NoEvidence
  <2>3. \A v \in evidence'.down : PublishedAs(v, None)
    BY <1>1, <1>2, <2>2 DEF PublishedAs
  <2>4. \A v \in evidence'.down : PublishedAs(v, None)'
    BY <1>1, <2>1, <2>3, ReachesLeaves, PublishedStays
  <2>5. EvidenceInv'
    BY <1>1, <2>1, <2>2, <2>4, ReachesLeaves, FS_EmptySet DEF EvidenceInv
  <2>6. HeardOfAll'
    BY <1>1, <2>1, <2>2, ReachesLeaves DEF HeardOfAll
  <2>7. CollectingInv'
    BY <1>1, <2>1, <2>6, ReachesLeaves DEF CollectingInv
  <2>. QED
    BY <1>1, <2>1, <2>5, <2>7, ReachesLeaves, CollectsOn
<1>. QED
  BY <1>4, <1>5, <1>6
-----------------------------------------------------------------------------
(* The walk of the browser.                                                *)

LEMMA SeqElements ==
  ASSUME NEW S, NEW s \in Seq(S)
  PROVE  /\ Len(s) \in Nat /\ DOMAIN s = 1 .. Len(s)
         /\ \A k \in DOMAIN s : s[k] \in S
         /\ s # <<>> => Len(s) \in DOMAIN s
OBVIOUS

LEMMA WalkContext ==
  ASSUME CollectInv, stage = "collecting", site \in Walked, at = "walk"
  PROVE  /\ WalkInv /\ EvidenceInv /\ day = None /\ source \in past
         /\ tab.offer \in Published /\ DOMAIN tab.offer \subseteq Listing
         /\ \A s \in past : s.offer \in Published
BY CollectionAssumption DEF CollectInv, CollectingInv, WalkInv, Walked, Devices

\* The walk turns over its stack, its place and what it has seen.
LEMMA SameTab ==
  ASSUME tab \in Tab,
         NEW enter \in 0 .. Dims + 1, NEW seen \in SUBSET Listing, NEW skipped \in SUBSET Listing,
         NEW stack \in Seq([dim : 1 .. Dims, left : SUBSET Option]),
         tab' = [tab EXCEPT !.enter = enter, !.todoAt = stack, !.seen = seen, !.skipped = skipped]
  PROVE  /\ (tab \in Tab)'
         /\ tab'.offer = tab.offer /\ tab'.active = tab.active /\ tab'.shown = tab.shown
         /\ tab'.enter = enter /\ tab'.todoAt = stack /\ tab'.seen = seen /\ tab'.skipped = skipped
<1>1. tab' \in Tab
  BY DEF Tab
<1>2. (tab \in Tab)'
  BY <1>1 DEF Tab, Option, Amount
<1>. QED
  BY <1>2 DEF Tab

LEMMA WalksOn ==
  ASSUME CollectInv, stage = "collecting", Reaches("walk"), day' = day, EvidenceInv', WalkInv'
  PROVE  CollectInv'
<1>1. CollectingInv'
  BY ReachesLeaves DEF CollectingInv
<1>. QED
  BY <1>1, ReachesLeaves, CollectsOn

\* At the root nothing is chosen, and everything has still to be tried.
LEMMA StepOpenTab == CollectInv /\ OpenTab => CollectInv'
<1>. SUFFICES ASSUME CollectInv, OpenTab PROVE CollectInv'
  OBVIOUS
<1>1. /\ stage = "collecting" /\ site \in Walked /\ source \in past /\ source.offer \in Published
      /\ Reaches("walk") /\ UNCHANGED <<day, evidence>> /\ day = None
  BY DEF OpenTab, At, CollectInv, CollectingInv, Walked, Devices
<1>2. PICK v \in DOMAIN source.offer :
        tab' = [offer |-> source.offer, active |-> v, shown |-> source.offer[v],
                enter |-> 1, todoAt |-> <<>>, seen |-> {}, skipped |-> {}]
  BY DEF OpenTab
<1>3. EvidenceInv' /\ UNCHANGED <<site, source, past>>
  BY <1>1, ReachesLeaves, EvidenceStays
<1>4. WalkInv'
  <2>1. /\ tab'.offer = source.offer /\ tab'.active = v /\ tab'.shown = source.offer[v]
        /\ tab'.enter = 1 /\ tab'.todoAt = <<>> /\ tab'.seen = {} /\ tab'.skipped = {}
    BY <1>2
  <2>2. v \in Listing /\ source.offer[v] \in Amount \cup {Silent}
    BY <1>1, CollectionAssumption
  <2>3. (tab \in Tab)'
    <3>1. 1 \in 0 .. Dims + 1
      BY CollectionAssumption
    <3>2. tab' \in Tab
      BY <1>1, <1>2, <2>2, <3>1 DEF Tab
    <3>. QED
      BY <3>2 DEF Tab, Option, Amount
  <2>4. PublishedAs(tab.active, tab.shown)'
    BY <1>1, <1>3, <2>1 DEF PublishedAs
  <2>5. \A w : StillToTry(w)'
    BY <2>1 DEF StillToTry, Agree
  <2>. QED
    BY <1>1, <1>3, <2>1, <2>3, <2>4, <2>5 DEF WalkInv
<1>. QED
  BY <1>1, <1>3, <1>4, WalksOn

\* A snapshot covers the one variant with the chosen values.
LEMMA StepCapture == CollectInv /\ Capture => CollectInv'
<1>. SUFFICES ASSUME CollectInv, Capture PROVE CollectInv'
  OBVIOUS
<1>1. /\ stage = "collecting" /\ site \in Walked /\ at = "walk" /\ tab.enter = Dims + 1
      /\ Reaches("walk") /\ day' = day
      /\ tab' = [tab EXCEPT !.enter = 0, !.seen = @ \cup {tab.active}]
      /\ evidence' = IF tab.active \in tab.seen THEN evidence
                     ELSE [evidence EXCEPT !.price = PricesWith(tab.active, tab.shown)]
  BY DEF Capture, Walks, At, Proceeds
<1>2. WalkInv /\ EvidenceInv /\ DOMAIN tab.offer \subseteq Listing /\ UNCHANGED <<site, source, past>>
  BY <1>1, WalkContext, ReachesLeaves
<1>3. EvidenceInv' /\ DOMAIN evidence.price \cup {tab.active} \subseteq DOMAIN evidence'.price
  <2>1. CASE tab.active \in tab.seen
    BY <1>1, <1>2, <2>1, EvidenceStays DEF WalkInv
  <2>2. CASE tab.active \notin tab.seen
    <3>1. evidence' = [evidence EXCEPT !.price = PricesWith(tab.active, tab.shown)]
      BY <1>1, <2>2
    <3>2. /\ DOMAIN evidence' = {"price", "advertised", "down"}
          /\ evidence'.price = PricesWith(tab.active, tab.shown)
          /\ evidence'.down = evidence.down /\ evidence'.advertised = evidence.advertised
      BY <1>2, <3>1 DEF EvidenceInv
    <3>3. PublishedAs(tab.active, tab.shown)
      BY <1>2 DEF WalkInv
    <3>. QED
      BY <1>1, <1>2, <3>2, <3>3, OneMorePrice
  <2>. QED
    BY <2>1, <2>2
<1>4. WalkInv'
  <2>1. tab \in Tab
    BY <1>2 DEF WalkInv
  <2>2. /\ tab'.offer = tab.offer /\ tab'.active = tab.active /\ tab'.shown = tab.shown
        /\ tab'.enter = 0 /\ tab'.todoAt = tab.todoAt /\ tab'.seen = tab.seen \cup {tab.active}
        /\ tab'.skipped = tab.skipped
    BY <1>1, <2>1 DEF Tab
  <2>3. (tab \in Tab)'
    <3>1. tab.active \in Listing /\ tab.seen \cup {tab.active} \in SUBSET Listing
          /\ tab.skipped \in SUBSET Listing
      BY <2>1 DEF Tab
    <3>2. tab.todoAt \in Seq([dim : 1 .. Dims, left : SUBSET Option]) /\ 0 \in 0 .. Dims + 1
      BY <2>1, CollectionAssumption DEF Tab
    <3>3. tab' = [tab EXCEPT !.enter = 0, !.todoAt = tab.todoAt, !.seen = tab.seen \cup {tab.active},
                            !.skipped = tab.skipped]
      BY <1>1, <2>1 DEF Tab
    <3>. QED
      BY <2>1, <3>1, <3>2, <3>3, SameTab
  <2>4. PublishedAs(tab.active, tab.shown)'
    BY <1>1, <1>2, <2>2, PublishedStays DEF WalkInv
  <2>5. ASSUME NEW v \in DOMAIN tab.offer PROVE v \in tab'.seen \cup tab'.skipped \/ StillToTry(v)'
    <3>1. CASE v \in tab.seen \cup tab.skipped
      BY <2>2, <3>1
    <3>2. CASE Agree(v, tab.active, Dims)
      <4>1. v \in Listing /\ tab.active \in Listing
        BY <1>2, <2>1 DEF Tab
      <4>2. v = tab.active
        BY <3>2, <4>1, CollectionAssumption DEF Agree
      <4>. QED
        BY <2>2, <4>2
    <3>3. CASE \E k \in DOMAIN tab.todoAt :
                 LET d == tab.todoAt[k].dim
                 IN  Agree(v, tab.active, d - 1) /\ SpecOf[v][d] \in tab.todoAt[k].left
      BY <2>2, <3>3 DEF StillToTry, Agree
    <3>4. StillToTry(v) => Agree(v, tab.active, Dims) \/ \E k \in DOMAIN tab.todoAt :
                 LET d == tab.todoAt[k].dim
                 IN  Agree(v, tab.active, d - 1) /\ SpecOf[v][d] \in tab.todoAt[k].left
      <4>1. tab.enter - 1 = Dims
        BY <1>1, CollectionAssumption
      <4>. QED
        BY <4>1 DEF StillToTry
    <3>. QED
      BY <1>2, <3>1, <3>2, <3>3, <3>4 DEF WalkInv
  <2>. QED
    BY <1>2, <1>3, <2>2, <2>3, <2>4, <2>5 DEF WalkInv
<1>. QED
  BY <1>1, <1>3, <1>4, WalksOn
\* Steps that leave the variant shown, and what was gathered, alone.
LEMMA StaysInPlace ==
  ASSUME CollectInv, stage = "collecting", site \in Walked, at = "walk",
         Reaches("walk"), UNCHANGED <<day, evidence>>,
         NEW enter \in 0 .. Dims + 1,
         NEW stack \in Seq([dim : 1 .. Dims, left : SUBSET Option]),
         NEW skipped \in SUBSET Listing, tab.skipped \subseteq skipped,
         tab' = [tab EXCEPT !.enter = enter, !.todoAt = stack, !.skipped = skipped],
         \A j, k \in DOMAIN stack : j < k => stack[j].dim < stack[k].dim,
         enter # 0 => \A k \in DOMAIN stack : stack[k].dim < enter,
         \A v \in DOMAIN tab.offer : StillToTry(v) =>
            \/ v \in skipped
            \/ enter # 0 /\ Agree(v, tab.active, enter - 1)
            \/ \E k \in DOMAIN stack :
                 Agree(v, tab.active, stack[k].dim - 1) /\ SpecOf[v][stack[k].dim] \in stack[k].left
  PROVE  CollectInv'
<1>1. WalkInv /\ EvidenceInv /\ UNCHANGED <<site, source, past>>
  BY WalkContext, ReachesLeaves
<1>2. tab \in Tab /\ tab.seen \in SUBSET Listing
  BY <1>1 DEF WalkInv, Tab
<1>3. tab' = [tab EXCEPT !.enter = enter, !.todoAt = stack, !.seen = tab.seen, !.skipped = skipped]
  BY <1>2 DEF Tab
<1>4. /\ (tab \in Tab)'
      /\ tab'.offer = tab.offer /\ tab'.active = tab.active /\ tab'.shown = tab.shown
      /\ tab'.enter = enter /\ tab'.todoAt = stack /\ tab'.seen = tab.seen /\ tab'.skipped = skipped
  <2>1. tab' \in Tab
    BY <1>2, <1>3 DEF Tab
  <2>2. (tab \in Tab)'
    BY <2>1 DEF Tab, Option, Amount
  <2>. QED
    BY <1>2, <1>3, <2>2 DEF Tab
<1>5. PublishedAs(tab.active, tab.shown)'
  BY <1>1, <1>4, PublishedStays DEF WalkInv
<1>6. \A v \in DOMAIN tab.offer : StillToTry(v) => v \in skipped \/ StillToTry(v)'
  BY <1>4 DEF StillToTry, Agree
<1>7. WalkInv'
  BY <1>1, <1>4, <1>5, <1>6 DEF WalkInv
<1>8. EvidenceInv'
  BY <1>1, EvidenceStays
<1>. QED
  BY <1>7, <1>8, WalksOn

\* Entering a dimension loses no variant: those that agree with the values
\* chosen so far have one of its options, or none of them has any.
LEMMA StepEnter == CollectInv /\ EnterDimension => CollectInv'
<1>. SUFFICES ASSUME CollectInv, EnterDimension PROVE CollectInv'
  OBVIOUS
<1>. DEFINE d == tab.enter
            Frame == [dim : 1 .. Dims, left : SUBSET Option]
            frame == [dim |-> d, left |-> OptionValues(d)]
<1>1. stage = "collecting" /\ site \in Walked /\ at = "walk" /\ d \in 1 .. Dims
  BY DEF EnterDimension, Walks, At
<1>2. /\ WalkInv /\ EvidenceInv /\ DOMAIN tab.offer \subseteq Listing /\ tab.offer \in Published
  BY <1>1, WalkContext
<1>3. tab \in Tab /\ tab.todoAt \in Seq(Frame) /\ tab.active \in DOMAIN tab.offer
      /\ tab.skipped \in SUBSET Listing
  BY <1>2 DEF WalkInv, Tab
<1>4. Dims \in Nat /\ 0 \in 0 .. Dims + 1 /\ d + 1 \in 0 .. Dims + 1 /\ d # 0 /\ d \in Nat
  BY <1>1, CollectionAssumption
<1>5. /\ \A j, k \in DOMAIN tab.todoAt : j < k => tab.todoAt[j].dim < tab.todoAt[k].dim
      /\ \A k \in DOMAIN tab.todoAt : tab.todoAt[k].dim < d
  BY <1>2, <1>4 DEF WalkInv
<1>6. ASSUME NEW v \in DOMAIN tab.offer, NEW w \in DOMAIN tab.offer,
             Agree(v, tab.active, d - 1), Agree(w, tab.active, d - 1)
      PROVE  SpecOf[v][d] = None <=> SpecOf[w][d] = None
  <2>1. \A i \in 1 .. d - 1 : SpecOf[v][i] = SpecOf[w][i]
    BY <1>6 DEF Agree
  <2>2. (SpecOf[v][d] = None) = (SpecOf[w][d] = None)
    BY <1>1, <1>2, <2>1, CollectionAssumption
  <2>. QED
    BY <2>2
<1>7. CASE Raise
  BY <1>7, RaiseKeeps DEF Raise
<1>8. CASE /\ OptionValues(d) # {}
           /\ Proceeds([tab EXCEPT !.enter = 0, !.todoAt = Append(@, frame)])
           /\ UNCHANGED evidence
  <2>. DEFINE stack == Append(tab.todoAt, frame)
  <2>1. OptionValues(d) \subseteq Option
    BY <1>1, <1>2 DEF OptionValues, Option
  <2>2. frame \in Frame /\ frame.dim = d /\ frame.left = OptionValues(d)
    BY <1>1, <2>1
  <2>. HIDE DEF frame
  <2>3. /\ stack \in Seq(Frame) /\ Len(stack) = Len(tab.todoAt) + 1
        /\ stack[Len(stack)] = frame /\ Len(stack) \in DOMAIN stack
        /\ \A k \in DOMAIN tab.todoAt : k \in DOMAIN stack /\ stack[k] = tab.todoAt[k]
        /\ \A k \in DOMAIN stack : k \in DOMAIN tab.todoAt \/ k = Len(stack)
    BY <1>3, <2>2
  <2>4. tab' = [tab EXCEPT !.enter = 0, !.todoAt = stack, !.skipped = tab.skipped] /\ Reaches("walk") /\ UNCHANGED <<day, evidence>>
    BY <1>3, <1>8 DEF Proceeds, Tab
  <2>5. \A j, k \in DOMAIN stack : j < k => stack[j].dim < stack[k].dim
    <3>. SUFFICES ASSUME NEW j \in DOMAIN stack, NEW k \in DOMAIN stack, j < k
                  PROVE  stack[j].dim < stack[k].dim
      OBVIOUS
    <3>1. j # Len(stack)
      BY <2>3
    <3>2. j \in DOMAIN tab.todoAt
      BY <2>3, <3>1
    <3>. QED
      BY <1>5, <2>2, <2>3, <3>2
  <2>6. ASSUME NEW v \in DOMAIN tab.offer, StillToTry(v)
        PROVE  \E k \in DOMAIN stack :
                 Agree(v, tab.active, stack[k].dim - 1) /\ SpecOf[v][stack[k].dim] \in stack[k].left
    <3>1. CASE Agree(v, tab.active, d - 1)
      <4>1. PICK w \in DOMAIN tab.offer : Agree(w, tab.active, d - 1) /\ SpecOf[w][d] # None
        BY <1>8 DEF OptionValues
      <4>2. SpecOf[v][d] \in OptionValues(d)
        BY <1>6, <3>1, <4>1 DEF OptionValues
      <4>. QED
        BY <2>2, <2>3, <3>1, <4>2
    <3>2. CASE \E k \in DOMAIN tab.todoAt :
                 LET e == tab.todoAt[k].dim
                 IN  Agree(v, tab.active, e - 1) /\ SpecOf[v][e] \in tab.todoAt[k].left
      BY <2>3, <3>2
    <3>. QED
      BY <2>6, <3>1, <3>2 DEF StillToTry
  <2>. HIDE DEF stack
  <2>. QED
    BY <1>1, <1>3, <1>4, <2>3, <2>4, <2>5, <2>6, StaysInPlace
<1>9. CASE /\ OptionValues(d) = {} /\ (Optional(d) \/ d > 1)
           /\ Proceeds([tab EXCEPT !.enter = IF Optional(d) THEN d + 1 ELSE 0])
           /\ UNCHANGED evidence
  <2>1. Optional(d)
    BY <1>9 DEF Optional
  <2>2. tab' = [tab EXCEPT !.enter = d + 1, !.todoAt = tab.todoAt, !.skipped = tab.skipped]
        /\ Reaches("walk") /\ UNCHANGED <<day, evidence>>
    BY <1>3, <1>9, <2>1 DEF Proceeds, Tab
  <2>3. \A k \in DOMAIN tab.todoAt : tab.todoAt[k].dim < d + 1
    <3>1. \A k \in DOMAIN tab.todoAt : tab.todoAt[k] \in Frame
      BY <1>3, SeqElements
    <3>2. \A f \in Frame : f.dim \in Nat
      BY <1>4
    <3>3. \A k \in DOMAIN tab.todoAt : tab.todoAt[k].dim \in Nat
      BY <3>1, <3>2
    <3>. QED
      BY <1>4, <1>5, <3>3
  <2>4. ASSUME NEW v \in DOMAIN tab.offer, StillToTry(v)
        PROVE  \/ Agree(v, tab.active, d)
               \/ \E k \in DOMAIN tab.todoAt :
                    /\ Agree(v, tab.active, tab.todoAt[k].dim - 1)
                    /\ SpecOf[v][tab.todoAt[k].dim] \in tab.todoAt[k].left
    <3>1. CASE Agree(v, tab.active, d - 1)
      <4>1. SpecOf[v][d] = None
        BY <1>9, <3>1 DEF OptionValues
      <4>2. Agree(tab.active, tab.active, d - 1)
        BY DEF Agree
      <4>3. SpecOf[tab.active][d] = None
        BY <1>3, <1>9, <4>2 DEF OptionValues
      <4>4. \A i \in 1 .. d : i \in 1 .. d - 1 \/ i = d
        BY <1>4
      <4>. QED
        BY <3>1, <4>1, <4>3, <4>4 DEF Agree
    <3>2. CASE ~ Agree(v, tab.active, d - 1)
      BY <2>4, <3>2 DEF StillToTry
    <3>. QED
      BY <3>1, <3>2
  <2>5. (d + 1) - 1 = d /\ d + 1 # 0
    BY <1>4
  <2>6. \A v \in DOMAIN tab.offer : StillToTry(v) =>
            \/ d + 1 # 0 /\ Agree(v, tab.active, (d + 1) - 1)
            \/ \E k \in DOMAIN tab.todoAt :
                 /\ Agree(v, tab.active, tab.todoAt[k].dim - 1)
                 /\ SpecOf[v][tab.todoAt[k].dim] \in tab.todoAt[k].left
    BY <2>4, <2>5
  <2>. QED
    BY <1>1, <1>3, <1>4, <1>5, <2>2, <2>3, <2>6, StaysInPlace
<1>. QED
  BY <1>1, <1>7, <1>8, <1>9 DEF EnterDimension

LEMMA WithoutLast ==
  ASSUME NEW S, NEW s \in Seq(S), s # <<>>
  PROVE  LET n == Len(s)
             front == SubSeq(s, 1, n - 1)
         IN  /\ front \in Seq(S) /\ n \in Nat \ {0}
             /\ DOMAIN front = 1 .. n - 1 /\ DOMAIN s = 1 .. n
             /\ \A k \in DOMAIN front : front[k] = s[k]
<1>1. Len(s) \in Nat \ {0} /\ DOMAIN s = 1 .. Len(s)
  OBVIOUS
<1>2. SubSeq(s, 1, Len(s) - 1) \in Seq(S) /\ Len(SubSeq(s, 1, Len(s) - 1)) = Len(s) - 1
  BY <1>1
<1>3. DOMAIN SubSeq(s, 1, Len(s) - 1) = 1 .. Len(s) - 1
  BY <1>2
<1>4. \A k \in 1 .. Len(s) - 1 : SubSeq(s, 1, Len(s) - 1)[k] = s[k]
  BY <1>1
<1>. QED
  BY <1>1, <1>2, <1>3, <1>4

\* A dimension is left when all its options were tried.
LEMMA StepLeave == CollectInv /\ LeaveDimension => CollectInv'
<1>. SUFFICES ASSUME CollectInv, LeaveDimension PROVE CollectInv'
  OBVIOUS
<1>. DEFINE Frame == [dim : 1 .. Dims, left : SUBSET Option]
            n == Len(tab.todoAt)
            stack == SubSeq(tab.todoAt, 1, n - 1)
<1>1. /\ stage = "collecting" /\ site \in Walked /\ at = "walk" /\ tab.enter = 0 /\ tab.todoAt # <<>>
      /\ tab.todoAt[n].left = {} /\ Reaches("walk") /\ UNCHANGED <<day, evidence>>
      /\ tab' = [tab EXCEPT !.todoAt = stack]
  BY DEF LeaveDimension, InLoop, Walks, At, Proceeds
<1>2. WalkInv /\ EvidenceInv
  BY <1>1, WalkContext
<1>3. tab \in Tab /\ tab.todoAt \in Seq(Frame) /\ tab.skipped \in SUBSET Listing
  BY <1>2 DEF WalkInv, Tab
<1>4. /\ stack \in Seq(Frame) /\ n \in Nat \ {0} /\ DOMAIN stack = 1 .. n - 1 /\ DOMAIN tab.todoAt = 1 .. n
      /\ \A k \in DOMAIN stack : stack[k] = tab.todoAt[k]
  BY <1>1, <1>3, WithoutLast
<1>. HIDE DEF stack, n
<1>5. tab' = [tab EXCEPT !.enter = 0, !.todoAt = stack, !.skipped = tab.skipped] /\ 0 \in 0 .. Dims + 1
  BY <1>1, <1>3, CollectionAssumption DEF Tab
<1>6. \A j, k \in DOMAIN stack : j < k => stack[j].dim < stack[k].dim
  <2>1. DOMAIN stack \subseteq DOMAIN tab.todoAt
    BY <1>4
  <2>. QED
    BY <1>2, <1>4, <2>1 DEF WalkInv
<1>7. ASSUME NEW v \in DOMAIN tab.offer, StillToTry(v)
      PROVE  \E k \in DOMAIN stack :
               Agree(v, tab.active, stack[k].dim - 1) /\ SpecOf[v][stack[k].dim] \in stack[k].left
  <2>1. PICK k \in DOMAIN tab.todoAt :
          Agree(v, tab.active, tab.todoAt[k].dim - 1) /\ SpecOf[v][tab.todoAt[k].dim] \in tab.todoAt[k].left
    BY <1>1, <1>7 DEF StillToTry
  <2>2. k # n
    BY <1>1, <2>1
  <2>3. k \in DOMAIN stack
    BY <1>4, <2>1, <2>2
  <2>. QED
    BY <1>4, <2>1, <2>3
<1>. QED
  <2>1. \A v \in DOMAIN tab.offer : StillToTry(v) =>
            \/ v \in tab.skipped
            \/ 0 # 0 /\ Agree(v, tab.active, 0 - 1)
            \/ \E k \in DOMAIN stack :
                 Agree(v, tab.active, stack[k].dim - 1) /\ SpecOf[v][stack[k].dim] \in stack[k].left
    BY <1>7
  <2>2. /\ stage = "collecting" /\ site \in Walked /\ at = "walk" /\ Reaches("walk")
        /\ UNCHANGED <<day, evidence>> /\ tab.skipped \in SUBSET Listing
    BY <1>1, <1>3
  <2>3. /\ 0 \in 0 .. Dims + 1 /\ stack \in Seq([dim : 1 .. Dims, left : SUBSET Option])
        /\ tab' = [tab EXCEPT !.enter = 0, !.todoAt = stack, !.skipped = tab.skipped]
        /\ \A j, k \in DOMAIN stack : j < k => stack[j].dim < stack[k].dim
    BY <1>4, <1>5, <1>6
  <2>. QED
    BY <2>1, <2>2, <2>3, StaysInPlace
\* A click keeps the values chosen above its dimension, and the variants that
\* have the option clicked are tried next.
LEMMA StepClick == CollectInv /\ ClickOption => CollectInv'
<1>. SUFFICES ASSUME CollectInv, ClickOption PROVE CollectInv'
  OBVIOUS
<1>. DEFINE Frame == [dim : 1 .. Dims, left : SUBSET Option]
            n == Len(tab.todoAt)
            d == tab.todoAt[n].dim
<1>1. /\ stage = "collecting" /\ site \in Walked /\ at = "walk" /\ tab.enter = 0 /\ tab.todoAt # <<>>
      /\ UNCHANGED evidence
  BY DEF ClickOption, InLoop, Walks, At
<1>2. PICK x \in tab.todoAt[n].left :
      \E v \in Behind(d, x), o \in {tab.offer, source.offer} :
        /\ v \in DOMAIN o
        /\ Proceeds([tab EXCEPT !.todoAt[n].left = @ \ {x}, !.active = v, !.shown = o[v], !.enter = d + 1])
  BY DEF ClickOption
<1>3. PICK u \in DOMAIN tab.offer, o \in {tab.offer, source.offer} :
        /\ Agree(u, tab.active, d - 1) /\ SpecOf[u][d] = x /\ u \in DOMAIN o
        /\ Proceeds([tab EXCEPT !.todoAt[n].left = @ \ {x}, !.active = u, !.shown = o[u], !.enter = d + 1])
  BY <1>2 DEF Behind
<1>4. /\ WalkInv /\ EvidenceInv /\ day = None /\ source \in past
      /\ tab.offer \in Published /\ DOMAIN tab.offer \subseteq Listing
      /\ \A s \in past : s.offer \in Published
  BY <1>1, WalkContext
<1>5. tab \in Tab /\ tab.todoAt \in Seq(Frame)
  BY <1>4 DEF WalkInv, Tab
<1>6. n \in DOMAIN tab.todoAt /\ n \in Nat /\ tab.todoAt[n] \in Frame /\ DOMAIN tab.todoAt = 1 .. n
  BY <1>1, <1>5, SeqElements
<1>7. d \in 1 .. Dims /\ d \in Nat /\ d + 1 \in 0 .. Dims + 1 /\ d + 1 # 0 /\ (d + 1) - 1 = d
  BY <1>6, CollectionAssumption
<1>. DEFINE frame == [tab.todoAt[n] EXCEPT !.left = @ \ {x}]
            stack == [tab.todoAt EXCEPT ![n] = frame]
<1>8. frame \in Frame /\ frame.dim = d /\ frame.left = tab.todoAt[n].left \ {x}
  BY <1>6
<1>. HIDE DEF frame
<1>9. /\ stack \in Seq(Frame) /\ DOMAIN stack = 1 .. n /\ stack[n] = frame
      /\ \A k \in 1 .. n : k # n => stack[k] = tab.todoAt[k]
  BY <1>5, <1>6, <1>8
<1>10. \A k \in 1 .. n : stack[k].dim = tab.todoAt[k].dim
  BY <1>8, <1>9
<1>11. /\ tab' = [tab EXCEPT !.todoAt = stack, !.active = u, !.shown = o[u], !.enter = d + 1]
       /\ Reaches("walk") /\ day' = day
  BY <1>3, <1>5 DEF Proceeds, Tab, frame
<1>. HIDE DEF stack
<1>12. /\ u \in Listing /\ o[u] \in Amount \cup {Silent}
       /\ PublishedAs(u, o[u])
  <2>1. PICK s \in past : s.offer = o
    BY <1>3, <1>4 DEF WalkInv
  <2>2. PublishedAs(u, o[u])
    BY <1>3, <1>4, <2>1 DEF PublishedAs
  <2>. QED
    BY <1>4, <2>2, PublishedIsPrice
<1>13. tab' \in Tab
       /\ tab'.offer = tab.offer /\ tab'.active = u /\ tab'.shown = o[u]
       /\ tab'.enter = d + 1 /\ tab'.todoAt = stack /\ tab'.seen = tab.seen
       /\ tab'.skipped = tab.skipped
  BY <1>5, <1>7, <1>9, <1>11, <1>12 DEF Tab
<1>14. (tab \in Tab)'
  BY <1>13 DEF Tab, Option, Amount
<1>15. UNCHANGED <<site, source, past>>
  BY <1>1, <1>11, ReachesLeaves
<1>16. PublishedAs(tab.active, tab.shown)'
  BY <1>11, <1>12, <1>13, <1>15, PublishedStays
<1>17. \A k \in 1 .. n : stack[k].dim <= d /\ stack[k].dim \in 1 .. Dims
  <2>1. \A k \in 1 .. n : tab.todoAt[k].dim \in 1 .. Dims
    <3>1. \A k \in 1 .. n : tab.todoAt[k] \in Frame
      BY <1>5, <1>6, SeqElements
    <3>. QED
      BY <3>1
  <2>2. \A k \in 1 .. n : k # n => tab.todoAt[k].dim < d
    BY <1>4, <1>6 DEF WalkInv
  <2>. QED
    <3>1. \A k \in 1 .. n : stack[k].dim \in 1 .. Dims /\ (k # n => stack[k].dim < d)
      BY <1>10, <2>1, <2>2
    <3>2. stack[n].dim = d
      BY <1>8, <1>9
    <3>3. \A e \in 1 .. Dims : e < d => e <= d
      BY <1>7, CollectionAssumption
    <3>. QED
      BY <1>7, <3>1, <3>2, <3>3
<1>18. \A j, k \in DOMAIN stack : j < k => stack[j].dim < stack[k].dim
  BY <1>4, <1>6, <1>9, <1>10 DEF WalkInv
<1>19. \A k \in DOMAIN stack : stack[k].dim < d + 1
  BY <1>7, <1>9, <1>17, CollectionAssumption
<1>20. ASSUME NEW v \in DOMAIN tab.offer, StillToTry(v)
       PROVE  \/ Agree(v, u, d)
              \/ \E k \in DOMAIN stack :
                   Agree(v, u, stack[k].dim - 1) /\ SpecOf[v][stack[k].dim] \in stack[k].left
  <2>1. PICK k \in 1 .. n :
          Agree(v, tab.active, tab.todoAt[k].dim - 1) /\ SpecOf[v][tab.todoAt[k].dim] \in tab.todoAt[k].left
    BY <1>1, <1>6, <1>20 DEF StillToTry
  <2>2. Agree(v, u, stack[k].dim - 1)
    <3>1. stack[k].dim - 1 <= d - 1 /\ stack[k].dim - 1 \in Int /\ d - 1 \in Int
      BY <1>7, <1>17, CollectionAssumption
    <3>2. \A i \in 1 .. stack[k].dim - 1 : i \in 1 .. d - 1
      BY <3>1
    <3>. QED
      BY <1>3, <1>10, <2>1, <3>2 DEF Agree
  <2>3. CASE k # n
    BY <1>9, <2>1, <2>2, <2>3
  <2>4. CASE k = n /\ SpecOf[v][d] # x
    <3>1. stack[n].dim = d /\ SpecOf[v][d] \in stack[n].left
      BY <1>8, <1>9, <2>1, <2>4
    <3>. QED
      BY <1>6, <1>9, <2>2, <2>4, <3>1
  <2>5. CASE k = n /\ SpecOf[v][d] = x
    <3>1. Agree(v, u, d - 1)
      BY <1>10, <2>2, <2>5
    <3>2. \A i \in 1 .. d : i \in 1 .. d - 1 \/ i = d
      BY <1>7
    <3>. QED
      BY <1>3, <2>5, <3>1, <3>2 DEF Agree
  <2>. QED
    BY <2>3, <2>4, <2>5
<1>21. \A v \in DOMAIN tab.offer : StillToTry(v) => StillToTry(v)'
  <2>. SUFFICES ASSUME NEW v \in DOMAIN tab.offer, StillToTry(v) PROVE StillToTry(v)'
    OBVIOUS
  <2>1. CASE Agree(v, u, d)
    BY <1>7, <1>13, <2>1 DEF StillToTry, Agree
  <2>2. CASE \E k \in DOMAIN stack :
               Agree(v, u, stack[k].dim - 1) /\ SpecOf[v][stack[k].dim] \in stack[k].left
    BY <1>13, <2>2 DEF StillToTry, Agree
  <2>. QED
    BY <1>20, <2>1, <2>2
<1>22. WalkInv'
  BY <1>1, <1>4, <1>13, <1>14, <1>15, <1>16, <1>18, <1>19, <1>21, <1>3 DEF WalkInv
<1>23. EvidenceInv'
  BY <1>1, <1>4, <1>11, <1>15, EvidenceStays
<1>. QED
  BY <1>1, <1>11, <1>22, <1>23, WalksOn

\* What hangs on an option that is passed over is skipped; everything else is
\* where it was.
LEMMA StepSkip == CollectInv /\ SkipOption => CollectInv'
<1>. SUFFICES ASSUME CollectInv, SkipOption PROVE CollectInv'
  OBVIOUS
<1>. DEFINE Frame == [dim : 1 .. Dims, left : SUBSET Option]
            n == Len(tab.todoAt)
            d == tab.todoAt[n].dim
<1>1. /\ stage = "collecting" /\ site \in Walked /\ at = "walk" /\ tab.enter = 0 /\ tab.todoAt # <<>>
      /\ UNCHANGED evidence
  BY DEF SkipOption, InLoop, Walks, At
<1>2. PICK x \in tab.todoAt[n].left :
        Proceeds([tab EXCEPT !.todoAt[n].left = @ \ {x}, !.skipped = @ \cup Behind(d, x)])
  BY DEF SkipOption
<1>3. WalkInv /\ DOMAIN tab.offer \subseteq Listing
  BY <1>1, WalkContext
<1>4. tab \in Tab /\ tab.todoAt \in Seq(Frame) /\ tab.skipped \in SUBSET Listing
  BY <1>3 DEF WalkInv, Tab
<1>5. n \in DOMAIN tab.todoAt /\ n \in Nat /\ tab.todoAt[n] \in Frame /\ DOMAIN tab.todoAt = 1 .. n
  BY <1>1, <1>4, SeqElements
<1>. DEFINE frame == [tab.todoAt[n] EXCEPT !.left = @ \ {x}]
            stack == [tab.todoAt EXCEPT ![n] = frame]
            skipped == tab.skipped \cup Behind(d, x)
<1>6. frame \in Frame /\ frame.dim = d /\ frame.left = tab.todoAt[n].left \ {x}
  BY <1>5
<1>7. skipped \in SUBSET Listing /\ tab.skipped \subseteq skipped
  BY <1>3, <1>4 DEF Behind
<1>8. /\ tab' = [tab EXCEPT !.enter = 0, !.todoAt = stack, !.skipped = skipped]
      /\ Reaches("walk") /\ day' = day /\ 0 \in 0 .. Dims + 1
  BY <1>1, <1>2, <1>4, CollectionAssumption DEF Proceeds, Tab
<1>. HIDE DEF frame
<1>9. /\ stack \in Seq(Frame) /\ DOMAIN stack = 1 .. n /\ stack[n] = frame
      /\ \A k \in 1 .. n : k # n => stack[k] = tab.todoAt[k]
  BY <1>4, <1>5, <1>6
<1>10. \A k \in 1 .. n : stack[k].dim = tab.todoAt[k].dim
  BY <1>6, <1>9
<1>. HIDE DEF stack
<1>11. \A j, k \in DOMAIN stack : j < k => stack[j].dim < stack[k].dim
  BY <1>3, <1>5, <1>9, <1>10 DEF WalkInv
<1>12. ASSUME NEW v \in DOMAIN tab.offer, StillToTry(v)
       PROVE  \/ v \in skipped
              \/ \E k \in DOMAIN stack :
                   Agree(v, tab.active, stack[k].dim - 1) /\ SpecOf[v][stack[k].dim] \in stack[k].left
  <2>1. PICK k \in 1 .. n :
          Agree(v, tab.active, tab.todoAt[k].dim - 1) /\ SpecOf[v][tab.todoAt[k].dim] \in tab.todoAt[k].left
    BY <1>1, <1>5, <1>12 DEF StillToTry
  <2>2. CASE k # n
    BY <1>9, <2>1, <2>2
  <2>3. CASE k = n /\ SpecOf[v][d] # x
    <3>1. stack[n].dim = d /\ SpecOf[v][d] \in stack[n].left
      BY <1>6, <1>9, <2>1, <2>3
    <3>. QED
      BY <1>5, <1>9, <2>1, <2>3, <3>1
  <2>4. CASE k = n /\ SpecOf[v][d] = x
    BY <2>1, <2>4 DEF Behind
  <2>. QED
    BY <2>2, <2>3, <2>4
<1>. HIDE DEF skipped
<1>. QED
  BY <1>1, <1>7, <1>8, <1>9, <1>11, <1>12, StaysInPlace

\* The walk ends with nothing left to try: it has seen a whole page.
LEMMA StepEndWalk == CollectInv /\ EndWalk => CollectInv'
<1>. SUFFICES ASSUME CollectInv, EndWalk PROVE CollectInv'
  OBVIOUS
<1>1. /\ stage = "collecting" /\ site \in Walked /\ at = "walk" /\ tab.enter = 0 /\ tab.todoAt = <<>>
      /\ Reaches("parse") /\ UNCHANGED <<day, evidence, tab>>
  BY DEF EndWalk, Walks, At
<1>2. WalkInv /\ EvidenceInv
  BY <1>1, WalkContext
<1>3. DOMAIN tab.offer \subseteq DOMAIN evidence.price \cup tab.skipped
  BY <1>1, <1>2 DEF WalkInv, StillToTry
<1>4. HeardOfAll
  BY <1>1, <1>2, <1>3 DEF WalkInv, HeardOfAll, Skipped
<1>5. EvidenceInv' /\ HeardOfAll'
  BY <1>1, <1>2, <1>4, ReachesLeaves, EvidenceStays
<1>6. CollectingInv'
  BY <1>1, <1>5, ReachesLeaves DEF CollectingInv
<1>. QED
  BY <1>1, <1>5, <1>6, ReachesLeaves, CollectsOn
-----------------------------------------------------------------------------
(* From the evidence to the facts.                                         *)

LEMMA EvidenceUnchanged ==
  ASSUME UNCHANGED collectVars
  PROVE  /\ EvidenceInv => EvidenceInv'
         /\ HeardOfAll => HeardOfAll'
         /\ Parses => Parses'
         /\ ParsedEvidence' = ParsedEvidence
<1>1. UNCHANGED <<site, past, day, evidence, tab>>
  BY DEF collectVars
<1>2. (EvidenceInv => EvidenceInv') /\ (HeardOfAll => HeardOfAll')
  BY <1>1, EvidenceStays
<1>3. Parses => Parses'
  BY <1>1 DEF Parses, AppleParses, HuaweiParses, XiaomiParses, SkuPagesParse, OppoParses, VivoParses,
              ShanghaiParses, MofcomParses, Priced, Explained
<1>4. ParsedEvidence' = ParsedEvidence
  BY <1>1 DEF ParsedEvidence, Listed, ListingsRead, ListingOf, RowOf, DeviceRow, ShanghaiRow, MofcomRow,
              AverageRow, CandidatesOf, QuotesOf, MallCandidate, AverageCandidate, RegionQuoted, Priced
<1>. QED
  BY <1>2, <1>3, <1>4

LEMMA StepParse == CollectInv /\ Parse => CollectInv'
<1>. SUFFICES ASSUME CollectInv, Parse PROVE CollectInv'
  OBVIOUS
<1>1. CASE Raise
  BY <1>1, RaiseKeeps DEF Raise
<1>2. CASE ~ Raise
  <2>1. /\ stage = "collecting" /\ at = "parse" /\ Parses
        /\ stage' = "parsed" /\ page' = ParsedEvidence /\ UNCHANGED collectVars
    BY <1>2 DEF Parse
  <2>2. EvidenceInv' /\ HeardOfAll' /\ Parses' /\ page' = ParsedEvidence' /\ (site \in Kind)'
    BY <2>1, EvidenceUnchanged DEF CollectInv, CollectingInv, collectVars
  <2>3. \A s \in past' : s.offer \in Published
    BY <2>1 DEF CollectInv, collectVars
  <2>. QED
    BY <2>1, <2>2, <2>3, NotPrepared DEF CollectInv
<1>. QED
  BY <1>1, <1>2

\* What is handed to the policy is a parsed page, given or collected.
LEMMA PageIsParsed ==
  ASSUME CollectInv, stage \in {"parsed", "prepared", "stored", "refused"}
  PROVE  page \in ParsedPage
<1>1. CASE page \in Pages
  BY <1>1, PreparationAssumption
<1>2. CASE site \in Kind /\ Parses /\ page = ParsedEvidence
  BY <1>2, EvidenceIsPage DEF CollectInv
<1>. QED
  BY <1>1, <1>2 DEF CollectInv

LEMMA SamePreparation ==
  ASSUME UNCHANGED <<page, prepared>>
  PROVE  /\ Written' = Written /\ Storable' = Storable /\ Conflicts' = Conflicts
         /\ {FactAt(w) : w \in Written}' = {FactAt(w) : w \in Written}
<1>1. Written' = Written
  BY DEF Written, IdentityOf
<1>2. Storable' = Storable
  BY <1>1 DEF Storable
<1>3. Conflicts' = Conflicts
  BY <1>1 DEF Conflicts, Clash
<1>4. {FactAt(w) : w \in Written}' = {FactAt(w) : w \in Written}
  BY <1>1 DEF FactAt
<1>. QED
  BY <1>1, <1>2, <1>3, <1>4

\* The steps of RowPreparation: the page and where it comes from stay.
LEMMA StepPreparation ==
  CollectInv /\ (Prepare \/ Persist) /\ UNCHANGED collectVars => CollectInv'
<1>. SUFFICES ASSUME CollectInv, Prepare \/ Persist, UNCHANGED collectVars PROVE CollectInv'
  OBVIOUS
<1>1. /\ page' = page /\ stage \in {"parsed", "prepared"}
      /\ stage' \in {"raised", "prepared", "stored", "refused"}
  BY DEF Prepare, Persist
<1>2. /\ EvidenceInv' /\ \A s \in past' : s.offer \in Published
      /\ \/ (site = None /\ page \in Pages)'
         \/ (site \in Kind /\ HeardOfAll /\ Parses /\ page = ParsedEvidence)'
  BY <1>1, EvidenceUnchanged DEF CollectInv, collectVars
<1>3. PreparationInv'
  <2>1. CASE Prepare
    <3>1. CASE stage' = "raised"
      BY <3>1, NotPrepared
    <3>2. CASE stage' # "raised"
      BY <2>1, <3>2 DEF Prepare, PreparationInv
    <3>. QED
      BY <3>1, <3>2
  <2>2. CASE Persist
    <3>1. page' = page /\ prepared' = prepared /\ prepared = Prepared(page) /\ ~ Raises(page)
      BY <2>2 DEF Persist, CollectInv, PreparationInv
    <3>2. /\ Written' = Written /\ Storable' = Storable /\ Conflicts' = Conflicts
          /\ {FactAt(w) : w \in Written}' = {FactAt(w) : w \in Written}
      BY <3>1, SamePreparation
    <3>3. CASE Storable /\ ~ Conflicts
      <4>1. /\ stage' = "stored"
            /\ facts' = {FactAt(w) : w \in Written}
            /\ switched' = {page.rows[w[1]].listing : w \in {v \in Written : prepared[v].quality = "ACCEPTED"}}
        BY <2>2, <3>3 DEF Persist
      <4>. QED
        BY <3>1, <3>2, <4>1 DEF PreparationInv
    <3>4. CASE ~ (Storable /\ ~ Conflicts)
      <4>1. stage' = "refused"
        BY <2>2, <3>4 DEF Persist
      <4>. QED
        BY <3>1, <3>2, <3>4, <4>1 DEF PreparationInv
    <3>. QED
      BY <3>3, <3>4
  <2>. QED
    BY <2>1, <2>2
<1>. QED
  BY <1>1, <1>2, <1>3 DEF CollectInv

LEMMA StepStutter == CollectInv /\ UNCHANGED <<vars, collectVars>> => CollectInv'
<1>. SUFFICES ASSUME CollectInv, UNCHANGED <<vars, collectVars>> PROVE CollectInv'
  OBVIOUS
<1>1. UNCHANGED vars /\ UNCHANGED collectVars
  OBVIOUS
<1>2. PreparationInv'
  <2>1. UNCHANGED <<stage, page, prepared, facts, switched>>
    BY <1>1 DEF vars
  <2>2. /\ Written' = Written /\ Storable' = Storable /\ Conflicts' = Conflicts
        /\ {FactAt(w) : w \in Written}' = {FactAt(w) : w \in Written}
    BY <2>1, SamePreparation
  <2>3. Prepared(page)' = Prepared(page) /\ Raises(page)' = Raises(page)
    BY <2>1
  <2>. QED
    BY <2>1, <2>2, <2>3 DEF CollectInv, PreparationInv
<1>3. EvidenceInv' /\ (HeardOfAll => HeardOfAll') /\ (Parses => Parses') /\ ParsedEvidence' = ParsedEvidence
  BY <1>1, EvidenceUnchanged DEF CollectInv
<1>4. stage = "collecting" => CollectingInv'
  <2>1. stage = "collecting" /\ at = "walk" => WalkInv'
    BY <1>1, WalkStays DEF CollectInv, CollectingInv, collectVars
  <2>. QED
    BY <1>1, <1>3, <2>1 DEF CollectInv, CollectingInv, collectVars
<1>. QED
  BY <1>1, <1>2, <1>3, <1>4 DEF CollectInv, vars, collectVars

\* The inductive invariant of a unit, from its first request to its facts.
THEOREM CollectInvariant == CollectSpec => []CollectInv
<1>1. CollectInv /\ [CollectNext]_<<vars, collectVars>> => CollectInv'
  <2>. SUFFICES ASSUME CollectInv, [CollectNext]_<<vars, collectVars>> PROVE CollectInv'
    OBVIOUS
  <2>1. CASE Publish
    BY <2>1, StepPublish
  <2>2. CASE RequestFails \/ ProductGone \/ StopAtLimit
    BY <2>2, RaiseKeeps DEF RequestFails, ProductGone, StopAtLimit, Raise
  <2>3. CASE DiscoverProduct \/ ReadIndex \/ ReadArticle \/ DiscoverDay
    BY <2>3, StepDiscovery
  <2>4. CASE FetchTable \/ FetchPage
    BY <2>4, StepWhole
  <2>5. CASE FetchOppoSeed \/ FetchVivoInfo \/ FetchDetail
    BY <2>5, StepDetails
  <2>6. CASE OpenTab \/ Capture \/ EnterDimension \/ ClickOption \/ SkipOption \/ LeaveDimension \/ EndWalk
    BY <2>6, StepOpenTab, StepCapture, StepEnter, StepClick, StepSkip, StepLeave, StepEndWalk
  <2>7. CASE Parse
    BY <2>7, StepParse
  <2>8. CASE (Prepare \/ Persist) /\ UNCHANGED collectVars
    BY <2>8, StepPreparation
  <2>9. CASE UNCHANGED <<vars, collectVars>>
    BY <2>9, StepStutter
  <2>. QED
    BY <2>1, <2>2, <2>3, <2>4, <2>5, <2>6, <2>7, <2>8, <2>9 DEF CollectNext, Collect
<1>. QED
  BY <1>1, InitCollect, PTL DEF CollectSpec
-----------------------------------------------------------------------------
(* What the facts say of the site.                                         *)

LEMMA PreparedIsOfPage ==
  ASSUME CollectInv, stage \in {"prepared", "stored", "refused"}
  PROVE  page \in ParsedPage /\ prepared = Prepared(page) /\ DOMAIN prepared = PlacesOf(page)
BY PageIsParsed, PreparedDomain DEF CollectInv, PreparationInv

\* A price goes through the policy unchanged.
LEMMA PricesAreKept ==
  ASSUME NEW c \in Candidate, NEW row
  PROVE  UnitPriced(c, row).price = c.price
BY DEF UnitPriced, Candidate

\* The quote behind a place of a page that was collected.
QuoteAt(w) == Quote(page.rows[w[1]].listing, w[2])

LEMMA CollectedRow ==
  ASSUME CollectInv, site \in Kind, Parses, page = ParsedEvidence, NEW w \in PlacesOf(page)
  PROVE  /\ page.rows[w[1]].identity = "ACCEPTED" /\ page.rows[w[1]].quantity = 1
         /\ page.rows[w[1]].candidates[w[2]] \in Candidate
         /\ page.rows[w[1]].candidates[w[2]].unitPrice = None
         /\ QuoteAt(w) \in Listing
         /\ ListingOf(QuoteAt(w)) = page.rows[w[1]].listing
         /\ PublishedAs(QuoteAt(w), page.rows[w[1]].candidates[w[2]].price)
         /\ EvaluatedAt(page, w).region = RegionQuoted(QuoteAt(w))
<1>1. page \in ParsedPage /\ EvidenceInv /\ \A s \in past : s.offer \in Published
  BY EvidenceIsPage DEF CollectInv
<1>2. w[1] \in DOMAIN page.rows /\ w[2] \in DOMAIN page.rows[w[1]].candidates
  BY DEF PlacesOf, Places
<1>3. Listed[w[1]] \in ListingsRead /\ page.rows[w[1]] = RowOf(Listed[w[1]])
  BY <1>1, <1>2, EvidenceIsPage
<1>. DEFINE l == Listed[w[1]]
            k == w[2]
            v == Quote(l, k)
<1>4. /\ RowOf(l).listing = l /\ RowOf(l).identity = "ACCEPTED" /\ RowOf(l).quantity = 1
      /\ v \in QuotesOf(l) /\ RowOf(l).candidates[k] = CandidateOf(v)
  BY <1>1, <1>2, <1>3, RowOfEvidence
<1>5. v \in ToList /\ ListingOf(v) = l
  BY <1>1, <1>3, <1>4, QuotesOfListing
<1>6. /\ CandidateOf(v) \in Candidate /\ CandidateOf(v).unitPrice = None
      /\ PublishedAs(v, CandidateOf(v).price) /\ v \in Listing
      /\ RegionOf(CandidateOf(v), page) = RegionQuoted(v)
  BY <1>1, <1>5, CandidateOfEvidence
<1>7. v = QuoteAt(w)
  BY <1>3, <1>4 DEF QuoteAt
<1>8. EvaluatedAt(page, w).region = RegionOf(page.rows[w[1]].candidates[k], page)
  BY DEF EvaluatedAt, Evaluate
<1>. HIDE DEF l, k, v
<1>. QED
  BY <1>3, <1>4, <1>5, <1>6, <1>7, <1>8 DEF l, k

\* No row that was collected speaks of a region twice.
LEMMA CollectedApart ==
  ASSUME CollectInv, site \in Kind, Parses, page = ParsedEvidence,
         NEW v \in PlacesOf(page), NEW w \in PlacesOf(page), v[1] = w[1],
         EvaluatedAt(page, v).region = EvaluatedAt(page, w).region
  PROVE  v = w
<1>1. EvidenceInv /\ \A s \in past : s.offer \in Published
  BY DEF CollectInv
<1>2. /\ v = <<v[1], v[2]>> /\ w = <<w[1], w[2]>> /\ w[1] \in DOMAIN page.rows
      /\ v[2] \in DOMAIN page.rows[w[1]].candidates /\ w[2] \in DOMAIN page.rows[w[1]].candidates
  BY DEF PlacesOf, Places
<1>3. Listed[w[1]] \in ListingsRead /\ page.rows[w[1]] = RowOf(Listed[w[1]])
  BY <1>1, <1>2, EvidenceIsPage
<1>. DEFINE l == Listed[w[1]]
<1>4. RowOf(l).listing = l /\ Quote(l, v[2]) \in QuotesOf(l) /\ Quote(l, w[2]) \in QuotesOf(l)
      /\ (Quote(l, v[2]) = Quote(l, w[2]) => v[2] = w[2])
  BY <1>1, <1>2, <1>3, RowOfEvidence
<1>5. QuoteAt(v) = Quote(l, v[2]) /\ QuoteAt(w) = Quote(l, w[2])
  BY <1>3, <1>4 DEF QuoteAt
<1>6. RegionQuoted(QuoteAt(v)) = RegionQuoted(QuoteAt(w))
  BY CollectedRow
<1>7. QuoteAt(v) = QuoteAt(w)
  BY <1>1, <1>3, <1>4, <1>5, <1>6, QuotesApart
<1>. QED
  BY <1>2, <1>4, <1>5, <1>7

\* What a stored unit consists of.
LEMMA StoredFacts ==
  ASSUME CollectInv, stage = "stored"
  PROVE  /\ facts = {FactAt(w) : w \in Written} /\ Written \subseteq PlacesOf(page)
         /\ page \in ParsedPage /\ prepared = Prepared(page) /\ DOMAIN prepared = PlacesOf(page)
         /\ \A w \in PlacesOf(page) :
              /\ FactAt(w).listing = page.rows[w[1]].listing
              /\ FactAt(w).is = prepared[w]
              /\ FactAt(w).is.region = EvaluatedAt(page, w).region
<1>1. page \in ParsedPage /\ prepared = Prepared(page) /\ DOMAIN prepared = PlacesOf(page)
  BY PreparedIsOfPage
<1>2. \A w \in PlacesOf(page) : prepared[w].region = EvaluatedAt(page, w).region
  BY <1>1, PreparedPlace
<1>. QED
  BY <1>1, <1>2 DEF CollectInv, PreparationInv, FactAt, Written

\* What is stored was published during the collection (no connector mixes the
\* price of one SKU or region into another's or one day's into another day),
\* however often the site changed between two requests.
THEOREM FactsWerePublishedTheorem == CollectSpec => []FactsWerePublished
<1>1. CollectInv => FactsWerePublished
  <2>. SUFFICES ASSUME CollectInv, stage = "stored", site # None, NEW f \in facts
                PROVE  \E v \in Listing : SpeaksOf(f, v) /\ PublishedAs(v, f.is.cand.price)
    BY DEF FactsWerePublished, Collected
  <2>1. site \in Kind /\ Parses /\ page = ParsedEvidence
    BY DEF CollectInv
  <2>2. PICK w \in PlacesOf(page) : f = FactAt(w)
    BY StoredFacts
  <2>. DEFINE row == page.rows[w[1]]
              c == row.candidates[w[2]]
  <2>3. /\ c \in Candidate /\ PublishedAs(QuoteAt(w), c.price)
        /\ QuoteAt(w) \in Listing /\ ListingOf(QuoteAt(w)) = row.listing
        /\ EvaluatedAt(page, w).region = RegionQuoted(QuoteAt(w))
    BY <2>1, CollectedRow
  <2>4. f.listing = row.listing /\ f.is = prepared[w] /\ f.is.region = EvaluatedAt(page, w).region
    BY <2>2, StoredFacts
  <2>5. f.is.cand = [UnitPriced(c, row) EXCEPT !.region = RegionOf(c, page)]
    <3>1. prepared[w].cand = EvaluatedAt(page, w).cand
      BY StoredFacts, PreparedPlace
    <3>. QED
      BY <2>4, <3>1 DEF EvaluatedAt, Evaluate
  <2>. HIDE DEF c, row
  <2>6. f.is.cand.price = c.price
    BY <2>3, <2>5, PricesAreKept
  <2>. QED
    BY <2>3, <2>4, <2>6 DEF SpeaksOf
<1>. QED
  BY <1>1, CollectInvariant, PTL

\* A unit that is stored speaks of everything that the site published all along:
\* the SKUs of a changing answer (discover_products, fetch_product), the columns of
\* a table, the variants of a page (_walk_dimensions, max_snapshots) but for those
\* behind an option that was gone or disabled when the walk came to it.
THEOREM OnlyWithheldTheorem == CollectSpec => []OnlyWithheldIsMissed
<1>1. CollectInv => OnlyWithheldIsMissed
  <2>. SUFFICES ASSUME CollectInv, stage = "stored", site # None,
                       NEW v \in IF site = "shanghai" THEN Mapped ELSE Listing,
                       \A s \in past : v \in DOMAIN s.offer, v \notin Skipped
                PROVE  \E f \in facts : SpeaksOf(f, v)
    BY DEF OnlyWithheldIsMissed, Collected
  <2>1. /\ site \in Kind /\ HeardOfAll /\ Parses /\ page = ParsedEvidence
        /\ EvidenceInv /\ \A s \in past : s.offer \in Published
    BY DEF CollectInv
  <2>2. v \in DOMAIN evidence.price /\ ListingOf(v) \in ListingsRead
    <3>1. v \in DOMAIN evidence.price
      BY <2>1, ParsesDemands DEF HeardOfAll
    <3>. QED
      BY <3>1 DEF ListingsRead, ListingOf
  <2>. DEFINE l == ListingOf(v)
  <2>3. v \in QuotesOf(l)
    BY <2>2 DEF QuotesOf
  <2>4. PICK i \in DOMAIN Listed : Listed[i] = l
    BY <2>1, <2>2, EvidenceIsPage
  <2>5. i \in DOMAIN page.rows /\ page.rows[i] = RowOf(l)
    BY <2>1, <2>4, EvidenceIsPage
  <2>. HIDE DEF l
  <2>6. PICK k \in DOMAIN RowOf(l).candidates : Quote(l, k) = v
    BY <2>1, <2>2, <2>3, RowOfEvidence DEF l
  <2>7. RowOf(l).listing = l
    BY <2>1, <2>2, RowOfEvidence DEF l
  <2>. DEFINE w == <<i, k>>
  <2>8. w \in PlacesOf(page)
    BY <2>5, <2>6 DEF PlacesOf, Places
  <2>9. QuoteAt(w) = v
    BY <2>5, <2>6, <2>7 DEF QuoteAt
  <2>10. page.rows[w[1]].identity = "ACCEPTED" /\ EvaluatedAt(page, w).region = RegionQuoted(v)
    BY <2>1, <2>8, <2>9, CollectedRow
  <2>11. w \in Written
    BY <2>8, <2>10, StoredFacts DEF Written, IdentityOf
  <2>12. FactAt(w) \in facts /\ FactAt(w).listing = l /\ FactAt(w).is.region = RegionQuoted(v)
    BY <2>5, <2>7, <2>8, <2>10, <2>11, StoredFacts
  <2>. QED
    BY <2>12 DEF SpeaksOf, l
<1>. QED
  BY <1>1, CollectInvariant, PTL

-----------------------------------------------------------------------------
(* What the policy makes of a page, given or collected.                    *)

\* The sources are asked for one piece of everything, so none of their unit
\* prices rounds to zero.
LEMMA CollectedNeverRounds ==
  ASSUME CollectInv, site \in Kind, Parses, page = ParsedEvidence
  PROVE  ~ RoundsToZero(page)
<1>. SUFFICES ASSUME NEW w \in PlacesOf(page)
              PROVE  Expected(page.rows[w[1]].candidates[w[2]], page.rows[w[1]]) # 0
  BY DEF RoundsToZero
<1>. DEFINE row == page.rows[w[1]]
            c == row.candidates[w[2]]
<1>1. row.quantity = 1 /\ c \in Candidate
  BY CollectedRow
<1>. HIDE DEF c, row
<1>. SUFFICES Expected(c, row) # 0
  BY DEF c, row
<1>2. CASE c.price = None \/ c.basis \notin ExactBasis \/ row.quantity = None
  BY <1>2, PreparationAssumption DEF Expected
<1>3. CASE c.price # None /\ c.basis \in ExactBasis /\ row.quantity # None
  <2>1. c.price \in Nat \ {0} /\ Scale \in Nat \ {0}
    BY <1>1, <1>3, PreparationAssumption DEF Candidate, Amount
  <2>2. c.price * Scale \in Nat \ {0}
    BY <2>1
  <2>3. \A n \in Nat \ {0} : HalfUp(n, 1) # 0
    BY DEF HalfUp
  <2>4. Expected(c, row) = HalfUp(c.price * Scale, 1)
    BY <1>1, <1>3 DEF Expected
  <2>. QED
    BY <2>2, <2>3, <2>4
<1>. QED
  BY <1>2, <1>3

\* The validators of CatalogPriceObservation and the CHECK constraints of
\* v2_price_observation agree on every candidate of every page.
THEOREM ValidatorsAgreeTheorem == CollectSpec => []ValidatorsAgreeWithConstraints
<1>1. CollectInv => ValidatorsAgreeWithConstraints
  <2>. SUFFICES ASSUME CollectInv, stage = "prepared", NEW w \in DOMAIN prepared
                PROVE  LET e == prepared[w]
                           a == [e EXCEPT !.quality = "ACCEPTED", !.code = None]
                       IN  Valid(e) = Checked(e) /\ Valid(a) = Checked(a)
    BY DEF ValidatorsAgreeWithConstraints
  <2>. DEFINE e == prepared[w]
              a == [e EXCEPT !.quality = "ACCEPTED", !.code = None]
  <2>1. page \in ParsedPage /\ prepared = Prepared(page) /\ w \in PlacesOf(page)
    BY PreparedIsOfPage
  <2>2. e.nature \in Nature /\ a.nature \in Nature
    <3>1. e.nature \in Nature /\ e = [cand |-> e.cand, region |-> e.region, nature |-> e.nature,
                                     quality |-> e.quality, code |-> e.code]
      BY <2>1, PreparedPlace
    <3>. HIDE DEF e
    <3>2. a.nature = e.nature
      BY <3>1
    <3>. QED
      BY <3>1, <3>2
  <2>. HIDE DEF e, a
  <2>3. (Valid(e) <=> Checked(e)) /\ (Valid(a) <=> Checked(a))
    BY <2>2, SameRule
  <2>4. /\ Valid(e) \in BOOLEAN /\ Checked(e) \in BOOLEAN
        /\ Valid(a) \in BOOLEAN /\ Checked(a) \in BOOLEAN
    BY DEF Valid, Checked
  <2>. QED
    BY <2>3, <2>4 DEF e, a
<1>. QED
  BY <1>1, CollectInvariant, PTL

\* Only two things make the unit be refused after preparation: a device quoted
\* twice in a region (assert_same_time_consistent), and a unit price of zero (the
\* validators).  Nothing that a connector collects does.
THEOREM RefusedForCauseTheorem == CollectSpec => []RefusedForCause
<1>1. CollectInv => RefusedForCause
  <2>. SUFFICES ASSUME CollectInv, stage = "refused"
                PROVE  site = None /\ (QuotesTwice(page) \/ RoundsToZero(page))
    BY DEF RefusedForCause
  <2>1. page \in ParsedPage /\ prepared = Prepared(page) /\ DOMAIN prepared = PlacesOf(page)
    BY PreparedIsOfPage
  <2>2. ~ Storable \/ Conflicts
    BY DEF CollectInv, PreparationInv
  <2>3. CASE ~ Storable
    <3>. SUFFICES ASSUME ~ RoundsToZero(page) PROVE FALSE
      <4>1. site \in Kind /\ Parses /\ page = ParsedEvidence => ~ RoundsToZero(page)
        BY CollectedNeverRounds
      <4>. QED
        BY <4>1 DEF CollectInv
    <3>1. PICK w \in Written : ~ (Valid(prepared[w]) /\ Checked(prepared[w]))
      BY <2>3 DEF Storable
    <3>2. w \in PlacesOf(page)
      BY <2>1 DEF Written
    <3>3. Expected(page.rows[w[1]].candidates[w[2]], page.rows[w[1]]) # 0
      BY <3>2 DEF RoundsToZero
    <3>4. Valid(EvaluatedAt(page, w))
      BY <2>1, <3>2, <3>3, PlacesHoldCandidates, AcceptedIsValid DEF EvaluatedAt
    <3>5. Valid(prepared[w]) /\ prepared[w].nature \in Nature
      BY <2>1, <3>2, <3>4, PreparedPlace
    <3>. QED
      BY <3>1, <3>5, SameRule
  <2>4. CASE Conflicts
    <3>1. PICK v \in Written, w \in Written : page.kind = "product" /\ Clash(v, w)
      BY <2>4 DEF Conflicts
    <3>2. v \in PlacesOf(page) /\ w \in PlacesOf(page)
      BY <2>1 DEF Written
    <3>3. prepared[v] = EvaluatedAt(page, v) /\ prepared[w] = EvaluatedAt(page, w)
      BY <2>1, <3>1, <3>2, PreparedPlace DEF Clash
    <3>4. QuotesTwice(page)
      BY <3>1, <3>2, <3>3 DEF QuotesTwice, Clash
    <3>5. ~ (site \in Kind /\ Parses /\ page = ParsedEvidence)
      BY <3>1, <3>2, <3>3, CollectedApart DEF Clash
    <3>. QED
      BY <3>4, <3>5 DEF CollectInv
  <2>. QED
    BY <2>2, <2>3, <2>4
<1>. QED
  BY <1>1, CollectInvariant, PTL

\* One unproven specification withholds every price of a product
\* (prepare_catalog_product): no trusted fact is stored, no revision switched.
THEOREM ProductTheorem == CollectSpec => []ProductIsAllOrNothing
<1>1. CollectInv => ProductIsAllOrNothing
  <2>. SUFFICES ASSUME CollectInv, stage = "stored", page.kind = "product",
                       NEW i \in DOMAIN page.rows, page.rows[i].identity # "ACCEPTED"
                PROVE  switched = {} /\ \A f \in facts : f.is.quality # "ACCEPTED"
    BY DEF ProductIsAllOrNothing
  <2>1. switched = {page.rows[w[1]].listing : w \in {v \in Written : prepared[v].quality = "ACCEPTED"}}
    BY DEF CollectInv, PreparationInv
  <2>2. ASSUME NEW w \in Written PROVE prepared[w].quality # "ACCEPTED"
    <3>1. w \in PlacesOf(page) /\ Withheld(page, w)
      BY StoredFacts DEF Withheld
    <3>. QED
      BY <3>1, StoredFacts, PreparedPlace
  <2>3. \A f \in facts : f.is.quality # "ACCEPTED"
    BY <2>2, StoredFacts
  <2>. QED
    BY <2>1, <2>2, <2>3
<1>. QED
  BY <1>1, CollectInvariant, PTL

\* Two places whose trusted candidates are one fact are one place, unless a row
\* repeats itself.
LEMMA CountedApart ==
  ASSUME CollectInv, stage = "stored", ~ RepeatsItself(page),
         NEW v \in PlacesOf(page), NEW w \in PlacesOf(page), Counted(v), Counted(w),
         FactAt(v) = FactAt(w)
  PROVE  v = w
<1>1. page \in ParsedPage /\ prepared = Prepared(page) /\ ~ RowsRaise(page)
  BY PreparedIsOfPage DEF CollectInv, PreparationInv, Raises
<1>2. page.rows[v[1]].listing = page.rows[w[1]].listing /\ prepared[v] = prepared[w]
  BY StoredFacts
<1>3. v[1] = w[1]
  <2>1. v[1] \in DOMAIN page.rows /\ w[1] \in DOMAIN page.rows
    BY <1>1, PlacesHoldCandidates
  <2>. QED
    BY <1>1, <1>2, <2>1 DEF RowsRaise
<1>4. EvaluatedAt(page, v) = EvaluatedAt(page, w)
  BY <1>1, <1>2, PreparedPlace DEF Counted
<1>. QED
  BY <1>3, <1>4 DEF RepeatsItself

\* The counts and the status a unit reports (quality_counts, complete) are those
\* of the facts it stored, but that a candidate a row repeats is counted again; a
\* unit succeeds only if every place it evaluated has a trusted fact of its
\* listing and region.
THEOREM VerdictTheorem == CollectSpec => []VerdictMatchesFacts
<1>1. CollectInv => VerdictMatchesFacts
  <2>. SUFFICES ASSUME CollectInv, stage = "stored"
                PROVE  LET Trusted == {f \in facts : f.is.quality = "ACCEPTED"} IN
                       /\ acceptedCount >= Cardinality(Trusted)
                       /\ site # None \/ ~ RepeatsItself(page) => acceptedCount = Cardinality(Trusted)
                       /\ status = "FAILED" <=> Trusted = {}
                       /\ status = "SUCCEEDED" =>
                            \A w \in PlacesOf(page) :
                              \E f \in Trusted : f.listing = page.rows[w[1]].listing
                                                 /\ f.is.region = EvaluatedAt(page, w).region
    BY DEF VerdictMatchesFacts
  <2>. DEFINE Trusted == {f \in facts : f.is.quality = "ACCEPTED"}
              Counts == {w \in DOMAIN prepared : Counted(w)}
              g == [w \in Counts |-> FactAt(w)]
  <2>1. /\ facts = {FactAt(w) : w \in Written} /\ page \in ParsedPage
        /\ prepared = Prepared(page) /\ DOMAIN prepared = PlacesOf(page)
        /\ \A w \in PlacesOf(page) : /\ FactAt(w).listing = page.rows[w[1]].listing
                                     /\ FactAt(w).is = prepared[w]
                                     /\ FactAt(w).is.region = EvaluatedAt(page, w).region
    BY StoredFacts
  <2>2. Counts \subseteq PlacesOf(page) /\ IsFiniteSet(Counts) /\ acceptedCount = Cardinality(Counts)
    <3>1. Counts \subseteq PlacesOf(page)
      BY <2>1
    <3>. QED
      BY <2>1, <3>1, PlacesFinite, FS_Subset DEF acceptedCount
  <2>3. \A w \in Counts : w \in Written /\ FactAt(w) \in Trusted
    BY <2>1 DEF Counted, Written
  <2>4. \A f \in Trusted : \E w \in Counts : FactAt(w) = f
    BY <2>1 DEF Counted, Written
  <2>5. g \in Surjection(Counts, Trusted)
    BY <2>3, <2>4 DEF Surjection
  <2>6. /\ IsFiniteSet(Trusted) /\ Cardinality(Trusted) <= Cardinality(Counts)
        /\ (Cardinality(Trusted) = Cardinality(Counts) <=> g \in Injection(Counts, Trusted))
    BY <2>2, <2>5, FS_Surjection
  <2>7. Cardinality(Trusted) \in Nat /\ Cardinality(Counts) \in Nat
    BY <2>2, <2>6, FS_CardinalityType
  <2>8. acceptedCount >= Cardinality(Trusted)
    BY <2>2, <2>6, <2>7
  <2>9. ASSUME site # None \/ ~ RepeatsItself(page) PROVE acceptedCount = Cardinality(Trusted)
    <3>1. ~ RepeatsItself(page)
      <4>1. site \in Kind /\ Parses /\ page = ParsedEvidence => ~ RepeatsItself(page)
        BY CollectedApart DEF RepeatsItself
      <4>. QED
        BY <2>9, <4>1 DEF CollectInv
    <3>2. IsInjective(g)
      <4>. SUFFICES ASSUME NEW v \in Counts, NEW w \in Counts, FactAt(v) = FactAt(w) PROVE v = w
        BY DEF IsInjective
      <4>. QED
        BY <2>2, <3>1, CountedApart
    <3>3. g \in Injection(Counts, Trusted)
      BY <2>5, <3>2 DEF Injection, Surjection
    <3>. QED
      BY <2>2, <2>6, <3>3
  <2>10. acceptedCount = 0 <=> Trusted = {}
    <3>1. acceptedCount = 0 <=> Counts = {}
      BY <2>2, FS_EmptySet
    <3>2. Counts = {} <=> Trusted = {}
      BY <2>3, <2>4
    <3>. QED
      BY <3>1, <3>2
  <2>11. status = "FAILED" <=> Trusted = {}
    BY <2>10 DEF status
  <2>12. ASSUME status = "SUCCEEDED", NEW w \in PlacesOf(page)
         PROVE  \E f \in Trusted : f.listing = page.rows[w[1]].listing
                                   /\ f.is.region = EvaluatedAt(page, w).region
    <3>1. complete
      BY <2>12 DEF status
    <3>2. w[1] \in DOMAIN page.rows
      BY <2>1, PlacesHoldCandidates
    <3>3. page.rows[w[1]].identity = "ACCEPTED" /\ QuotesEveryRegion(w[1])
      BY <3>1, <3>2 DEF complete
    <3>4. PICK v \in DOMAIN prepared :
            v[1] = w[1] /\ prepared[v].region = prepared[w].region /\ prepared[v].quality = "ACCEPTED"
      BY <2>1, <3>3 DEF QuotesEveryRegion
    <3>5. v \in Counts
      BY <3>3, <3>4 DEF Counted, IdentityOf
    <3>6. FactAt(v) \in Trusted /\ FactAt(v).listing = page.rows[w[1]].listing
      BY <2>1, <2>3, <3>4, <3>5
    <3>7. FactAt(v).is.region = EvaluatedAt(page, w).region
      BY <2>1, <3>4, PreparedPlace
    <3>. QED
      BY <3>6, <3>7
  <2>. QED
    BY <2>8, <2>9, <2>11, <2>12
<1>. QED
  BY <1>1, CollectInvariant, PTL
=============================================================================

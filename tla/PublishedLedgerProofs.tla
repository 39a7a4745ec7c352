------------------------ MODULE PublishedLedgerProofs ------------------------
(* Theorems about listings that are quoted in one region, and about what   *)
(* the projection shows of what the source said.                           *)
EXTENDS PublishedLedger, PriceLedgerProofs, WellFoundedInduction

-----------------------------------------------------------------------------
(* One row in one region.                                                  *)

\* What a committed row does to a listing of one region: nothing, or one fact
\* and a projection of it.
Adds(l, d, r, t, o, rel, x) ==
  /\ facts' = facts \cup {x}
  /\ x \in Observation /\ ~ Recorded(x)
  /\ x.listing = l /\ x.revision = r /\ x.region = d /\ x.time = t /\ x.id = writes + 1
  /\ x.quality = "ACCEPTED" <=> d \in AcceptedIn(o)
  /\ x.value = o[d].value
  /\ current'[l][d] = Projected(x, QuotesKept(l, RevisionAfter(l, r, t, o))[d], RevisionAfter(l, r, t, o))

LEMMA OnlyRegion ==
  ASSUME NEW l \in Listing, NEW d \in Region, RegionsOf[l] = {d}, NEW o \in Offers(l)
  PROVE  Offered(o) \subseteq {d} /\ AcceptedIn(o) \subseteq {d} /\ AcceptedIn(o) \subseteq Offered(o)
<1>1. AcceptedIn(o) \subseteq Offered(o) BY DEF AcceptedIn, Offered, NoCandidate
<1>2. Offered(o) \subseteq {d} BY DEF Offered, Offers
<1>3. QED BY <1>1, <1>2

LEMMA RowInOneRegion ==
  ASSUME BoundAssumption, LedgerInv,
         NEW l \in Listing, NEW d \in Region, RegionsOf[l] = {d},
         NEW r \in Fingerprint, NEW t \in Time,
         NEW o \in Offers(l), NEW rel \in Release, NEW sup \in [Region -> Nat],
         RowWritten(l, r, t, o, rel, sup)
  PROVE  \/ /\ facts' = facts /\ currentRevision' = currentRevision
            /\ current'[l] = current[l]
            /\ d \in AcceptedIn(o) => \E h \in facts : SameKey(RowFact(l, r, d, t, o[d], rel, sup[d]), h)
         \/ \E x : Adds(l, d, r, t, o, rel, x) /\ x = RowFact(l, r, d, t, o[d], rel, sup[d])
<1>. DEFINE rev == RevisionAfter(l, r, t, o)
            R == NewRows(l, r, t, o, rel, sup)
<1>1. /\ facts' = facts \cup R
      /\ currentRevision' = [currentRevision EXCEPT ![l] = rev]
      /\ \A g \in Region : \/ /\ current'[l][g] = QuotesKept(l, rev)[g]
                              /\ \A x \in R : x.region # g
                           \/ \E x \in R : x.region = g /\ current'[l][g] = Projected(x, QuotesKept(l, rev)[g], rev)
  BY RowWrittenEffect DEF LedgerInv
<1>2. \A x \in R : /\ x \in Observation /\ ~ Recorded(x)
                   /\ x.listing = l /\ x.revision = r /\ x.time = t /\ x.id = writes + 1
                   /\ x.region = d
                   /\ x = RowFact(l, r, d, t, o[d], rel, sup[d])
                   /\ x.quality = "ACCEPTED" <=> d \in AcceptedIn(o)
  BY NewRowsShape DEF LedgerInv
<1>3. CASE R = {}
  <2>1. facts' = facts BY <1>1, <1>3
  <2>2. rev = currentRevision[l]
    <3>1. SUFFICES ASSUME rev # currentRevision[l] PROVE FALSE OBVIOUS
    <3>2. Switches(l, r, t) /\ \E h \in TrustedOf(l, r)' : h.time = t BY <3>1, SwitchHasFact DEF LedgerInv
    <3>3. PICK h \in TrustedOf(l, r)' : h.time = t BY <3>2
    <3>4. h \in Trusted(l) BY <2>1, <3>3 DEF TrustedOf, Trusted
    <3>5. h.time < t BY <3>2, <3>4, SwitchIsNews DEF LedgerInv
    <3>6. QED BY <3>3, <3>5 DEF Time
  <2>3. currentRevision' = currentRevision BY <1>1, <2>2 DEF LedgerInv, TypeOK
  <2>4. QuotesKept(l, rev) = current[l] BY <2>2 DEF QuotesKept
  <2>5. \A g \in Region : current'[l][g] = current[l][g] BY <1>1, <1>3, <2>4
  <2>6. current'[l] \in [Region -> Quote \cup {NoQuote}] /\ current[l] \in [Region -> Quote \cup {NoQuote}]
    BY WriteRowType DEF RowWritten, LedgerInv, TypeOK
  <2>7. current'[l] = current[l] BY <2>5, <2>6
  <2>8. d \in AcceptedIn(o) => Recorded(RowFact(l, r, d, t, o[d], rel, sup[d]))
    BY <1>3, OnlyRegion DEF NewRows
  <2>9. QED BY <2>1, <2>3, <2>7, <2>8 DEF Recorded
<1>4. CASE R # {}
  <2>1. PICK x \in R : TRUE BY <1>4
  <2>2. R = {x} BY <1>2, <2>1
  <2>3. current'[l][d] = Projected(x, QuotesKept(l, rev)[d], rev) BY <1>1, <1>2, <2>2
  <2>4. x.value = o[d].value BY <1>2, <2>1 DEF RowFact
  <2>5. Adds(l, d, r, t, o, rel, x) BY <1>1, <1>2, <2>1, <2>2, <2>3, <2>4 DEF Adds
  <2>6. QED BY <1>2, <2>1, <2>5
<1>5. QED BY <1>3, <1>4

-----------------------------------------------------------------------------
(* Ids.                                                                    *)

LEMMA RowIds ==
  ASSUME BoundAssumption, LedgerInv, IdsNameFacts,
         NEW l \in Listing, NEW r \in Fingerprint, NEW t \in Time,
         NEW o \in Offers(l), NEW rel \in Release, NEW sup \in [Region -> Nat],
         RowWritten(l, r, t, o, rel, sup)
  PROVE  IdsNameFacts'
<1>. DEFINE R == NewRows(l, r, t, o, rel, sup)
<1>1. facts' = facts \cup R BY RowWrittenEffect DEF LedgerInv
<1>2. \A x \in R : x.id = writes + 1 /\ x = RowFact(l, r, x.region, t, o[x.region], rel, sup[x.region])
  BY NewRowsShape DEF LedgerInv
<1>3. \A x \in facts : x.id < writes + 1
  BY DEF LedgerInv, FactsBounded, TypeOK, Observation
<1>4. \A x, y \in R : x.region = y.region => x = y BY <1>2
<1>5. \A x \in R : x.id \in Int /\ writes + 1 \in Int BY <1>2 DEF LedgerInv, TypeOK
<1>6. \A x \in facts, y \in R : x.id # y.id
  BY <1>2, <1>3 DEF LedgerInv, TypeOK, Observation
<1>. HIDE DEF R
<1>7. QED BY <1>1, <1>4, <1>6 DEF IdsNameFacts

LEMMA AbsenceIds ==
  ASSUME BoundAssumption, LedgerInv, IdsNameFacts,
         NEW l \in Listing, NEW t \in Time, NEW v \in Value, NEW rel \in Release,
         PersistProductAbsence(l, t, v, rel)
  PROVE  IdsNameFacts'
<1>1. PICK f : facts' = facts \cup {f} /\ f.id = writes + 1
  BY DEF PersistProductAbsence, InsertedFacts, RowFact
<1>2. \A x \in facts : x.id # f.id
  BY <1>1 DEF LedgerInv, FactsBounded, TypeOK, Observation
<1>3. QED BY <1>1, <1>2 DEF IdsNameFacts

-----------------------------------------------------------------------------
(* The row of a listing of one region.                                     *)

\* A fact that is new to the listing and trusted, of the identity the listing
\* is left with, keeps the row exact.
LEMMA FactKeepsExact ==
  ASSUME BoundAssumption, LedgerInv, LedgerInv', IdsNameFacts,
         NEW l \in Listing, NEW d \in Region, RegionsOf[l] = {d},
         NEW x \in Observation, facts' = facts \cup {x},
         x.listing = l, x.region = d, x.id = writes + 1, x.quality = "ACCEPTED",
         currentRevision'[l] = x.revision,
         NEW base \in Quote \cup {NoQuote}, current'[l][d] = Projected(x, base, x.revision),
         \A f \in TrustedOf(l, x.revision) :
           \/ f.time < x.time /\ base = NoQuote
           \/ base # NoQuote /\ f.time <= base.time /\ f.supersedes # base.id,
         base # NoQuote => \E b \in TrustedOf(l, x.revision) : b.region = d /\ QuoteOf(b) = base
  PROVE  QuotesExact(l)'
<1>1. TrustedOf(l, currentRevision[l])' = TrustedOf(l, x.revision) \cup {x} BY DEF TrustedOf, Trusted
<1>2. ASSUME NEW f \in TrustedOf(l, x.revision)
      PROVE  /\ f \in Observation /\ f.region = d /\ f.time \in Nat /\ f.id \in Nat /\ f.id < x.id
             /\ f.supersedes # x.id
  <2>1. f \in facts /\ f.listing = l /\ f \in Observation BY DEF TrustedOf, Trusted, LedgerInv, TypeOK
  <2>2. f.id <= writes /\ f.region = d BY <2>1 DEF LedgerInv, FactsBounded
  <2>3. f.time \in Nat /\ f.id \in Nat /\ f.supersedes \in Nat /\ writes \in Nat
    BY <2>1 DEF Observation, Time, LedgerInv, TypeOK
  <2>4. f.supersedes # 0 => f.supersedes < f.id
    <3>1. f.supersedes # 0 => \E p \in SameTime(l, f.revision, f.region, f.time) : p.id = f.supersedes /\ p.id < f.id
      BY <2>1 DEF LedgerInv, CorrectionsWellFormed
    <3>2. QED BY <3>1
  <2>5. QED BY <2>1, <2>2, <2>3, <2>4
<1>3. x.time \in Nat /\ x.time > 0 /\ x.id \in Nat /\ x.supersedes \in Nat /\ x.id # 0
  BY DEF Observation, Time
<1>4. x.supersedes # 0 => \E p \in facts' : /\ p.listing = l /\ p.region = d /\ p.time = x.time
                                           /\ p.id = x.supersedes /\ p.id < x.id
  BY DEF LedgerInv, CorrectionsWellFormed, SameTime, TrustedOf, Trusted
<1>5. x.supersedes # x.id BY <1>3, <1>4
<1>6. CASE current'[l][d] = QuoteOf(x)
  <2>1. current'[l][d] # NoQuote /\ current'[l][d].time = x.time /\ current'[l][d].id = x.id
    BY <1>3, <1>6 DEF QuoteOf, NoQuote
  <2>2. ASSUME NEW f \in TrustedOf(l, x.revision) PROVE f.time <= x.time
    <3>1. CASE f.time < x.time BY <1>2, <1>3, <3>1
    <3>2. CASE base # NoQuote /\ f.time <= base.time
      <4>1. base.time \in Nat BY <3>2 DEF Quote, Time
      <4>2. Advances(x, base) \/ base = QuoteOf(x) BY <1>6, <3>2 DEF Projected
      <4>3. x.time >= base.time BY <1>3, <4>1, <4>2 DEF Advances, QuoteOf
      <4>4. QED BY <1>2, <1>3, <3>2, <4>1, <4>3
    <3>3. QED BY <3>1, <3>2
  <2>3. QED BY <1>1, <1>2, <1>3, <1>5, <2>1, <2>2 DEF QuotesExact
<1>7. CASE current'[l][d] # QuoteOf(x)
  <2>1. base # NoQuote /\ ~ Advances(x, base) /\ current'[l][d] = base BY <1>7 DEF Projected
  <2>2. PICK b \in TrustedOf(l, x.revision) : b.region = d /\ QuoteOf(b) = base BY <2>1
  <2>3. b.id = base.id /\ b.time = base.time BY <2>2 DEF QuoteOf
  <2>4. x.time <= base.time BY <1>2, <1>3, <2>1, <2>3 DEF Advances
  <2>5. x.supersedes # base.id
    <3>1. SUFFICES ASSUME x.supersedes = base.id PROVE FALSE OBVIOUS
    <3>2. base.id # 0 BY <2>1 DEF Quote
    <3>3. PICK p \in facts' : p.listing = l /\ p.region = d /\ p.time = x.time /\ p.id = x.supersedes /\ p.id < x.id
      BY <1>4, <3>1, <3>2
    <3>4. p \in facts BY <1>3, <3>3
    <3>5. p = b BY <2>2, <2>3, <3>1, <3>3, <3>4 DEF IdsNameFacts, TrustedOf, Trusted
    <3>6. QED BY <2>1, <2>3, <3>1, <3>3, <3>5 DEF Advances
  <2>6. \A f \in TrustedOf(l, x.revision) : f.time <= base.time /\ f.supersedes # base.id BY <2>1
  <2>7. QED BY <1>1, <1>2, <2>1, <2>4, <2>5, <2>6 DEF QuotesExact
<1>8. QED BY <1>6, <1>7

\* A fact that the projection does not look at.
LEMMA IgnoredKeepsExact ==
  ASSUME LedgerInv, NEW l \in Listing, QuotesExact(l), NEW x, facts' = facts \cup {x},
         x.quality # "ACCEPTED" \/ x.revision # currentRevision[l],
         currentRevision'[l] = currentRevision[l],
         \A g \in Region : RegionsOf[l] = {g} => current'[l][g] = current[l][g], QuotedOnce(l)
  PROVE  QuotesExact(l)'
<1>1. TrustedOf(l, currentRevision[l])' = TrustedOf(l, currentRevision[l]) BY DEF TrustedOf, Trusted
<1>2. PICK d \in Region : RegionsOf[l] = {d} BY DEF QuotedOnce
<1>3. \A f \in TrustedOf(l, currentRevision[l]) : f.region = d
  BY <1>2 DEF LedgerInv, FactsBounded, TrustedOf, Trusted
<1>4. QED BY <1>1, <1>2, <1>3 DEF QuotesExact

LEMMA RowKeepsExact ==
  ASSUME ListingAssumption, DeviceRegionAssumption, BoundAssumption, LedgerInv, IdsNameFacts,
         NEW l \in Listing, QuotedOnce(l), QuotesExact(l),
         NEW r \in Fingerprint, NEW t \in Time,
         NEW o \in Offers(l), NEW rel \in Release, NEW sup \in [Region -> Nat],
         RowWritten(l, r, t, o, rel, sup)
  PROVE  QuotesExact(l)'
<1>. DEFINE rev == RevisionAfter(l, r, t, o)
<1>0. LedgerInv' BY RowKeepsInv
<1>1. PICK d \in Region : RegionsOf[l] = {d} BY DEF QuotedOnce
<1>2. CASE facts' = facts /\ currentRevision' = currentRevision /\ current'[l] = current[l]
  BY <1>2 DEF QuotesExact, TrustedOf, Trusted
<1>3. ASSUME NEW x, Adds(l, d, r, t, o, rel, x) PROVE QuotesExact(l)'
  <2>1. currentRevision'[l] = rev
    BY RowWrittenEffect DEF LedgerInv, TypeOK
  <2>2. /\ facts' = facts \cup {x} /\ x \in Observation
        /\ x.listing = l /\ x.revision = r /\ x.region = d /\ x.time = t /\ x.id = writes + 1
        /\ x.quality = "ACCEPTED" <=> d \in AcceptedIn(o)
        /\ current'[l][d] = Projected(x, QuotesKept(l, rev)[d], rev)
    BY <1>3 DEF Adds
  <2>3. CASE x.quality # "ACCEPTED"
    <3>1. AcceptedIn(o) = {} BY <1>1, <2>2, <2>3, OnlyRegion
    <3>2. rev = currentRevision[l] BY <3>1 DEF RevisionAfter
    <3>3. current'[l][d] = current[l][d] BY <2>2, <2>3, <3>2 DEF Projected, QuotesKept
    <3>4. \A g \in Region : RegionsOf[l] = {g} => current'[l][g] = current[l][g]
      <4>1. \A g \in Region : RegionsOf[l] = {g} => g = d BY <1>1
      <4>2. QED BY <3>3, <4>1
    <3>5. QED BY <2>1, <2>2, <2>3, <3>2, <3>4, IgnoredKeepsExact
  <2>4. CASE x.quality = "ACCEPTED" /\ rev # r
    <3>1. rev = currentRevision[l] BY <2>4 DEF RevisionAfter
    <3>2. current'[l][d] = current[l][d] BY <2>2, <2>4, <3>1 DEF Projected, QuotesKept
    <3>3. \A g \in Region : RegionsOf[l] = {g} => current'[l][g] = current[l][g]
      <4>1. \A g \in Region : RegionsOf[l] = {g} => g = d BY <1>1
      <4>2. QED BY <3>2, <4>1
    <3>4. x.revision # currentRevision[l] BY <2>2, <2>4, <3>1
    <3>5. QED BY <2>1, <2>2, <3>1, <3>3, <3>4, IgnoredKeepsExact
  <2>5. CASE x.quality = "ACCEPTED" /\ rev = r
    <3>. DEFINE base == QuotesKept(l, rev)[d]
    <3>1. base \in Quote \cup {NoQuote} BY DEF QuotesKept, LedgerInv, TypeOK
    <3>2. \A f \in TrustedOf(l, r) : f.region = d
      BY <1>1 DEF LedgerInv, FactsBounded, TrustedOf, Trusted
    <3>3. \A f \in TrustedOf(l, r) : \/ f.time < t /\ base = NoQuote
                                     \/ base # NoQuote /\ f.time <= base.time /\ f.supersedes # base.id
      <4>1. CASE rev = currentRevision[l]
        <5>1. base = current[l][d] BY <4>1 DEF QuotesKept
        <5>2. QED BY <2>5, <3>2, <4>1, <5>1 DEF QuotesExact
      <4>2. CASE rev # currentRevision[l]
        <5>1. base = NoQuote BY <4>2 DEF QuotesKept
        <5>2. Switches(l, r, t) BY <4>2, SwitchHasFact DEF LedgerInv
        <5>3. \A f \in Trusted(l) : f.time < t BY <5>2, SwitchIsNews DEF LedgerInv
        <5>4. QED BY <5>1, <5>3 DEF TrustedOf
      <4>3. QED BY <4>1, <4>2
    <3>4. base # NoQuote => \E b \in TrustedOf(l, r) : b.region = d /\ QuoteOf(b) = base
      <4>1. SUFFICES ASSUME base # NoQuote PROVE \E b \in TrustedOf(l, r) : b.region = d /\ QuoteOf(b) = base
        OBVIOUS
      <4>2. rev = currentRevision[l] /\ base = current[l][d] BY <4>1 DEF QuotesKept
      <4>3. PICK b \in Trusted(l) : b.region = d /\ QuoteOf(b) = current[l][d]
        BY <4>1, <4>2 DEF LedgerInv, CurrentPointsToTrustedFact
      <4>4. current[l][d].revision = currentRevision[l]
        BY <4>1, <4>2 DEF LedgerInv, CurrentPointsToTrustedFact
      <4>5. b.revision = r BY <2>5, <4>2, <4>3, <4>4 DEF QuoteOf
      <4>6. QED BY <4>2, <4>3, <4>5 DEF TrustedOf
    <3>. HIDE DEF base
    <3>5. current'[l][d] = Projected(x, base, r) BY <2>2, <2>5 DEF base
    <3>6. QED BY <1>0, <1>1, <2>1, <2>2, <2>5, <3>1, <3>3, <3>4, <3>5, FactKeepsExact
  <2>6. QED BY <2>3, <2>4, <2>5
<1>4. QED BY <1>1, <1>2, <1>3, RowInOneRegion

\* The off-shelf fact of a product that is gone is newer than all others.
AbsenceFact(l, d, t, v, x) ==
  /\ facts' = facts \cup {x}
  /\ x \in Observation
  /\ x.listing = l /\ x.revision = currentRevision[l] /\ x.region = d /\ x.time = t
  /\ x.value = v /\ x.id = writes + 1 /\ x.quality = "ACCEPTED"
  /\ current'[l][d] = Projected(x, current[l][d], currentRevision[l])

LEMMA AbsenceInOneRegion ==
  ASSUME ListingAssumption, BoundAssumption, LedgerInv,
         NEW l \in Listing, NEW d \in Region, RegionsOf[l] = {d},
         NEW t \in Time, NEW v \in Value, NEW rel \in Release,
         PersistProductAbsence(l, t, v, rel)
  PROVE  /\ \E x : AbsenceFact(l, d, t, v, x)
         /\ \A f \in Trusted(l) : f.time < t
         /\ UNCHANGED currentRevision
         /\ \A k \in Listing : k # l => current'[k] = current[k]
<1>1. currentRevision[l] \in Fingerprint BY DEF LedgerInv, TypeOK, PersistProductAbsence
<1>2. PICK x : /\ x = RowFact(l, currentRevision[l], d, t, [value |-> v, quality |-> "ACCEPTED"], rel, 0)
               /\ facts' = facts \cup {x}
               /\ current' = [current EXCEPT ![l][d] = Projected(x, @, x.revision)]
  BY DEF PersistProductAbsence, InsertedFacts
<1>3. /\ x.listing = l /\ x.revision = currentRevision[l] /\ x.region = d /\ x.time = t
      /\ x.value = v /\ x.id = writes + 1 /\ x.quality = "ACCEPTED"
  BY <1>2 DEF RowFact
<1>4. facts' \subseteq Observation BY AbsenceType DEF LedgerInv, TypeOK
<1>5. x \in Observation BY <1>2, <1>4
<1>6. current'[l][d] = Projected(x, current[l][d], currentRevision[l]) BY <1>2, <1>3 DEF LedgerInv, TypeOK
<1>7. AbsenceFact(l, d, t, v, x) BY <1>2, <1>3, <1>5, <1>6 DEF AbsenceFact
<1>8. \A f \in Trusted(l) : f.time < t
  <2>1. \A f \in Trusted(l) : f.time <= lastSeen[l] /\ f.time \in Int
    BY DEF Trusted, LedgerInv, FactsBounded, TypeOK, Observation, Time
  <2>2. lastSeen[l] < t /\ lastSeen[l] \in Int /\ t \in Int
    BY DEF PersistProductAbsence, LedgerInv, TypeOK, Time, BoundAssumption
  <2>3. QED BY <2>1, <2>2
<1>9. UNCHANGED currentRevision BY DEF PersistProductAbsence
<1>10. \A k \in Listing : k # l => current'[k] = current[k] BY <1>2 DEF LedgerInv, TypeOK
<1>11. QED BY <1>7, <1>8, <1>9, <1>10

\* The row after an absence is that of its fact.
LEMMA AbsenceShows ==
  ASSUME BoundAssumption, LedgerInv, NEW l \in Listing, NEW d \in Region, NEW t \in Time,
         NEW v \in Value, NEW x \in Observation, AbsenceFact(l, d, t, v, x),
         (\A f \in Trusted(l) : f.time < t)
  PROVE  current'[l][d] = QuoteOf(x)
<1>1. current'[l][d] = Projected(x, current[l][d], currentRevision[l]) BY DEF AbsenceFact
<1>2. x.quality = "ACCEPTED" /\ x.revision = currentRevision[l] /\ x.time = t BY DEF AbsenceFact
<1>3. current[l][d] # NoQuote => x.time > current[l][d].time
  <2>1. SUFFICES ASSUME current[l][d] # NoQuote PROVE x.time > current[l][d].time
    OBVIOUS
  <2>2. PICK b \in Trusted(l) : QuoteOf(b) = current[l][d]
    BY <2>1 DEF LedgerInv, CurrentPointsToTrustedFact
  <2>3. current[l][d].time < t BY <2>2 DEF QuoteOf
  <2>4. t \in Nat /\ current[l][d].time \in Nat
    BY <2>2 DEF Trusted, LedgerInv, TypeOK, Observation, Time, QuoteOf
  <2>5. QED BY <1>2, <2>3, <2>4
<1>4. QED BY <1>1, <1>2, <1>3 DEF Projected, Advances

LEMMA AbsenceKeepsExact ==
  ASSUME ListingAssumption, BoundAssumption, LedgerInv, IdsNameFacts,
         NEW l \in Listing, QuotedOnce(l), QuotesExact(l),
         NEW t \in Time, NEW v \in Value, NEW rel \in Release,
         PersistProductAbsence(l, t, v, rel)
  PROVE  QuotesExact(l)'
<1>1. PICK d \in Region : RegionsOf[l] = {d} BY DEF QuotedOnce
<1>2. PICK x : AbsenceFact(l, d, t, v, x) BY <1>1, AbsenceInOneRegion
<1>3. LedgerInv' BY AbsenceKeepsInv
<1>4. UNCHANGED currentRevision BY DEF PersistProductAbsence
<1>5. current[l][d] \in Quote \cup {NoQuote} BY DEF LedgerInv, TypeOK
<1>6. \A f \in TrustedOf(l, currentRevision[l]) :
        current[l][d] # NoQuote /\ f.time <= current[l][d].time /\ f.supersedes # current[l][d].id
  BY <1>1 DEF QuotesExact, LedgerInv, FactsBounded, TrustedOf, Trusted
<1>7. current[l][d] # NoQuote =>
        \E b \in TrustedOf(l, currentRevision[l]) : b.region = d /\ QuoteOf(b) = current[l][d]
  <2>1. SUFFICES ASSUME current[l][d] # NoQuote
                 PROVE \E b \in TrustedOf(l, currentRevision[l]) : b.region = d /\ QuoteOf(b) = current[l][d]
    OBVIOUS
  <2>2. PICK b \in Trusted(l) : b.region = d /\ QuoteOf(b) = current[l][d]
    BY <2>1 DEF LedgerInv, CurrentPointsToTrustedFact
  <2>3. b.revision = currentRevision[l]
    BY <2>1, <2>2 DEF LedgerInv, CurrentPointsToTrustedFact, QuoteOf
  <2>4. QED BY <2>2, <2>3 DEF TrustedOf
<1>8. QED BY <1>1, <1>2, <1>3, <1>4, <1>5, <1>6, <1>7, FactKeepsExact DEF AbsenceFact

\* Of a set of facts of one region of the current revision that every fact
\* superseding one of its members belongs to, the last one recorded is open.
LEMMA LastIsOpen ==
  ASSUME BoundAssumption, LedgerInv, IdsNameFacts, NEW l \in Listing, NEW g \in Region,
         NEW K \in SUBSET {f \in TrustedOf(l, currentRevision[l]) : f.region = g}, K # {},
         \A f \in K, h \in TrustedOf(l, currentRevision[l]) : h.region = g /\ h.time = f.time => h \in K
  PROVE  K \cap OpenFacts(l, g) # {}
<1>. DEFINE Ids == {f.id : f \in K}
            P(n) == n \in Ids
<1>1. \A f \in K : f \in facts /\ f \in Observation /\ f.id \in Nat /\ f.id <= writes
  BY DEF TrustedOf, Trusted, LedgerInv, TypeOK, FactsBounded, Observation
<1>2. writes \in Nat BY DEF LedgerInv, TypeOK, BoundAssumption
<1>3. \E f \in K : \A h \in K : h.id <= f.id
  <2>. DEFINE Left == {writes - f.id : f \in K}
  <2>1. Left \in SUBSET Nat /\ Left # {} BY <1>1, <1>2
  <2>2. PICK m \in Left : \A n \in Left : m <= n
    <3>. HIDE DEF Left
    <3>1. \E m \in Left : \A n \in Left : <<n, m>> \notin OpToRel(<, Nat)
      BY <2>1, NatLessThanWellFounded, WFMin
    <3>2. PICK m \in Left : \A n \in Left : <<n, m>> \notin OpToRel(<, Nat) BY <3>1
    <3>3. \A n \in Left : ~ (n < m) BY <2>1, <3>2 DEF OpToRel
    <3>4. \A n \in Left : m <= n BY <2>1, <3>3
    <3>5. QED BY <3>4
  <2>3. PICK f \in K : m = writes - f.id BY <2>2
  <2>4. ASSUME NEW h \in K PROVE h.id <= f.id
    <3>1. writes - f.id <= writes - h.id BY <2>2, <2>3
    <3>2. QED BY <1>1, <1>2, <3>1
  <2>5. QED BY <2>4
<1>4. PICK f \in K : \A h \in K : h.id <= f.id BY <1>3
<1>5. ASSUME NEW h \in TrustedOf(l, currentRevision[l]), h.region = g, h.supersedes = f.id PROVE FALSE
  <2>1. f.id # 0 /\ h \in facts /\ h.listing = l BY <1>1 DEF Observation, TrustedOf, Trusted
  <2>2. PICK p \in SameTime(h.listing, h.revision, h.region, h.time) : p.id = h.supersedes /\ p.id < h.id
    BY <1>5, <2>1 DEF LedgerInv, CorrectionsWellFormed
  <2>3. p \in facts /\ p.listing = l /\ p.region = g /\ p.time = h.time
    BY <1>5, <2>1, <2>2 DEF SameTime, TrustedOf, Trusted
  <2>4. p = f BY <1>1, <1>5, <2>2, <2>3 DEF IdsNameFacts, TrustedOf, Trusted
  <2>5. h \in K BY <1>5, <2>3, <2>4
  <2>6. QED BY <1>1, <1>4, <1>5, <2>2, <2>5
<1>6. f \in OpenFacts(l, g) BY <1>5 DEF OpenFacts
<1>7. QED BY <1>6

\* What rebuild_current derives is exact, in every region.
LEMMA RebuiltIsExact ==
  ASSUME BoundAssumption, LedgerInv, IdsNameFacts, NEW l \in Listing, NEW g \in Region, NEW q, Rebuilt(l, g, q),
         NEW f \in TrustedOf(l, currentRevision[l]), f.region = g
  PROVE  q # NoQuote /\ f.time <= q.time /\ f.supersedes # q.id
<1>. DEFINE own == {h \in TrustedOf(l, currentRevision[l]) : h.region = g}
<1>1. \A h \in own : h.time \in Nat /\ h.time > 0
  BY DEF TrustedOf, Trusted, LedgerInv, TypeOK, Observation, Time
<1>2. OpenFacts(l, g) # {}
  <2>1. own # {} /\ own \in SUBSET {h \in TrustedOf(l, currentRevision[l]) : h.region = g} OBVIOUS
  <2>2. \A k \in own, h \in TrustedOf(l, currentRevision[l]) : h.region = g /\ h.time = k.time => h \in own
    OBVIOUS
  <2>. HIDE DEF own
  <2>3. QED BY <2>1, <2>2, LastIsOpen
<1>3. PICK m \in OpenFacts(l, g) : (\A h \in OpenFacts(l, g) : ~ Newer(h, m)) /\ q = QuoteOf(m)
  BY <1>2 DEF Rebuilt
<1>4. m \in own BY DEF OpenFacts
<1>5. f.time <= m.time
  <2>1. SUFFICES ASSUME ~ (f.time <= m.time) PROVE FALSE OBVIOUS
  <2>. DEFINE K == {h \in own : h.time > m.time}
  <2>2. f \in K BY <1>1, <1>4, <2>1
  <2>3. K \cap OpenFacts(l, g) # {}
    <3>1. \A k \in K, h \in TrustedOf(l, currentRevision[l]) : h.region = g /\ h.time = k.time => h \in K
      OBVIOUS
    <3>2. K \in SUBSET own /\ K # {} BY <2>2
    <3>. HIDE DEF K
    <3>3. QED BY <3>1, <3>2, LastIsOpen
  <2>4. QED BY <1>3, <2>3 DEF Newer
<1>6. f.supersedes # m.id BY <1>3 DEF OpenFacts
<1>7. QED BY <1>1, <1>3, <1>4, <1>5, <1>6 DEF QuoteOf, NoQuote

LEMMA RebuildKeepsExact ==
  ASSUME BoundAssumption, LedgerInv, IdsNameFacts, NEW l \in Listing, RebuildCurrent(l)
  PROVE  QuotesExact(l)'
<1>1. PICK q \in [Region -> {NoQuote} \cup {QuoteOf(f) : f \in Trusted(l)}] :
        /\ \A g \in Region : Rebuilt(l, g, q[g])
        /\ current' = [current EXCEPT ![l] = q]
  BY DEF RebuildCurrent
<1>2. current'[l] = q BY <1>1 DEF LedgerInv, TypeOK
<1>3. facts' = facts /\ currentRevision' = currentRevision BY DEF RebuildCurrent
<1>4. TrustedOf(l, currentRevision[l])' = TrustedOf(l, currentRevision[l]) BY <1>3 DEF TrustedOf, Trusted
<1>5. ASSUME NEW f \in TrustedOf(l, currentRevision[l])
      PROVE  /\ q[f.region] # NoQuote /\ f.time <= q[f.region].time /\ f.supersedes # q[f.region].id
  <2>1. f.region \in Region BY DEF TrustedOf, Trusted, LedgerInv, TypeOK, Observation
  <2>2. PICK g \in Region : g = f.region BY <2>1
  <2>3. Rebuilt(l, g, q[g]) BY <1>1
  <2>4. QED BY <2>2, <2>3, RebuiltIsExact
<1>6. QED BY <1>2, <1>4, <1>5 DEF QuotesExact

\* The rows of a listing that the transaction is not about.
LEMMA OthersStayExact ==
  ASSUME NEW k \in Listing, QuotesExact(k), NEW R, facts' = facts \cup R, \A x \in R : x.listing # k,
         currentRevision'[k] = currentRevision[k], current'[k] = current[k]
  PROVE  QuotesExact(k)'
<1>1. TrustedOf(k, currentRevision[k])' = TrustedOf(k, currentRevision[k]) BY DEF TrustedOf, Trusted
<1>2. QED BY <1>1 DEF QuotesExact

LEMMA NextAppends == ASSUME [Next]_vars PROVE facts \subseteq facts'
<1>1. ASSUME NEW l, NEW r, NEW t, NEW o, NEW rel, NEW sup, WriteRow(l, r, t, o, rel, sup)
      PROVE  facts \subseteq facts'
  BY <1>1 DEF WriteRow, InsertedFacts
<1>2. ASSUME NEW l, NEW t, NEW v, NEW rel, PersistProductAbsence(l, t, v, rel)
      PROVE  facts \subseteq facts'
  BY <1>2 DEF PersistProductAbsence, InsertedFacts
<1>3. ASSUME NEW l, NEW r, NEW t, NEW q, RecordIdentity(l, r, q, t) \/ RebuildCurrent(l)
      PROVE  facts \subseteq facts'
  BY <1>3 DEF RecordIdentity, RebuildCurrent
<1>4. QED BY <1>1, <1>2, <1>3 DEF Next, vars, PersistDeviceRow, PersistDatasetRow

LEMMA NextKeepsOneRegionInv ==
  ASSUME ListingAssumption, DeviceRegionAssumption, BoundAssumption, OneRegionInv, [Next]_vars
  PROVE  OneRegionInv'
<1>1. LedgerInv' BY NextKeepsInv DEF OneRegionInv
<1>. DEFINE Exact == \A k \in Listing : QuotedOnce(k) => QuotesExact(k)
<1>2. LedgerInv /\ IdsNameFacts /\ Exact BY DEF OneRegionInv
<1>3. ASSUME NEW l \in Listing, NEW r \in Fingerprint, NEW t \in Time,
             NEW o \in Offers(l), NEW rel \in Release, NEW sup \in [Region -> Nat],
             RowWritten(l, r, t, o, rel, sup)
      PROVE  IdsNameFacts' /\ Exact'
  <2>1. IdsNameFacts' BY <1>2, <1>3, RowIds
  <2>2. /\ facts' = facts \cup NewRows(l, r, t, o, rel, sup)
        /\ \A x \in NewRows(l, r, t, o, rel, sup) : x.listing = l
        /\ \A k \in Listing : k # l => current'[k] = current[k] /\ currentRevision'[k] = currentRevision[k]
    <3>1. TypeOK BY <1>2 DEF LedgerInv
    <3>2. /\ facts' = facts \cup NewRows(l, r, t, o, rel, sup)
          /\ currentRevision' = [currentRevision EXCEPT ![l] = RevisionAfter(l, r, t, o)]
          /\ \A k \in Listing : k # l => current'[k] = current[k]
      BY <1>3, <3>1, RowWrittenEffect
    <3>3. \A x \in NewRows(l, r, t, o, rel, sup) : x.listing = l BY <3>1, NewRowsShape
    <3>4. \A k \in Listing : k # l => currentRevision'[k] = currentRevision[k] BY <3>1, <3>2 DEF TypeOK
    <3>5. QED BY <3>2, <3>3, <3>4
  <2>3. ASSUME NEW k \in Listing, QuotedOnce(k) PROVE QuotesExact(k)'
    <3>1. QuotesExact(k) BY <1>2, <2>3
    <3>2. CASE k = l BY <1>2, <1>3, <2>3, <3>1, <3>2, RowKeepsExact
    <3>3. CASE k # l BY <2>2, <3>1, <3>3, OthersStayExact
    <3>4. QED BY <3>2, <3>3
  <2>4. QED BY <2>1, <2>3 DEF QuotedOnce
<1>4. ASSUME NEW l \in Listing, NEW t \in Time, NEW v \in Value, NEW rel \in Release,
             PersistProductAbsence(l, t, v, rel)
      PROVE  IdsNameFacts' /\ Exact'
  <2>1. IdsNameFacts' BY <1>2, <1>4, AbsenceIds
  <2>2. PICK x : facts' = facts \cup {x} /\ x.listing = l
    BY <1>4 DEF PersistProductAbsence, InsertedFacts, RowFact
  <2>3. \A k \in Listing : k # l => current'[k] = current[k] /\ currentRevision'[k] = currentRevision[k]
    BY <1>2, <1>4 DEF PersistProductAbsence, LedgerInv, TypeOK
  <2>4. ASSUME NEW k \in Listing, QuotedOnce(k) PROVE QuotesExact(k)'
    <3>1. QuotesExact(k) BY <1>2, <2>4
    <3>2. CASE k = l BY <1>2, <1>4, <2>4, <3>1, <3>2, AbsenceKeepsExact
    <3>3. CASE k # l
      <4>1. PICK R : R = {x} OBVIOUS
      <4>2. facts' = facts \cup R /\ \A y \in R : y.listing # k BY <2>2, <3>3, <4>1
      <4>3. current'[k] = current[k] /\ currentRevision'[k] = currentRevision[k] BY <2>3, <3>3
      <4>4. QED BY <3>1, <4>2, <4>3, OthersStayExact
    <3>4. QED BY <3>2, <3>3
  <2>5. QED BY <2>1, <2>4 DEF QuotedOnce
<1>5. ASSUME NEW l \in Listing, RebuildCurrent(l) PROVE IdsNameFacts' /\ Exact'
  <2>1. facts' = facts /\ currentRevision' = currentRevision BY <1>5 DEF RebuildCurrent
  <2>2. \A k \in Listing : k # l => current'[k] = current[k] BY <1>2, <1>5 DEF RebuildCurrent, LedgerInv, TypeOK
  <2>3. IdsNameFacts' BY <1>2, <2>1 DEF IdsNameFacts
  <2>4. ASSUME NEW k \in Listing, QuotedOnce(k) PROVE QuotesExact(k)'
    <3>1. CASE k = l BY <1>2, <1>5, <3>1, RebuildKeepsExact
    <3>2. CASE k # l
      <4>1. QuotesExact(k) BY <1>2, <2>4
      <4>2. current'[k] = current[k] BY <2>2, <3>2
      <4>3. QED BY <2>1, <4>1, <4>2 DEF QuotesExact, TrustedOf, Trusted
    <3>3. QED BY <3>1, <3>2
  <2>5. QED BY <2>3, <2>4 DEF QuotedOnce
<1>6. ASSUME NEW l \in Listing, NEW r \in Fingerprint, NEW t \in Time, NEW q \in Quality,
             RecordIdentity(l, r, q, t) \/ UNCHANGED vars
      PROVE  IdsNameFacts' /\ Exact'
  <2>1. facts' = facts /\ currentRevision' = currentRevision /\ current' = current
    BY <1>6 DEF RecordIdentity, vars
  <2>2. QED BY <1>2, <2>1 DEF IdsNameFacts, QuotesExact, TrustedOf, Trusted, QuotedOnce
<1>7. CASE UNCHANGED vars
  <2>1. facts' = facts /\ currentRevision' = currentRevision /\ current' = current BY <1>7 DEF vars
  <2>2. IdsNameFacts' /\ Exact' BY <1>2, <2>1 DEF IdsNameFacts, QuotesExact, TrustedOf, Trusted, QuotedOnce
  <2>3. QED BY <1>1, <2>2 DEF OneRegionInv
<1>8. CASE Next
  <2>1. IdsNameFacts' /\ Exact'
    <3>. HIDE DEF Exact
    <3>1. ASSUME NEW l \in Listing, NEW r \in Fingerprint, NEW t \in Time,
                 NEW o \in Offers(l), NEW rel \in Release,
                 PersistDeviceRow(l, r, t, o, rel) \/ PersistDatasetRow(l, r, t, o, rel)
          PROVE  IdsNameFacts' /\ Exact'
      <4>1. PICK sup \in [Region -> Nat] : RowWritten(l, r, t, o, rel, sup)
        BY <1>2, <3>1, DeviceRowWritten, DatasetRowWritten DEF LedgerInv
      <4>2. QED BY <1>3, <4>1
    <3>2. QED BY <1>4, <1>5, <1>6, <1>8, <3>1 DEF Next
  <2>2. QED BY <1>1, <2>1 DEF OneRegionInv
<1>9. QED BY <1>7, <1>8

-----------------------------------------------------------------------------
(* The rows of listings that are quoted in one region.                     *)

\* The strengthened invariant, of devices and data sets together.
THEOREM OneRegionInvariant == Spec => []OneRegionInv
<1>1. Init => OneRegionInv
  <2>1. ASSUME Init PROVE OneRegionInv
    <3>1. LedgerInv BY <2>1, InitInv, ListingAssumption, BoundAssumption
    <3>2. facts = {} BY <2>1 DEF Init
    <3>3. QED BY <3>1, <3>2 DEF OneRegionInv, IdsNameFacts, QuotesExact, TrustedOf, Trusted
  <2>2. QED BY <2>1
<1>2. OneRegionInv /\ [Next]_vars => OneRegionInv'
  BY NextKeepsOneRegionInv, ListingAssumption, DeviceRegionAssumption, BoundAssumption
<1>3. QED BY <1>1, <1>2, PTL DEF Spec

\* The audit query missing_current_pointer finds nothing as long as listings
\* are quoted in one region, in whatever order rows, absences and rebuilds come.
THEOREM NoMissingPointerTheorem ==
  ASSUME \A l \in Listing : QuotedOnce(l)
  PROVE  Spec => []NoMissingPointer
<1>1. OneRegionInv => NoMissingPointer BY DEF OneRegionInv, QuotesExact, NoMissingPointer
<1>2. QED BY <1>1, OneRegionInvariant, PTL

\* The same of outdated_current_pointer: corrections of one day included.
THEOREM NoOutdatedPointerTheorem ==
  ASSUME \A l \in Listing : QuotedOnce(l)
  PROVE  Spec => []NoOutdatedPointer
<1>1. OneRegionInv => NoOutdatedPointer BY DEF OneRegionInv, QuotesExact, NoOutdatedPointer
<1>2. QED BY <1>1, OneRegionInvariant, PTL

\* invalid_same_time_correction finds nothing, in any number of regions.
THEOREM CorrectionsTheorem == Spec => []CorrectionsWellFormed
<1>1. LedgerInv => CorrectionsWellFormed BY DEF LedgerInv
<1>2. QED BY <1>1, LedgerInvariant, PTL

\* Only a committed row changes the identity of a listing, and only with
\* evidence that is newer than everything the listing was known by.
LEMMA SwitchNeedsNews ==
  ASSUME ListingAssumption, BoundAssumption, LedgerInv, [Next]_vars,
         NEW k \in Listing, currentRevision'[k] # currentRevision[k]
  PROVE  \E h \in facts' \ facts : /\ h.listing = k /\ h.quality = "ACCEPTED"
                                   /\ \A f \in Trusted(k) : h.time > f.time
<1>1. ASSUME NEW l \in Listing, NEW r \in Fingerprint, NEW t \in Time,
             NEW o \in Offers(l), NEW rel \in Release, NEW sup \in [Region -> Nat],
             RowWritten(l, r, t, o, rel, sup)
      PROVE  \E h \in facts' \ facts : /\ h.listing = k /\ h.quality = "ACCEPTED"
                                       /\ \A f \in Trusted(k) : h.time > f.time
  <2>1. currentRevision' = [currentRevision EXCEPT ![l] = RevisionAfter(l, r, t, o)]
    BY <1>1, RowWrittenEffect DEF LedgerInv
  <2>2. k = l /\ RevisionAfter(l, r, t, o) # currentRevision[l] BY <2>1 DEF LedgerInv, TypeOK
  <2>3. Switches(l, r, t) /\ \E h \in TrustedOf(l, r)' : h.time = t
    BY <1>1, <2>2, SwitchHasFact DEF LedgerInv
  <2>4. \A f \in Trusted(l) : f.time < t BY <2>3, SwitchIsNews DEF LedgerInv
  <2>5. PICK h \in TrustedOf(l, r)' : h.time = t BY <2>3
  <2>6. h \in facts' /\ h.listing = l /\ h.quality = "ACCEPTED" BY <2>5 DEF TrustedOf, Trusted
  <2>7. t \in Int /\ \A f \in Trusted(l) : f.time \in Int
    BY DEF LedgerInv, TypeOK, Observation, Time, Trusted
  <2>8. h \notin facts BY <2>4, <2>5, <2>6, <2>7 DEF Trusted
  <2>9. \A f \in Trusted(l) : h.time > f.time BY <2>4, <2>5, <2>7
  <2>10. QED BY <2>2, <2>6, <2>8, <2>9
<1>2. ~ UNCHANGED currentRevision OBVIOUS
<1>3. \E l \in Listing, r \in Fingerprint, t \in Time : \E o \in Offers(l), rel \in Release :
        PersistDeviceRow(l, r, t, o, rel) \/ PersistDatasetRow(l, r, t, o, rel)
  <2>1. Next BY <1>2 DEF vars
  <2>2. \A l, r, q, t : ~ RecordIdentity(l, r, q, t) BY <1>2 DEF RecordIdentity
  <2>3. \A l, t, v, rel : ~ PersistProductAbsence(l, t, v, rel) BY <1>2 DEF PersistProductAbsence
  <2>4. \A l : ~ RebuildCurrent(l) BY <1>2 DEF RebuildCurrent
  <2>5. QED BY <2>1, <2>2, <2>3, <2>4 DEF Next
<1>a. PICK l \in Listing, r \in Fingerprint, t \in Time : \E o \in Offers(l), rel \in Release :
        PersistDeviceRow(l, r, t, o, rel) \/ PersistDatasetRow(l, r, t, o, rel)
  BY <1>3
<1>4. PICK o \in Offers(l), rel \in Release :
        PersistDeviceRow(l, r, t, o, rel) \/ PersistDatasetRow(l, r, t, o, rel)
  BY <1>a
<1>5. PICK sup \in [Region -> Nat] : RowWritten(l, r, t, o, rel, sup)
  BY <1>4, DeviceRowWritten, DatasetRowWritten DEF LedgerInv
<1>6. QED BY <1>1, <1>5

\* A region a listing is not quoted in has no row.
LEMMA OtherRegionsAreEmpty ==
  ASSUME LedgerInv, NEW l \in Listing, NEW g \in Region, g \notin RegionsOf[l]
  PROVE  current[l][g] = NoQuote
BY DEF LedgerInv, CurrentPointsToTrustedFact, FactsBounded, Trusted

LEMMA OtherRegionsAreEmptyAfter ==
  ASSUME LedgerInv', NEW l \in Listing, NEW g \in Region, g \notin RegionsOf[l]
  PROVE  current'[l][g] = NoQuote
BY DEF LedgerInv, CurrentPointsToTrustedFact, FactsBounded, Trusted

\* The fact a row shows, which is of the current identity.
LEMMA FactOfRow ==
  ASSUME LedgerInv, NEW l \in Listing, NEW g \in Region, current[l][g] # NoQuote
  PROVE  \E b \in TrustedOf(l, currentRevision[l]) : b.region = g /\ QuoteOf(b) = current[l][g]
<1>1. PICK b \in Trusted(l) : b.region = g /\ QuoteOf(b) = current[l][g]
  BY DEF LedgerInv, CurrentPointsToTrustedFact
<1>2. b.revision = currentRevision[l] BY <1>1 DEF LedgerInv, CurrentPointsToTrustedFact, QuoteOf
<1>3. QED BY <1>1, <1>2 DEF TrustedOf

\* The row of a listing of one region never goes back in time or disappears
\* while its identity stays, corrections and rebuilds included; and another
\* identity needs evidence newer than all there was.
THEOREM NeverRollsBackTheorem ==
  ASSUME \A l \in Listing : QuotedOnce(l)
  PROVE  Spec => CurrentNeverRollsBack
<1>. USE ListingAssumption, DeviceRegionAssumption, BoundAssumption
<1>. DEFINE Kept(l) == \A g \in Region : current'[l][g].time >= current[l][g].time
            Renewed(l) == \A f \in Trusted(l) : f.revision = currentRevision[l] =>
                            \E h \in facts' \ facts :
                              h.listing = l /\ h.quality = "ACCEPTED" /\ h.time > f.time
<1>1. ASSUME OneRegionInv, OneRegionInv', [Next]_vars, NEW l \in Listing,
             currentRevision'[l] = currentRevision[l], NEW g \in Region
      PROVE  current'[l][g].time >= current[l][g].time
  <2>1. LedgerInv /\ LedgerInv' /\ QuotesExact(l)' BY <1>1 DEF OneRegionInv, QuotedOnce
  <2>2. current[l][g].time \in Nat /\ current'[l][g].time \in Nat
    BY <2>1 DEF LedgerInv, TypeOK, Quote, NoQuote, Time
  <2>3. CASE current[l][g] = NoQuote BY <2>2, <2>3 DEF NoQuote
  <2>4. CASE current[l][g] # NoQuote
    <3>1. PICK b \in TrustedOf(l, currentRevision[l]) : b.region = g /\ QuoteOf(b) = current[l][g]
      BY <2>1, <2>4, FactOfRow
    <3>2. facts \subseteq facts' BY <1>1, NextAppends
    <3>3. b \in TrustedOf(l, currentRevision[l])' BY <1>1, <3>1, <3>2 DEF TrustedOf, Trusted
    <3>4. b.time <= current'[l][g].time BY <2>1, <3>1, <3>3 DEF QuotesExact
    <3>5. b.time = current[l][g].time BY <3>1 DEF QuoteOf
    <3>6. QED BY <2>2, <3>4, <3>5
  <2>5. QED BY <2>3, <2>4
<1>2. ASSUME OneRegionInv, [Next]_vars, NEW l \in Listing, currentRevision'[l] # currentRevision[l]
      PROVE  Renewed(l)
  BY <1>2, SwitchNeedsNews DEF OneRegionInv
<1>3. OneRegionInv /\ OneRegionInv' /\ [Next]_vars =>
        \A l \in Listing : IF currentRevision'[l] = currentRevision[l] THEN Kept(l) ELSE Renewed(l)
  BY <1>1, <1>2
<1>4. QED BY <1>3, OneRegionInvariant, PTL DEF Spec, CurrentNeverRollsBack

-----------------------------------------------------------------------------
(* What the projection shows of what the source said.                      *)

\* A row of either kind of source, with the links the code resolved.
CommittedRow(l, r, t, o, rel, sup) ==
  /\ RowWritten(l, r, t, o, rel, sup)
  /\ l \in Dataset => \A g \in AcceptedIn(o) : Resolves(l, r, g, t, o[g].value, sup[g])

LEMMA RowCommitted ==
  ASSUME TypeOK, BoundAssumption, NEW l \in Listing, NEW r \in Fingerprint, NEW t \in Time,
         NEW o \in Offers(l), NEW rel \in Release,
         PersistDeviceRow(l, r, t, o, rel) \/ PersistDatasetRow(l, r, t, o, rel)
  PROVE  \E sup \in [Region -> Nat] : CommittedRow(l, r, t, o, rel, sup)
<1>1. CASE PersistDeviceRow(l, r, t, o, rel)
  <2>1. PICK sup \in [Region -> Nat] : RowWritten(l, r, t, o, rel, sup) BY <1>1, DeviceRowWritten
  <2>2. l \notin Dataset BY <1>1 DEF PersistDeviceRow
  <2>3. QED BY <2>1, <2>2 DEF CommittedRow
<1>2. CASE PersistDatasetRow(l, r, t, o, rel)
  <2>1. PICK sup \in [Region -> 0 .. writes] :
          /\ \A g \in Region :
               IF g \in AcceptedIn(o) THEN Resolves(l, r, g, t, o[g].value, sup[g])
                                      ELSE sup[g] = 0
          /\ WriteRow(l, r, t, o, rel, sup)
    BY <1>2 DEF PersistDatasetRow
  <2>2. sup \in [Region -> Nat] BY <2>1 DEF TypeOK
  <2>3. l \in Dataset /\ writes < MaxWrites BY <1>2 DEF PersistDatasetRow
  <2>4. AcceptedIn(o) \subseteq Region BY DEF AcceptedIn
  <2>5. RowWritten(l, r, t, o, rel, sup) BY <2>1, <2>2, <2>3 DEF RowWritten
  <2>6. QED BY <2>1, <2>2, <2>4, <2>5 DEF CommittedRow
<1>3. QED BY <1>1, <1>2

LEMMA PublishesEffect ==
  ASSUME PublishedTypeOK, NEW l \in Listing, NEW t \in Time, NEW o \in Offers(l), Publishes(l, t, o)
  PROVE  /\ PublishedTypeOK'
         /\ \A k \in Listing : k # l => published'[k] = published[k]
         /\ \A g \in Region : published'[l][g] =
              IF g \in AcceptedIn(o) /\ t >= published[l][g].time
              THEN [time |-> t, value |-> o[g].value, news |-> IsNews(l, g, t, o[g].value)]
              ELSE published[l][g]
<1>. DEFINE new(g) == IF g \in AcceptedIn(o) /\ t >= published[l][g].time
                      THEN [time |-> t, value |-> o[g].value, news |-> IsNews(l, g, t, o[g].value)]
                      ELSE published[l][g]
<1>1. published' = [published EXCEPT ![l] = [g \in Region |-> new(g)]] BY DEF Publishes
<1>2. \A g \in Region : new(g) \in [time : Nat, value : Value \cup {None}, news : BOOLEAN]
  <2>1. SUFFICES ASSUME NEW g \in Region PROVE new(g) \in [time : Nat, value : Value \cup {None}, news : BOOLEAN]
    OBVIOUS
  <2>2. g \in AcceptedIn(o) => o[g].value \in Value
    BY CandidateShape DEF AcceptedIn, Offered, NoCandidate
  <2>3. t \in Nat BY DEF Time
  <2>4. IsNews(l, g, t, o[g].value) \in BOOLEAN BY DEF IsNews
  <2>5. published[l][g] \in [time : Nat, value : Value \cup {None}, news : BOOLEAN] BY DEF PublishedTypeOK
  <2>6. QED BY <2>2, <2>3, <2>4, <2>5
<1>. HIDE DEF new
<1>3. PublishedTypeOK' BY <1>1, <1>2 DEF PublishedTypeOK
<1>4. \A g \in Region : published'[l][g] = new(g) BY <1>1 DEF PublishedTypeOK
<1>5. \A k \in Listing : k # l => published'[k] = published[k] BY <1>1 DEF PublishedTypeOK
<1>6. QED BY <1>3, <1>4, <1>5 DEF new

\* News of a row: its fact is inserted, and shown unless the projection is past it.
LEMMA NewsIsShown ==
  ASSUME ListingAssumption, BoundAssumption, OneRegionInv, OneRegionInv',
         NEW l \in Listing, NEW d \in Region, RegionsOf[l] = {d},
         NEW r \in Fingerprint, NEW t \in Time,
         NEW o \in Offers(l), NEW rel \in Release, NEW sup \in [Region -> Nat],
         CommittedRow(l, r, t, o, rel, sup),
         d \in AcceptedIn(o), IsNews(l, d, t, o[d].value)
  PROVE  \E f \in Trusted(l)' :
           /\ f.region = d /\ f.time = t /\ f.value = o[d].value
           /\ \A h \in Trusted(l)' : h.region = d /\ h.time = t => h.id <= f.id
           /\ current'[l][d].time = t => current'[l][d] = QuoteOf(f)
<1>. DEFINE rev == RevisionAfter(l, r, t, o)
            base == QuotesKept(l, rev)[d]
<1>1. LedgerInv /\ LedgerInv' /\ IdsNameFacts /\ QuotesExact(l) /\ QuotesExact(l)'
  BY DEF OneRegionInv, QuotedOnce
<1>2. PICK x : Adds(l, d, r, t, o, rel, x) /\ x = RowFact(l, r, d, t, o[d], rel, sup[d])
  <2>1. ~ \E h \in facts : SameKey(RowFact(l, r, d, t, o[d], rel, sup[d]), h)
    <3>1. SUFFICES ASSUME NEW h \in facts, SameKey(RowFact(l, r, d, t, o[d], rel, sup[d]), h) PROVE FALSE
      OBVIOUS
    <3>2. h.listing = l /\ h.region = d /\ h.time = t /\ h.value = o[d].value /\ h.quality = "ACCEPTED"
      BY <3>1 DEF SameKey, RowFact, AcceptedIn
    <3>3. QED BY <3>2 DEF IsNews, Trusted
  <2>2. RowWritten(l, r, t, o, rel, sup) BY DEF CommittedRow
  <2>3. QED BY <1>1, <2>1, <2>2, RowInOneRegion
<1>3. /\ facts' = facts \cup {x} /\ x \in Observation /\ x.quality = "ACCEPTED"
      /\ x.listing = l /\ x.revision = r /\ x.region = d /\ x.time = t /\ x.id = writes + 1 /\ x.value = o[d].value
      /\ current'[l][d] = Projected(x, base, rev)
  BY <1>2 DEF Adds
<1>4. x.supersedes = sup[d] BY <1>2 DEF RowFact
<1>5. x \in Trusted(l)' BY <1>3 DEF Trusted
<1>6. ASSUME NEW h \in Trusted(l)' PROVE h.id <= x.id
  <2>1. h = x \/ h \in facts BY <1>3 DEF Trusted
  <2>2. h \in facts => h.id <= writes /\ h.id \in Nat BY <1>1 DEF LedgerInv, FactsBounded, TypeOK, Observation
  <2>3. writes \in Nat BY <1>1 DEF LedgerInv, TypeOK, BoundAssumption
  <2>4. QED BY <1>3, <2>1, <2>2, <2>3
<1>7. ASSUME current'[l][d].time = t PROVE current'[l][d] = QuoteOf(x)
  <2>1. SUFFICES ASSUME current'[l][d] # QuoteOf(x) PROVE FALSE OBVIOUS
  <2>2. current'[l][d] = base BY <1>3, <2>1 DEF Projected
  <2>3. base # NoQuote
    <3>1. t # 0 BY DEF Time
    <3>2. QED BY <1>7, <2>2, <3>1 DEF NoQuote
  <2>4. rev = currentRevision[l] /\ base = current[l][d] BY <2>3 DEF QuotesKept
  <2>5. PICK b \in TrustedOf(l, currentRevision[l]) : b.region = d /\ QuoteOf(b) = base
    BY <1>1, <2>3, <2>4, FactOfRow
  <2>6. b.time = t /\ b.id = base.id BY <1>7, <2>2, <2>5 DEF QuoteOf
  <2>7. b.value # o[d].value BY <2>5, <2>6 DEF IsNews, TrustedOf
  <2>8. CASE rev # r
    <3>1. currentRevision'[l] = rev
      BY <1>1, RowWrittenEffect DEF CommittedRow, LedgerInv, TypeOK
    <3>2. PICK h \in TrustedOf(l, currentRevision[l])' : h.time > x.time
      BY <1>1, <1>3, <1>5, <2>8, <3>1 DEF LedgerInv, CurrentRevisionNewest
    <3>3. h.region = d
      <4>1. h \in facts' /\ h.listing = l BY <3>2 DEF TrustedOf, Trusted
      <4>2. h.region \in RegionsOf[l] BY <1>1, <4>1 DEF LedgerInv, FactsBounded
      <4>3. QED BY <4>2
    <3>4. h.time <= current'[l][d].time BY <1>1, <3>2, <3>3 DEF QuotesExact
    <3>5. h.time \in Nat /\ t \in Nat BY <1>1, <3>2 DEF TrustedOf, Trusted, LedgerInv, TypeOK, Observation, Time
    <3>6. QED BY <1>3, <1>7, <3>2, <3>4, <3>5
  <2>9. CASE rev = r
    <3>1. x.time = base.time BY <1>3, <1>7, <2>2
    <3>2. x.supersedes # base.id BY <1>3, <2>1, <2>3, <2>9, <3>1 DEF Projected, Advances
    <3>3. b \in Trusted(l) /\ b \in SameTime(l, r, d, t) BY <2>4, <2>5, <2>6, <2>9 DEF SameTime, TrustedOf
    <3>4. CASE l \notin Dataset
      <4>1. SameTimeConsistent(RowFact(l, r, d, t, o[d], rel, sup[d])) BY <3>4 DEF CommittedRow, RowWritten
      <4>2. SameKey(x, b)
        <5>1. SameTimeConsistent(x) BY <1>2, <4>1
        <5>2. QED BY <1>3, <2>5, <2>6, <3>3, <5>1 DEF SameTimeConsistent
      <4>3. QED BY <1>3, <2>7, <4>2 DEF SameKey
    <3>5. CASE l \in Dataset
      <4>. DEFINE prior == SameTime(l, r, d, t)
                  active == {p \in prior : \A h \in prior : h.supersedes # p.id}
      <4>1. Resolves(l, r, d, t, o[d].value, sup[d]) BY <3>5 DEF CommittedRow
      <4>2. {p \in prior : p.value = o[d].value} = {} BY DEF IsNews, SameTime, TrustedOf
      <4>3. PICK p \in active : active = {p} /\ sup[d] = p.id BY <3>3, <4>1, <4>2 DEF Resolves
      <4>4. \A h \in prior : h.supersedes # b.id
        <5>1. SUFFICES ASSUME NEW h \in prior PROVE h.supersedes # b.id OBVIOUS
        <5>2. h \in TrustedOf(l, currentRevision[l]) /\ h.region = d BY <2>4, <2>9 DEF SameTime
        <5>3. h.supersedes # current[l][d].id BY <1>1, <5>2 DEF QuotesExact
        <5>4. QED BY <2>4, <2>6, <5>3
      <4>5. b \in active BY <3>3, <4>4
      <4>6. b = p BY <4>3, <4>5
      <4>7. QED BY <1>4, <2>6, <3>2, <4>3, <4>6
    <3>6. QED BY <3>4, <3>5
  <2>10. QED BY <2>8, <2>9
<1>8. QED BY <1>3, <1>5, <1>6, <1>7

\* A new row leaves the last news alone, or is the last news.
LEMMA RowKeepsNews ==
  ASSUME ListingAssumption, BoundAssumption, OneRegionInv, OneRegionInv', PublishedTypeOK,
         NEW l \in Listing, NEW d \in Region, RegionsOf[l] = {d},
         NEW r \in Fingerprint, NEW t \in Time,
         NEW o \in Offers(l), NEW rel \in Release, NEW sup \in [Region -> Nat],
         CommittedRow(l, r, t, o, rel, sup), Publishes(l, t, o),
         NEW g \in Region, NewsIsNewest(l, g)
  PROVE  NewsIsNewest(l, g)'
<1>. DEFINE rev == RevisionAfter(l, r, t, o)
<1>1. LedgerInv /\ LedgerInv' BY DEF OneRegionInv
<1>2. published'[l][g] = IF g \in AcceptedIn(o) /\ t >= published[l][g].time
                         THEN [time |-> t, value |-> o[g].value, news |-> IsNews(l, g, t, o[g].value)]
                         ELSE published[l][g]
  BY PublishesEffect
<1>3. AcceptedIn(o) \subseteq {d} BY OnlyRegion
<1>4. CASE g \in AcceptedIn(o) /\ t >= published[l][g].time
  <2>1. /\ published'[l][g].time = t /\ published'[l][g].value = o[g].value
        /\ published'[l][g].news = IsNews(l, g, t, o[g].value)
    BY <1>2, <1>4
  <2>2. g = d BY <1>3, <1>4
  <2>3. CASE IsNews(l, g, t, o[g].value)
    <3>1. PICK f \in Trusted(l)' :
           /\ f.region = d /\ f.time = t /\ f.value = o[d].value
           /\ \A h \in Trusted(l)' : h.region = d /\ h.time = t => h.id <= f.id
           /\ current'[l][d].time = t => current'[l][d] = QuoteOf(f)
      BY <1>4, <2>2, <2>3, NewsIsShown
    <3>2. QED BY <2>1, <2>2, <3>1 DEF NewsIsNewest
  <2>4. CASE ~ IsNews(l, g, t, o[g].value) BY <2>1, <2>4 DEF NewsIsNewest
  <2>5. QED BY <2>3, <2>4
<1>5. CASE ~ (g \in AcceptedIn(o) /\ t >= published[l][g].time)
  <2>1. published'[l][g] = published[l][g] BY <1>2, <1>5
  <2>2. CASE ~ published[l][g].news BY <2>1, <2>2 DEF NewsIsNewest
  <2>3. CASE published[l][g].news
    <3>1. PICK f \in Trusted(l) :
           /\ f.region = g /\ f.time = published[l][g].time /\ f.value = published[l][g].value
           /\ \A h \in Trusted(l) : h.region = g /\ h.time = f.time => h.id <= f.id
           /\ current[l][g].time = f.time => current[l][g] = QuoteOf(f)
      BY <2>3 DEF NewsIsNewest
    <3>2. f \in facts /\ f.listing = l /\ f.quality = "ACCEPTED" BY DEF Trusted
    <3>3. f.time \in Nat /\ f.time > 0 /\ t \in Nat
      BY <1>1, <3>2 DEF LedgerInv, TypeOK, Observation, Time
    <3>4. g = d BY <1>1, <3>1, <3>2 DEF LedgerInv, FactsBounded
    <3>5. d \in AcceptedIn(o) => t < f.time BY <1>5, <3>1, <3>3, <3>4
    <3>6. RowWritten(l, r, t, o, rel, sup) BY DEF CommittedRow
    <3>7. CASE facts' = facts /\ current'[l] = current[l]
      <4>1. Trusted(l)' = Trusted(l) BY <3>7 DEF Trusted
      <4>2. QED BY <2>1, <3>1, <3>7, <4>1 DEF NewsIsNewest
    <3>8. ASSUME NEW x, Adds(l, d, r, t, o, rel, x) PROVE NewsIsNewest(l, g)'
      <4>1. /\ facts' = facts \cup {x} /\ x.time = t
            /\ x.quality = "ACCEPTED" <=> d \in AcceptedIn(o)
            /\ current'[l][d] = Projected(x, QuotesKept(l, rev)[d], rev)
        BY <3>8 DEF Adds
      <4>2. f \in Trusted(l)' BY <3>2, <4>1 DEF Trusted
      <4>3. ASSUME NEW h \in Trusted(l)', h.region = g, h.time = f.time PROVE h.id <= f.id
        <5>1. h # x BY <3>3, <3>5, <4>1, <4>3 DEF Trusted
        <5>2. h \in Trusted(l) BY <4>1, <5>1 DEF Trusted
        <5>3. QED BY <3>1, <4>3, <5>2
      <4>4. ASSUME current'[l][g].time = f.time PROVE current'[l][g] = QuoteOf(f)
        <5>1. current'[l][d] = QuotesKept(l, rev)[d]
          <6>1. SUFFICES ASSUME current'[l][d] # QuotesKept(l, rev)[d] PROVE FALSE OBVIOUS
          <6>2. x.quality = "ACCEPTED" /\ current'[l][d] = QuoteOf(x) BY <4>1, <6>1 DEF Projected
          <6>3. current'[l][d].time = t BY <4>1, <6>2 DEF QuoteOf
          <6>4. QED BY <3>3, <3>4, <3>5, <4>1, <4>4, <6>2, <6>3
        <5>2. QuotesKept(l, rev)[d] # NoQuote BY <3>3, <3>4, <4>4, <5>1 DEF NoQuote
        <5>3. QuotesKept(l, rev)[d] = current[l][d] BY <5>2 DEF QuotesKept
        <5>4. QED BY <3>1, <3>4, <4>4, <5>1, <5>3
      <4>5. QED BY <2>1, <3>1, <4>2, <4>3, <4>4 DEF NewsIsNewest
    <3>9. QED BY <1>1, <3>6, <3>7, <3>8, RowInOneRegion
  <2>4. QED BY <2>2, <2>3
<1>6. QED BY <1>4, <1>5

\* The off-shelf fact is the last news, and is shown.
LEMMA AbsenceKeepsNews ==
  ASSUME ListingAssumption, BoundAssumption, OneRegionInv, PublishedTypeOK,
         NEW l \in Listing, NEW d \in Region, RegionsOf[l] = {d},
         NEW t \in Time, NEW v \in Value, NEW rel \in Release,
         PersistProductAbsence(l, t, v, rel),
         NEW g \in Region, NewsIsNewest(l, g),
         published'[l][g] = IF g \in RegionsOf[l] THEN [time |-> t, value |-> v, news |-> TRUE]
                                                  ELSE published[l][g]
  PROVE  NewsIsNewest(l, g)'
<1>1. LedgerInv BY DEF OneRegionInv
<1>2. PICK x : AbsenceFact(l, d, t, v, x) BY <1>1, AbsenceInOneRegion
<1>3. \A f \in Trusted(l) : f.time < t BY <1>1, AbsenceInOneRegion
<1>4. /\ facts' = facts \cup {x} /\ x \in Observation /\ x.listing = l /\ x.region = d
      /\ x.time = t /\ x.value = v /\ x.quality = "ACCEPTED"
  BY <1>2 DEF AbsenceFact
<1>5. CASE g = d
  <2>1. published'[l][g] = [time |-> t, value |-> v, news |-> TRUE] BY <1>5
  <2>2. current'[l][d] = QuoteOf(x) BY <1>1, <1>2, <1>3, <1>4, AbsenceShows
  <2>3. x \in Trusted(l)' BY <1>4 DEF Trusted
  <2>4. ASSUME NEW h \in Trusted(l)', h.time = x.time PROVE h.id <= x.id
    <3>1. h # x => h \in Trusted(l) BY <1>4 DEF Trusted
    <3>2. t \in Nat /\ x.id \in Nat BY <1>4 DEF Time, Observation
    <3>3. h = x BY <1>3, <1>4, <2>4, <3>1, <3>2
    <3>4. QED BY <3>2, <3>3
  <2>5. QED BY <1>4, <1>5, <2>1, <2>2, <2>3, <2>4 DEF NewsIsNewest
<1>6. CASE g # d
  <2>1. published'[l][g] = published[l][g] BY <1>6
  <2>2. ~ published[l][g].news
    <3>1. SUFFICES ASSUME published[l][g].news PROVE FALSE OBVIOUS
    <3>2. PICK f \in Trusted(l) : f.region = g BY <3>1 DEF NewsIsNewest
    <3>3. QED BY <1>1, <1>6, <3>2 DEF LedgerInv, FactsBounded, Trusted
  <2>3. QED BY <2>1, <2>2 DEF NewsIsNewest
<1>7. QED BY <1>5, <1>6

\* rebuild_current derives the row of the last news, unless it is past it.
LEMMA RebuildKeepsNews ==
  ASSUME BoundAssumption, OneRegionInv, OneRegionInv',
         NEW l \in Listing, NEW d \in Region, RegionsOf[l] = {d},
         RebuildCurrent(l), NEW g \in Region, NewsIsNewest(l, g),
         published'[l][g] = published[l][g]
  PROVE  NewsIsNewest(l, g)'
<1>1. LedgerInv /\ IdsNameFacts /\ QuotesExact(l)' BY DEF OneRegionInv, QuotedOnce
<1>2. UNCHANGED <<facts, currentRevision>> BY DEF RebuildCurrent
<1>3. Trusted(l)' = Trusted(l) /\ TrustedOf(l, currentRevision[l])' = TrustedOf(l, currentRevision[l])
  BY <1>2 DEF Trusted, TrustedOf
<1>4. PICK q \in [Region -> {NoQuote} \cup {QuoteOf(f) : f \in Trusted(l)}] :
        /\ \A e \in Region : Rebuilt(l, e, q[e])
        /\ current' = [current EXCEPT ![l] = q]
  BY DEF RebuildCurrent
<1>5. current'[l][g] = q[g] /\ Rebuilt(l, g, q[g]) BY <1>1, <1>4 DEF LedgerInv, TypeOK
<1>6. CASE ~ published[l][g].news BY <1>6 DEF NewsIsNewest
<1>7. CASE published[l][g].news
  <2>1. PICK f \in Trusted(l) :
         /\ f.region = g /\ f.time = published[l][g].time /\ f.value = published[l][g].value
         /\ \A h \in Trusted(l) : h.region = g /\ h.time = f.time => h.id <= f.id
    BY <1>7 DEF NewsIsNewest
  <2>2. \A h \in Trusted(l) : h \in facts /\ h \in Observation /\ h.id \in Nat /\ h.time \in Nat
                              /\ h.region = d
    <3>1. SUFFICES ASSUME NEW h \in Trusted(l)
                   PROVE  h \in facts /\ h \in Observation /\ h.id \in Nat /\ h.time \in Nat /\ h.region = d
      OBVIOUS
    <3>2. h \in facts /\ h.listing = l /\ h \in Observation BY <1>1 DEF Trusted, LedgerInv, TypeOK
    <3>3. h.region = d BY <1>1, <3>2 DEF LedgerInv, FactsBounded
    <3>4. h.id \in Nat /\ h.time \in Nat BY <3>2 DEF Observation, Time
    <3>5. QED BY <3>2, <3>3, <3>4
  <2>3. ASSUME current'[l][g].time = f.time PROVE current'[l][g] = QuoteOf(f)
    <3>1. CASE f.revision = currentRevision[l]
      <4>1. ASSUME NEW h \in TrustedOf(l, currentRevision[l]), h.region = g, h.supersedes = f.id PROVE FALSE
        <5>1. h \in Trusted(l) /\ h.listing = l BY DEF TrustedOf, Trusted
        <5>2. f.id # 0 BY <2>2 DEF Observation
        <5>3. PICK p \in SameTime(h.listing, h.revision, h.region, h.time) : p.id = h.supersedes /\ p.id < h.id
          BY <1>1, <2>2, <4>1, <5>1, <5>2 DEF LedgerInv, CorrectionsWellFormed
        <5>4. p \in Trusted(l) /\ p.listing = l /\ p.region = g /\ p.time = h.time
          BY <4>1, <5>1, <5>3 DEF SameTime, TrustedOf, Trusted
        <5>5. f.listing = l BY DEF Trusted
        <5>6. p = f BY <1>1, <2>1, <2>2, <4>1, <5>3, <5>4, <5>5 DEF IdsNameFacts
        <5>7. QED BY <2>1, <2>2, <4>1, <5>1, <5>3, <5>4, <5>6
      <4>2. f \in OpenFacts(l, g) BY <2>1, <3>1, <4>1 DEF OpenFacts, TrustedOf
      <4>3. PICK m \in OpenFacts(l, g) : (\A h \in OpenFacts(l, g) : ~ Newer(h, m)) /\ q[g] = QuoteOf(m)
        BY <1>5, <4>2 DEF Rebuilt
      <4>4. m \in Trusted(l) /\ m.region = g BY DEF OpenFacts, TrustedOf
      <4>5. m.time = f.time BY <1>5, <2>3, <4>3 DEF QuoteOf
      <4>6. m.id <= f.id BY <2>1, <4>4, <4>5
      <4>7. ~ (f.id > m.id) BY <4>2, <4>3, <4>5 DEF Newer
      <4>8. m.id = f.id BY <2>2, <4>4, <4>6, <4>7
      <4>9. m = f BY <1>1, <2>1, <4>4, <4>8 DEF IdsNameFacts, Trusted
      <4>10. QED BY <1>5, <4>3, <4>9
    <3>2. CASE f.revision # currentRevision[l]
      <4>1. PICK h \in TrustedOf(l, currentRevision[l]) : h.time > f.time
        BY <1>1, <3>2 DEF LedgerInv, CurrentRevisionNewest
      <4>2. h \in Trusted(l) BY DEF TrustedOf
      <4>3. h.region = g BY <2>1, <2>2, <4>2
      <4>4. h.time <= current'[l][g].time BY <1>1, <1>3, <4>3 DEF QuotesExact
      <4>5. QED BY <2>2, <2>3, <4>1, <4>2, <4>4
    <3>3. QED BY <3>1, <3>2
  <2>4. QED BY <1>3, <2>1, <2>3 DEF NewsIsNewest
<1>8. QED BY <1>6, <1>7

-----------------------------------------------------------------------------
(* What a device shows.                                                    *)

\* A row of a device: it is behind no statement of the source, and a new
\* statement of a newer time is shown at once.
LEMMA RowShows ==
  ASSUME ListingAssumption, BoundAssumption, LedgerInv, LedgerInv', PublishedTypeOK,
         NEW l \in Listing \ Dataset, NEW d \in Region, RegionsOf[l] = {d},
         NEW r \in Fingerprint, NEW t \in Time,
         NEW o \in Offers(l), NEW rel \in Release, NEW sup \in [Region -> Nat],
         RowWritten(l, r, t, o, rel, sup), Publishes(l, t, o),
         NEW g \in Region, ShowsLast(l, g)
  PROVE  ShowsLast(l, g)'
<1>. DEFINE rev == RevisionAfter(l, r, t, o)
            c == currentRevision[l]
<1>1. published'[l][g] = IF g \in AcceptedIn(o) /\ t >= published[l][g].time
                         THEN [time |-> t, value |-> o[g].value, news |-> IsNews(l, g, t, o[g].value)]
                         ELSE published[l][g]
  BY PublishesEffect
<1>2. AcceptedIn(o) \subseteq {d} BY OnlyRegion
<1>3. current[l][g].time = published[l][g].time BY DEF ShowsLast
<1>4. Trusted(l) \subseteq Trusted(l)'
  BY RowWrittenEffect DEF Trusted, LedgerInv
<1>5. ASSUME current'[l][g] = current[l][g], published'[l][g] = published[l][g] PROVE ShowsLast(l, g)'
  BY <1>4, <1>5 DEF ShowsLast, ShowsPublished
<1>6. CASE g # d
  <2>1. published'[l][g] = published[l][g] BY <1>1, <1>2, <1>6
  <2>2. current[l][g] = NoQuote /\ current'[l][g] = NoQuote
    BY <1>6, OtherRegionsAreEmpty, OtherRegionsAreEmptyAfter
  <2>3. QED BY <1>5, <2>1, <2>2
<1>7. CASE g = d /\ d \notin AcceptedIn(o)
  <2>1. published'[l][g] = published[l][g] BY <1>1, <1>7
  <2>2. AcceptedIn(o) = {} BY <1>2, <1>7
  <2>3. ASSUME NEW x, Adds(l, d, r, t, o, rel, x) PROVE current'[l][d] = current[l][d]
    <3>1. x.quality # "ACCEPTED" /\ current'[l][d] = Projected(x, QuotesKept(l, rev)[d], rev)
      BY <1>7, <2>3 DEF Adds
    <3>2. rev = c BY <2>2 DEF RevisionAfter
    <3>3. QED BY <3>1, <3>2 DEF Projected, QuotesKept
  <2>4. current'[l][g] = current[l][g] BY <1>7, <2>3, RowInOneRegion
  <2>5. QED BY <1>5, <2>1, <2>4
<1>8. CASE g = d /\ d \in AcceptedIn(o)
  <2>0. \A h \in Trusted(l) : h \in facts /\ h.region = d /\ h.time \in Nat /\ h.time > 0
    <3>1. SUFFICES ASSUME NEW h \in Trusted(l) PROVE h \in facts /\ h.region = d /\ h.time \in Nat /\ h.time > 0
      OBVIOUS
    <3>2. h \in facts /\ h.listing = l /\ h \in Observation BY DEF Trusted, LedgerInv, TypeOK
    <3>3. h.region = d BY <3>2 DEF LedgerInv, FactsBounded
    <3>4. QED BY <3>2, <3>3 DEF Observation, Time
  <2>1. t \in Nat /\ t > 0 /\ current[l][d].time \in Nat /\ current[l][d] \in Quote \cup {NoQuote}
    BY DEF Time, LedgerInv, TypeOK, Quote, NoQuote
  <2>2. current[l][d] # NoQuote => \E b \in TrustedOf(l, c) : QuoteOf(b) = current[l][d]
    BY FactOfRow
  <2>3. CASE /\ current'[l] = current[l]
             /\ \E h \in facts : SameKey(RowFact(l, r, d, t, o[d], rel, sup[d]), h)
    <3>1. PICK h \in facts : SameKey(RowFact(l, r, d, t, o[d], rel, sup[d]), h) BY <2>3
    <3>2. h \in Trusted(l) /\ h.region = d /\ h.time = t /\ h.value = o[d].value
      BY <1>8, <3>1 DEF SameKey, RowFact, AcceptedIn, Trusted
    <3>3. \A k \in TrustedOf(l, c) : current[l][d] # NoQuote /\ k.time <= current[l][d].time
      BY <2>0 DEF LedgerInv, DeviceProjectionExact, TrustedOf
    <3>4. current[l][d] # NoQuote /\ t <= current[l][d].time
      <4>1. CASE h.revision = c BY <3>2, <3>3, <4>1 DEF TrustedOf
      <4>2. CASE h.revision # c
        <5>1. PICK k \in TrustedOf(l, c) : k.time > h.time
          BY <3>2, <4>2 DEF LedgerInv, CurrentRevisionNewest
        <5>2. k \in Trusted(l) BY DEF TrustedOf
        <5>3. k.time <= current[l][d].time /\ current[l][d] # NoQuote BY <3>3
        <5>4. QED BY <2>0, <2>1, <3>2, <5>1, <5>2, <5>3
      <4>3. QED BY <4>1, <4>2
    <3>5. CASE t < published[l][g].time BY <1>1, <1>5, <1>8, <2>1, <2>3, <1>3, <3>5
    <3>6. CASE t >= published[l][g].time
      <4>1. published'[l][g].time = t /\ published'[l][g].value = o[d].value BY <1>1, <1>8, <3>6
      <4>2. t = current[l][d].time BY <1>3, <1>8, <2>1, <3>4, <3>6
      <4>3. PICK b \in TrustedOf(l, c) : QuoteOf(b) = current[l][d] BY <2>2, <3>4
      <4>4. b \in Trusted(l) /\ b.time = t BY <4>2, <4>3 DEF TrustedOf, QuoteOf
      <4>5. b = h BY <2>0, <3>2, <4>4 DEF LedgerInv, DeviceFactsUnique
      <4>6. h \in Trusted(l)' BY <1>4, <3>2
      <4>7. QED BY <1>8, <2>3, <3>2, <4>1, <4>2, <4>3, <4>5, <4>6 DEF ShowsLast, ShowsPublished
    <3>7. t < published[l][g].time \/ t >= published[l][g].time BY <1>3, <1>8, <2>1
    <3>8. QED BY <3>5, <3>6, <3>7
  <2>4. ASSUME NEW x, Adds(l, d, r, t, o, rel, x), x = RowFact(l, r, d, t, o[d], rel, sup[d])
        PROVE ShowsLast(l, g)'
    <3>. DEFINE base == QuotesKept(l, rev)[d]
    <3>1. /\ facts' = facts \cup {x} /\ ~ Recorded(x) /\ x.quality = "ACCEPTED"
          /\ x.listing = l /\ x.revision = r /\ x.region = d /\ x.time = t /\ x.value = o[d].value
          /\ current'[l][d] = Projected(x, base, rev)
      BY <1>8, <2>4 DEF Adds
    <3>2. \A h \in Trusted(l) : h.time # t
      <4>1. SameTimeConsistent(x) BY <1>8, <2>4 DEF RowWritten
      <4>2. \A h \in Trusted(l) : h.time = t => SameKey(x, h) BY <2>0, <3>1, <4>1 DEF SameTimeConsistent
      <4>3. QED BY <2>0, <3>1, <4>2 DEF Recorded
    <3>3. \A b \in TrustedOf(l, c) : b.time \in Nat /\ b.time # t
      BY <2>0, <3>2 DEF TrustedOf
    <3>4. CASE t >= published[l][g].time
      <4>1. published'[l][g].time = t /\ published'[l][g].value = o[d].value BY <1>1, <1>8, <3>4
      <4>2. \A b \in TrustedOf(l, c) : b.time < t
        <5>1. \A b \in TrustedOf(l, c) : b.time <= current[l][d].time
          BY <2>0 DEF LedgerInv, DeviceProjectionExact, TrustedOf
        <5>2. QED BY <1>3, <1>8, <2>1, <3>3, <3>4, <5>1
      <4>3. rev = r BY <1>8, <4>2 DEF RevisionAfter, Switches
      <4>4. ASSUME current[l][d] # NoQuote PROVE t > current[l][d].time
        <5>1. PICK b \in TrustedOf(l, c) : QuoteOf(b) = current[l][d] BY <2>2, <4>4
        <5>2. b.time = current[l][d].time BY <5>1 DEF QuoteOf
        <5>3. QED BY <2>1, <4>2, <5>2
      <4>5. base = NoQuote \/ base = current[l][d] BY DEF QuotesKept
      <4>6. current'[l][d] = QuoteOf(x) BY <3>1, <4>3, <4>4, <4>5 DEF Projected, Advances
      <4>7. x \in Trusted(l)' BY <3>1 DEF Trusted
      <4>8. current'[l][d].time = t BY <3>1, <4>6 DEF QuoteOf
      <4>9. QED BY <1>8, <3>1, <4>1, <4>6, <4>7, <4>8 DEF ShowsLast, ShowsPublished
    <3>5. CASE t < published[l][g].time
      <4>1. published'[l][g] = published[l][g] BY <1>1, <1>3, <1>8, <2>1, <3>5
      <4>2. t < current[l][d].time BY <1>3, <1>8, <3>5
      <4>3. current[l][d] # NoQuote BY <2>1, <4>2 DEF NoQuote
      <4>4. PICK b \in TrustedOf(l, c) : QuoteOf(b) = current[l][d] BY <2>2, <4>3
      <4>5. b.time = current[l][d].time BY <4>4 DEF QuoteOf
      <4>6. c # None BY <4>4 DEF LedgerInv, CurrentRevisionNewest, TrustedOf
      <4>7. rev = c
        <5>1. ~ (b.time < t) BY <2>1, <4>2, <4>5
        <5>2. ~ Switches(l, r, t) BY <4>6, <5>1 DEF Switches
        <5>3. QED BY <5>2 DEF RevisionAfter
      <4>8. base = current[l][d] BY <4>7 DEF QuotesKept
      <4>9. ~ Advances(x, base) BY <2>1, <3>1, <4>2, <4>8 DEF Advances
      <4>10. current'[l][d] = current[l][d] BY <3>1, <4>3, <4>8, <4>9 DEF Projected
      <4>11. QED BY <1>5, <1>8, <4>1, <4>10
    <3>6. QED BY <1>3, <1>8, <2>1, <3>4, <3>5
  <2>5. QED BY <1>8, <2>3, <2>4, RowInOneRegion
<1>9. QED BY <1>6, <1>7, <1>8

LEMMA AbsenceStillShows ==
  ASSUME ListingAssumption, BoundAssumption, LedgerInv, LedgerInv',
         NEW l \in Listing, NEW d \in Region, RegionsOf[l] = {d},
         NEW t \in Time, NEW v \in Value, NEW rel \in Release,
         PersistProductAbsence(l, t, v, rel),
         NEW g \in Region, ShowsLast(l, g),
         published'[l][g] = IF g \in RegionsOf[l] THEN [time |-> t, value |-> v, news |-> TRUE]
                                                  ELSE published[l][g]
  PROVE  ShowsLast(l, g)'
<1>1. PICK x : AbsenceFact(l, d, t, v, x) BY AbsenceInOneRegion
<1>2. \A f \in Trusted(l) : f.time < t BY AbsenceInOneRegion
<1>3. /\ facts' = facts \cup {x} /\ x \in Observation /\ x.listing = l /\ x.region = d
      /\ x.time = t /\ x.value = v /\ x.quality = "ACCEPTED"
  BY <1>1 DEF AbsenceFact
<1>4. CASE g = d
  <2>1. published'[l][g].time = t /\ published'[l][g].value = v BY <1>4
  <2>2. current'[l][d] = QuoteOf(x) BY <1>1, <1>2, <1>3, AbsenceShows
  <2>3. x \in Trusted(l)' BY <1>3 DEF Trusted
  <2>4. current'[l][d].time = t BY <1>3, <2>2 DEF QuoteOf
  <2>5. QED BY <1>3, <1>4, <2>1, <2>2, <2>3, <2>4 DEF ShowsLast, ShowsPublished
<1>5. CASE g # d
  <2>1. published'[l][g] = published[l][g] BY <1>5
  <2>2. current[l][g] = NoQuote /\ current'[l][g] = NoQuote
    BY <1>5, OtherRegionsAreEmpty, OtherRegionsAreEmptyAfter
  <2>3. QED BY <2>1, <2>2 DEF ShowsLast
<1>6. QED BY <1>4, <1>5

LEMMA RebuildStillShows ==
  ASSUME LedgerInv, NEW l \in Listing \ Dataset, RebuildCurrent(l),
         NEW g \in Region, ShowsLast(l, g), published'[l][g] = published[l][g]
  PROVE  ShowsLast(l, g)'
<1>1. PICK q \in [Region -> {NoQuote} \cup {QuoteOf(f) : f \in Trusted(l)}] :
        /\ \A e \in Region : Rebuilt(l, e, q[e])
        /\ current' = [current EXCEPT ![l] = q]
  BY DEF RebuildCurrent
<1>2. current'[l][g] = q[g] BY <1>1 DEF LedgerInv, TypeOK
<1>3. q[g] = current[l][g] BY <1>1, DeviceRebuilt
<1>4. Trusted(l)' = Trusted(l) BY DEF RebuildCurrent, Trusted
<1>5. QED BY <1>2, <1>3, <1>4 DEF ShowsLast, ShowsPublished

-----------------------------------------------------------------------------
(* The history, step by step.                                              *)

\* The listings that a transaction is not about.
LEMMA OthersKeepHistory ==
  ASSUME NEW k \in Listing, NEW g \in Region, NEW R, facts' = facts \cup R, \A x \in R : x.listing # k,
         current'[k] = current[k], published'[k] = published[k]
  PROVE  /\ NewsIsNewest(k, g) => NewsIsNewest(k, g)'
         /\ ShowsLast(k, g) => ShowsLast(k, g)'
<1>1. Trusted(k)' = Trusted(k) BY DEF Trusted
<1>2. QED BY <1>1 DEF NewsIsNewest, ShowsLast, ShowsPublished

\* Watching what the source says restricts no transaction.
THEOREM HistoryAddsNothing == HistorySpec => Spec
<1>1. HistoryInit => Init BY DEF HistoryInit
<1>2. HistoryNext => Next BY DEF HistoryNext, Next
<1>3. UNCHANGED historyVars => UNCHANGED vars BY DEF historyVars
<1>4. [HistoryNext]_historyVars => [Next]_vars BY <1>2, <1>3
<1>5. QED BY <1>1, <1>4, PTL DEF HistorySpec, Spec

\* What the invariant says of listing k in region g.
KeepsFaith(k, g) ==
  /\ QuotedOnce(k) => NewsIsNewest(k, g)
  /\ k \notin Dataset => ShowsLast(k, g)

LEMMA HistoryInvParts ==
  HistoryInv <=> /\ OneRegionInv /\ PublishedTypeOK
                 /\ \A k \in Listing, g \in Region : KeepsFaith(k, g)
BY DEF HistoryInv, KeepsFaith, DevicesShowLastPublication

LEMMA RowKeepsFaith ==
  ASSUME ListingAssumption, DeviceRegionAssumption, BoundAssumption,
         OneRegionInv, OneRegionInv', PublishedTypeOK,
         NEW l \in Listing, NEW r \in Fingerprint, NEW t \in Time,
         NEW o \in Offers(l), NEW rel \in Release, NEW sup \in [Region -> Nat],
         CommittedRow(l, r, t, o, rel, sup), Publishes(l, t, o),
         NEW k \in Listing, NEW g \in Region, KeepsFaith(k, g)
  PROVE  KeepsFaith(k, g)'
<1>1. LedgerInv /\ LedgerInv' /\ RowWritten(l, r, t, o, rel, sup) BY DEF OneRegionInv, CommittedRow
<1>2. CASE k # l
  <2>1. TypeOK BY <1>1 DEF LedgerInv
  <2>2. facts' = facts \cup NewRows(l, r, t, o, rel, sup) /\ current'[k] = current[k]
    BY <1>1, <1>2, <2>1, RowWrittenEffect
  <2>3. \A x \in NewRows(l, r, t, o, rel, sup) : x.listing # k BY <1>2, <2>1, NewRowsShape
  <2>4. published'[k] = published[k] BY <1>2, PublishesEffect
  <2>5. QED BY <2>2, <2>3, <2>4, OthersKeepHistory DEF KeepsFaith, QuotedOnce
<1>3. CASE k = l
  <2>1. ASSUME QuotedOnce(l) PROVE NewsIsNewest(l, g)'
    <3>1. PICK d \in Region : RegionsOf[l] = {d} BY <2>1 DEF QuotedOnce
    <3>2. NewsIsNewest(l, g) BY <1>3, <2>1 DEF KeepsFaith
    <3>3. QED BY <3>1, <3>2, RowKeepsNews
  <2>2. ASSUME l \notin Dataset PROVE ShowsLast(l, g)'
    <3>1. PICK d \in Region : RegionsOf[l] = {d} BY <2>2, DeviceRegionAssumption
    <3>2. ShowsLast(l, g) BY <1>3, <2>2 DEF KeepsFaith
    <3>3. l \in Listing \ Dataset BY <2>2
    <3>4. QED BY <1>1, <3>1, <3>2, <3>3, RowShows
  <2>3. QED BY <1>3, <2>1, <2>2 DEF KeepsFaith, QuotedOnce
<1>4. QED BY <1>2, <1>3

LEMMA AbsenceKeepsFaith ==
  ASSUME ListingAssumption, DeviceRegionAssumption, BoundAssumption,
         OneRegionInv, OneRegionInv', PublishedTypeOK,
         NEW l \in Listing, NEW t \in Time, NEW v \in Value, NEW rel \in Release,
         PersistProductAbsence(l, t, v, rel),
         \A g \in Region : published'[l][g] =
            IF g \in RegionsOf[l] THEN [time |-> t, value |-> v, news |-> TRUE] ELSE published[l][g],
         \A k \in Listing : k # l => published'[k] = published[k],
         NEW k \in Listing, NEW g \in Region, KeepsFaith(k, g)
  PROVE  KeepsFaith(k, g)'
<1>1. LedgerInv /\ LedgerInv' BY DEF OneRegionInv
<1>2. l \in Listing \ Dataset BY DEF PersistProductAbsence
<1>3. PICK d \in Region : RegionsOf[l] = {d} BY <1>2, DeviceRegionAssumption
<1>4. CASE k # l
  <2>1. PICK x : AbsenceFact(l, d, t, v, x) BY <1>1, <1>3, AbsenceInOneRegion
  <2>2. PICK R : R = {x} OBVIOUS
  <2>3. facts' = facts \cup R /\ \A y \in R : y.listing # k BY <1>4, <2>1, <2>2 DEF AbsenceFact
  <2>4. current'[k] = current[k] BY <1>1, <1>3, <1>4, AbsenceInOneRegion
  <2>5. published'[k] = published[k] BY <1>4
  <2>6. QED BY <2>3, <2>4, <2>5, OthersKeepHistory DEF KeepsFaith, QuotedOnce
<1>5. CASE k = l
  <2>1. NewsIsNewest(l, g) /\ ShowsLast(l, g) BY <1>2, <1>3, <1>5 DEF KeepsFaith, QuotedOnce
  <2>2. NewsIsNewest(l, g)' BY <1>3, <2>1, AbsenceKeepsNews
  <2>3. ShowsLast(l, g)' BY <1>1, <1>3, <2>1, AbsenceStillShows
  <2>4. QED BY <1>5, <2>2, <2>3 DEF KeepsFaith
<1>6. QED BY <1>4, <1>5

LEMMA RebuildKeepsFaith ==
  ASSUME BoundAssumption, OneRegionInv, OneRegionInv',
         NEW l \in Listing, RebuildCurrent(l), UNCHANGED published,
         NEW k \in Listing, NEW g \in Region, KeepsFaith(k, g)
  PROVE  KeepsFaith(k, g)'
<1>1. LedgerInv BY DEF OneRegionInv
<1>2. facts' = facts /\ \A e \in Listing : e # l => current'[e] = current[e]
  BY <1>1 DEF RebuildCurrent, LedgerInv, TypeOK
<1>3. CASE k # l
  <2>1. PICK R : R = {} OBVIOUS
  <2>2. facts' = facts \cup R /\ \A y \in R : y.listing # k BY <1>2, <2>1
  <2>3. QED BY <1>2, <1>3, <2>2, OthersKeepHistory DEF KeepsFaith, QuotedOnce
<1>4. CASE k = l
  <2>1. ASSUME QuotedOnce(l) PROVE NewsIsNewest(l, g)'
    <3>1. PICK d \in Region : RegionsOf[l] = {d} BY <2>1 DEF QuotedOnce
    <3>2. NewsIsNewest(l, g) BY <1>4, <2>1 DEF KeepsFaith
    <3>3. QED BY <3>1, <3>2, RebuildKeepsNews
  <2>2. ASSUME l \notin Dataset PROVE ShowsLast(l, g)'
    <3>1. ShowsLast(l, g) BY <1>4, <2>2 DEF KeepsFaith
    <3>2. l \in Listing \ Dataset BY <2>2
    <3>3. QED BY <1>1, <3>1, <3>2, RebuildStillShows
  <2>3. QED BY <1>4, <2>1, <2>2 DEF KeepsFaith, QuotedOnce
<1>5. QED BY <1>3, <1>4

LEMMA HistoryNextKeepsInv ==
  ASSUME ListingAssumption, DeviceRegionAssumption, BoundAssumption,
         HistoryInv, [HistoryNext]_historyVars
  PROVE  HistoryInv'
<1>1. /\ OneRegionInv /\ PublishedTypeOK
      /\ \A k \in Listing, g \in Region : KeepsFaith(k, g)
  BY HistoryInvParts
<1>2. [Next]_vars BY DEF HistoryNext, Next, historyVars
<1>3. OneRegionInv' BY <1>1, <1>2, NextKeepsOneRegionInv
<1>. DEFINE Faith == \A k \in Listing, g \in Region : KeepsFaith(k, g)
<1>4. ASSUME NEW l \in Listing, NEW r \in Fingerprint, NEW t \in Time,
             NEW o \in Offers(l), NEW rel \in Release,
             PersistDeviceRow(l, r, t, o, rel) \/ PersistDatasetRow(l, r, t, o, rel),
             Publishes(l, t, o)
      PROVE  PublishedTypeOK' /\ Faith'
  <2>1. PICK sup \in [Region -> Nat] : CommittedRow(l, r, t, o, rel, sup)
    <3>1. TypeOK BY <1>1 DEF OneRegionInv, LedgerInv
    <3>2. QED BY <1>4, <3>1, RowCommitted
  <2>2. PublishedTypeOK' BY <1>1, <1>4, PublishesEffect
  <2>3. ASSUME NEW k \in Listing, NEW g \in Region PROVE KeepsFaith(k, g)'
    BY <1>1, <1>3, <1>4, <2>1, <2>3, RowKeepsFaith
  <2>4. QED BY <2>2, <2>3
<1>5. ASSUME NEW l \in Listing, NEW t \in Time, NEW v \in Value, NEW rel \in Release,
             PersistProductAbsence(l, t, v, rel),
             published' = [published EXCEPT ![l] =
               [g \in Region |-> IF g \in RegionsOf[l]
                                 THEN [time |-> t, value |-> v, news |-> TRUE]
                                 ELSE published[l][g]]]
      PROVE  PublishedTypeOK' /\ Faith'
  <2>1. \A g \in Region : published'[l][g] =
          IF g \in RegionsOf[l] THEN [time |-> t, value |-> v, news |-> TRUE] ELSE published[l][g]
    BY <1>1, <1>5 DEF PublishedTypeOK
  <2>2. \A k \in Listing : k # l => published'[k] = published[k] BY <1>1, <1>5 DEF PublishedTypeOK
  <2>3. PublishedTypeOK' BY <1>1, <1>5 DEF PublishedTypeOK, Time
  <2>4. ASSUME NEW k \in Listing, NEW g \in Region PROVE KeepsFaith(k, g)'
    BY <1>1, <1>3, <1>5, <2>1, <2>2, <2>4, AbsenceKeepsFaith
  <2>5. QED BY <2>3, <2>4
<1>6. ASSUME NEW l \in Listing, RebuildCurrent(l), UNCHANGED published
      PROVE  PublishedTypeOK' /\ Faith'
  <2>1. PublishedTypeOK' BY <1>1, <1>6 DEF PublishedTypeOK
  <2>2. ASSUME NEW k \in Listing, NEW g \in Region PROVE KeepsFaith(k, g)'
    BY <1>1, <1>3, <1>6, <2>2, RebuildKeepsFaith
  <2>3. QED BY <2>1, <2>2
<1>7. ASSUME UNCHANGED <<facts, current, published>> PROVE PublishedTypeOK' /\ Faith'
  <2>1. PublishedTypeOK' BY <1>1, <1>7 DEF PublishedTypeOK
  <2>2. ASSUME NEW k \in Listing, NEW g \in Region PROVE KeepsFaith(k, g)'
    <3>1. PICK R : R = {} OBVIOUS
    <3>2. facts' = facts \cup R /\ \A y \in R : y.listing # k BY <1>7, <3>1
    <3>3. KeepsFaith(k, g) BY <1>1
    <3>4. QED BY <1>7, <3>2, <3>3, OthersKeepHistory DEF KeepsFaith, QuotedOnce
  <2>3. QED BY <2>1, <2>2
<1>8. PublishedTypeOK' /\ Faith'
  <2>. HIDE DEF Faith
  <2>1. CASE UNCHANGED historyVars
    <3>1. UNCHANGED <<facts, current, published>> BY <2>1 DEF historyVars, vars
    <3>2. QED BY <1>7, <3>1
  <2>2. CASE HistoryNext
    <3>1. ASSUME NEW l \in Listing, NEW r \in Fingerprint, NEW t \in Time, NEW q \in Quality,
                 RecordIdentity(l, r, q, t), UNCHANGED published
          PROVE  UNCHANGED <<facts, current, published>>
      BY <3>1 DEF RecordIdentity
    <3>2. QED BY <1>4, <1>5, <1>6, <1>7, <2>2, <3>1 DEF HistoryNext
  <2>3. QED BY <2>1, <2>2
<1>9. OneRegionInv' /\ PublishedTypeOK' /\ \A k \in Listing, g \in Region : KeepsFaith(k, g)'
  BY <1>3, <1>8
<1>10. QED BY <1>9 DEF HistoryInv, KeepsFaith, DevicesShowLastPublication, QuotedOnce

\* Devices show what was said last, and the last news of every listing that is
\* quoted in one region is on record as the last fact of its time.
THEOREM HistoryInvariant == HistorySpec => []HistoryInv
<1>1. HistoryInit => HistoryInv
  <2>1. SUFFICES ASSUME HistoryInit PROVE HistoryInv OBVIOUS
  <2>2. Init /\ published = [l \in Listing |-> [g \in Region |-> Silence]]
    BY <2>1, Zenon DEF HistoryInit
  <2>3. LedgerInv BY <2>2, InitInv, ListingAssumption, BoundAssumption
  <2>4. facts = {} /\ current = [l \in Listing |-> [g \in Region |-> NoQuote]] BY <2>2 DEF Init
  <2>5. OneRegionInv BY <2>3, <2>4 DEF OneRegionInv, IdsNameFacts, QuotesExact, TrustedOf, Trusted
  <2>6. PublishedTypeOK BY <2>2 DEF PublishedTypeOK, Silence
  <2>7. \A l \in Listing, g \in Region :
          published[l][g] = Silence /\ current[l][g] = NoQuote
    BY <2>2, <2>4
  <2>8. \A l \in Listing, g \in Region : NewsIsNewest(l, g) /\ ShowsLast(l, g)
    BY <2>7 DEF NewsIsNewest, ShowsLast, Silence, NoQuote
  <2>9. QED BY <2>5, <2>6, <2>8 DEF HistoryInv, DevicesShowLastPublication
<1>2. HistoryInv /\ [HistoryNext]_historyVars => HistoryInv'
  BY HistoryNextKeepsInv, ListingAssumption, DeviceRegionAssumption, BoundAssumption
<1>3. QED BY <1>1, <1>2, PTL DEF HistorySpec

\* A device never shows a price that is behind what its source said last, and
\* shows a price whenever the source gave one, whatever the order of arrival.
THEOREM DevicesShowTheorem == HistorySpec => []DevicesShowLastPublication
<1>1. HistoryInv => DevicesShowLastPublication BY DEF HistoryInv
<1>2. QED BY <1>1, HistoryInvariant, PTL

\* A statement that its time had not seen yet is what a reader sees, as long
\* as the projection shows that time: corrections are linked and advanced to.
THEOREM ShowsLastNewsTheorem ==
  ASSUME \A l \in Listing : QuotedOnce(l)
  PROVE  HistorySpec => []ShowsLastNews
<1>1. HistoryInv => ShowsLastNews
  <2>1. SUFFICES ASSUME HistoryInv, NEW l \in Listing, NEW g \in Region, published[l][g].news
                 PROVE  ShowsPublished(l, g)
    BY DEF ShowsLastNews
  <2>2. PICK f \in Trusted(l) :
          /\ f.region = g /\ f.time = published[l][g].time /\ f.value = published[l][g].value
          /\ current[l][g].time = f.time => current[l][g] = QuoteOf(f)
    BY <2>1 DEF HistoryInv, NewsIsNewest
  <2>3. QED BY <2>2 DEF ShowsPublished
<1>2. QED BY <1>1, HistoryInvariant, PTL

================================================================================

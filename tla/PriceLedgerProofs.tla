--------------------------- MODULE PriceLedgerProofs ---------------------------
(* Theorems about the price tables for every channel, time and release.    *)
EXTENDS PriceLedger, TLAPS

LEMMA CandidateShape ==
  ASSUME NEW l \in Listing, NEW o \in Offers(l), NEW g \in Offered(o)
  PROVE  /\ o[g] \in Candidate
         /\ o[g].value \in Value
         /\ o[g].quality \in Quality
  BY DEF Offers, Offered, Candidate, NoCandidate

LEMMA RowFactType ==
  ASSUME TypeOK, BoundAssumption,
         NEW l \in Listing, NEW r \in Fingerprint, NEW t \in Time,
         NEW o \in Offers(l), NEW rel \in Release,
         NEW g \in Offered(o), NEW s \in Nat
  PROVE  RowFact(l, r, g, t, o[g], rel, s) \in Observation
<1>1. o[g].value \in Value /\ o[g].quality \in Quality
  BY CandidateShape
<1>2. writes + 1 \in Nat \ {0}
  BY DEF TypeOK
<1>3. g \in Region
  BY DEF Offered
<1>. QED
  BY <1>1, <1>2, <1>3 DEF RowFact, Observation

LEMMA QuoteOfType ==
  ASSUME NEW f \in Observation
  PROVE  QuoteOf(f) \in Quote
  BY DEF QuoteOf, Quote, Observation

LEMMA WriteRowType ==
  ASSUME TypeOK, BoundAssumption,
         NEW l \in Listing, NEW r \in Fingerprint, NEW t \in Time,
         NEW o \in Offers(l), NEW rel \in Release,
         NEW sup \in [Region -> Nat],
         writes < MaxWrites, WriteRow(l, r, t, o, rel, sup)
  PROVE  TypeOK'
<1>. DEFINE row(g) == RowFact(l, r, g, t, o[g], rel, sup[g])
            new == {g \in Offered(o) : ~ Recorded(row(g))}
            rev == RevisionAfter(l, r, t, o)
            kept == QuotesKept(l, rev)
<1>1. \A g \in Offered(o) : row(g) \in Observation
  BY RowFactType DEF Offered
<1>2. revisionQuality' \in [Listing -> [Fingerprint -> {"ABSENT"} \cup Quality]]
  BY DEF WriteRow, WithRevision, StoredQuality, TypeOK, Quality
<1>3. currentRevision' \in [Listing -> Fingerprint \cup {None}]
  BY DEF WriteRow, RevisionAfter, TypeOK
<1>4. facts' \subseteq Observation
  BY <1>1 DEF WriteRow, TypeOK, InsertedFacts
<1>5. current' \in [Listing -> [Region -> Quote \cup {NoQuote}]]
  <2>1. kept \in [Region -> Quote \cup {NoQuote}]
    BY DEF QuotesKept, TypeOK
  <2>2. \A g \in new : Projected(row(g), kept[g], rev) \in Quote \cup {NoQuote}
    BY <1>1, <2>1, QuoteOfType DEF Projected, Offered
  <2>3. [g \in Region |-> IF g \in new THEN Projected(row(g), kept[g], rev)
                                      ELSE kept[g]]
          \in [Region -> Quote \cup {NoQuote}]
    BY <2>1, <2>2
  <2>. QED
    BY <2>3 DEF WriteRow, TypeOK
<1>6. lastSeen' \in [Listing -> 0 .. MaxTime]
  BY DEF WriteRow, SeenAfter, TypeOK, Time, BoundAssumption
<1>7. writes' \in 0 .. MaxWrites
  BY DEF WriteRow, TypeOK, BoundAssumption
<1>. QED
  BY <1>2, <1>3, <1>4, <1>5, <1>6, <1>7 DEF TypeOK

LEMMA AbsenceType ==
  ASSUME TypeOK, BoundAssumption, ListingAssumption,
         NEW l \in Listing, NEW t \in Time, NEW v \in Value, NEW rel \in Release,
         PersistProductAbsence(l, t, v, rel)
  PROVE  TypeOK'
<1>1. PICK g \in RegionsOf[l] :
        LET f == RowFact(l, currentRevision[l], g, t,
                         [value |-> v, quality |-> "ACCEPTED"], rel, 0)
        IN  /\ facts' = InsertedFacts({f})
            /\ current' = [current EXCEPT ![l][g] = Projected(f, @, f.revision)]
  BY DEF PersistProductAbsence
<1>. DEFINE f == RowFact(l, currentRevision[l], g, t,
                         [value |-> v, quality |-> "ACCEPTED"], rel, 0)
<1>2. g \in Region
  BY DEF ListingAssumption
<1>3. f \in Observation
  BY <1>2 DEF RowFact, Observation, TypeOK, PersistProductAbsence, Quality
<1>4. Projected(f, current[l][g], f.revision) \in Quote \cup {NoQuote}
  BY <1>2, <1>3, QuoteOfType DEF Projected, TypeOK
<1>. HIDE DEF f
<1>5. current' \in [Listing -> [Region -> Quote \cup {NoQuote}]]
  BY <1>1, <1>2, <1>4 DEF TypeOK, f
<1>6. facts' \subseteq Observation
  BY <1>1, <1>3 DEF TypeOK, f, InsertedFacts
<1>7. /\ lastSeen' \in [Listing -> 0 .. MaxTime]
      /\ writes' \in 0 .. MaxWrites
      /\ revisionQuality' = revisionQuality
      /\ currentRevision' = currentRevision
  BY DEF PersistProductAbsence, TypeOK, Time, BoundAssumption
<1>. QED
  BY <1>5, <1>6, <1>7 DEF TypeOK

LEMMA RebuildType ==
  ASSUME TypeOK, NEW l \in Listing, RebuildCurrent(l)
  PROVE  TypeOK'
<1>1. PICK q \in [Region -> {NoQuote} \cup {QuoteOf(f) : f \in Trusted(l)}] :
        current' = [current EXCEPT ![l] = q]
  BY DEF RebuildCurrent
<1>2. \A f \in Trusted(l) : QuoteOf(f) \in Quote
  BY QuoteOfType DEF Trusted, TypeOK
<1>3. q \in [Region -> Quote \cup {NoQuote}]
  BY <1>2
<1>. QED
  BY <1>1, <1>3 DEF RebuildCurrent, TypeOK

LEMMA RecordIdentityType ==
  ASSUME TypeOK, BoundAssumption,
         NEW l \in Listing, NEW r \in Fingerprint, NEW q \in Quality, NEW t \in Time,
         RecordIdentity(l, r, q, t)
  PROVE  TypeOK'
<1>1. revisionQuality' \in [Listing -> [Fingerprint -> {"ABSENT"} \cup Quality]]
  BY DEF RecordIdentity, WithRevision, StoredQuality, TypeOK
<1>2. lastSeen' \in [Listing -> 0 .. MaxTime]
  BY DEF RecordIdentity, SeenAfter, TypeOK, Time, BoundAssumption
<1>. QED
  BY <1>1, <1>2 DEF RecordIdentity, TypeOK

\* The price tables always hold well-formed rows, for every set of listings,
\* regions, identities and releases and every bound.
THEOREM LedgerTypeCorrect == Spec => []TypeOK
<1>. USE ListingAssumption, BoundAssumption
<1>1. Init => TypeOK
  BY DEF Init, TypeOK, BoundAssumption
<1>2. TypeOK /\ [Next]_vars => TypeOK'
  <2>. SUFFICES ASSUME TypeOK, [Next]_vars PROVE TypeOK'
    OBVIOUS
  <2>1. ASSUME NEW l \in Listing, NEW r \in Fingerprint, NEW t \in Time,
               NEW q \in Quality, RecordIdentity(l, r, q, t)
        PROVE  TypeOK'
    BY <2>1, RecordIdentityType
  <2>2. ASSUME NEW l \in Listing, NEW r \in Fingerprint, NEW t \in Time,
               NEW o \in Offers(l), NEW rel \in Release,
               PersistDeviceRow(l, r, t, o, rel)
        PROVE  TypeOK'
    <3>. DEFINE none == [g \in Region |-> 0]
    <3>1. none \in [Region -> Nat]
      OBVIOUS
    <3>. QED
      BY <2>2, <3>1, WriteRowType DEF PersistDeviceRow
  <2>3. ASSUME NEW l \in Listing, NEW r \in Fingerprint, NEW t \in Time,
               NEW o \in Offers(l), NEW rel \in Release,
               PersistDatasetRow(l, r, t, o, rel)
        PROVE  TypeOK'
    <3>1. PICK sup \in [Region -> 0 .. writes] : WriteRow(l, r, t, o, rel, sup)
      BY <2>3 DEF PersistDatasetRow
    <3>2. sup \in [Region -> Nat]
      BY <3>1 DEF TypeOK
    <3>. QED
      BY <2>3, <3>1, <3>2, WriteRowType DEF PersistDatasetRow
  <2>4. ASSUME NEW l \in Listing, NEW t \in Time, NEW v \in Value, NEW rel \in Release,
               PersistProductAbsence(l, t, v, rel)
        PROVE  TypeOK'
    BY <2>4, AbsenceType
  <2>5. ASSUME NEW l \in Listing, RebuildCurrent(l)
        PROVE  TypeOK'
    BY <2>5, RebuildType
  <2>6. CASE UNCHANGED vars
    BY <2>6 DEF vars, TypeOK
  <2>. QED
    BY <2>1, <2>2, <2>3, <2>4, <2>5, <2>6 DEF Next
<1>. QED
  BY <1>1, <1>2, PTL DEF Spec

-----------------------------------------------------------------------------
(* Facts of one listing.                                                   *)

LEMMA TrustedGrows ==
  ASSUME NEW l \in Listing, NEW R, facts' = facts \cup R
  PROVE  /\ Trusted(l) \subseteq Trusted(l)'
         /\ \A r : TrustedOf(l, r) \subseteq TrustedOf(l, r)'
         /\ (\A x \in R : x.listing # l) =>
              Trusted(l)' = Trusted(l) /\ \A r : TrustedOf(l, r)' = TrustedOf(l, r)
  BY DEF Trusted, TrustedOf

\* A write of facts R of identity r at time t that leaves the listing at rev:
\* a switch comes with its fact, and evidence that does not switch is older
\* than the current identity.
Appended(l, r, t, rev, R) ==
  /\ rev \in {r, currentRevision[l]}
  /\ R \subseteq Observation
  /\ facts' = facts \cup R
  /\ \A x \in R : x.listing = l /\ x.revision = r /\ x.time = t
  /\ currentRevision' = [currentRevision EXCEPT ![l] = rev]
  /\ revisionQuality' = WithRevision(l, r, "ACCEPTED")
  /\ StoredQuality(l, r, "ACCEPTED") = "ACCEPTED"
  /\ rev = r /\ rev # currentRevision[l] =>
       /\ Switches(l, r, t)
       /\ \E h \in facts' : /\ h.listing = l /\ h.quality = "ACCEPTED"
                           /\ h.revision = r /\ h.time = t
  /\ (\E x \in R : x.quality = "ACCEPTED") /\ rev # r =>
       rev # None /\ \E h \in TrustedOf(l, rev) : h.time > t

LEMMA NewestKept ==
  ASSUME TypeOK, ListingAssumption, CurrentRevisionNewest, CurrentRevisionHasFact,
         NEW l \in Listing, NEW r \in Fingerprint, NEW t \in Time, NEW rev, NEW R,
         Appended(l, r, t, rev, R)
  PROVE  CurrentRevisionNewest' /\ CurrentRevisionHasFact'
<1>. USE DEF Appended
<1>1. revisionQuality'[l][r] = "ACCEPTED"
  BY DEF WithRevision, TypeOK
<1>2. \A k \in Listing, s \in Fingerprint :
        revisionQuality[k][s] = "ACCEPTED" => revisionQuality'[k][s] = "ACCEPTED"
  BY DEF WithRevision, StoredQuality, TypeOK
<1>3. CurrentRevisionHasFact'
  <2>. SUFFICES ASSUME NEW k \in Listing, currentRevision'[k] # None
                PROVE  /\ revisionQuality'[k][currentRevision'[k]] = "ACCEPTED"
                       /\ TrustedOf(k, currentRevision[k])' # {}
    BY DEF CurrentRevisionHasFact
  <2>1. CASE currentRevision'[k] = currentRevision[k]
    <3>1. currentRevision[k] \in Fingerprint
      BY <2>1 DEF TypeOK
    <3>2. \A c : TrustedOf(k, c) \subseteq TrustedOf(k, c)'
      BY TrustedGrows
    <3>. QED
      BY <1>2, <2>1, <3>1, <3>2 DEF CurrentRevisionHasFact, TrustedOf, Trusted
  <2>2. CASE currentRevision'[k] # currentRevision[k]
    <3>1. k = l /\ currentRevision'[k] = r /\ rev = r /\ rev # currentRevision[l]
      BY <2>2 DEF TypeOK
    <3>. QED
      BY <1>1, <3>1 DEF TrustedOf, Trusted
  <2>. QED
    BY <2>1, <2>2
<1>4. CurrentRevisionNewest'
  <2>. SUFFICES ASSUME NEW k \in Listing, NEW f \in Trusted(k)'
                PROVE  /\ currentRevision'[k] # None
                       /\ f.revision # currentRevision'[k] =>
                            \E h \in TrustedOf(k, currentRevision[k])' : h.time > f.time
    BY DEF CurrentRevisionNewest
  <2>1. CASE k # l
    <3>1. f \in Trusted(k) /\ currentRevision'[k] = currentRevision[k]
      BY <2>1 DEF Trusted, TypeOK
    <3>2. \A c : TrustedOf(k, c) \subseteq TrustedOf(k, c)'
      BY TrustedGrows
    <3>. QED
      BY <3>1, <3>2 DEF CurrentRevisionNewest, TrustedOf, Trusted
  <2>2. CASE k = l /\ rev = currentRevision[l]
    <3>1. currentRevision'[k] = rev
      BY <2>2 DEF TypeOK
    <3>2. TrustedOf(l, rev) \subseteq TrustedOf(l, rev)'
      BY TrustedGrows
    <3>3. CASE f \in facts
      <4>1. f \in Trusted(l)
        BY <2>2, <3>3 DEF Trusted
      <4>. QED
        BY <2>2, <3>1, <3>2, <4>1 DEF CurrentRevisionNewest, TrustedOf, Trusted
    <3>4. CASE f \notin facts
      <4>1. f \in R /\ f.quality = "ACCEPTED" /\ f.revision = r /\ f.time = t
        BY <3>4 DEF Trusted
      <4>. QED
        BY <2>2, <3>1, <3>2, <4>1 DEF ListingAssumption, TrustedOf, Trusted
    <3>. QED
      BY <3>3, <3>4
  <2>3. CASE k = l /\ rev # currentRevision[l]
    <3>1. currentRevision'[k] = r /\ rev = r /\ r # None
      BY <2>3 DEF TypeOK, ListingAssumption
    <3>2. PICK h \in TrustedOf(l, r)' : h.time = t
      BY <2>3, <3>1 DEF TrustedOf, Trusted
    <3>3. ASSUME f.revision # r
          PROVE  h.time > f.time
      <4>1. f \in Trusted(l)
        BY <2>3, <3>3 DEF Trusted
      <4>2. currentRevision[l] # None
        BY <4>1 DEF CurrentRevisionNewest
      <4>3. \A x \in TrustedOf(l, currentRevision[l]) : x.time < t
        BY <2>3, <3>1, <4>2 DEF Switches
      <4>4. CASE f.revision = currentRevision[l]
        BY <3>2, <4>1, <4>3, <4>4 DEF TrustedOf, Trusted, TypeOK, Observation, Time
      <4>5. CASE f.revision # currentRevision[l]
        <5>1. PICK x \in TrustedOf(l, currentRevision[l]) : x.time > f.time
          BY <4>1, <4>5 DEF CurrentRevisionNewest
        <5>2. x.time < t /\ x.time \in Int /\ f.time \in Int /\ t \in Int
          BY <4>1, <4>3, <5>1 DEF TrustedOf, Trusted, TypeOK, Observation, Time
        <5>. QED
          BY <3>2, <5>1, <5>2
      <4>. QED
        BY <4>4, <4>5
    <3>. QED
      BY <2>3, <3>1, <3>2, <3>3 DEF TrustedOf, Trusted
  <2>. QED
    BY <2>1, <2>2, <2>3
<1>. QED
  BY <1>3, <1>4

-----------------------------------------------------------------------------
(* A committed row, of a device or of a data set.                          *)

NewRows(l, r, t, o, rel, sup) ==
  {RowFact(l, r, g, t, o[g], rel, sup[g]) :
     g \in {d \in Offered(o) : ~ Recorded(RowFact(l, r, d, t, o[d], rel, sup[d]))}}

RowWritten(l, r, t, o, rel, sup) ==
  /\ writes < MaxWrites
  /\ WriteRow(l, r, t, o, rel, sup)
  /\ \A g \in Region :
       /\ sup[g] # 0 =>
            /\ l \in Dataset /\ g \in AcceptedIn(o)
            /\ Resolves(l, r, g, t, o[g].value, sup[g])
       /\ l \notin Dataset /\ g \in AcceptedIn(o) =>
            SameTimeConsistent(RowFact(l, r, g, t, o[g], rel, sup[g]))

LEMMA NewRowsShape ==
  ASSUME TypeOK, BoundAssumption,
         NEW l \in Listing, NEW r \in Fingerprint, NEW t \in Time,
         NEW o \in Offers(l), NEW rel \in Release, NEW sup \in [Region -> Nat],
         NEW x \in NewRows(l, r, t, o, rel, sup)
  PROVE  /\ x \in Observation
         /\ x.listing = l /\ x.revision = r /\ x.time = t /\ x.id = writes + 1
         /\ x.region \in Offered(o) /\ x.region \in RegionsOf[l]
         /\ x.supersedes = sup[x.region]
         /\ x = RowFact(l, r, x.region, t, o[x.region], rel, sup[x.region])
         /\ ~ Recorded(x)
         /\ x.quality = "ACCEPTED" <=> x.region \in AcceptedIn(o)
<1>1. PICK g \in Offered(o) : /\ x = RowFact(l, r, g, t, o[g], rel, sup[g])
                              /\ ~ Recorded(x)
  BY DEF NewRows
<1>2. g \in Region /\ g \in RegionsOf[l] /\ o[g].quality \in Quality
  BY CandidateShape DEF Offered, Offers
<1>3. x \in Observation
  BY <1>1, <1>2, RowFactType
<1>4. x.region = g /\ x.quality = o[g].quality /\ x.supersedes = sup[g]
  BY <1>1 DEF RowFact
<1>. QED
  BY <1>1, <1>2, <1>3, <1>4 DEF RowFact, AcceptedIn

LEMMA RowWrittenEffect ==
  ASSUME TypeOK, BoundAssumption,
         NEW l \in Listing, NEW r \in Fingerprint, NEW t \in Time,
         NEW o \in Offers(l), NEW rel \in Release, NEW sup \in [Region -> Nat],
         RowWritten(l, r, t, o, rel, sup)
  PROVE  /\ facts' = facts \cup NewRows(l, r, t, o, rel, sup)
         /\ currentRevision' = [currentRevision EXCEPT ![l] = RevisionAfter(l, r, t, o)]
         /\ \A k \in Listing : k # l => current'[k] = current[k]
         /\ \A g \in Region : LET base == QuotesKept(l, RevisionAfter(l, r, t, o))[g]
              IN  \/ /\ current'[l][g] = base
                     /\ \A x \in NewRows(l, r, t, o, rel, sup) : x.region # g
                  \/ \E x \in NewRows(l, r, t, o, rel, sup) :
                       /\ x.region = g
                       /\ current'[l][g] = Projected(x, base, RevisionAfter(l, r, t, o))
<1>. DEFINE row(g) == RowFact(l, r, g, t, o[g], rel, sup[g])
            new == {g \in Offered(o) : ~ Recorded(row(g))}
            rev == RevisionAfter(l, r, t, o)
            kept == QuotesKept(l, rev)
<1>1. facts' = facts \cup {row(g) : g \in new}
  BY DEF RowWritten, WriteRow, InsertedFacts
<1>2. {row(g) : g \in new} = NewRows(l, r, t, o, rel, sup)
  BY DEF NewRows
<1>3. currentRevision' = [currentRevision EXCEPT ![l] = rev]
  BY DEF RowWritten, WriteRow
<1>4. current' = [current EXCEPT ![l] =
                    [g \in Region |-> IF g \in new THEN Projected(row(g), kept[g], rev)
                                                   ELSE kept[g]]]
  BY DEF RowWritten, WriteRow
<1>5. \A k \in Listing : k # l => current'[k] = current[k]
  BY <1>4 DEF TypeOK
<1>6. ASSUME NEW g \in Region
      PROVE  \/ /\ current'[l][g] = kept[g]
                /\ \A x \in NewRows(l, r, t, o, rel, sup) : x.region # g
             \/ \E x \in NewRows(l, r, t, o, rel, sup) :
                  /\ x.region = g
                  /\ current'[l][g] = Projected(x, kept[g], rev)
  <2>1. current'[l][g] = IF g \in new THEN Projected(row(g), kept[g], rev) ELSE kept[g]
    BY <1>4 DEF TypeOK
  <2>2. \A d : row(d).region = d
    BY DEF RowFact
  <2>. HIDE DEF row, kept, rev
  <2>3. CASE g \in new
    BY <1>2, <2>1, <2>2, <2>3
  <2>4. CASE g \notin new
    BY <1>2, <2>1, <2>2, <2>4
  <2>. QED
    BY <2>3, <2>4
<1>. QED
  BY <1>1, <1>2, <1>3, <1>5, <1>6

LEMMA RowFactsBounded ==
  ASSUME TypeOK, BoundAssumption, FactsBounded,
         NEW l \in Listing, NEW r \in Fingerprint, NEW t \in Time,
         NEW o \in Offers(l), NEW rel \in Release, NEW sup \in [Region -> Nat],
         RowWritten(l, r, t, o, rel, sup)
  PROVE  FactsBounded'
<1>1. facts' = facts \cup NewRows(l, r, t, o, rel, sup)
  BY RowWrittenEffect
<1>2. /\ lastSeen' = [lastSeen EXCEPT ![l] = SeenAfter(l, t, AcceptedIn(o) # {})]
      /\ writes' \in {writes, writes + 1}
  BY DEF RowWritten, WriteRow
<1>3. ASSUME NEW x \in NewRows(l, r, t, o, rel, sup)
      PROVE  /\ x.id <= writes'
             /\ x.region \in RegionsOf[x.listing]
             /\ x.quality = "ACCEPTED" => x.time <= lastSeen'[x.listing]
  <2>1. writes' = writes + 1
    BY <1>3 DEF RowWritten, WriteRow, NewRows
  <2>2. /\ x.listing = l /\ x.time = t /\ x.id = writes + 1 /\ x.region \in RegionsOf[l]
        /\ x.quality = "ACCEPTED" => AcceptedIn(o) # {}
    BY NewRowsShape
  <2>3. AcceptedIn(o) # {} => t <= lastSeen'[l]
    BY <1>2 DEF SeenAfter, TypeOK, Time, BoundAssumption
  <2>. QED
    BY <2>1, <2>2, <2>3 DEF TypeOK, BoundAssumption
<1>4. ASSUME NEW x \in facts
      PROVE  /\ x.id <= writes'
             /\ x.region \in RegionsOf[x.listing]
             /\ x.quality = "ACCEPTED" => x.time <= lastSeen'[x.listing]
  <2>1. x \in Observation /\ x.listing \in Listing /\ x.id \in Nat /\ x.time \in Int
    BY DEF TypeOK, Observation, Time
  <2>2. lastSeen'[x.listing] >= lastSeen[x.listing]
    BY <1>2, <2>1 DEF SeenAfter, TypeOK, Time, BoundAssumption
  <2>3. lastSeen'[x.listing] \in Int /\ lastSeen[x.listing] \in Int
    BY <1>2, <2>1 DEF SeenAfter, TypeOK, Time, BoundAssumption
  <2>. QED
    BY <1>2, <2>1, <2>2, <2>3 DEF FactsBounded, TypeOK
<1>. QED
  BY <1>1, <1>3, <1>4 DEF FactsBounded

LEMMA RowCorrections ==
  ASSUME TypeOK, BoundAssumption, FactsBounded, CorrectionsWellFormed,
         NEW l \in Listing, NEW r \in Fingerprint, NEW t \in Time,
         NEW o \in Offers(l), NEW rel \in Release, NEW sup \in [Region -> Nat],
         RowWritten(l, r, t, o, rel, sup)
  PROVE  CorrectionsWellFormed'
<1>1. facts' = facts \cup NewRows(l, r, t, o, rel, sup)
  BY RowWrittenEffect
<1>2. \A k, c, g, w : SameTime(k, c, g, w) \subseteq SameTime(k, c, g, w)'
  BY <1>1, TrustedGrows DEF SameTime, TrustedOf, Trusted
<1>3. ASSUME NEW x \in NewRows(l, r, t, o, rel, sup), x.supersedes # 0
      PROVE  /\ x.listing \in Dataset
             /\ x.quality = "ACCEPTED"
             /\ \E p \in SameTime(x.listing, x.revision, x.region, x.time) :
                  p.id = x.supersedes /\ p.id < x.id
  <2>. DEFINE g == x.region
              prior == SameTime(l, r, g, t)
              equal == {p \in prior : p.value = o[g].value}
              active == {p \in prior : \A h \in prior : h.supersedes # p.id}
  <2>1. /\ x.listing = l /\ x.revision = r /\ x.time = t /\ x.id = writes + 1
        /\ x.supersedes = sup[g] /\ g \in Region
        /\ x.quality = "ACCEPTED" <=> g \in AcceptedIn(o)
    BY NewRowsShape DEF Offered
  <2>2. l \in Dataset /\ g \in AcceptedIn(o) /\ Resolves(l, r, g, t, o[g].value, sup[g])
    BY <1>3, <2>1 DEF RowWritten
  <2>3. \A p \in prior : p \in facts /\ p.id <= writes /\ p.id \in Nat /\ p.supersedes \in Nat
    BY DEF SameTime, TrustedOf, Trusted, FactsBounded, TypeOK, Observation
  <2>4. CASE \E p \in equal : sup[g] = p.supersedes
    <3>1. PICK p \in equal : sup[g] = p.supersedes
      BY <2>4
    <3>2. /\ p \in facts /\ p.listing = l /\ p.revision = r /\ p.region = g /\ p.time = t
          /\ p.id \in Nat /\ p.id <= writes
      BY <2>3 DEF SameTime, TrustedOf, Trusted
    <3>3. PICK y \in SameTime(l, r, g, t) : y.id = p.supersedes /\ y.id < p.id
      BY <1>3, <2>1, <3>1, <3>2 DEF CorrectionsWellFormed
    <3>4. y.id < writes + 1
      BY <2>3, <3>2, <3>3 DEF TypeOK
    <3>. QED
      BY <2>1, <2>2, <3>1, <3>3, <3>4
  <2>5. CASE \E p \in prior : sup[g] = p.id
    <3>1. PICK p \in prior : sup[g] = p.id
      BY <2>5
    <3>2. p.id < writes + 1
      BY <2>3 DEF TypeOK
    <3>. QED
      BY <2>1, <2>2, <3>1, <3>2
  <2>6. sup[g] # 0
    BY <1>3, <2>1
  <2>. QED
    BY <2>2, <2>4, <2>5, <2>6 DEF Resolves
<1>. QED
  BY <1>1, <1>2, <1>3 DEF CorrectionsWellFormed

LEMMA RowPointers ==
  ASSUME TypeOK, BoundAssumption, CurrentPointsToTrustedFact,
         NEW l \in Listing, NEW r \in Fingerprint, NEW t \in Time,
         NEW o \in Offers(l), NEW rel \in Release, NEW sup \in [Region -> Nat],
         RowWritten(l, r, t, o, rel, sup)
  PROVE  CurrentPointsToTrustedFact'
<1>. DEFINE rev == RevisionAfter(l, r, t, o)
            R == NewRows(l, r, t, o, rel, sup)
<1>1. /\ facts' = facts \cup R
      /\ currentRevision' = [currentRevision EXCEPT ![l] = rev]
      /\ \A k \in Listing : k # l => current'[k] = current[k]
      /\ \A g \in Region : \/ current'[l][g] = QuotesKept(l, rev)[g]
                           \/ \E x \in R : /\ x.region = g
                                           /\ current'[l][g] = Projected(x, QuotesKept(l, rev)[g], rev)
  BY RowWrittenEffect
<1>2. \A k \in Listing : Trusted(k) \subseteq Trusted(k)'
  BY <1>1, TrustedGrows
<1>. SUFFICES ASSUME NEW k \in Listing, NEW g \in Region, current'[k][g] # NoQuote
              PROVE  /\ current'[k][g].revision = currentRevision'[k]
                     /\ \E f \in Trusted(k)' : f.region = g /\ QuoteOf(f) = current'[k][g]
  BY DEF CurrentPointsToTrustedFact, QuoteOf, NoQuote
<1>3. CASE k # l
  BY <1>1, <1>2, <1>3 DEF CurrentPointsToTrustedFact, TypeOK
<1>4. CASE k = l /\ current'[l][g] = QuotesKept(l, rev)[g]
  BY <1>1, <1>2, <1>4 DEF CurrentPointsToTrustedFact, QuotesKept, TypeOK
<1>5. CASE k = l /\ current'[l][g] # QuotesKept(l, rev)[g]
  <2>1. PICK x \in R : x.region = g /\ current'[l][g] = Projected(x, QuotesKept(l, rev)[g], rev)
    BY <1>1, <1>5
  <2>2. current'[l][g] = QuoteOf(x) /\ x.quality = "ACCEPTED" /\ x.revision = rev
    BY <1>5, <2>1 DEF Projected
  <2>3. x.listing = l
    BY NewRowsShape
  <2>4. x \in Trusted(l)'
    BY <1>1, <2>2, <2>3 DEF Trusted
  <2>. QED
    BY <1>1, <1>5, <2>1, <2>2, <2>4 DEF QuoteOf, TypeOK
<1>. QED
  BY <1>3, <1>4, <1>5

LEMMA RowDeviceUnique ==
  ASSUME TypeOK, BoundAssumption, DeviceRegionAssumption, FactsBounded, DeviceFactsUnique,
         NEW l \in Listing, NEW r \in Fingerprint, NEW t \in Time,
         NEW o \in Offers(l), NEW rel \in Release, NEW sup \in [Region -> Nat],
         RowWritten(l, r, t, o, rel, sup)
  PROVE  DeviceFactsUnique'
<1>. DEFINE R == NewRows(l, r, t, o, rel, sup)
<1>1. facts' = facts \cup R
  BY RowWrittenEffect
<1>2. \A x \in R : /\ x.listing = l /\ x.time = t /\ ~ Recorded(x)
                   /\ x.region \in Offered(o) /\ x.region \in RegionsOf[l]
                   /\ x = RowFact(l, r, x.region, t, o[x.region], rel, sup[x.region])
                   /\ x.quality = "ACCEPTED" <=> x.region \in AcceptedIn(o)
  BY NewRowsShape
<1>. SUFFICES ASSUME NEW k \in Listing \ Dataset, NEW f \in Trusted(k)', NEW h \in Trusted(k)',
                     f.region = h.region, f.time = h.time
              PROVE  f = h
  BY DEF DeviceFactsUnique
\* A new accepted fact meets no earlier one of its region and time.
<1>3. ASSUME NEW x \in R, NEW y \in Trusted(k), k = l, x.quality = "ACCEPTED",
             x.region = y.region, x.time = y.time
      PROVE  FALSE
  <2>1. x.region \in AcceptedIn(o) /\ x.region \in Region
    BY <1>2, <1>3 DEF AcceptedIn
  <2>2. SameTimeConsistent(x)
    BY <1>2, <1>3, <2>1 DEF RowWritten
  <2>3. y \in Trusted(x.listing) /\ y.region = x.region /\ y.time = x.time
    BY <1>2, <1>3
  <2>4. SameKey(x, y)
    BY <2>2, <2>3 DEF SameTimeConsistent
  <2>. QED
    BY <1>2, <2>4 DEF Recorded, Trusted
<1>4. CASE f \in Trusted(k) /\ h \in Trusted(k)
  BY <1>4 DEF DeviceFactsUnique
<1>5. CASE f \notin Trusted(k) /\ h \in Trusted(k)
  <2>1. f \in R /\ k = l /\ f.quality = "ACCEPTED"
    BY <1>1, <1>2, <1>5 DEF Trusted
  <2>. QED
    BY <1>3, <1>5, <2>1
<1>6. CASE f \in Trusted(k) /\ h \notin Trusted(k)
  <2>1. h \in R /\ k = l /\ h.quality = "ACCEPTED"
    BY <1>1, <1>2, <1>6 DEF Trusted
  <2>. QED
    BY <1>3, <1>6, <2>1
<1>7. CASE f \notin Trusted(k) /\ h \notin Trusted(k)
  BY <1>1, <1>2, <1>7 DEF Trusted
<1>. QED
  BY <1>4, <1>5, <1>6, <1>7

\* The trusted time of a row that sets a new revision is unheard of.
LEMMA SwitchIsNews ==
  ASSUME TypeOK, CurrentRevisionNewest,
         NEW l \in Listing, NEW r \in Fingerprint, NEW t \in Time,
         Switches(l, r, t)
  PROVE  \A f \in Trusted(l) : f.time < t
<1>. SUFFICES ASSUME NEW f \in Trusted(l) PROVE f.time < t
  OBVIOUS
<1>1. currentRevision[l] # None
  BY DEF CurrentRevisionNewest
<1>2. \A x \in TrustedOf(l, currentRevision[l]) : x.time < t /\ x.time \in Int
  BY <1>1 DEF Switches, TrustedOf, Trusted, TypeOK, Observation, Time
<1>3. f.time \in Int /\ t \in Int
  BY DEF Trusted, TypeOK, Observation, Time
<1>4. CASE f.revision = currentRevision[l]
  BY <1>2, <1>4 DEF TrustedOf
<1>5. CASE f.revision # currentRevision[l]
  <2>1. PICK x \in TrustedOf(l, currentRevision[l]) : x.time > f.time
    BY <1>5 DEF CurrentRevisionNewest
  <2>. QED
    BY <1>2, <1>3, <2>1
<1>. QED
  BY <1>4, <1>5

LEMMA RowDeviceProjection ==
  ASSUME TypeOK, BoundAssumption, DeviceRegionAssumption, FactsBounded,
         CurrentRevisionNewest, CurrentPointsToTrustedFact, DeviceProjectionExact,
         NEW l \in Listing, NEW r \in Fingerprint, NEW t \in Time,
         NEW o \in Offers(l), NEW rel \in Release, NEW sup \in [Region -> Nat],
         RowWritten(l, r, t, o, rel, sup)
  PROVE  DeviceProjectionExact'
<1>. DEFINE rev == RevisionAfter(l, r, t, o)
            R == NewRows(l, r, t, o, rel, sup)
            base == QuotesKept(l, rev)
<1>1. /\ facts' = facts \cup R
      /\ currentRevision' = [currentRevision EXCEPT ![l] = rev]
      /\ \A k \in Listing : k # l => current'[k] = current[k]
      /\ \A g \in Region :
           \/ current'[l][g] = base[g] /\ \A x \in R : x.region # g
           \/ \E x \in R : x.region = g /\ current'[l][g] = Projected(x, base[g], rev)
  BY RowWrittenEffect
<1>2. \A x \in R : /\ x \in Observation /\ x.listing = l /\ x.revision = r /\ x.time = t
                   /\ x.region \in Offered(o) /\ x.region \in RegionsOf[l]
                   /\ x.quality = "ACCEPTED" <=> x.region \in AcceptedIn(o)
  BY NewRowsShape
<1>. SUFFICES ASSUME NEW k \in Listing \ Dataset, NEW f \in TrustedOf(k, currentRevision[k])'
              PROVE  /\ current'[k][f.region] # NoQuote
                     /\ f.time <= current'[k][f.region].time
  BY DEF DeviceProjectionExact
<1>. DEFINE g == f.region
<1>a. /\ f.listing = k /\ f.quality = "ACCEPTED" /\ f.revision = currentRevision'[k]
      /\ f \in facts'
  BY DEF TrustedOf, Trusted
<1>b. f \in Observation /\ g \in Region /\ f.time \in Nat /\ f.time > 0 /\ t \in Nat /\ t > 0
  BY <1>1, <1>2, <1>a DEF TypeOK, Observation, Time
<1>c. \A d \in Region : base[d].time \in Nat /\ base[d] \in Quote \cup {NoQuote}
  BY DEF QuotesKept, TypeOK, Quote, NoQuote, Time
<1>3. CASE k # l
  <2>1. f \in TrustedOf(k, currentRevision[k])
    BY <1>1, <1>2, <1>3, <1>a DEF TrustedOf, Trusted, TypeOK
  <2>. QED
    BY <1>1, <1>3, <2>1 DEF DeviceProjectionExact
<1>4. CASE k = l /\ rev = currentRevision[l]
  <2>1. base = current[l]
    BY <1>4 DEF QuotesKept
  <2>2. f.revision = rev
    BY <1>1, <1>4, <1>a DEF TypeOK
  <2>3. ASSUME NEW x \in R, x.region = g, f = x \/ f \in facts,
               current'[l][g] = Projected(x, base[g], rev)
        PROVE  current'[l][g] # NoQuote /\ f.time <= current'[l][g].time
    <3>1. QuoteOf(x).time = t /\ QuoteOf(x) # NoQuote /\ x.time = t
      BY <1>2, <1>b DEF QuoteOf, NoQuote
    <3>2. f \in facts => base[g] # NoQuote /\ f.time <= base[g].time
      BY <1>4, <1>a, <2>1, <2>2 DEF DeviceProjectionExact, TrustedOf, Trusted
    <3>3. CASE current'[l][g] = base[g]
      <4>1. f = x => \/ base[g] = QuoteOf(x)
                     \/ base[g] # NoQuote /\ ~ Advances(x, base[g])
        BY <1>a, <2>2, <2>3, <3>3 DEF Projected
      <4>2. f = x => base[g] # NoQuote /\ f.time <= base[g].time
        BY <1>b, <1>c, <3>1, <4>1 DEF Advances
      <4>. QED
        BY <2>3, <3>2, <3>3, <4>2
    <3>4. CASE current'[l][g] # base[g]
      <4>1. /\ current'[l][g] = QuoteOf(x)
            /\ base[g] = NoQuote \/ Advances(x, base[g])
        BY <2>3, <3>4 DEF Projected
      <4>2. f \in facts => f.time <= t
        BY <1>b, <1>c, <3>1, <3>2, <4>1 DEF Advances, NoQuote
      <4>. QED
        BY <1>b, <2>3, <3>1, <4>1, <4>2
    <3>. QED
      BY <3>3, <3>4
  <2>4. CASE f \in facts
    <3>1. base[g] # NoQuote /\ f.time <= base[g].time
      BY <1>4, <1>a, <2>1, <2>2, <2>4 DEF DeviceProjectionExact, TrustedOf, Trusted
    <3>. QED
      BY <1>1, <1>4, <1>b, <2>3, <2>4, <3>1
  <2>5. CASE f \notin facts
    <3>1. f \in R
      BY <1>1, <1>a, <2>5
    <3>2. PICK x \in R : x.region = g /\ current'[l][g] = Projected(x, base[g], rev)
      BY <1>1, <1>b, <3>1
    <3>3. \A y \in R : y.region = g => y = x
      BY <3>2, NewRowsShape
    <3>. QED
      BY <1>4, <2>3, <3>1, <3>2, <3>3
  <2>. QED
    BY <2>4, <2>5
<1>5. CASE k = l /\ rev # currentRevision[l]
  <2>1. rev = r /\ AcceptedIn(o) # {} /\ Switches(l, r, t)
    BY <1>5 DEF RevisionAfter
  <2>2. \A y \in Trusted(l) : y.time < t
    BY <2>1, SwitchIsNews
  <2>3. PICK d \in Region : RegionsOf[l] = {d}
    BY <1>5 DEF DeviceRegionAssumption
  <2>4. PICK e \in Region : e \in AcceptedIn(o)
    BY <2>1 DEF AcceptedIn
  <2>5. e \in Offered(o) /\ e = d /\ o[e].quality = "ACCEPTED"
    BY <2>3, <2>4 DEF AcceptedIn, Offered, Offers, NoCandidate
  <2>6. g = d
    BY <1>1, <1>2, <1>5, <1>a, <2>3 DEF FactsBounded
  <2>. DEFINE x == RowFact(l, r, d, t, o[d], rel, sup[d])
  <2>7. x.listing = l /\ x.region = d /\ x.time = t /\ x.quality = "ACCEPTED"
    BY <2>5 DEF RowFact
  <2>8. ~ Recorded(x)
    <3>1. SUFFICES ASSUME NEW y \in facts, SameKey(x, y) PROVE FALSE
      BY DEF Recorded
    <3>2. y \in Trusted(l) /\ y.time = t
      BY <2>7, <3>1 DEF SameKey, Trusted
    <3>. QED
      BY <1>b, <2>2, <3>2
  <2>9. x \in R
    BY <2>5, <2>8 DEF NewRows
  <2>10. PICK y \in R : y.region = g /\ current'[l][g] = Projected(y, base[g], rev)
    BY <1>1, <1>b, <2>6, <2>7, <2>9
  <2>11. base[g] = NoQuote
    BY <1>5, <1>b DEF QuotesKept
  <2>12. y.quality = "ACCEPTED" /\ y.revision = rev /\ y.time = t
    BY <1>2, <2>1, <2>4, <2>5, <2>6, <2>10
  <2>13. current'[l][g] = QuoteOf(y)
    BY <2>10, <2>11, <2>12 DEF Projected
  <2>14. f.time <= t
    BY <1>1, <1>2, <1>5, <1>a, <1>b, <2>2 DEF Trusted
  <2>. QED
    BY <1>5, <1>b, <2>12, <2>13, <2>14 DEF QuoteOf, NoQuote
<1>. QED
  BY <1>3, <1>4, <1>5

\* A row that switches the listing brings, or finds, the fact it switches on.
LEMMA SwitchHasFact ==
  ASSUME TypeOK, BoundAssumption,
         NEW l \in Listing, NEW r \in Fingerprint, NEW t \in Time,
         NEW o \in Offers(l), NEW rel \in Release, NEW sup \in [Region -> Nat],
         RowWritten(l, r, t, o, rel, sup),
         RevisionAfter(l, r, t, o) # currentRevision[l]
  PROVE  /\ RevisionAfter(l, r, t, o) = r
         /\ Switches(l, r, t)
         /\ \E h \in TrustedOf(l, r)' : h.time = t
<1>1. RevisionAfter(l, r, t, o) = r /\ Switches(l, r, t) /\ AcceptedIn(o) # {}
  BY DEF RevisionAfter
<1>2. PICK g \in Region : o[g].quality = "ACCEPTED"
  BY <1>1 DEF AcceptedIn
<1>3. g \in Offered(o)
  BY <1>2 DEF Offered, NoCandidate
<1>. DEFINE x == RowFact(l, r, g, t, o[g], rel, sup[g])
<1>4. x.listing = l /\ x.revision = r /\ x.time = t /\ x.quality = "ACCEPTED"
  BY <1>2 DEF RowFact
<1>5. facts' = facts \cup NewRows(l, r, t, o, rel, sup)
  BY RowWrittenEffect
<1>6. CASE Recorded(x)
  <2>1. PICK h \in facts : SameKey(x, h)
    BY <1>6 DEF Recorded
  <2>2. h \in TrustedOf(l, r)' /\ h.time = t
    BY <1>4, <1>5, <2>1 DEF SameKey, TrustedOf, Trusted
  <2>. QED
    BY <1>1, <2>2
<1>7. CASE ~ Recorded(x)
  <2>1. x \in NewRows(l, r, t, o, rel, sup)
    BY <1>3, <1>7 DEF NewRows
  <2>2. x \in TrustedOf(l, r)'
    BY <1>4, <1>5, <2>1 DEF TrustedOf, Trusted
  <2>. QED
    BY <1>1, <1>4, <2>2
<1>. QED
  BY <1>6, <1>7

LEMMA RowNewest ==
  ASSUME TypeOK, ListingAssumption, BoundAssumption,
         CurrentRevisionNewest, CurrentRevisionHasFact,
         NEW l \in Listing, NEW r \in Fingerprint, NEW t \in Time,
         NEW o \in Offers(l), NEW rel \in Release, NEW sup \in [Region -> Nat],
         RowWritten(l, r, t, o, rel, sup)
  PROVE  CurrentRevisionNewest' /\ CurrentRevisionHasFact'
<1>. DEFINE rev == RevisionAfter(l, r, t, o)
            R == NewRows(l, r, t, o, rel, sup)
<1>1. facts' = facts \cup R /\ currentRevision' = [currentRevision EXCEPT ![l] = rev]
  BY RowWrittenEffect
<1>2. /\ R \in SUBSET Observation
      /\ \A x \in R : /\ x.listing = l /\ x.revision = r /\ x.time = t
                      /\ x.quality = "ACCEPTED" <=> x.region \in AcceptedIn(o)
  BY NewRowsShape
<1>3. /\ revisionQuality' = WithRevision(l, r, "ACCEPTED")
      /\ StoredQuality(l, r, "ACCEPTED") = "ACCEPTED"
      /\ AcceptedIn(o) # {} => ~ SharesTrustedTime(l, r, t)
  BY DEF RowWritten, WriteRow
<1>4. rev \in {r, currentRevision[l]}
  BY DEF RevisionAfter
<1>5. ASSUME rev # currentRevision[l]
      PROVE  Switches(l, r, t) /\ \E h \in TrustedOf(l, r)' : h.time = t
  BY <1>5, SwitchHasFact
<1>6. ASSUME NEW x \in R, x.quality = "ACCEPTED", rev # r
      PROVE  rev # None /\ \E h \in TrustedOf(l, rev) : h.time > t
  <2>1. AcceptedIn(o) # {}
    BY <1>2, <1>6
  <2>2. rev = currentRevision[l] /\ ~ Switches(l, r, t) /\ rev # r
    BY <1>6, <2>1 DEF RevisionAfter
  <2>3. rev # None /\ \E f \in TrustedOf(l, rev) : ~ (f.time < t)
    BY <2>2 DEF Switches
  <2>4. \A f \in TrustedOf(l, rev) : f.time \in Int
    BY DEF TrustedOf, Trusted, TypeOK, Observation, Time
  <2>5. t \in Int
    BY DEF Time
  <2>6. \/ ~ \E f \in TrustedOf(l, rev) : f.time = t
        \/ ~ \A f \in TrustedOf(l, rev) : f.time <= t
    BY <1>3, <2>1, <2>2, <2>3 DEF SharesTrustedTime
  <2>. QED
    BY <2>3, <2>4, <2>5, <2>6
<1>7. rev = r /\ rev # currentRevision[l] =>
        /\ Switches(l, r, t)
        /\ \E h \in facts' : /\ h.listing = l /\ h.quality = "ACCEPTED"
                            /\ h.revision = r /\ h.time = t
  BY <1>5 DEF TrustedOf, Trusted
<1>8. (\E x \in R : x.quality = "ACCEPTED") /\ rev # r =>
        rev # None /\ \E h \in TrustedOf(l, rev) : h.time > t
  BY <1>6
<1>. HIDE DEF rev, R
<1>9. Appended(l, r, t, rev, R)
  BY <1>1, <1>2, <1>3, <1>4, <1>7, <1>8 DEF Appended
<1>. QED
  BY <1>9, NewestKept

LEMMA RowKeepsInv ==
  ASSUME ListingAssumption, DeviceRegionAssumption, BoundAssumption, LedgerInv,
         NEW l \in Listing, NEW r \in Fingerprint, NEW t \in Time,
         NEW o \in Offers(l), NEW rel \in Release, NEW sup \in [Region -> Nat],
         RowWritten(l, r, t, o, rel, sup)
  PROVE  LedgerInv'
<1>1. TypeOK'
  BY WriteRowType DEF RowWritten, LedgerInv
<1>2. FactsBounded' /\ CorrectionsWellFormed' /\ CurrentPointsToTrustedFact'
  BY RowFactsBounded, RowCorrections, RowPointers DEF LedgerInv
<1>3. CurrentRevisionNewest' /\ CurrentRevisionHasFact'
  BY RowNewest DEF LedgerInv
<1>4. DeviceFactsUnique' /\ DeviceProjectionExact'
  BY RowDeviceUnique, RowDeviceProjection DEF LedgerInv
<1>. QED
  BY <1>1, <1>2, <1>3, <1>4 DEF LedgerInv

-----------------------------------------------------------------------------
(* The other transactions.                                                 *)

LEMMA IdentityKeepsInv ==
  ASSUME BoundAssumption, ListingAssumption, LedgerInv,
         NEW l \in Listing, NEW r \in Fingerprint, NEW q \in Quality, NEW t \in Time,
         RecordIdentity(l, r, q, t)
  PROVE  LedgerInv'
<1>1. TypeOK'
  BY RecordIdentityType DEF LedgerInv
<1>2. UNCHANGED <<currentRevision, facts, current, writes>>
  BY DEF RecordIdentity
<1>3. (\A k : Trusted(k)' = Trusted(k)) /\ (\A k, c : TrustedOf(k, c)' = TrustedOf(k, c))
  BY <1>2 DEF Trusted, TrustedOf
<1>4. CurrentRevisionHasFact'
  <2>1. \A k \in Listing, c \in Fingerprint :
          revisionQuality[k][c] = "ACCEPTED" => revisionQuality'[k][c] = "ACCEPTED"
    BY DEF RecordIdentity, WithRevision, StoredQuality, LedgerInv, TypeOK
  <2>. QED
    BY <1>2, <1>3, <2>1 DEF CurrentRevisionHasFact, LedgerInv, TypeOK, TrustedOf
<1>5. FactsBounded'
  <2>1. \A k \in Listing : lastSeen'[k] >= lastSeen[k]
    BY DEF RecordIdentity, SeenAfter, LedgerInv, TypeOK, Time, BoundAssumption
  <2>2. \A k \in Listing : lastSeen'[k] \in Int /\ lastSeen[k] \in Int
    BY <1>1 DEF LedgerInv, TypeOK, BoundAssumption
  <2>3. \A f \in facts : f.listing \in Listing /\ f.time \in Int
    BY DEF LedgerInv, TypeOK, Observation, Time
  <2>. QED
    BY <1>2, <2>1, <2>2, <2>3 DEF FactsBounded, LedgerInv
<1>6. CorrectionsWellFormed' /\ DeviceFactsUnique'
  BY <1>2, <1>3 DEF CorrectionsWellFormed, DeviceFactsUnique, SameTime, LedgerInv
<1>7. CurrentPointsToTrustedFact'
  BY <1>2, <1>3 DEF CurrentPointsToTrustedFact, LedgerInv
<1>8. CurrentRevisionNewest' /\ DeviceProjectionExact'
  BY <1>2, <1>3 DEF CurrentRevisionNewest, DeviceProjectionExact, TrustedOf, LedgerInv
<1>. QED
  BY <1>1, <1>4, <1>5, <1>6, <1>7, <1>8 DEF LedgerInv

LEMMA RebuildKeepsInv ==
  ASSUME LedgerInv, NEW l \in Listing, RebuildCurrent(l)
  PROVE  LedgerInv'
<1>1. TypeOK'
  BY RebuildType DEF LedgerInv
<1>2. UNCHANGED <<revisionQuality, currentRevision, facts, lastSeen, writes>>
  BY DEF RebuildCurrent
<1>3. (\A k : Trusted(k)' = Trusted(k)) /\ (\A k, c : TrustedOf(k, c)' = TrustedOf(k, c))
  BY <1>2 DEF Trusted, TrustedOf
<1>4. PICK q \in [Region -> {NoQuote} \cup {QuoteOf(f) : f \in Trusted(l)}] :
        /\ \A g \in Region : Rebuilt(l, g, q[g])
        /\ current' = [current EXCEPT ![l] = q]
  BY DEF RebuildCurrent
<1>5. current'[l] = q /\ \A k \in Listing : k # l => current'[k] = current[k]
  BY <1>4 DEF LedgerInv, TypeOK
<1>6. FactsBounded' /\ CorrectionsWellFormed' /\ DeviceFactsUnique'
  BY <1>2, <1>3
     DEF FactsBounded, CorrectionsWellFormed, DeviceFactsUnique, SameTime, LedgerInv
<1>7. CurrentRevisionNewest' /\ CurrentRevisionHasFact'
  BY <1>2, <1>3 DEF CurrentRevisionNewest, CurrentRevisionHasFact, TrustedOf, LedgerInv
<1>8. CurrentPointsToTrustedFact'
  <2>1. ASSUME NEW g \in Region, q[g] # NoQuote
        PROVE  /\ q[g].revision = currentRevision[l]
               /\ \E f \in Trusted(l) : f.region = g /\ QuoteOf(f) = q[g]
    BY <1>4, <2>1 DEF Rebuilt, OpenFacts, TrustedOf, QuoteOf
  <2>. QED
    BY <1>2, <1>3, <1>5, <2>1 DEF CurrentPointsToTrustedFact, LedgerInv
<1>9. DeviceProjectionExact'
  <2>1. ASSUME l \in Listing \ Dataset, NEW f \in TrustedOf(l, currentRevision[l])
        PROVE  q[f.region] # NoQuote /\ f.time <= q[f.region].time
    <3>1. \A h \in facts : h.listing = l => h.supersedes = 0
      BY <2>1 DEF LedgerInv, CorrectionsWellFormed
    <3>2. f \in Observation /\ f.region \in Region /\ f.id # 0
      BY DEF TrustedOf, Trusted, LedgerInv, TypeOK, Observation
    <3>3. f \in OpenFacts(l, f.region)
      BY <3>1, <3>2 DEF OpenFacts, TrustedOf, Trusted
    <3>4. PICK h \in OpenFacts(l, f.region) : ~ Newer(f, h) /\ q[f.region] = QuoteOf(h)
      BY <1>4, <3>2, <3>3 DEF Rebuilt
    <3>5. h.time \in Nat /\ h.time > 0 /\ f.time \in Nat
      BY <3>2 DEF OpenFacts, TrustedOf, Trusted, LedgerInv, TypeOK, Observation, Time
    <3>. QED
      BY <3>4, <3>5 DEF Newer, QuoteOf, NoQuote
  <2>. QED
    BY <1>2, <1>3, <1>5, <2>1 DEF DeviceProjectionExact, LedgerInv, TrustedOf
<1>. QED
  BY <1>1, <1>6, <1>7, <1>8, <1>9 DEF LedgerInv

LEMMA AbsenceKeepsInv ==
  ASSUME BoundAssumption, ListingAssumption, LedgerInv,
         NEW l \in Listing, NEW t \in Time, NEW v \in Value, NEW rel \in Release,
         PersistProductAbsence(l, t, v, rel)
  PROVE  LedgerInv'
<1>. DEFINE c == currentRevision[l]
<1>0. TypeOK /\ c \in Fingerprint
  BY DEF LedgerInv, TypeOK, PersistProductAbsence
<1>1. PICK g \in RegionsOf[l] :
        LET f == RowFact(l, c, g, t, [value |-> v, quality |-> "ACCEPTED"], rel, 0)
        IN  /\ SameTimeConsistent(f)
            /\ ~ Recorded(f)
            /\ facts' = InsertedFacts({f})
            /\ current' = [current EXCEPT ![l][g] = Projected(f, @, f.revision)]
  BY DEF PersistProductAbsence
<1>2. PICK f : f = RowFact(l, c, g, t, [value |-> v, quality |-> "ACCEPTED"], rel, 0)
  OBVIOUS
<1>3. g \in Region
  BY DEF ListingAssumption
<1>4. /\ f.listing = l /\ f.revision = c /\ f.region = g /\ f.time = t
      /\ f.quality = "ACCEPTED" /\ f.supersedes = 0 /\ f.id = writes + 1
  BY <1>2 DEF RowFact
<1>5. /\ SameTimeConsistent(f) /\ ~ Recorded(f) /\ facts' = facts \cup {f}
      /\ current' = [current EXCEPT ![l][g] = Projected(f, @, c)]
  BY <1>1, <1>2, <1>4 DEF InsertedFacts
<1>6. /\ UNCHANGED <<revisionQuality, currentRevision>>
      /\ l \in Listing \ Dataset /\ t > lastSeen[l]
      /\ lastSeen' = [lastSeen EXCEPT ![l] = t] /\ writes' = writes + 1
  BY DEF PersistProductAbsence
<1>7. TypeOK'
  BY AbsenceType DEF LedgerInv
<1>8. FactsBounded'
  <2>1. \A k \in Listing : /\ lastSeen[k] \in Int /\ lastSeen'[k] \in Int
                           /\ lastSeen'[k] >= lastSeen[k]
    BY <1>0, <1>6, <1>7 DEF TypeOK, Time, BoundAssumption
  <2>2. \A x \in facts : x.listing \in Listing /\ x.time \in Int /\ x.id \in Int
    BY <1>0 DEF TypeOK, Observation, Time
  <2>3. f.id <= writes' /\ t <= lastSeen'[l]
    BY <1>0, <1>4, <1>6 DEF TypeOK, Time, BoundAssumption
  <2>4. ASSUME NEW x \in facts
        PROVE  /\ x.id <= writes'
               /\ x.region \in RegionsOf[x.listing]
               /\ x.quality = "ACCEPTED" => x.time <= lastSeen'[x.listing]
    BY <1>0, <1>6, <2>1, <2>2 DEF FactsBounded, LedgerInv, TypeOK
  <2>. QED
    BY <1>4, <1>5, <2>3, <2>4 DEF FactsBounded
<1>9. CorrectionsWellFormed'
  BY <1>4, <1>5 DEF CorrectionsWellFormed, SameTime, TrustedOf, Trusted, LedgerInv
<1>10. CurrentPointsToTrustedFact'
  <2>1. \A k \in Listing, d \in Region :
          \/ current'[k][d] = current[k][d]
          \/ k = l /\ d = g /\ current'[k][d] = QuoteOf(f)
    BY <1>0, <1>3, <1>5 DEF TypeOK, Projected
  <2>2. \A k \in Listing : Trusted(k) \subseteq Trusted(k)'
    BY <1>5, TrustedGrows
  <2>3. f \in Trusted(l)' /\ QuoteOf(f).revision = c
    BY <1>4, <1>5 DEF Trusted, QuoteOf
  <2>. QED
    BY <1>4, <1>6, <2>1, <2>2, <2>3 DEF CurrentPointsToTrustedFact, LedgerInv
<1>11. CurrentRevisionNewest' /\ CurrentRevisionHasFact'
  BY <1>0, <1>4, <1>5, <1>6, TrustedGrows
     DEF CurrentRevisionNewest, CurrentRevisionHasFact, TrustedOf, Trusted, LedgerInv, TypeOK
<1>12. DeviceFactsUnique'
  <2>1. \A h \in Trusted(l) : ~ (h.region = g /\ h.time = t)
    BY <1>4, <1>5 DEF SameTimeConsistent, Recorded, Trusted
  <2>. QED
    BY <1>4, <1>5, <2>1 DEF DeviceFactsUnique, Trusted, LedgerInv
<1>13. DeviceProjectionExact'
  <2>1. ASSUME NEW x \in facts, x.quality = "ACCEPTED", x.listing = l,
               x.revision = c, x.region = g
        PROVE  x.time < t
    <3>1. x.time <= lastSeen[l] /\ x.time \in Int
      BY <1>0, <2>1 DEF FactsBounded, LedgerInv, TypeOK, Observation, Time
    <3>. QED
      BY <1>0, <1>6, <3>1 DEF TypeOK, Time, BoundAssumption
  <2>2. current'[l][g] = QuoteOf(f)
    <3>1. CASE current[l][g] = NoQuote
      BY <1>0, <1>3, <1>4, <1>5, <3>1 DEF TypeOK, Projected
    <3>2. CASE current[l][g] # NoQuote
      <4>1. PICK h \in Trusted(l) : h.region = g /\ QuoteOf(h) = current[l][g]
        BY <1>3, <3>2 DEF CurrentPointsToTrustedFact, LedgerInv
      <4>2. h.revision = c
        BY <1>3, <3>2, <4>1 DEF CurrentPointsToTrustedFact, LedgerInv, QuoteOf
      <4>3. t > current[l][g].time
        BY <2>1, <4>1, <4>2, <1>0 DEF Trusted, QuoteOf, TypeOK, Observation, Time
      <4>. QED
        BY <1>0, <1>3, <1>4, <1>5, <4>3 DEF TypeOK, Projected, Advances
    <3>. QED
      BY <3>1, <3>2
  <2>3. \A k \in Listing, d \in Region : k # l \/ d # g => current'[k][d] = current[k][d]
    BY <1>0, <1>3, <1>5 DEF TypeOK
  <2>. SUFFICES ASSUME NEW k \in Listing \ Dataset, NEW x \in TrustedOf(k, currentRevision[k])'
                PROVE  /\ current'[k][x.region] # NoQuote
                       /\ x.time <= current'[k][x.region].time
    BY DEF DeviceProjectionExact
  <2>4. /\ x \in facts \cup {f} /\ x.listing = k /\ x.quality = "ACCEPTED"
        /\ x.revision = currentRevision[k]
    BY <1>5, <1>6 DEF TrustedOf, Trusted
  <2>5. x.region \in Region /\ x.time \in Int /\ t \in Nat /\ t > 0
    BY <1>0, <1>3, <1>4, <2>4 DEF TypeOK, Observation, Time
  <2>6. CASE k = l /\ x.region = g
    <3>1. x.time <= t
      BY <1>4, <2>1, <2>4, <2>5, <2>6
    <3>. QED
      BY <1>4, <2>2, <2>5, <2>6, <3>1 DEF QuoteOf, NoQuote
  <2>7. CASE k # l \/ x.region # g
    <3>1. x \in TrustedOf(k, currentRevision[k])
      BY <1>4, <2>4, <2>7 DEF TrustedOf, Trusted
    <3>. QED
      BY <2>3, <2>5, <2>7, <3>1 DEF DeviceProjectionExact, LedgerInv
  <2>. QED
    BY <2>6, <2>7
<1>. QED
  BY <1>7, <1>8, <1>9, <1>10, <1>11, <1>12, <1>13 DEF LedgerInv

-----------------------------------------------------------------------------
(* The invariant and what follows from it.                                 *)

LEMMA DeviceRowWritten ==
  ASSUME NEW l \in Listing, NEW r \in Fingerprint, NEW t \in Time,
         NEW o \in Offers(l), NEW rel \in Release, PersistDeviceRow(l, r, t, o, rel)
  PROVE  \E sup \in [Region -> Nat] : RowWritten(l, r, t, o, rel, sup)
<1>. DEFINE none == [g \in Region |-> 0]
<1>1. none \in [Region -> Nat] /\ \A g \in Region : none[g] = 0
  OBVIOUS
<1>2. l \notin Dataset /\ writes < MaxWrites /\ WriteRow(l, r, t, o, rel, none)
  BY DEF PersistDeviceRow
<1>3. \A g \in AcceptedIn(o) : SameTimeConsistent(RowFact(l, r, g, t, o[g], rel, none[g]))
  BY DEF PersistDeviceRow, AcceptedIn
<1>. QED
  BY <1>1, <1>2, <1>3 DEF RowWritten

LEMMA DatasetRowWritten ==
  ASSUME TypeOK, BoundAssumption,
         NEW l \in Listing, NEW r \in Fingerprint, NEW t \in Time,
         NEW o \in Offers(l), NEW rel \in Release, PersistDatasetRow(l, r, t, o, rel)
  PROVE  \E sup \in [Region -> Nat] : RowWritten(l, r, t, o, rel, sup)
<1>1. PICK sup \in [Region -> 0 .. writes] :
        /\ \A g \in Region :
             IF g \in AcceptedIn(o) THEN Resolves(l, r, g, t, o[g].value, sup[g])
                                    ELSE sup[g] = 0
        /\ WriteRow(l, r, t, o, rel, sup)
  BY DEF PersistDatasetRow
<1>2. sup \in [Region -> Nat]
  BY <1>1 DEF TypeOK
<1>3. l \in Dataset /\ writes < MaxWrites
  BY DEF PersistDatasetRow
<1>. QED
  BY <1>1, <1>2, <1>3 DEF RowWritten

LEMMA NextKeepsInv ==
  ASSUME ListingAssumption, DeviceRegionAssumption, BoundAssumption,
         LedgerInv, [Next]_vars
  PROVE  LedgerInv'
<1>1. ASSUME NEW l \in Listing, NEW r \in Fingerprint, NEW t \in Time,
             NEW q \in Quality, RecordIdentity(l, r, q, t)
      PROVE  LedgerInv'
  BY <1>1, IdentityKeepsInv
<1>2. ASSUME NEW l \in Listing, NEW r \in Fingerprint, NEW t \in Time,
             NEW o \in Offers(l), NEW rel \in Release,
             PersistDeviceRow(l, r, t, o, rel)
      PROVE  LedgerInv'
  BY <1>2, DeviceRowWritten, RowKeepsInv
<1>3. ASSUME NEW l \in Listing, NEW r \in Fingerprint, NEW t \in Time,
             NEW o \in Offers(l), NEW rel \in Release,
             PersistDatasetRow(l, r, t, o, rel)
      PROVE  LedgerInv'
  BY <1>3, DatasetRowWritten, RowKeepsInv DEF LedgerInv
<1>4. ASSUME NEW l \in Listing, NEW t \in Time, NEW v \in Value, NEW rel \in Release,
             PersistProductAbsence(l, t, v, rel)
      PROVE  LedgerInv'
  BY <1>4, AbsenceKeepsInv
<1>5. ASSUME NEW l \in Listing, RebuildCurrent(l)
      PROVE  LedgerInv'
  BY <1>5, RebuildKeepsInv
<1>6. CASE UNCHANGED vars
  BY <1>6 DEF vars, LedgerInv, TypeOK, FactsBounded, CorrectionsWellFormed,
     CurrentPointsToTrustedFact, CurrentRevisionNewest, CurrentRevisionHasFact,
     DeviceFactsUnique, DeviceProjectionExact, SameTime, TrustedOf, Trusted
<1>. QED
  BY <1>1, <1>2, <1>3, <1>4, <1>5, <1>6 DEF Next

LEMMA InitInv ==
  ASSUME ListingAssumption, BoundAssumption, Init
  PROVE  LedgerInv
BY DEF Init, LedgerInv, TypeOK, FactsBounded, CorrectionsWellFormed,
   CurrentPointsToTrustedFact, CurrentRevisionNewest, CurrentRevisionHasFact,
   DeviceFactsUnique, DeviceProjectionExact, SameTime, TrustedOf, Trusted

\* The invariant the other results rest on holds in every reachable state.
THEOREM LedgerInvariant == Spec => []LedgerInv
<1>. USE ListingAssumption, DeviceRegionAssumption, BoundAssumption
<1>1. Init => LedgerInv
  BY InitInv
<1>2. LedgerInv /\ [Next]_vars => LedgerInv'
  BY NextKeepsInv
<1>. QED
  BY <1>1, <1>2, PTL DEF Spec

\* The critical audit queries over pointers, revisions and corrections never
\* find a row, and the row of a device listing is never missing or outdated.
THEOREM PointersAreSound ==
  Spec => []( /\ CurrentPointsToTrustedFact
              /\ CurrentRevisionNewest
              /\ CurrentRevisionHasFact
              /\ CorrectionsWellFormed
              /\ DeviceProjectionExact )
<1>1. LedgerInv => /\ CurrentPointsToTrustedFact
                   /\ CurrentRevisionNewest
                   /\ CurrentRevisionHasFact
                   /\ CorrectionsWellFormed
                   /\ DeviceProjectionExact
  BY DEF LedgerInv
<1>. QED
  BY <1>1, LedgerInvariant, PTL

\* In a channel without data sets no two accepted facts of one region and
\* instant exist at all, so the audit can never find an open pair.
THEOREM DeviceFactsNeverAmbiguous ==
  ASSUME Dataset = {}
  PROVE  Spec => []OneOpenFactPerTime
<1>1. LedgerInv => OneOpenFactPerTime
  BY DEF LedgerInv, DeviceFactsUnique, OneOpenFactPerTime
<1>. QED
  BY <1>1, LedgerInvariant, PTL

\* rebuild_current has one answer for a device listing: the row it replaces.
LEMMA DeviceRebuilt ==
  ASSUME LedgerInv, NEW l \in Listing \ Dataset, NEW g \in Region
  PROVE  \A q : Rebuilt(l, g, q) <=> q = current[l][g]
<1>. DEFINE own == TrustedOf(l, currentRevision[l])
<1>1. OpenFacts(l, g) = {f \in own : f.region = g}
  BY DEF LedgerInv, CorrectionsWellFormed, TypeOK, Observation, OpenFacts, TrustedOf, Trusted
<1>2. \A f \in own : f.region \in Region /\ f.time \in Int /\ f.id \in Int
  BY DEF LedgerInv, TypeOK, Observation, Time, TrustedOf, Trusted
<1>3. CASE current[l][g] = NoQuote
  <2>1. OpenFacts(l, g) = {}
    BY <1>1, <1>3 DEF LedgerInv, DeviceProjectionExact
  <2>. QED
    BY <1>3, <2>1 DEF Rebuilt
<1>4. CASE current[l][g] # NoQuote
  <2>1. PICK h \in own : h.region = g /\ QuoteOf(h) = current[l][g]
    BY <1>4 DEF LedgerInv, CurrentPointsToTrustedFact, TrustedOf, QuoteOf
  <2>2. h \in OpenFacts(l, g)
    BY <1>1, <2>1
  <2>3. \A f \in OpenFacts(l, g) : f.time <= h.time
    BY <1>1, <2>1 DEF LedgerInv, DeviceProjectionExact, QuoteOf
  <2>4. \A f \in OpenFacts(l, g) : f.time = h.time => f = h
    BY <1>1, <2>1 DEF LedgerInv, DeviceFactsUnique, TrustedOf
  <2>5. \A f \in OpenFacts(l, g) : ~ Newer(f, h)
    BY <1>1, <1>2, <2>3, <2>4 DEF Newer
  <2>6. \A f \in OpenFacts(l, g) : ~ Newer(h, f) => f = h
    BY <1>1, <1>2, <2>3, <2>4 DEF Newer
  <2>. QED
    BY <2>1, <2>2, <2>5, <2>6 DEF Rebuilt
<1>. QED
  BY <1>3, <1>4

\* In a channel without data sets the projection is always what rebuilding
\* it from the facts would give.
THEOREM DeviceProjectionRebuildable ==
  ASSUME Dataset = {}
  PROVE  Spec => []ProjectionIsRebuildable
<1>1. LedgerInv => ProjectionIsRebuildable
  BY DeviceRebuilt DEF ProjectionIsRebuildable
<1>. QED
  BY <1>1, LedgerInvariant, PTL

-----------------------------------------------------------------------------
(* The ledger of a device channel implements the register of LatestPrice.  *)

\* What one transaction on listing l may do to the row of its region.
PostsOrKeeps(l, g) ==
  \/ current'[l][g] = current[l][g]
  \/ current'[l][g] \in Quote /\ current'[l][g].time > current[l][g].time

\* An accepted row of the current revision replaces an older quote only.
LEMMA ProjectedPosts ==
  ASSUME NEW x \in Observation, x.supersedes = 0,
         NEW base \in Quote \cup {NoQuote}, NEW rev,
         Projected(x, base, rev) # base
  PROVE  Projected(x, base, rev).time > base.time
<1>1. Projected(x, base, rev) = QuoteOf(x) /\ (base = NoQuote \/ Advances(x, base))
  BY DEF Projected
<1>2. QuoteOf(x).time = x.time /\ x.time \in Nat /\ x.time > 0
  BY DEF QuoteOf, Observation, Time
<1>3. base.time \in Int /\ base.id \in Int /\ (base # NoQuote => base.id # 0)
  BY DEF Quote, NoQuote, Time
<1>. QED
  BY <1>1, <1>2, <1>3 DEF Advances, NoQuote

LEMMA RowPosts ==
  ASSUME ListingAssumption, DeviceRegionAssumption, BoundAssumption,
         LedgerInv, LedgerInv',
         NEW l \in Listing \ Dataset, NEW r \in Fingerprint, NEW t \in Time,
         NEW o \in Offers(l), NEW rel \in Release, NEW sup \in [Region -> Nat],
         RowWritten(l, r, t, o, rel, sup),
         NEW g \in Region, RegionsOf[l] = {g}
  PROVE  PostsOrKeeps(l, g)
<1>. DEFINE rev == RevisionAfter(l, r, t, o)
            R == NewRows(l, r, t, o, rel, sup)
<1>1. /\ facts' = facts \cup R
      /\ currentRevision' = [currentRevision EXCEPT ![l] = rev]
      /\ \/ current'[l][g] = QuotesKept(l, rev)[g]
         \/ \E x \in R : /\ x.region = g
                         /\ current'[l][g] = Projected(x, QuotesKept(l, rev)[g], rev)
  BY RowWrittenEffect DEF LedgerInv
<1>2. /\ current[l][g] \in Quote \cup {NoQuote}
      /\ current'[l][g] \in Quote \cup {NoQuote}
  BY DEF LedgerInv, TypeOK
<1>3. CASE rev = currentRevision[l]
  <2>1. QuotesKept(l, rev) = current[l]
    BY <1>3 DEF QuotesKept
  <2>2. \A x \in R : x \in Observation /\ x.supersedes = sup[x.region]
    BY NewRowsShape DEF LedgerInv
  <2>3. sup[g] = 0
    BY DEF RowWritten
  <2>4. CASE current'[l][g] # current[l][g]
    <3>1. PICK x \in R : x.region = g /\ current'[l][g] = Projected(x, current[l][g], rev)
      BY <1>1, <2>1, <2>4
    <3>2. x \in Observation /\ x.supersedes = 0
      BY <2>2, <2>3, <3>1
    <3>3. current'[l][g].time > current[l][g].time
      BY <1>2, <2>4, <3>1, <3>2, ProjectedPosts
    <3>4. current'[l][g] \in Quote
      BY <2>4, <3>1, <3>2, QuoteOfType DEF Projected
    <3>. QED
      BY <3>3, <3>4 DEF PostsOrKeeps
  <2>. QED
    BY <2>4 DEF PostsOrKeeps
<1>4. CASE rev # currentRevision[l]
  <2>1. rev = r /\ Switches(l, r, t) /\ \E h \in TrustedOf(l, r)' : h.time = t
    BY <1>4, SwitchHasFact DEF LedgerInv
  <2>2. \A f \in Trusted(l) : f.time < t
    BY <2>1, SwitchIsNews DEF LedgerInv
  <2>3. PICK h \in TrustedOf(l, r)' : h.time = t
    BY <2>1
  <2>4. h \in facts' /\ h.listing = l /\ h.region = g
    BY <2>3 DEF LedgerInv, FactsBounded, TrustedOf, Trusted
  <2>5. currentRevision'[l] = r
    BY <1>1, <2>1 DEF LedgerInv, TypeOK
  <2>6. current'[l][g] # NoQuote /\ t <= current'[l][g].time
    BY <2>3, <2>4, <2>5 DEF LedgerInv, DeviceProjectionExact, TrustedOf, Trusted
  <2>7. current[l][g].time < t
    <3>1. CASE current[l][g] = NoQuote
      BY <3>1 DEF NoQuote, Time
    <3>2. CASE current[l][g] # NoQuote
      <4>1. PICK f \in Trusted(l) : QuoteOf(f) = current[l][g]
        BY <3>2 DEF LedgerInv, CurrentPointsToTrustedFact
      <4>. QED
        BY <2>2, <4>1 DEF QuoteOf
    <3>. QED
      BY <3>1, <3>2
  <2>8. current'[l][g].time \in Int /\ current[l][g].time \in Int /\ t \in Int
    BY <1>2 DEF Quote, NoQuote, Time
  <2>. QED
    BY <1>2, <2>6, <2>7, <2>8 DEF PostsOrKeeps
<1>. QED
  BY <1>3, <1>4

LEMMA AbsencePosts ==
  ASSUME ListingAssumption, BoundAssumption, LedgerInv,
         NEW l \in Listing \ Dataset, NEW t \in Time, NEW v \in Value, NEW rel \in Release,
         PersistProductAbsence(l, t, v, rel),
         NEW g \in Region, RegionsOf[l] = {g}
  PROVE  PostsOrKeeps(l, g)
<1>. DEFINE f == RowFact(l, currentRevision[l], g, t,
                         [value |-> v, quality |-> "ACCEPTED"], rel, 0)
<1>1. current' = [current EXCEPT ![l][g] = Projected(f, @, f.revision)]
  BY DEF PersistProductAbsence
<1>2. f \in Observation /\ f.supersedes = 0
  BY DEF RowFact, Observation, LedgerInv, TypeOK, PersistProductAbsence, Quality
<1>. HIDE DEF f
<1>3. /\ current'[l][g] = Projected(f, current[l][g], f.revision)
      /\ current[l][g] \in Quote \cup {NoQuote}
  BY <1>1 DEF LedgerInv, TypeOK
<1>4. CASE current'[l][g] # current[l][g]
  <2>1. current'[l][g].time > current[l][g].time
    BY <1>2, <1>3, <1>4, ProjectedPosts
  <2>2. current'[l][g] \in Quote
    BY <1>2, <1>3, <1>4, QuoteOfType DEF Projected
  <2>. QED
    BY <2>1, <2>2 DEF PostsOrKeeps
<1>. QED
  BY <1>4 DEF PostsOrKeeps

\* A transaction on one device listing posts to its register, or stutters.
LEMMA PostingStep ==
  ASSUME ListingAssumption, DeviceRegionAssumption,
         NEW l \in Listing,
         \A k \in Listing : k # l => current'[k] = current[k],
         l \notin Dataset => \A g \in Region : RegionsOf[l] = {g} => PostsOrKeeps(l, g)
  PROVE  Latest!Next \/ UNCHANGED DeviceQuote
<1>. DEFINE at(k) == CHOOSE g \in Region : RegionsOf[k] = {g}
<1>1. \A k \in Listing \ Dataset : at(k) \in Region /\ RegionsOf[k] = {at(k)}
  BY DEF DeviceRegionAssumption
<1>2. /\ DeviceQuote = [k \in Listing \ Dataset |-> current[k][at(k)]]
      /\ DeviceQuote' = [k \in Listing \ Dataset |-> current'[k][at(k)]]
  BY DEF DeviceQuote
<1>. HIDE DEF at
<1>3. CASE DeviceQuote' # DeviceQuote
  <2>1. l \notin Dataset /\ current'[l][at(l)] # current[l][at(l)]
    BY <1>2, <1>3
  <2>2. PostsOrKeeps(l, at(l))
    BY <1>1, <2>1
  <2>3. /\ DeviceQuote'[l] \in Quote
        /\ DeviceQuote'[l].time > DeviceQuote[l].time
        /\ DeviceQuote' = [DeviceQuote EXCEPT ![l] = DeviceQuote'[l]]
    BY <1>2, <2>1, <2>2 DEF PostsOrKeeps
  <2>4. Latest!Post(l)
    BY <2>3 DEF Latest!Post, Latest!Quote, Quote, Time
  <2>. QED
    BY <2>1, <2>4 DEF Latest!Next
<1>. QED
  BY <1>3

\* A reader of v2_price_current sees each device listing as a register that
\* only takes strictly newer quotes, whatever the transactions do.
THEOREM LedgerImplementsLatest == Spec => ReadersSeeNewerQuotesOnly
<1>. USE ListingAssumption, DeviceRegionAssumption, BoundAssumption
<1>1. Init => Latest!Init
  BY DEF Init, Latest!Init, DeviceQuote, NoQuote, Latest!NoQuote, DeviceRegionAssumption
<1>2. LedgerInv /\ LedgerInv' /\ [Next]_vars => [Latest!Next]_DeviceQuote
  <2>. SUFFICES ASSUME LedgerInv, LedgerInv', [Next]_vars
                PROVE  Latest!Next \/ UNCHANGED DeviceQuote
    OBVIOUS
  <2>1. ASSUME NEW l \in Listing, NEW r \in Fingerprint, NEW t \in Time,
               NEW o \in Offers(l), NEW rel \in Release, NEW sup \in [Region -> Nat],
               RowWritten(l, r, t, o, rel, sup)
        PROVE  Latest!Next \/ UNCHANGED DeviceQuote
    <3>1. \A k \in Listing : k # l => current'[k] = current[k]
      BY <2>1, RowWrittenEffect DEF LedgerInv
    <3>2. l \notin Dataset => \A g \in Region : RegionsOf[l] = {g} => PostsOrKeeps(l, g)
      BY <2>1, RowPosts
    <3>. QED
      BY <3>1, <3>2, PostingStep
  <2>2. ASSUME NEW l \in Listing, NEW r \in Fingerprint, NEW t \in Time,
               NEW q \in Quality, RecordIdentity(l, r, q, t)
        PROVE  Latest!Next \/ UNCHANGED DeviceQuote
    BY <2>2 DEF RecordIdentity, DeviceQuote
  <2>3. ASSUME NEW l \in Listing, NEW r \in Fingerprint, NEW t \in Time,
               NEW o \in Offers(l), NEW rel \in Release,
               PersistDeviceRow(l, r, t, o, rel)
        PROVE  Latest!Next \/ UNCHANGED DeviceQuote
    BY <2>1, <2>3, DeviceRowWritten
  <2>4. ASSUME NEW l \in Listing, NEW r \in Fingerprint, NEW t \in Time,
               NEW o \in Offers(l), NEW rel \in Release,
               PersistDatasetRow(l, r, t, o, rel)
        PROVE  Latest!Next \/ UNCHANGED DeviceQuote
    BY <2>1, <2>4, DatasetRowWritten DEF LedgerInv
  <2>5. ASSUME NEW l \in Listing, NEW t \in Time, NEW v \in Value, NEW rel \in Release,
               PersistProductAbsence(l, t, v, rel)
        PROVE  Latest!Next \/ UNCHANGED DeviceQuote
    <3>1. l \in Listing \ Dataset /\ \A k \in Listing : k # l => current'[k] = current[k]
      BY <2>5 DEF PersistProductAbsence, LedgerInv, TypeOK
    <3>2. \A g \in Region : RegionsOf[l] = {g} => PostsOrKeeps(l, g)
      BY <2>5, <3>1, AbsencePosts
    <3>. QED
      BY <3>1, <3>2, PostingStep
  <2>6. ASSUME NEW l \in Listing, RebuildCurrent(l)
        PROVE  Latest!Next \/ UNCHANGED DeviceQuote
    <3>1. PICK q \in [Region -> {NoQuote} \cup {QuoteOf(f) : f \in Trusted(l)}] :
            /\ \A g \in Region : Rebuilt(l, g, q[g])
            /\ current' = [current EXCEPT ![l] = q]
      BY <2>6 DEF RebuildCurrent
    <3>2. current'[l] = q /\ \A k \in Listing : k # l => current'[k] = current[k]
      BY <3>1 DEF LedgerInv, TypeOK
    <3>3. l \notin Dataset => \A g \in Region : q[g] = current[l][g]
      BY <3>1, DeviceRebuilt
    <3>. QED
      BY <3>2, <3>3, PostingStep DEF PostsOrKeeps
  <2>7. CASE UNCHANGED vars
    BY <2>7 DEF vars, DeviceQuote
  <2>. QED
    BY <2>2, <2>3, <2>4, <2>5, <2>6, <2>7 DEF Next
<1>. QED
  BY <1>1, <1>2, LedgerInvariant, PTL DEF Spec, ReadersSeeNewerQuotesOnly, Latest!Spec

\* No transaction of the service updates or deletes a fact.
THEOREM FactsOnlyGrow == Spec => FactsAreAppendOnly
<1>1. ASSUME NEW l, NEW r, NEW t, NEW o, NEW rel, NEW sup, WriteRow(l, r, t, o, rel, sup)
      PROVE  facts \subseteq facts'
  BY <1>1 DEF WriteRow, InsertedFacts
<1>2. ASSUME NEW l, NEW t, NEW v, NEW rel, PersistProductAbsence(l, t, v, rel)
      PROVE  facts \subseteq facts'
  BY <1>2 DEF PersistProductAbsence, InsertedFacts
<1>3. ASSUME NEW l, NEW r, NEW t, NEW q, RecordIdentity(l, r, q, t) \/ RebuildCurrent(l)
      PROVE  facts \subseteq facts'
  BY <1>3 DEF RecordIdentity, RebuildCurrent
<1>4. [Next]_vars => facts \subseteq facts'
  BY <1>1, <1>2, <1>3 DEF Next, vars, PersistDeviceRow, PersistDatasetRow
<1>. QED
  BY <1>4, PTL DEF Spec, FactsAreAppendOnly

LEMMA PostsNeverBack ==
  ASSUME ListingAssumption, LedgerInv, LedgerInv', NEW l \in Listing \ Dataset,
         NEW d \in Region, RegionsOf[l] = {d}, PostsOrKeeps(l, d),
         NEW g \in Region
  PROVE  current'[l][g].time >= current[l][g].time
<1>1. current[l][g] \in Quote \cup {NoQuote} /\ current'[l][g] \in Quote \cup {NoQuote}
  BY DEF LedgerInv, TypeOK
<1>2. current[l][g].time \in Nat /\ current'[l][g].time \in Nat
  BY <1>1 DEF Quote, NoQuote, Time
<1>3. CASE g = d
  BY <1>2, <1>3 DEF PostsOrKeeps
<1>4. CASE g # d
  <2>1. current[l][g] = NoQuote
    BY <1>4 DEF LedgerInv, CurrentPointsToTrustedFact, FactsBounded, Trusted
  <2>. QED
    BY <1>2, <2>1 DEF NoQuote
<1>. QED
  BY <1>3, <1>4

\* In a channel without data sets a row of the projection never goes back in
\* time or disappears, and only newer evidence changes the specification.
THEOREM DeviceNeverRollsBack ==
  ASSUME Dataset = {}
  PROVE  Spec => CurrentNeverRollsBack
<1>. USE ListingAssumption, DeviceRegionAssumption, BoundAssumption
<1>. DEFINE Kept(l) == /\ currentRevision'[l] = currentRevision[l]
                       /\ \A g \in Region : current'[l][g].time >= current[l][g].time
            Renewed(l) == /\ currentRevision'[l] # currentRevision[l]
                          /\ \A f \in Trusted(l) :
                               f.revision = currentRevision[l] =>
                                 \E h \in facts' \ facts :
                                   h.listing = l /\ h.quality = "ACCEPTED" /\ h.time > f.time
<1>1. LedgerInv /\ LedgerInv' /\ [Next]_vars => \A l \in Listing : Kept(l) \/ Renewed(l)
  <2>. SUFFICES ASSUME LedgerInv, LedgerInv', [Next]_vars, NEW k \in Listing
                PROVE  Kept(k) \/ Renewed(k)
    OBVIOUS
  <2>1. ASSUME currentRevision'[k] = currentRevision[k], current'[k] = current[k]
        PROVE  Kept(k)
    BY <2>1 DEF LedgerInv, TypeOK, Quote, NoQuote, Time
  <2>2. PICK d \in Region : RegionsOf[k] = {d}
    BY DEF DeviceRegionAssumption
  <2>3. ASSUME currentRevision'[k] = currentRevision[k], PostsOrKeeps(k, d)
        PROVE  Kept(k)
    BY <2>2, <2>3, PostsNeverBack
  <2>4. ASSUME NEW l \in Listing, NEW r \in Fingerprint, NEW t \in Time,
               NEW o \in Offers(l), NEW rel \in Release, NEW sup \in [Region -> Nat],
               RowWritten(l, r, t, o, rel, sup)
        PROVE  Kept(k) \/ Renewed(k)
    <3>1. /\ currentRevision' = [currentRevision EXCEPT ![l] = RevisionAfter(l, r, t, o)]
          /\ \A c \in Listing : c # l => current'[c] = current[c]
      BY <2>4, RowWrittenEffect DEF LedgerInv
    <3>2. CASE k # l
      BY <2>1, <3>1, <3>2 DEF LedgerInv, TypeOK
    <3>3. CASE k = l /\ RevisionAfter(l, r, t, o) = currentRevision[l]
      BY <2>2, <2>3, <2>4, <3>1, <3>3, RowPosts DEF LedgerInv, TypeOK
    <3>4. CASE k = l /\ RevisionAfter(l, r, t, o) # currentRevision[l]
      <4>1. Switches(l, r, t) /\ \E h \in TrustedOf(l, r)' : h.time = t
        BY <2>4, <3>4, SwitchHasFact DEF LedgerInv
      <4>2. \A f \in Trusted(l) : f.time < t
        BY <4>1, SwitchIsNews DEF LedgerInv
      <4>3. PICK h \in TrustedOf(l, r)' : h.time = t
        BY <4>1
      <4>4. h \in facts' /\ h.listing = l /\ h.quality = "ACCEPTED"
        BY <4>3 DEF TrustedOf, Trusted
      <4>5. t \in Int /\ \A f \in Trusted(l) : f.time \in Int
        BY DEF LedgerInv, TypeOK, Observation, Time, Trusted
      <4>6. h \notin facts
        BY <4>2, <4>3, <4>4, <4>5 DEF Trusted
      <4>7. \A f \in Trusted(l) : h.time > f.time
        BY <4>2, <4>3, <4>5
      <4>8. currentRevision'[l] # currentRevision[l]
        BY <3>1, <3>4 DEF LedgerInv, TypeOK
      <4>. QED
        BY <3>4, <4>4, <4>6, <4>7, <4>8
    <3>. QED
      BY <3>2, <3>3, <3>4
  <2>5. ASSUME NEW l \in Listing, NEW r \in Fingerprint, NEW t \in Time,
               NEW q \in Quality, RecordIdentity(l, r, q, t)
        PROVE  Kept(k)
    BY <2>1, <2>5 DEF RecordIdentity
  <2>6. ASSUME NEW l \in Listing, NEW r \in Fingerprint, NEW t \in Time,
               NEW o \in Offers(l), NEW rel \in Release,
               PersistDeviceRow(l, r, t, o, rel)
        PROVE  Kept(k) \/ Renewed(k)
    BY <2>4, <2>6, DeviceRowWritten
  <2>7. ASSUME NEW l \in Listing, NEW t \in Time, NEW v \in Value, NEW rel \in Release,
               PersistProductAbsence(l, t, v, rel)
        PROVE  Kept(k)
    <3>1. UNCHANGED currentRevision /\ \A c \in Listing : c # l => current'[c] = current[c]
      BY <2>7 DEF PersistProductAbsence, LedgerInv, TypeOK
    <3>2. k = l => PostsOrKeeps(k, d)
      BY <2>2, <2>7, AbsencePosts
    <3>. QED
      BY <2>1, <2>3, <3>1, <3>2
  <2>8. ASSUME NEW l \in Listing, RebuildCurrent(l)
        PROVE  Kept(k)
    <3>1. PICK q \in [Region -> {NoQuote} \cup {QuoteOf(f) : f \in Trusted(l)}] :
            /\ \A g \in Region : Rebuilt(l, g, q[g])
            /\ current' = [current EXCEPT ![l] = q]
      BY <2>8 DEF RebuildCurrent
    <3>2. \A g \in Region : q[g] = current[l][g]
      BY <3>1, DeviceRebuilt
    <3>3. UNCHANGED currentRevision
      BY <2>8 DEF RebuildCurrent
    <3>4. current'[k][d] = current[k][d]
      BY <3>1, <3>2 DEF LedgerInv, TypeOK
    <3>. QED
      BY <2>3, <3>3, <3>4 DEF PostsOrKeeps
  <2>9. CASE UNCHANGED vars
    BY <2>1, <2>9 DEF vars
  <2>. QED
    BY <2>4, <2>5, <2>6, <2>7, <2>8, <2>9 DEF Next, PersistDatasetRow
<1>2. (\A l \in Listing : Kept(l) \/ Renewed(l)) =>
        \A l \in Listing :
          IF currentRevision'[l] = currentRevision[l]
          THEN \A g \in Region : current'[l][g].time >= current[l][g].time
          ELSE \A f \in Trusted(l) : f.revision = currentRevision[l] =>
                 \E h \in facts' \ facts :
                   h.listing = l /\ h.quality = "ACCEPTED" /\ h.time > f.time
  OBVIOUS
<1>. QED
  BY <1>1, <1>2, LedgerInvariant, PTL DEF Spec, CurrentNeverRollsBack
=============================================================================

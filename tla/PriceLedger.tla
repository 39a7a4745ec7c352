------------------------------ MODULE PriceLedger ------------------------------
(***************************************************************************)
(* The price tables and the four transactions that write them.             *)
(*                                                                         *)
(*   v2_price_observation  immutable facts; only inserts (facts)           *)
(*   v2_price_current      at most one row per listing and region, a       *)
(*                         projection of the facts (current)               *)
(*   v2_listing_revision   one row per normalised identity of a listing    *)
(*                         (revisionQuality)                               *)
(*   v2_source_listing     current_revision_id and last_seen_at            *)
(*                         (currentRevision, lastSeen)                     *)
(*                                                                         *)
(* A device row carries the fetch time and may never contradict a fact of  *)
(* that instant; a dataset row carries its publication day, and a changed  *)
(* row of a day is linked to the fact it corrects.  Each action is one     *)
(* committed transaction for one listing: a step of the code that raises   *)
(* rolls the whole transaction back, which is a step that is not taken.    *)
(***************************************************************************)
EXTENDS Integers, FiniteSets

CONSTANTS
  Listing,      \* source listings of one channel
  Dataset,      \* those that a published data set feeds; the rest are devices
  Region,
  RegionsOf,    \* the regions each listing is quoted in
  Fingerprint,  \* normalised identities a listing may show
  Value,        \* source hash and price payload of a candidate
  Release,      \* adapter and policy versions of a run
  None,         \* current_revision_id IS NULL
  MaxTime,      \* observation times are 1..MaxTime
  MaxWrites     \* bound on committed writes

ASSUME ListingAssumption ==
  /\ Dataset \subseteq Listing
  /\ RegionsOf \in [Listing -> SUBSET Region]
  /\ None \notin Fingerprint

ASSUME DeviceRegionAssumption ==
  \A l \in Listing \ Dataset : \E g \in Region : RegionsOf[l] = {g}

ASSUME BoundAssumption == MaxTime \in Nat /\ MaxWrites \in Nat

VARIABLES
  revisionQuality, \* [Listing -> [Fingerprint -> quality of the revision]]
  currentRevision, \* [Listing -> Fingerprint or None]
  facts,           \* set of observations
  current,         \* [Listing -> [Region -> row of the projection]]
  lastSeen,        \* [Listing -> last_seen_at], 0 before the listing exists
  writes           \* committed writes so far: the source of observation ids

vars == <<revisionQuality, currentRevision, facts, current, lastSeen, writes>>

Time == 1 .. MaxTime

\* REVIEW_REQUIRED stands for REJECTED too: no statement tells them apart.
Quality == {"ACCEPTED", "REVIEW_REQUIRED"}

Candidate == [value : Value, quality : Quality]
NoCandidate == [value |-> None, quality |-> "ABSENT"]

(***************************************************************************)
(* The accepted regions of a row agree on one time; a row offers at most   *)
(* one candidate per region.                                               *)
(***************************************************************************)
Offers(l) ==
  {o \in [Region -> Candidate \cup {NoCandidate}] :
     \A g \in Region : o[g] # NoCandidate => g \in RegionsOf[l]}

\* An observation.  Ids are compared within one listing and region only, so
\* the rows of one transaction may share the number of that transaction.
Observation ==
  [listing : Listing, revision : Fingerprint, region : Region, time : Time,
   value : Value, quality : Quality, release : Release,
   supersedes : Nat, id : Nat \ {0}]

\* A row of the projection with its foreign keys; NoQuote is the absent row.
Quote == [revision : Fingerprint, time : Time, id : Nat \ {0}]
NoQuote == [revision |-> None, time |-> 0, id |-> 0]
QuoteOf(f) == [revision |-> f.revision, time |-> f.time, id |-> f.id]

Trusted(l) == {f \in facts : f.listing = l /\ f.quality = "ACCEPTED"}
TrustedOf(l, r) == {f \in Trusted(l) : f.revision = r}

\* build_observation_key: everything but the id of the row.
SameKey(f, h) ==
  /\ f.listing = h.listing /\ f.revision = h.revision /\ f.region = h.region
  /\ f.time = h.time /\ f.value = h.value /\ f.quality = h.quality
  /\ f.release = h.release /\ f.supersedes = h.supersedes
Recorded(f) == \E h \in facts : SameKey(f, h)

-----------------------------------------------------------------------------
(* get_or_create_listing_revision: the first sighting fixes the quality.   *)

StoredQuality(l, r, q) ==
  IF revisionQuality[l][r] = "ABSENT" THEN q ELSE revisionQuality[l][r]

WithRevision(l, r, q) ==
  [revisionQuality EXCEPT ![l][r] = StoredQuality(l, r, q)]

(***************************************************************************)
(* set_current_revision: a strictly newer trusted time switches the        *)
(* listing, an older one leaves it, an equal one is refused.  The code     *)
(* falls back on first_observed_at when the current revision has no        *)
(* accepted fact; CurrentRevisionHasFact shows it always has one.          *)
(***************************************************************************)
SwitchesAtAnyTime(l, r, t) == currentRevision[l] # r
Switches(l, r, t) ==
  /\ currentRevision[l] # r
  /\ \/ currentRevision[l] = None
     \/ \A f \in TrustedOf(l, currentRevision[l]) : f.time < t

SharesTrustedTime(l, r, t) ==
  /\ currentRevision[l] \notin {r, None}
  /\ \E f \in TrustedOf(l, currentRevision[l]) : f.time = t
  /\ \A f \in TrustedOf(l, currentRevision[l]) : f.time <= t

-----------------------------------------------------------------------------
(* Same-time rules of the two kinds of source.                             *)

\* assert_same_time_consistent: only an exact replay may meet a fact of its
\* own listing, region and time.
SameTimeUnchecked(f) == TRUE
SameTimeConsistentInValue(f) ==
  \A h \in Trusted(f.listing) :
    h.region = f.region /\ h.time = f.time => h.value = f.value
SameTimeConsistent(f) ==
  \A h \in Trusted(f.listing) :
    h.region = f.region /\ h.time = f.time => SameKey(f, h)

SameTime(l, r, g, t) == {f \in TrustedOf(l, r) : f.region = g /\ f.time = t}

\* resolve_same_time_correction links a candidate to fact s (0 is no link):
\* the link of the newest equal fact, else the only fact nothing supersedes.
ResolvesAcrossDays(l, r, g, t, v, s) ==
  LET prior == {f \in TrustedOf(l, r) : f.region = g}
  IN  \/ prior = {} /\ s = 0
      \/ \E p \in prior : (\A h \in prior : h.id <= p.id) /\ s = p.id
Resolves(l, r, g, t, v, s) ==
  LET prior == SameTime(l, r, g, t)
      equal == {p \in prior : p.value = v}
      active == {p \in prior : \A h \in prior : h.supersedes # p.id}
  IN  \/ prior = {} /\ s = 0
      \/ \E p \in equal :
           /\ \A h \in equal : h.id <= p.id
           /\ s = p.supersedes
      \/ /\ prior # {} /\ equal = {}
         /\ \E p \in active : active = {p} /\ s = p.id

-----------------------------------------------------------------------------
(* record: insert the fact unless its key exists, then advance the row.    *)

\* The projection row of fact f's region, after set_current_revision left
\* base there and the listing at revision rev.
AdvancesAlways(f, base) == TRUE
AdvancesWhenNewer(f, base) == f.time > base.time
Advances(f, base) ==
  \/ f.time > base.time
  \/ f.time = base.time /\ f.supersedes = base.id

ProjectedWithoutCreate(f, base, rev) ==
  IF /\ f.quality = "ACCEPTED" /\ rev = f.revision
     /\ base # NoQuote /\ Advances(f, base)
  THEN QuoteOf(f)
  ELSE base
Projected(f, base, rev) ==
  IF /\ f.quality = "ACCEPTED"
     /\ rev = f.revision
     /\ base = NoQuote \/ Advances(f, base)
  THEN QuoteOf(f)
  ELSE base

-----------------------------------------------------------------------------
(* _persist_row for an accepted identity.                                  *)

RowFact(l, r, g, t, c, rel, s) ==
  [listing |-> l, revision |-> r, region |-> g, time |-> t,
   value |-> c.value, quality |-> c.quality, release |-> rel,
   supersedes |-> s, id |-> writes + 1]

Offered(o) == {g \in Region : o[g] # NoCandidate}
AcceptedIn(o) == {g \in Region : o[g].quality = "ACCEPTED"}

\* last_seen_at: a new listing takes the row's time, trusted or not; later
\* only trusted evidence moves it, and only forwards.
SeenAfter(l, t, isTrusted) ==
  IF lastSeen[l] = 0 \/ (isTrusted /\ t > lastSeen[l]) THEN t ELSE lastSeen[l]

RevisionAfter(l, r, t, o) ==
  IF AcceptedIn(o) # {} /\ Switches(l, r, t) THEN r ELSE currentRevision[l]

\* delete(CatalogPriceCurrent) of the listing when its revision changes.
QuotesKept(l, rev) ==
  IF rev = currentRevision[l] THEN current[l] ELSE [g \in Region |-> NoQuote]

\* Facts are inserted, never updated.
InsertedFacts(rows) == facts \cup rows

\* The committed effect of a row whose links to earlier facts are sup.
WriteRow(l, r, t, o, rel, sup) ==
  LET row(g) == RowFact(l, r, g, t, o[g], rel, sup[g])
      new == {g \in Offered(o) : ~ Recorded(row(g))}
      rev == RevisionAfter(l, r, t, o)
      kept == QuotesKept(l, rev)
  IN  /\ StoredQuality(l, r, "ACCEPTED") = "ACCEPTED"
      /\ AcceptedIn(o) # {} => ~ SharesTrustedTime(l, r, t)
      /\ revisionQuality' = WithRevision(l, r, "ACCEPTED")
      /\ currentRevision' = [currentRevision EXCEPT ![l] = rev]
      /\ facts' = InsertedFacts({row(g) : g \in new})
      /\ current' = [current EXCEPT ![l] =
                       [g \in Region |-> IF g \in new
                                         THEN Projected(row(g), kept[g], rev)
                                         ELSE kept[g]]]
      /\ lastSeen' = [lastSeen EXCEPT ![l] = SeenAfter(l, t, AcceptedIn(o) # {})]
      /\ writes' = IF new = {} THEN writes ELSE writes + 1

PersistDeviceRow(l, r, t, o, rel) ==
  LET none == [g \in Region |-> 0]
  IN  /\ l \in Listing \ Dataset
      /\ writes < MaxWrites
      /\ \A g \in AcceptedIn(o) :
           SameTimeConsistent(RowFact(l, r, g, t, o[g], rel, 0))
      /\ WriteRow(l, r, t, o, rel, none)

PersistDatasetRow(l, r, t, o, rel) ==
  /\ l \in Dataset
  /\ writes < MaxWrites
  /\ \E sup \in [Region -> 0 .. writes] :
       /\ \A g \in Region :
            IF g \in AcceptedIn(o)
            THEN Resolves(l, r, g, t, o[g].value, sup[g])
            ELSE sup[g] = 0
       /\ WriteRow(l, r, t, o, rel, sup)

\* _persist_row that stops at the revision: an identity held for review, or
\* a row without a price candidate.
RecordIdentity(l, r, q, t) ==
  /\ revisionQuality' = WithRevision(l, r, q)
  /\ lastSeen' = [lastSeen EXCEPT ![l] = SeenAfter(l, t, FALSE)]
  /\ UNCHANGED <<currentRevision, facts, current, writes>>

\* _persist_product_absence: a confirmed 404 becomes an off-shelf fact of the
\* established identity, never older than what is already known.
PersistProductAbsence(l, t, v, rel) ==
  /\ l \in Listing \ Dataset
  /\ writes < MaxWrites
  /\ currentRevision[l] # None
  /\ t > lastSeen[l]
  /\ \E g \in RegionsOf[l] :
       LET f == RowFact(l, currentRevision[l], g, t,
                        [value |-> v, quality |-> "ACCEPTED"], rel, 0)
       IN  /\ SameTimeConsistent(f)
           /\ ~ Recorded(f)
           /\ facts' = InsertedFacts({f})
           /\ current' = [current EXCEPT ![l][g] = Projected(f, @, f.revision)]
  /\ lastSeen' = [lastSeen EXCEPT ![l] = t]
  /\ writes' = writes + 1
  /\ UNCHANGED <<revisionQuality, currentRevision>>

-----------------------------------------------------------------------------
(* rebuild_current: drop the rows of a listing and derive them again.      *)

\* Accepted facts of the current revision that no such fact supersedes.
OpenFacts(l, g) ==
  LET own == TrustedOf(l, currentRevision[l])
  IN  {f \in own : f.region = g /\ \A h \in own : h.region = g => h.supersedes # f.id}

Newer(f, h) == f.time > h.time \/ (f.time = h.time /\ f.id > h.id)

\* q is the row rebuild_current derives for region g.
Rebuilt(l, g, q) ==
  \/ OpenFacts(l, g) = {} /\ q = NoQuote
  \/ \E f \in OpenFacts(l, g) :
       /\ \A h \in OpenFacts(l, g) : ~ Newer(h, f)
       /\ q = QuoteOf(f)

RebuildCurrent(l) ==
  /\ lastSeen[l] # 0
  /\ \E q \in [Region -> {NoQuote} \cup {QuoteOf(f) : f \in Trusted(l)}] :
       /\ \A g \in Region : Rebuilt(l, g, q[g])
       /\ current' = [current EXCEPT ![l] = q]
  /\ UNCHANGED <<revisionQuality, currentRevision, facts, lastSeen, writes>>

-----------------------------------------------------------------------------
Init ==
  /\ revisionQuality = [l \in Listing |-> [r \in Fingerprint |-> "ABSENT"]]
  /\ currentRevision = [l \in Listing |-> None]
  /\ facts = {}
  /\ current = [l \in Listing |-> [g \in Region |-> NoQuote]]
  /\ lastSeen = [l \in Listing |-> 0]
  /\ writes = 0

Next ==
  \E l \in Listing :
    \/ \E r \in Fingerprint, t \in Time :
         \/ \E q \in Quality : RecordIdentity(l, r, q, t)
         \/ \E o \in Offers(l), rel \in Release :
              Offered(o) # {} /\ PersistDeviceRow(l, r, t, o, rel)
         \/ \E o \in Offers(l), rel \in Release :
              Offered(o) # {} /\ PersistDatasetRow(l, r, t, o, rel)
    \/ \E t \in Time, v \in Value, rel \in Release :
         PersistProductAbsence(l, t, v, rel)
    \/ RebuildCurrent(l)

Spec == Init /\ [][Next]_vars

-----------------------------------------------------------------------------
(* Properties.  Several are critical queries of services/database_audit.py *)
(* that these tables could break; their comments name the query.           *)

\* The tables hold well-formed rows.
TypeOK ==
  /\ revisionQuality \in [Listing -> [Fingerprint -> {"ABSENT"} \cup Quality]]
  /\ currentRevision \in [Listing -> Fingerprint \cup {None}]
  /\ facts \subseteq Observation
  /\ current \in [Listing -> [Region -> Quote \cup {NoQuote}]]
  /\ lastSeen \in [Listing -> 0 .. MaxTime]
  /\ writes \in 0 .. MaxWrites

\* current_pointer_mismatch: every projection row repeats an accepted fact of
\* its own listing and region, of the listing's current revision.
CurrentPointsToTrustedFact ==
  \A l \in Listing, g \in Region :
    current[l][g] # NoQuote =>
      /\ current[l][g].revision = currentRevision[l]
      /\ \E f \in Trusted(l) : f.region = g /\ QuoteOf(f) = current[l][g]

\* missing_current_pointer: an accepted fact of the current revision implies
\* a projection row for its region.
NoMissingPointer ==
  \A l \in Listing : \A f \in TrustedOf(l, currentRevision[l]) :
    current[l][f.region] # NoQuote

\* outdated_current_pointer: no accepted fact of the current revision is newer
\* than the projection row of its region, and none supersedes that row's fact.
NoOutdatedPointer ==
  \A l \in Listing : \A f \in TrustedOf(l, currentRevision[l]) :
    LET quote == current[l][f.region]
    IN  quote # NoQuote => f.time <= quote.time /\ f.supersedes # quote.id

\* outdated_current_revision: the current revision holds an accepted fact
\* strictly newer than every accepted fact of another revision.
CurrentRevisionNewest ==
  \A l \in Listing : \A f \in Trusted(l) :
    /\ currentRevision[l] # None
    /\ f.revision # currentRevision[l] =>
         \E h \in TrustedOf(l, currentRevision[l]) : h.time > f.time

\* invalid_current_revision, and more: a current revision is accepted and has
\* an accepted fact, so set_current_revision never compares a trusted time
\* with the first sighting of a revision, which untrusted evidence may date.
CurrentRevisionHasFact ==
  \A l \in Listing : currentRevision[l] # None =>
    /\ revisionQuality[l][currentRevision[l]] = "ACCEPTED"
    /\ TrustedOf(l, currentRevision[l]) # {}

\* invalid_same_time_correction: a correction joins two accepted facts of one
\* data set listing, revision, region and time, the older one recorded first.
CorrectionsWellFormed ==
  \A f \in facts : f.supersedes # 0 =>
    /\ f.listing \in Dataset
    /\ f.quality = "ACCEPTED"
    /\ \E p \in SameTime(f.listing, f.revision, f.region, f.time) :
         p.id = f.supersedes /\ p.id < f.id

\* ambiguous_same_time_observations: of the accepted facts of one listing,
\* region and time, at most one is not superseded.
OneOpenFactPerTime ==
  \A l \in Listing : \A f, h \in Trusted(l) :
    /\ f.region = h.region /\ f.time = h.time
    /\ \A k \in Trusted(l) : k.region = f.region => k.supersedes \notin {f.id, h.id}
    => f = h

\* For a device listing the projection is exact: its row exists as soon as an
\* accepted fact of the current specification does, and no such fact is newer
\* than the row, whatever the order in which evidence arrived.
DeviceProjectionExact ==
  \A l \in Listing \ Dataset : \A f \in TrustedOf(l, currentRevision[l]) :
    /\ current[l][f.region] # NoQuote
    /\ f.time <= current[l][f.region].time

\* The projection is what rebuild_current would derive: losing and rebuilding
\* v2_price_current changes nothing.
ProjectionIsRebuildable ==
  \A l \in Listing, g \in Region : Rebuilt(l, g, current[l][g])

-----------------------------------------------------------------------------
(* The inductive invariant of the proofs.                                  *)

\* Ids are taken in order, devices are quoted in their own region only, and
\* last_seen_at covers every accepted fact.
FactsBounded ==
  \A f \in facts :
    /\ f.id <= writes
    /\ f.region \in RegionsOf[f.listing]
    /\ f.quality = "ACCEPTED" => f.time <= lastSeen[f.listing]

\* A device listing has one accepted fact per region and time.
DeviceFactsUnique ==
  \A l \in Listing \ Dataset : \A f, h \in Trusted(l) :
    f.region = h.region /\ f.time = h.time => f = h

LedgerInv ==
  /\ TypeOK
  /\ FactsBounded
  /\ CorrectionsWellFormed
  /\ CurrentPointsToTrustedFact
  /\ CurrentRevisionNewest
  /\ CurrentRevisionHasFact
  /\ DeviceFactsUnique
  /\ DeviceProjectionExact

\* Within one listing and region an id names one fact.
IdsNameFacts ==
  \A f, h \in facts : f.listing = h.listing /\ f.region = h.region /\ f.id = h.id => f = h

\* Of the accepted facts of the current revision every one has a row in its
\* region, none is newer than that row, and none supersedes its fact.
QuotesExact(l) ==
  \A f \in TrustedOf(l, currentRevision[l]) :
    /\ current[l][f.region] # NoQuote
    /\ f.time <= current[l][f.region].time
    /\ f.supersedes # current[l][f.region].id

QuotedOnce(l) == \E g \in Region : RegionsOf[l] = {g}

\* A switch of revision drops the rows of every region and brings back that of
\* its own: only a listing quoted in one region keeps its rows exact.
OneRegionInv ==
  /\ LedgerInv
  /\ IdsNameFacts
  /\ \A l \in Listing : QuotedOnce(l) => QuotesExact(l)

-----------------------------------------------------------------------------
(* What a reader of v2_price_current is promised.                          *)

\* The row of each device listing, as the register of module LatestPrice.
DeviceQuote ==
  [l \in Listing \ Dataset |-> current[l][CHOOSE g \in Region : RegionsOf[l] = {g}]]

Latest == INSTANCE LatestPrice
            WITH Key <- Listing \ Dataset, latest <- DeviceQuote

\* Seen through that row, the ledger of a device channel only ever posts a
\* strictly newer quote: no write, replay, absence or rebuild does otherwise.
ReadersSeeNewerQuotesOnly == Latest!Spec

-----------------------------------------------------------------------------
(* What a step may never do.                                               *)

\* Facts are never updated or deleted.
FactsAreAppendOnly == [][facts \subseteq facts']_vars

\* "Old trusted time may become history but never rolls back": within one
\* revision the row of a region never goes back in time or disappears, and a
\* switch of revision needs evidence newer than every fact it retires.
CurrentNeverRollsBack ==
  [][\A l \in Listing :
       IF currentRevision'[l] = currentRevision[l]
       THEN \A g \in Region : current'[l][g].time >= current[l][g].time
       ELSE \A f \in Trusted(l) : f.revision = currentRevision[l] =>
              \E h \in facts' \ facts :
                h.listing = l /\ h.quality = "ACCEPTED" /\ h.time > f.time]_vars
=============================================================================

------------------------- MODULE MissingProductsProofs -------------------------
(* Theorems about MissingProducts, for any catalog, thresholds and dates.      *)
EXTENDS MissingProducts, WellFoundedInduction, TLAPS

\* A set of dates that is not empty has a last one.
LEMMA LastDate ==
  ASSUME NEW n \in Nat, NEW S \in SUBSET (0 .. n), S # {}
  PROVE  Max(S) \in S
<1>. DEFINE T == {n - x : x \in S}
            R == OpToRel(<, Nat)
<1>1. T \subseteq Nat /\ T # {}
  <2>1. ASSUME NEW x \in S PROVE n - x \in Nat
    OBVIOUS
  <2>2. PICK x \in S : TRUE
    OBVIOUS
  <2>. QED
    BY <2>1, <2>2
<1>2. IsWellFoundedOn(R, Nat)
  BY NatLessThanWellFounded
<1>. HIDE DEF T, R
<1>3. PICK z \in T : \A y \in T : ~ (<<y, z>> \in R)
  BY <1>1, <1>2, WFMin
<1>4. PICK m \in S : z = n - m
  BY DEF T
<1>5. ASSUME NEW x \in S PROVE m >= x
  <2>1. n - x \in T /\ n - x \in Nat /\ z \in Nat
    BY <1>1 DEF T
  <2>2. ~ (n - x < z)
    BY <2>1, <1>3 DEF R, OpToRel
  <2>. QED
    BY <2>1, <2>2, <1>4
<1>. QED
  BY <1>5 DEF Max

\* A page shows listings of its own product only.
LEMMA PageRows ==
  ASSUME NEW p \in Product, NEW page \in Pages(p)
  PROVE  /\ DOMAIN page \subseteq {l \in Listing : ProductOf[l] = p}
         /\ \A l \in DOMAIN page : page[l] \in {"ON_SALE", "OFF_SHELF", "UNTRUSTED"}
BY DEF Pages

LEMMA CappedCount ==
  ASSUME NEW n \in Nat
  PROVE  /\ Capped(n) \in 0 .. ConfirmationRuns
         /\ \A m \in Nat : n <= m => Capped(n) <= Capped(m)
         /\ n >= ConfirmationRuns => Capped(n) = ConfirmationRuns
         /\ n <= ConfirmationRuns => n <= Capped(n + 1) /\ Capped(n) = n
BY MissingAssumption DEF Capped

-----------------------------------------------------------------------------
(* What a page does to the listings: _persist_success.                     *)

RowTypes ==
  /\ newest \in [Listing -> [at : 0 .. MaxTime, says : Fact \cup {"NONE"}]]
  /\ life \in [Listing -> {"NEW", "UNTRUSTED", "ACTIVE", "INACTIVE"}]
  /\ lastSeen \in [Listing -> 0 .. MaxTime]
  /\ misses \in [Listing -> 0 .. ConfirmationRuns]
  /\ omitted \in [Listing -> 0 .. ConfirmationRuns]

ListingInv ==
  RowTypes /\ LifecycleFollowsEvidence /\ LifecycleIsBacked /\ MissesAreBacked /\ AbsenceIsConfirmed

\* The same of one listing; what it says of its newest fact is written out.
RowInv(l) ==
  /\ newest[l] \in [at : 0 .. MaxTime, says : Fact \cup {"NONE"}]
  /\ life[l] \in {"NEW", "UNTRUSTED", "ACTIVE", "INACTIVE"}
  /\ lastSeen[l] \in 0 .. MaxTime
  /\ misses[l] \in 0 .. ConfirmationRuns /\ omitted[l] \in 0 .. ConfirmationRuns
  /\ newest[l].at <= lastSeen[l]
  /\ life[l] = "INACTIVE" => newest[l].says \in {"OFF_SHELF", "ABSENT"} /\ newest[l].at = lastSeen[l]
  /\ life[l] = "ACTIVE" => newest[l].says \in {"ON_SALE", "OFF_SHELF"}
  /\ newest[l].says = "ON_SALE" => life[l] = "ACTIVE"
  /\ life[l] = "NEW" => lastSeen[l] = 0
  /\ life[l] \in {"NEW", "UNTRUSTED"} => newest[l] = [at |-> 0, says |-> "NONE"]
  /\ misses[l] <= omitted[l]
  /\ newest[l].says = "ABSENT" => omitted[l] >= ConfirmationRuns

LEMMA RowOfInv ==
  ASSUME ListingInv, NEW l \in Listing
  PROVE  RowInv(l)
BY DEF ListingInv, RowTypes, RowInv, LifecycleFollowsEvidence, LifecycleIsBacked, MissesAreBacked,
       AbsenceIsConfirmed, Absent

\* After a step, the invariant is what the rows say.
LEMMA InvOfRows ==
  ASSUME newest' = [l \in Listing |-> newest'[l]], life' = [l \in Listing |-> life'[l]],
         lastSeen' = [l \in Listing |-> lastSeen'[l]],
         misses' = [l \in Listing |-> misses'[l]], omitted' = [l \in Listing |-> omitted'[l]],
         \A l \in Listing : RowInv(l)'
  PROVE  ListingInv'
<1>1. RowTypes'
  BY DEF RowInv, RowTypes
<1>2. LifecycleFollowsEvidence' /\ LifecycleIsBacked' /\ MissesAreBacked' /\ AbsenceIsConfirmed'
  BY DEF RowInv, LifecycleFollowsEvidence, LifecycleIsBacked, MissesAreBacked, AbsenceIsConfirmed, Absent
<1>. QED
  BY <1>1, <1>2 DEF ListingInv

\* The row of one listing after a page that shows it or not.
LEMMA RowAfterPage ==
  ASSUME NEW p \in Product, NEW t \in Time, NEW page \in Pages(p), Persist(page, t),
         NEW l \in Listing, RowInv(l)
  PROVE  /\ RowInv(l)'
         /\ ProductOf[l] # p => life'[l] = life[l] /\ misses'[l] = misses[l]
         /\ newest'[l].says = "ABSENT" => newest[l].says = "ABSENT"
<1>. USE MissingAssumption
<1>1. t \in 1 .. MaxTime
  BY DEF Time
<1>2. /\ l \in Trusted(page) => l \in DOMAIN page /\ page[l] \in {"ON_SALE", "OFF_SHELF"}
      /\ l \in DOMAIN page => ProductOf[l] = p
  BY PageRows DEF Trusted
<1>3. /\ newest'[l] = IF l \in Trusted(page) /\ t > newest[l].at
                      THEN [at |-> t, says |-> page[l]] ELSE newest[l]
      /\ life'[l] = LifeAfter(l, page, t)
      /\ misses'[l] = IF Refreshed(l, page, t) THEN 0 ELSE misses[l]
      /\ lastSeen'[l] = SeenAfter(l, page, t)
      /\ omitted'[l] = IF Refreshed(l, page, t) THEN 0 ELSE omitted[l]
  BY DEF Persist, Refreshed
<1>4. newest[l] \in [at : 0 .. MaxTime, says : Fact \cup {"NONE"}]
  BY DEF RowInv
<1>5. CASE Refreshed(l, page, t)
  <2>1. l \in Trusted(page) /\ t > lastSeen[l] /\ t > newest[l].at
    BY <1>1, <1>4, <1>5 DEF Refreshed, RowInv
  <2>2. newest'[l] = [at |-> t, says |-> page[l]] /\ misses'[l] = 0 /\ omitted'[l] = 0
    BY <2>1, <1>3, <1>5
  <2>3. life'[l] = IF page[l] = "OFF_SHELF" THEN "INACTIVE" ELSE "ACTIVE"
    BY <1>3, <1>5 DEF LifeAfter
  <2>4. lastSeen'[l] = t
    BY <2>1, <1>3 DEF SeenAfter, Later
  <2>. QED
    BY <2>1, <2>2, <2>3, <2>4, <1>1, <1>2 DEF RowInv, Fact
<1>6. CASE l \in Trusted(page) /\ ~ Refreshed(l, page, t)
  <2>1. t <= lastSeen[l] /\ life[l] # "NEW"
    BY <1>1, <1>6 DEF Refreshed, RowInv
  <2>2. lastSeen'[l] = lastSeen[l] /\ misses'[l] = misses[l] /\ omitted'[l] = omitted[l]
    BY <2>1, <1>1, <1>3, <1>6 DEF SeenAfter, Later, RowInv
  <2>3. life'[l] = IF life[l] = "UNTRUSTED" THEN "ACTIVE" ELSE life[l]
    BY <2>1, <1>3, <1>6 DEF LifeAfter
  <2>4. CASE t > newest[l].at
    <3>1. newest'[l] = [at |-> t, says |-> page[l]]
      BY <2>4, <1>3, <1>6
    <3>2. life[l] # "INACTIVE"
      BY <2>1, <2>4, <1>1, <1>4 DEF RowInv
    <3>. QED
      BY <2>1, <2>2, <2>3, <3>1, <3>2, <1>1, <1>2, <1>6 DEF RowInv, Fact
  <2>5. CASE ~ (t > newest[l].at)
    <3>1. newest'[l] = newest[l]
      BY <2>5, <1>3
    <3>2. life[l] # "UNTRUSTED"
      BY <2>5, <1>1, <1>4 DEF RowInv
    <3>3. life'[l] = life[l]
      BY <2>3, <3>2
    <3>. QED
      BY <2>2, <3>1, <3>3, <1>2, <1>6 DEF RowInv
  <2>. QED
    BY <2>4, <2>5
<1>7. CASE l \notin Trusted(page)
  <2>1. newest'[l] = newest[l] /\ misses'[l] = misses[l] /\ omitted'[l] = omitted[l]
    BY <1>3, <1>7 DEF Refreshed
  <2>2. CASE l \in DOMAIN page /\ life[l] = "NEW"
    <3>1. life'[l] = "UNTRUSTED"
      BY <2>2, <1>3, <1>7 DEF LifeAfter, Refreshed
    <3>2. lastSeen'[l] = t
      BY <2>2, <1>1, <1>3 DEF SeenAfter, Later, RowInv
    <3>. QED
      BY <2>1, <2>2, <3>1, <3>2, <1>1, <1>2 DEF RowInv
  <2>3. CASE ~ (l \in DOMAIN page /\ life[l] = "NEW")
    <3>1. life'[l] = life[l] /\ lastSeen'[l] = lastSeen[l]
      BY <2>3, <1>3, <1>7 DEF LifeAfter, SeenAfter, Refreshed
    <3>. QED
      BY <2>1, <3>1 DEF RowInv
  <2>. QED
    BY <2>2, <2>3
<1>. QED
  BY <1>5, <1>6, <1>7

LEMMA PersistPreserves ==
  ASSUME ListingInv, NEW p \in Product, NEW t \in Time, NEW page \in Pages(p), Persist(page, t)
  PROVE  /\ ListingInv'
         /\ \A l \in Listing : ProductOf[l] # p => life'[l] = life[l] /\ misses'[l] = misses[l]
         /\ \A l \in Listing : newest'[l].says = "ABSENT" => newest[l].says = "ABSENT"
<1>1. \A l \in Listing : RowInv(l)
  BY RowOfInv
<1>2. \A l \in Listing : RowInv(l)'
  BY <1>1, RowAfterPage
<1>3. \A l \in Listing : ProductOf[l] # p => life'[l] = life[l] /\ misses'[l] = misses[l]
  BY <1>1, RowAfterPage
<1>4. \A l \in Listing : newest'[l].says = "ABSENT" => newest[l].says = "ABSENT"
  BY <1>1, RowAfterPage
<1>5. /\ newest' = [l \in Listing |-> newest'[l]] /\ life' = [l \in Listing |-> life'[l]]
      /\ lastSeen' = [l \in Listing |-> lastSeen'[l]]
      /\ misses' = [l \in Listing |-> misses'[l]] /\ omitted' = [l \in Listing |-> omitted'[l]]
  BY DEF Persist
<1>6. ListingInv'
  BY <1>2, <1>5, InvOfRows
<1>. QED
  BY <1>3, <1>4, <1>6

-----------------------------------------------------------------------------
(* The run: what each of its steps keeps.                                  *)

RunTypes ==
  run \in [phase : {"none", "units", "confirm"}, full : BOOLEAN,
           known : SUBSET Listing, knownSeen : 0 .. MaxTime,
           found : SUBSET Product, todo : SUBSET Product, errors : BOOLEAN,
           fresh : Time, candidates : SUBSET (KnownProducts \ run.found)]

LEMMA PartsOfInv == MissingInv <=> ListingInv /\ RunTypes /\ SnapshotStaysTrue
BY DEF MissingInv, TypeOK, ListingInv, RowTypes, RunTypes

LEMMA PartsOfInvAfter == MissingInv' <=> ListingInv' /\ RunTypes' /\ SnapshotStaysTrue'
BY DEF MissingInv, TypeOK, ListingInv, RowTypes, RunTypes

LEMMA SameListings ==
  ASSUME ListingInv, UNCHANGED <<newest, life, lastSeen, misses, omitted>>
  PROVE  ListingInv'
BY DEF ListingInv, RowTypes, LifecycleFollowsEvidence, LifecycleIsBacked, MissesAreBacked,
       AbsenceIsConfirmed, Absent

\* An idle run and a spoiled one infer nothing.
LEMMA IdleRun ==
  ASSUME NEW rest \in SUBSET Product, run' = NoRun \/ run' = Spoiled(rest)
  PROVE  RunTypes' /\ SnapshotStaysTrue'
<1>. USE MissingAssumption
<1>1. MaxTime \in Time /\ 0 \in 0 .. MaxTime
  BY DEF Time
<1>2. \/ run' = [phase |-> "none", full |-> FALSE, known |-> {}, knownSeen |-> 0, found |-> {},
                 todo |-> {}, errors |-> FALSE, fresh |-> MaxTime, candidates |-> {}]
      \/ run' = [phase |-> "units", full |-> FALSE, known |-> {}, knownSeen |-> 0, found |-> {},
                 todo |-> rest, errors |-> TRUE, fresh |-> MaxTime, candidates |-> {}]
  BY DEF NoRun, Spoiled
<1>3. /\ run'.phase \in {"none", "units"} /\ ~ run'.full
      /\ run'.phase = "units" => run'.errors
  BY <1>2
<1>4. {} \in SUBSET (KnownProducts' \ run'.found)
  OBVIOUS
<1>5. RunTypes'
  <2>1. CASE run' = [phase |-> "none", full |-> FALSE, known |-> {}, knownSeen |-> 0, found |-> {},
                     todo |-> {}, errors |-> FALSE, fresh |-> MaxTime, candidates |-> {}]
    BY <2>1, <1>1, <1>4 DEF RunTypes
  <2>2. CASE run' = [phase |-> "units", full |-> FALSE, known |-> {}, knownSeen |-> 0, found |-> {},
                     todo |-> rest, errors |-> TRUE, fresh |-> MaxTime, candidates |-> {}]
    BY <2>2, <1>1, <1>4 DEF RunTypes
  <2>. QED
    BY <2>1, <2>2, <1>2
<1>. QED
  BY <1>3, <1>5 DEF SnapshotStaysTrue

LEMMA StartRunPreserves ==
  ASSUME MissingInv, NEW isFull \in BOOLEAN, NEW found \in SUBSET Product, StartRun(isFull, found)
  PROVE  MissingInv'
<1>. USE MissingAssumption
<1>. DEFINE known == {l \in Listing : life[l] = "ACTIVE"}
            dates == {lastSeen[l] : l \in known} \cup {0}
<1>1. ListingInv' /\ UNCHANGED life
  BY PartsOfInv, SameListings DEF StartRun
<1>2. Max(dates) \in 0 .. MaxTime
  <2>1. dates \in SUBSET (0 .. MaxTime) /\ dates # {} /\ MaxTime \in Nat
    BY PartsOfInv DEF ListingInv, RowTypes
  <2>. QED
    BY <2>1, LastDate
<1>3. run' = [phase |-> "units", full |-> isFull, known |-> known, knownSeen |-> Max(dates),
              found |-> found, todo |-> found, errors |-> FALSE, fresh |-> MaxTime,
              candidates |-> {}]
  BY DEF StartRun, NoRun
<1>. HIDE DEF dates
<1>4. RunTypes'
  BY <1>2, <1>3 DEF RunTypes, Time
<1>5. isFull => FloorMet(found, {ProductOf[l] : l \in known})
  BY DEF StartRun
<1>6. SnapshotStaysTrue'
  BY <1>1, <1>3, <1>5 DEF SnapshotStaysTrue, KnownProducts
<1>. QED
  BY <1>1, <1>4, <1>6, PartsOfInvAfter

LEMMA ProcessUnitPreserves ==
  ASSUME MissingInv, NEW p \in Product, ProcessUnit(p)
  PROVE  MissingInv'
<1>. USE MissingAssumption
<1>1. PICK t \in Time, page \in Pages(p) :
        /\ Persist(page, t)
        /\ run' = IF run.errors \/ ~ Complete(p, page) THEN Spoiled(run.todo \ {p})
                  ELSE [run EXCEPT !.todo = @ \ {p}, !.fresh = IF t < @ THEN t ELSE @]
  BY DEF ProcessUnit
<1>2. ListingInv /\ RunTypes /\ SnapshotStaysTrue /\ run.phase = "units" /\ p \in run.todo
  BY PartsOfInv DEF ProcessUnit
<1>3. ListingInv' /\ \A l \in Listing : ProductOf[l] # p => life'[l] = life[l]
  BY <1>1, <1>2, PersistPreserves
<1>4. CASE run.errors \/ ~ Complete(p, page)
  <2>1. run.todo \ {p} \in SUBSET Product /\ run' = Spoiled(run.todo \ {p})
    BY <1>1, <1>2, <1>4 DEF RunTypes
  <2>. QED
    BY <2>1, <1>3, IdleRun, PartsOfInvAfter
<1>5. CASE ~ (run.errors \/ ~ Complete(p, page))
  <2>1. run' = [run EXCEPT !.todo = @ \ {p}, !.fresh = IF t < @ THEN t ELSE @]
    BY <1>1, <1>5
  <2>2. /\ run'.phase = "units" /\ run'.errors = run.errors /\ run'.found = run.found
        /\ run'.known = run.known /\ run'.full = run.full /\ run'.todo = run.todo \ {p}
    BY <2>1, <1>2 DEF RunTypes
  <2>3. RunTypes'
    <3>1. KnownProducts' = KnownProducts
      BY <2>2 DEF KnownProducts
    <3>2. (IF t < run.fresh THEN t ELSE run.fresh) \in Time
      BY <1>2 DEF RunTypes
    <3>. QED
      BY <2>1, <2>2, <3>1, <3>2, <1>2 DEF RunTypes
  <2>4. SnapshotStaysTrue'
    <3>1. run.todo \subseteq run.found /\ ~ run.errors
      BY <1>2, <1>5 DEF SnapshotStaysTrue
    <3>2. ASSUME NEW l \in Listing, ProductOf[l] \notin run.found
          PROVE  l \in run.known <=> life'[l] = "ACTIVE"
      <4>1. ProductOf[l] # p
        BY <3>1, <3>2, <1>2
      <4>. QED
        BY <4>1, <3>1, <3>2, <1>2, <1>3 DEF SnapshotStaysTrue
    <3>3. run.full => FloorMet(run.found, KnownProducts')
      BY <1>2, <2>2 DEF SnapshotStaysTrue, KnownProducts
    <3>. QED
      BY <2>2, <3>1, <3>2, <3>3 DEF SnapshotStaysTrue
  <2>. QED
    BY <1>3, <2>3, <2>4, PartsOfInvAfter
<1>. QED
  BY <1>4, <1>5

\* What a complete run concludes of a listing.
LEMMA RegisterMissingPreserves ==
  ASSUME MissingInv, RegisterMissing
  PROVE  MissingInv'
<1>. USE MissingAssumption
<1>. DEFINE missing == {p \in NotFound : Counts(p)}
<1>1. ListingInv /\ RunTypes /\ SnapshotStaysTrue /\ run.phase = "units" /\ run.todo = {}
      /\ ~ run.errors /\ run.full
  BY PartsOfInv DEF RegisterMissing, InfersOmissions
<1>2. /\ UNCHANGED <<newest, life, lastSeen>>
      /\ misses' = [l \in Listing |-> IF l \in run.known /\ ProductOf[l] \in missing
                                      THEN Capped(misses[l] + 1) ELSE misses[l]]
      /\ omitted' = [l \in Listing |->
                       IF /\ run.full /\ ~ run.errors
                          /\ life[l] = "ACTIVE" /\ run.fresh > lastSeen[l]
                          /\ ProductOf[l] \notin run.found
                       THEN Capped(omitted[l] + 1) ELSE omitted[l]]
      /\ run' = [run EXCEPT !.phase = "confirm", !.candidates = {p \in missing : IsCandidate(p)}]
  BY DEF RegisterMissing
<1>3. ASSUME NEW l \in Listing, ProductOf[l] \notin run.found
      PROVE  l \in run.known <=> life[l] = "ACTIVE"
  BY <1>1, <1>3 DEF SnapshotStaysTrue
<1>4. ASSUME NEW l \in Listing
      PROVE  RowInv(l)' /\ (ProductOf[l] \in missing /\ l \in run.known => ProductOf[l] \notin run.found)
  <2>1. RowInv(l) /\ misses[l] \in 0 .. ConfirmationRuns /\ omitted[l] \in 0 .. ConfirmationRuns
        /\ misses[l] <= omitted[l]
    BY <1>1, RowOfInv DEF RowInv
  <2>2. ASSUME ProductOf[l] \in missing, l \in run.known
        PROVE  ProductOf[l] \notin run.found /\ life[l] = "ACTIVE" /\ run.fresh > lastSeen[l]
    <3>1. ProductOf[l] \notin run.found /\ Counts(ProductOf[l])
      BY <2>2 DEF NotFound
    <3>2. l \in KnownOf(ProductOf[l])
      BY <2>2, <1>1 DEF KnownOf, RunTypes
    <3>. QED
      BY <2>2, <3>1, <3>2, <1>3 DEF Counts
  <2>3. /\ misses'[l] = misses[l] \/ misses'[l] = Capped(misses[l] + 1)
        /\ omitted'[l] = omitted[l] \/ omitted'[l] = Capped(omitted[l] + 1)
        /\ misses'[l] # misses[l] => omitted'[l] = Capped(omitted[l] + 1)
    BY <2>2, <1>1, <1>2
  <2>4. /\ Capped(misses[l] + 1) \in 0 .. ConfirmationRuns
        /\ Capped(omitted[l] + 1) \in 0 .. ConfirmationRuns
        /\ Capped(misses[l] + 1) <= Capped(omitted[l] + 1)
        /\ omitted[l] <= Capped(omitted[l] + 1)
    BY <2>1 DEF Capped
  <2>5. /\ misses'[l] \in 0 .. ConfirmationRuns /\ omitted'[l] \in 0 .. ConfirmationRuns
        /\ misses'[l] <= omitted'[l] /\ omitted[l] <= omitted'[l]
    BY <2>1, <2>3, <2>4
  <2>. QED
    BY <2>1, <2>2, <2>5, <1>2 DEF RowInv
<1>5. ListingInv'
  <2>1. newest = [l \in Listing |-> newest[l]] /\ life = [l \in Listing |-> life[l]]
        /\ lastSeen = [l \in Listing |-> lastSeen[l]]
    BY <1>1 DEF ListingInv, RowTypes
  <2>2. /\ newest' = [l \in Listing |-> newest'[l]] /\ life' = [l \in Listing |-> life'[l]]
        /\ lastSeen' = [l \in Listing |-> lastSeen'[l]]
        /\ misses' = [l \in Listing |-> misses'[l]] /\ omitted' = [l \in Listing |-> omitted'[l]]
    BY <2>1, <1>2
  <2>3. \A l \in Listing : RowInv(l)'
    BY <1>4
  <2>. QED
    BY <2>2, <2>3, InvOfRows
<1>6. /\ run'.phase = "confirm" /\ run'.full = run.full /\ run'.found = run.found
      /\ run'.known = run.known /\ run'.candidates = {p \in missing : IsCandidate(p)}
  BY <1>1, <1>2 DEF RunTypes
<1>7. KnownProducts' = KnownProducts
  BY <1>6 DEF KnownProducts
<1>8. RunTypes'
  <2>1. run'.candidates \in SUBSET (KnownProducts \ run.found)
    BY <1>6 DEF NotFound
  <2>. QED
    BY <2>1, <1>1, <1>2, <1>6, <1>7 DEF RunTypes
<1>9. ASSUME NEW l \in Listing, ProductOf[l] \in run'.candidates
      PROVE  (l \in run.known <=> life[l] = "ACTIVE") /\ (l \in run.known => misses'[l] = ConfirmationRuns)
  <2>1. ProductOf[l] \in missing /\ ProductOf[l] \notin run.found /\ IsCandidate(ProductOf[l])
    BY <1>6, <1>9 DEF NotFound
  <2>2. l \in run.known <=> life[l] = "ACTIVE"
    BY <2>1, <1>3
  <2>3. ASSUME l \in run.known PROVE misses'[l] = ConfirmationRuns
    <3>1. misses[l] + 1 >= ConfirmationRuns /\ misses[l] \in 0 .. ConfirmationRuns
      BY <2>1, <2>3, <1>1 DEF IsCandidate, KnownOf, ListingInv, RowTypes
    <3>2. misses'[l] = Capped(misses[l] + 1)
      BY <2>1, <2>3, <1>2
    <3>. QED
      BY <3>1, <3>2 DEF Capped
  <2>. QED
    BY <2>2, <2>3
<1>10. SnapshotStaysTrue'
  <2>1. run.full => FloorMet(run.found, KnownProducts)
    BY <1>1 DEF SnapshotStaysTrue
  <2>. QED
    BY <2>1, <1>2, <1>6, <1>7, <1>9 DEF SnapshotStaysTrue
<1>. QED
  BY <1>5, <1>8, <1>10, PartsOfInvAfter

\* A candidate leaves the list; the others stay confirmed.
LEMMA CandidateLeaves ==
  ASSUME RunTypes, SnapshotStaysTrue, NEW p \in Product, run.phase = "confirm", p \in run.candidates,
         run' = [run EXCEPT !.candidates = @ \ {p}],
         \A l \in Listing : ProductOf[l] # p => life'[l] = life[l] /\ misses'[l] = misses[l]
  PROVE  RunTypes' /\ SnapshotStaysTrue'
<1>1. /\ run'.phase = "confirm" /\ run'.full = run.full /\ run'.found = run.found
      /\ run'.known = run.known /\ run'.candidates = run.candidates \ {p}
  BY DEF RunTypes
<1>2. KnownProducts' = KnownProducts
  BY <1>1 DEF KnownProducts
<1>3. RunTypes'
  BY <1>1, <1>2 DEF RunTypes
<1>4. ASSUME NEW l \in Listing, ProductOf[l] \in run'.candidates
      PROVE  (l \in run.known <=> life'[l] = "ACTIVE") /\ (l \in run.known => misses'[l] = ConfirmationRuns)
  <2>1. ProductOf[l] \in run.candidates /\ life'[l] = life[l] /\ misses'[l] = misses[l]
    BY <1>1, <1>4
  <2>. QED
    BY <2>1 DEF SnapshotStaysTrue
<1>5. run.full => FloorMet(run.found, KnownProducts)
  BY DEF SnapshotStaysTrue
<1>6. SnapshotStaysTrue'
  BY <1>1, <1>2, <1>4, <1>5 DEF SnapshotStaysTrue
<1>. QED
  BY <1>3, <1>6

LEMMA ConfirmPreserves ==
  ASSUME MissingInv, NEW p \in Product, ConfirmFindsPage(p) \/ ConfirmFails(p)
  PROVE  MissingInv'
<1>1. ListingInv /\ RunTypes /\ SnapshotStaysTrue
  BY PartsOfInv
<1>2. /\ run.phase = "confirm" /\ p \in run.candidates
      /\ run' = [run EXCEPT !.candidates = @ \ {p}]
  BY DEF ConfirmFindsPage, ConfirmFails
<1>3. ListingInv' /\ \A l \in Listing : ProductOf[l] # p => life'[l] = life[l] /\ misses'[l] = misses[l]
  <2>1. CASE ConfirmFindsPage(p)
    <3>1. PICK t \in Time, page \in Pages(p) : Persist(page, t)
      BY <2>1 DEF ConfirmFindsPage
    <3>. QED
      BY <3>1, <1>1, PersistPreserves
  <2>2. CASE ConfirmFails(p)
    <3>1. UNCHANGED <<newest, life, lastSeen, misses, omitted>>
      BY <2>2 DEF ConfirmFails
    <3>. QED
      BY <3>1, <1>1, SameListings
  <2>. QED
    BY <2>1, <2>2
<1>4. RunTypes' /\ SnapshotStaysTrue'
  BY <1>1, <1>2, <1>3, CandidateLeaves
<1>. QED
  BY <1>3, <1>4, PartsOfInvAfter

\* The listings a confirmed absence retires are the ones of its product that are
\* still on sale, and each of them has all its misses.
LEMMA AbsenceStep ==
  ASSUME MissingInv, NEW p \in Product, ConfirmAbsence(p)
  PROVE  /\ \A l \in Listing : l \in KnownOf(p) <=> ProductOf[l] = p /\ life[l] = "ACTIVE"
         /\ \A l \in KnownOf(p) : omitted[l] >= ConfirmationRuns /\ life'[l] = "INACTIVE"
         /\ \A l \in Listing \ KnownOf(p) : newest'[l] = newest[l] /\ life'[l] = life[l]
         /\ UNCHANGED misses
<1>. USE MissingAssumption
<1>1. ListingInv /\ RunTypes /\ SnapshotStaysTrue /\ run.phase = "confirm" /\ p \in run.candidates
  BY PartsOfInv DEF ConfirmAbsence
<1>2. \A l \in Listing : l \in KnownOf(p) <=> ProductOf[l] = p /\ life[l] = "ACTIVE"
  BY <1>1 DEF SnapshotStaysTrue, KnownOf, RunTypes
<1>3. ASSUME NEW l \in KnownOf(p) PROVE omitted[l] >= ConfirmationRuns
  <2>1. l \in Listing /\ ProductOf[l] = p /\ l \in run.known
    BY <1>1 DEF KnownOf, RunTypes
  <2>2. misses[l] = ConfirmationRuns /\ misses[l] <= omitted[l] /\ omitted[l] \in 0 .. ConfirmationRuns
    BY <2>1, <1>1 DEF SnapshotStaysTrue, ListingInv, MissesAreBacked, RowTypes
  <2>. QED
    BY <2>2
<1>4. /\ \A l \in KnownOf(p) : life'[l] = "INACTIVE"
      /\ \A l \in Listing \ KnownOf(p) : newest'[l] = newest[l] /\ life'[l] = life[l]
      /\ UNCHANGED misses
  <2>1. /\ life' = [l \in Listing |-> IF l \in KnownOf(p) THEN "INACTIVE" ELSE life[l]]
        /\ UNCHANGED misses
    BY DEF ConfirmAbsence, Retires
  <2>2. \A l \in Listing \ KnownOf(p) : newest'[l] = newest[l]
    <3>1. PICK t \in Time : newest' = [l \in Listing |-> IF l \in KnownOf(p) /\ t > newest[l].at
                                         THEN [at |-> t, says |-> "ABSENT"] ELSE newest[l]]
      BY DEF ConfirmAbsence, Retires
    <3>. QED
      BY <3>1
  <2>3. KnownOf(p) \subseteq Listing
    BY <1>1 DEF KnownOf, RunTypes
  <2>. QED
    BY <2>1, <2>2, <2>3
<1>. QED
  BY <1>2, <1>3, <1>4

LEMMA ConfirmAbsencePreserves ==
  ASSUME MissingInv, NEW p \in Product, ConfirmAbsence(p)
  PROVE  MissingInv'
<1>. USE MissingAssumption
<1>1. /\ ListingInv /\ RunTypes /\ SnapshotStaysTrue
      /\ run.phase = "confirm" /\ p \in run.candidates
      /\ run' = [run EXCEPT !.candidates = @ \ {p}]
      /\ UNCHANGED <<misses, omitted>>
  BY PartsOfInv DEF ConfirmAbsence
<1>2. PICK t \in Time :
       /\ Supersedes(p, t)
       /\ newest' = [l \in Listing |->
                       IF l \in KnownOf(p) /\ t > newest[l].at
                       THEN [at |-> t, says |-> "ABSENT"] ELSE newest[l]]
       /\ life' = [l \in Listing |-> IF l \in KnownOf(p) THEN "INACTIVE" ELSE life[l]]
       /\ lastSeen' = [l \in Listing |-> IF l \in KnownOf(p) THEN t ELSE lastSeen[l]]
  BY DEF ConfirmAbsence, Retires
<1>3. ASSUME NEW l \in Listing PROVE RowInv(l)'
  <2>1. RowInv(l) /\ t \in 1 .. MaxTime
    BY <1>1, RowOfInv DEF Time
  <2>2. CASE l \in KnownOf(p)
    <3>1. t > lastSeen[l] /\ omitted[l] >= ConfirmationRuns
      BY <2>2, <1>2, AbsenceStep DEF Supersedes
    <3>2. t > newest[l].at
      <4>1. newest[l].at <= lastSeen[l] /\ newest[l].at \in 0 .. MaxTime /\ lastSeen[l] \in 0 .. MaxTime
        BY <2>1 DEF RowInv
      <4>. QED
        BY <4>1, <3>1, <2>1
    <3>3. /\ newest'[l] = [at |-> t, says |-> "ABSENT"] /\ life'[l] = "INACTIVE" /\ lastSeen'[l] = t
          /\ misses'[l] = misses[l] /\ omitted'[l] = omitted[l]
      BY <2>2, <3>2, <1>1, <1>2
    <3>. QED
      BY <2>1, <3>1, <3>3 DEF RowInv, Fact
  <2>3. CASE l \notin KnownOf(p)
    <3>1. newest'[l] = newest[l] /\ life'[l] = life[l] /\ lastSeen'[l] = lastSeen[l]
          /\ misses'[l] = misses[l] /\ omitted'[l] = omitted[l]
      BY <2>3, <1>1, <1>2
    <3>. QED
      BY <2>1, <3>1 DEF RowInv
  <2>. QED
    BY <2>2, <2>3
<1>4. ListingInv'
  <2>1. misses = [l \in Listing |-> misses[l]] /\ omitted = [l \in Listing |-> omitted[l]]
    BY <1>1 DEF ListingInv, RowTypes
  <2>2. /\ newest' = [l \in Listing |-> newest'[l]] /\ life' = [l \in Listing |-> life'[l]]
        /\ lastSeen' = [l \in Listing |-> lastSeen'[l]]
        /\ misses' = [l \in Listing |-> misses'[l]] /\ omitted' = [l \in Listing |-> omitted'[l]]
    BY <2>1, <1>1, <1>2
  <2>3. \A l \in Listing : RowInv(l)'
    BY <1>3
  <2>. QED
    BY <2>2, <2>3, InvOfRows
<1>5. \A l \in Listing : ProductOf[l] # p => life'[l] = life[l] /\ misses'[l] = misses[l]
  BY <1>1, <1>2 DEF KnownOf
<1>6. RunTypes' /\ SnapshotStaysTrue'
  BY <1>1, <1>5, CandidateLeaves
<1>. QED
  BY <1>4, <1>6, PartsOfInvAfter

-----------------------------------------------------------------------------
(* The theorems.                                                           *)

LEMMA InitMissing == Init => MissingInv
<1>. SUFFICES ASSUME Init PROVE MissingInv
  OBVIOUS
<1>. USE MissingAssumption
<1>1. ListingInv
  BY DEF Init, ListingInv, RowTypes, LifecycleFollowsEvidence, LifecycleIsBacked, MissesAreBacked,
         AbsenceIsConfirmed, Absent
<1>2. run = [phase |-> "none", full |-> FALSE, known |-> {}, knownSeen |-> 0, found |-> {},
             todo |-> {}, errors |-> FALSE, fresh |-> MaxTime, candidates |-> {}]
  BY DEF Init, NoRun
<1>3. {} \in SUBSET (KnownProducts \ run.found) /\ MaxTime \in Time /\ 0 \in 0 .. MaxTime
  BY DEF Time
<1>4. RunTypes
  BY <1>2, <1>3 DEF RunTypes
<1>5. SnapshotStaysTrue
  BY <1>2 DEF SnapshotStaysTrue
<1>. QED
  BY <1>1, <1>4, <1>5, PartsOfInv

LEMMA StepMissing == MissingInv /\ [Next]_vars => MissingInv'
<1>. SUFFICES ASSUME MissingInv, [Next]_vars PROVE MissingInv'
  OBVIOUS
<1>1. ASSUME NEW isFull \in BOOLEAN, NEW found \in SUBSET Product, StartRun(isFull, found)
      PROVE  MissingInv'
  BY <1>1, StartRunPreserves
<1>2. ASSUME NEW p \in Product, ProcessUnit(p) PROVE MissingInv'
  BY <1>2, ProcessUnitPreserves
<1>3. ASSUME NEW p \in Product, UnitFails(p) PROVE MissingInv'
  <2>1. ListingInv'
    BY <1>3, PartsOfInv, SameListings DEF UnitFails
  <2>2. run.todo \ {p} \in SUBSET Product /\ run' = Spoiled(run.todo \ {p})
    BY <1>3, PartsOfInv DEF UnitFails, RunTypes
  <2>. QED
    BY <2>1, <2>2, IdleRun, PartsOfInvAfter
<1>4. CASE RegisterMissing
  BY <1>4, RegisterMissingPreserves
<1>5. ASSUME NEW p \in Product, ConfirmFindsPage(p) \/ ConfirmFails(p) PROVE MissingInv'
  BY <1>5, ConfirmPreserves
<1>6. ASSUME NEW p \in Product, ConfirmAbsence(p) PROVE MissingInv'
  BY <1>6, ConfirmAbsencePreserves
<1>7. CASE EndRun
  <2>1. ListingInv' /\ run' = NoRun
    BY <1>7, PartsOfInv, SameListings DEF EndRun
  <2>. QED
    BY <2>1, IdleRun, PartsOfInvAfter
<1>8. CASE UNCHANGED vars
  BY <1>8 DEF vars, MissingInv, TypeOK, KnownProducts, LifecycleFollowsEvidence, LifecycleIsBacked,
              SnapshotStaysTrue, MissesAreBacked, AbsenceIsConfirmed, Absent
<1>. QED
  BY <1>1, <1>2, <1>3, <1>4, <1>5, <1>6, <1>7, <1>8 DEF Next

\* The inductive invariant of the missing-product guards.
THEOREM MissingInvariant == Spec => []MissingInv
BY InitMissing, StepMissing, PTL DEF Spec

\* A listing's lifecycle follows its newest trusted evidence
\* (get_or_create_source_listing, retire_listing), whatever the catalog, the
\* thresholds and the order in which pages and absences are written.
THEOREM LifecycleTheorem == Spec => []LifecycleFollowsEvidence
<1>1. MissingInv => LifecycleFollowsEvidence
  BY DEF MissingInv
<1>. QED
  BY <1>1, MissingInvariant, PTL

\* register_missing never counts a run that says nothing about the listing.
THEOREM MissesTheorem == Spec => []MissesAreBacked
<1>1. MissingInv => MissesAreBacked
  BY DEF MissingInv
<1>. QED
  BY <1>1, MissingInvariant, PTL

\* _persist_product_absence retires only what missing_confirmation_runs complete
\* runs have omitted, for any number of products, listings and runs.
THEOREM AbsenceTheorem == Spec => []AbsenceIsConfirmed
<1>1. MissingInv => AbsenceIsConfirmed
  BY DEF MissingInv
<1>. QED
  BY <1>1, MissingInvariant, PTL

\* Only a confirmed absence marks a listing absent.
LEMMA AbsenceComesFromConfirmation ==
  ASSUME MissingInv, [Next]_vars, NEW l \in Listing, Absent(l)', ~ Absent(l)
  PROVE  \E p \in Product : ConfirmAbsence(p)
<1>1. ListingInv
  BY PartsOfInv
<1>2. ASSUME NEW p \in Product, NEW t \in Time, NEW page \in Pages(p), Persist(page, t) PROVE FALSE
  BY <1>1, <1>2, PersistPreserves DEF Absent
<1>3. ASSUME UNCHANGED newest PROVE FALSE
  BY <1>3 DEF Absent
<1>4. ASSUME NEW p \in Product, ProcessUnit(p) \/ ConfirmFindsPage(p) PROVE FALSE
  BY <1>2, <1>4 DEF ProcessUnit, ConfirmFindsPage
<1>5. ASSUME \/ \E isFull \in BOOLEAN, found \in SUBSET Product : StartRun(isFull, found)
             \/ \E p \in Product : UnitFails(p) \/ ConfirmFails(p)
             \/ RegisterMissing \/ EndRun \/ UNCHANGED vars
      PROVE  FALSE
  BY <1>3, <1>5 DEF StartRun, UnitFails, ConfirmFails, RegisterMissing, EndRun, vars
<1>. QED
  BY <1>4, <1>5 DEF Next

\* An absence concerns the whole product (_persist_product_absence retires every
\* listing of the snapshot, which is every listing still on sale).
THEOREM AbsenceCoversProductTheorem == Spec => AbsenceCoversProduct
<1>1. ASSUME MissingInv, [Next]_vars
      PROVE  [\A l, m \in Listing :
                (Absent(l))' /\ ~ Absent(l) /\ ProductOf[l] = ProductOf[m] => life'[m] # "ACTIVE"]_vars
  <2>1. SUFFICES ASSUME NEW l \in Listing, NEW m \in Listing, (Absent(l))', ~ Absent(l),
                        ProductOf[l] = ProductOf[m]
                 PROVE  life'[m] # "ACTIVE"
    OBVIOUS
  <2>2. PICK p \in Product : ConfirmAbsence(p)
    BY <1>1, <2>1, AbsenceComesFromConfirmation
  <2>3. l \in KnownOf(p) /\ ProductOf[l] = p
    <3>1. newest'[l] # newest[l]
      BY <2>1 DEF Absent
    <3>. QED
      BY <1>1, <2>2, <3>1, AbsenceStep
  <2>. QED
    BY <1>1, <2>1, <2>2, <2>3, AbsenceStep
<1>. QED
  BY <1>1, MissingInvariant, PTL DEF Spec, AbsenceCoversProduct

\* A discovery below the floor costs no product a miss: only register_missing
\* counts, and it does so in full runs, which the floor let pass at their start.
THEOREM FewDiscoveredTheorem == Spec => FewDiscoveredCostNothing
<1>1. ASSUME MissingInv, [Next]_vars
      PROVE  [\A l \in Listing : misses'[l] > misses[l] =>
                Cardinality(run.found) * 100 >= Cardinality(KnownProducts) * FloorPercent]_vars
  <2>1. SUFFICES ASSUME NEW l \in Listing, misses'[l] > misses[l]
                 PROVE  FloorMet(run.found, KnownProducts)
    BY DEF FloorMet
  <2>2. ListingInv /\ misses[l] \in Nat
    BY <1>1, PartsOfInv DEF ListingInv, RowTypes
  <2>3. ASSUME NEW p \in Product, NEW t \in Time, NEW page \in Pages(p), Persist(page, t) PROVE FALSE
    <3>1. misses'[l] = 0 \/ misses'[l] = misses[l]
      BY <2>3 DEF Persist
    <3>. QED
      BY <2>1, <2>2, <3>1
  <2>4. ASSUME UNCHANGED misses PROVE FALSE
    BY <2>1, <2>2, <2>4
  <2>5. CASE RegisterMissing
    BY <1>1, <2>5 DEF RegisterMissing, InfersOmissions, MissingInv, SnapshotStaysTrue
  <2>6. ASSUME NEW p \in Product, ProcessUnit(p) \/ ConfirmFindsPage(p) PROVE FALSE
    BY <2>3, <2>6 DEF ProcessUnit, ConfirmFindsPage
  <2>7. ASSUME \/ \E isFull \in BOOLEAN, found \in SUBSET Product : StartRun(isFull, found)
               \/ \E p \in Product : UnitFails(p) \/ ConfirmFails(p) \/ ConfirmAbsence(p)
               \/ EndRun \/ UNCHANGED vars
        PROVE  FALSE
    BY <2>4, <2>7 DEF StartRun, UnitFails, ConfirmFails, ConfirmAbsence, EndRun, vars
  <2>. QED
    BY <1>1, <2>5, <2>6, <2>7 DEF Next
<1>. QED
  BY <1>1, MissingInvariant, PTL DEF Spec, FewDiscoveredCostNothing
=============================================================================

--------------------------- MODULE MissingProducts ---------------------------
(***************************************************************************)
(* How a device source loses a product: the guards around a crawl run      *)
(* (catalog_device_guards.py and the missing-product half of               *)
(* CatalogCrawlPipeline._run).                                             *)
(*                                                                         *)
(* Discovery may omit a product that is still sold, a page may show only   *)
(* some of its listings (SKUs), a fetch may fail, and the clock that dates *)
(* a page may stand still or step back.  A product is retired only after   *)
(* several complete runs that omit it and a definitive 404 of its own      *)
(* page.  Runs of one source are serialized by the named lock, so there is *)
(* one run at a time here; it may die between any two of its transactions. *)
(***************************************************************************)
EXTENDS Integers, FiniteSets, FiniteSetsExt

CONSTANTS
  Product,
  Listing,
  ProductOf,          \* [Listing -> Product], the part of external_product_id
  ConfirmationRuns,   \* missing_confirmation_runs
  FloorPercent,       \* discovery_count_floor_ratio
  MaxTime             \* bound on the dates of pages

ASSUME MissingAssumption ==
  /\ ProductOf \in [Listing -> Product]
  /\ ConfirmationRuns \in Nat \ {0}
  /\ FloorPercent \in 0 .. 100
  /\ MaxTime \in Nat \ {0}

VARIABLES
  newest,    \* [Listing -> newest trusted fact: its date and what it says];
             \* older facts decide nothing here and are left out
  life,      \* lifecycle_status; "NEW" before the listing exists, "UNTRUSTED"
             \* while it has no trusted revision, which the code stores as ACTIVE
  lastSeen,  \* last_seen_at
  misses,    \* consecutive_misses; more than ConfirmationRuns is one value
  run,       \* the run under way: the local variables of _run
  omitted    \* history: complete runs that omitted the listing since lastSeen

vars == <<newest, life, lastSeen, misses, run, omitted>>

Time == 1 .. MaxTime

\* A trusted fact is a price, an off-shelf mark on the page of the product, or
\* the confirmed absence of the whole product.
Fact == {"ON_SALE", "OFF_SHELF", "ABSENT"}

NoRun == [phase |-> "none", full |-> FALSE, known |-> {}, knownSeen |-> 0,
          found |-> {}, todo |-> {}, errors |-> FALSE, fresh |-> MaxTime,
          candidates |-> {}]

Capped(n) == IF n > ConfirmationRuns THEN ConfirmationRuns ELSE n

Later(t, u) == IF t > u THEN t ELSE u

\* listing_ids of a product in the snapshot of the run.
KnownOf(p) == {l \in run.known : ProductOf[l] = p}

KnownProducts == {ProductOf[l] : l \in run.known}

-----------------------------------------------------------------------------
(* The start of a run: snapshot of the known products, then discovery.     *)

FloorMetByAny(found, products) == TRUE
FloorMet(found, products) ==
  Cardinality(found) * 100 >= Cardinality(products) * FloorPercent

\* An empty discovery, and for a full run one below the floor, ends the run
\* before any unit.
StartRun(isFull, found) ==
  LET known == {l \in Listing : life[l] = "ACTIVE"}
  IN /\ run.phase = "none"
     /\ found # {}
     /\ isFull => FloorMet(found, {ProductOf[l] : l \in known})
     /\ run' = [NoRun EXCEPT !.phase = "units",
                             !.full = isFull,
                             !.known = known,
                             !.knownSeen = Max({lastSeen[l] : l \in known} \cup {0}),
                             !.found = found,
                             !.todo = found]
     /\ UNCHANGED <<newest, life, lastSeen, misses, omitted>>

-----------------------------------------------------------------------------
(* The page of one product, dated t, showing some of its listings.         *)

Pages(p) ==
  UNION {[shown -> {"ON_SALE", "OFF_SHELF", "UNTRUSTED"}] :
           shown \in (SUBSET {l \in Listing : ProductOf[l] = p}) \ {{}}}

Trusted(page) == {l \in DOMAIN page : page[l] # "UNTRUSTED"}

\* assert_same_time_consistent, for the newest fact; a page that contradicts an
\* older one fails like any other (UnitFails).
NoConflict(page, t) ==
  \A l \in Trusted(page) : newest[l].at = t => newest[l].says = page[l]

\* get_or_create_source_listing: only newer trusted evidence changes the
\* lifecycle of a listing and ends a series of misses.
RefreshedAlways(l, page, t) == l \in Trusted(page)
Refreshed(l, page, t) == l \in Trusted(page) /\ t > lastSeen[l]

LifeAfter(l, page, t) ==
  IF Refreshed(l, page, t) THEN IF page[l] = "OFF_SHELF" THEN "INACTIVE" ELSE "ACTIVE"
  ELSE CASE l \in DOMAIN page /\ life[l] = "NEW" -> "UNTRUSTED"
         [] l \in Trusted(page) /\ life[l] = "UNTRUSTED" -> "ACTIVE"
         [] OTHER -> life[l]

SeenAfter(l, page, t) ==
  IF l \in Trusted(page) \/ (l \in DOMAIN page /\ life[l] = "NEW")
  THEN Later(t, lastSeen[l]) ELSE lastSeen[l]

Persist(page, t) ==
  /\ NoConflict(page, t)
  /\ newest' = [l \in Listing |->
                  IF l \in Trusted(page) /\ t > newest[l].at
                  THEN [at |-> t, says |-> page[l]] ELSE newest[l]]
  /\ life' = [l \in Listing |-> LifeAfter(l, page, t)]
  /\ misses' = [l \in Listing |-> IF Refreshed(l, page, t) THEN 0 ELSE misses[l]]
  /\ lastSeen' = [l \in Listing |-> SeenAfter(l, page, t)]
  /\ omitted' = [l \in Listing |->
                   IF l \in Trusted(page) /\ t > lastSeen[l] THEN 0 ELSE omitted[l]]

\* The page is complete: all its rows are trusted and it shows every known
\* listing of the product (else SKU_COVERAGE_INCOMPLETE).
Complete(p, page) ==
  /\ Trusted(page) = DOMAIN page
  /\ KnownOf(p) \subseteq DOMAIN page

\* After an error the run still processes its units, but infers nothing: what
\* only the inference reads is dropped.
Spoiled(rest) == [NoRun EXCEPT !.phase = "units", !.todo = rest, !.errors = TRUE]

ProcessUnit(p) ==
  /\ run.phase = "units"
  /\ p \in run.todo
  /\ \E t \in Time, page \in Pages(p) :
       /\ Persist(page, t)
       /\ run' = IF run.errors \/ ~ Complete(p, page) THEN Spoiled(run.todo \ {p})
                 ELSE [run EXCEPT !.todo = @ \ {p}, !.fresh = IF t < @ THEN t ELSE @]

\* The fetch, the parser, a guard or the transaction fails: the listings stay
\* as they are.
UnitFails(p) ==
  /\ run.phase = "units"
  /\ p \in run.todo
  /\ run' = Spoiled(run.todo \ {p})
  /\ UNCHANGED <<newest, life, lastSeen, misses, omitted>>

-----------------------------------------------------------------------------
(* Omissions: what a complete run says of the known products it missed.    *)

InfersFromAnyScope == ~ run.errors /\ run.fresh > run.knownSeen
InfersOmissions ==
  /\ run.full
  /\ ~ run.errors
  /\ run.fresh > run.knownSeen

NotFound == KnownProducts \ run.found

\* register_missing counts for each product whose listings are all older than
\* the run, and asks for a confirmation when the least count is reached.
Counts(p) == \A l \in KnownOf(p) : run.fresh > lastSeen[l]

IsCandidateBySome(p) ==
  \E l \in KnownOf(p) : misses[l] + 1 >= ConfirmationRuns
IsCandidate(p) ==
  \A l \in KnownOf(p) : misses[l] + 1 >= ConfirmationRuns

RegisterMissing ==
  /\ run.phase = "units"
  /\ run.todo = {}
  /\ InfersOmissions
  /\ LET missing == {p \in NotFound : Counts(p)}
     IN /\ misses' = [l \in Listing |->
                        IF l \in run.known /\ ProductOf[l] \in missing
                        THEN Capped(misses[l] + 1) ELSE misses[l]]
        /\ run' = [run EXCEPT !.phase = "confirm",
                              !.candidates = {p \in missing : IsCandidate(p)}]
  /\ omitted' = [l \in Listing |->
                   IF /\ run.full /\ ~ run.errors
                      /\ life[l] = "ACTIVE" /\ run.fresh > lastSeen[l]
                      /\ ProductOf[l] \notin run.found
                   THEN Capped(omitted[l] + 1) ELSE omitted[l]]
  /\ UNCHANGED <<newest, life, lastSeen>>

\* A candidate's own page is there after all: it is processed like a unit.
ConfirmFindsPage(p) ==
  /\ run.phase = "confirm"
  /\ p \in run.candidates
  /\ \E t \in Time, page \in Pages(p) : Persist(page, t)
  /\ run' = [run EXCEPT !.candidates = @ \ {p}]

ConfirmFails(p) ==
  /\ run.phase = "confirm"
  /\ p \in run.candidates
  /\ run' = [run EXCEPT !.candidates = @ \ {p}]
  /\ UNCHANGED <<newest, life, lastSeen, misses, omitted>>

\* _persist_product_absence: a 404 dated after every sighting retires all the
\* known listings of the product in one transaction.
Supersedes(p, t) == \A l \in KnownOf(p) : t > lastSeen[l]

RetiresOneOf(p) == {CHOOSE l \in KnownOf(p) : TRUE}
Retires(p) == KnownOf(p)

ConfirmAbsence(p) ==
  /\ run.phase = "confirm"
  /\ p \in run.candidates
  /\ \E t \in Time :
       /\ Supersedes(p, t)
       /\ newest' = [l \in Listing |->
                       IF l \in Retires(p) /\ t > newest[l].at
                       THEN [at |-> t, says |-> "ABSENT"] ELSE newest[l]]
       /\ life' = [l \in Listing |-> IF l \in Retires(p) THEN "INACTIVE" ELSE life[l]]
       /\ lastSeen' = [l \in Listing |-> IF l \in Retires(p) THEN t ELSE lastSeen[l]]
  /\ run' = [run EXCEPT !.candidates = @ \ {p}]
  /\ UNCHANGED <<misses, omitted>>

\* finish_run, or the death of the process at any point.
EndRun ==
  /\ run.phase # "none"
  /\ run' = NoRun
  /\ UNCHANGED <<newest, life, lastSeen, misses, omitted>>

-----------------------------------------------------------------------------
Init ==
  /\ newest = [l \in Listing |-> [at |-> 0, says |-> "NONE"]]
  /\ life = [l \in Listing |-> "NEW"]
  /\ lastSeen = [l \in Listing |-> 0]
  /\ misses = [l \in Listing |-> 0]
  /\ run = NoRun
  /\ omitted = [l \in Listing |-> 0]

Next ==
  \/ \E isFull \in BOOLEAN, found \in SUBSET Product : StartRun(isFull, found)
  \/ \E p \in Product : ProcessUnit(p) \/ UnitFails(p)
  \/ RegisterMissing
  \/ \E p \in Product : ConfirmFindsPage(p) \/ ConfirmFails(p) \/ ConfirmAbsence(p)
  \/ EndRun

Spec == Init /\ [][Next]_vars

-----------------------------------------------------------------------------
(* Properties.                                                             *)

\* Types of the variables; the products a run asks to confirm are known ones
\* that it did not find.
TypeOK ==
  /\ newest \in [Listing -> [at : 0 .. MaxTime, says : Fact \cup {"NONE"}]]
  /\ life \in [Listing -> {"NEW", "UNTRUSTED", "ACTIVE", "INACTIVE"}]
  /\ lastSeen \in [Listing -> 0 .. MaxTime]
  /\ misses \in [Listing -> 0 .. ConfirmationRuns]
  /\ omitted \in [Listing -> 0 .. ConfirmationRuns]
  /\ run \in [phase : {"none", "units", "confirm"}, full : BOOLEAN,
              known : SUBSET Listing, knownSeen : 0 .. MaxTime,
              found : SUBSET Product, todo : SUBSET Product, errors : BOOLEAN,
              fresh : Time, candidates : SUBSET (KnownProducts \ run.found)]

\* lifecycle_status follows the newest trusted evidence, in whatever order pages
\* and absences are written: an older page revives no retired listing, and no
\* listing is on sale whose newest evidence is its absence.
LifecycleFollowsEvidence ==
  \A l \in Listing :
    /\ newest[l].at <= lastSeen[l]
    /\ life[l] = "INACTIVE" => newest[l].says \in {"OFF_SHELF", "ABSENT"}
    /\ life[l] = "ACTIVE" => newest[l].says \in {"ON_SALE", "OFF_SHELF"}
    /\ newest[l].says = "ON_SALE" => life[l] = "ACTIVE"

\* register_missing never counts more than the evidence: a listing's misses are
\* complete, error-free, full runs dated after its last sighting that omitted
\* its product; partial, failed, restricted and replaying runs add none.
MissesAreBacked == \A l \in Listing : misses[l] <= omitted[l]

Absent(l) == newest[l].says = "ABSENT"

\* A product is declared absent only after missing_confirmation_runs such runs
\* for every one of the listings that are retired with it.
AbsenceIsConfirmed == \A l \in Listing : Absent(l) => omitted[l] >= ConfirmationRuns

\* An absence concerns the whole product: the step that makes one listing
\* absent leaves no listing of its product on sale.
AbsenceCoversProduct ==
  [][\A l, m \in Listing :
       (Absent(l))' /\ ~ Absent(l) /\ ProductOf[l] = ProductOf[m] => life'[m] # "ACTIVE"]_vars

\* A discovery that finds few of the known products, which is how a broken
\* connector looks, costs no product a miss.
FewDiscoveredCostNothing ==
  [][\A l \in Listing : misses'[l] > misses[l] =>
        Cardinality(run.found) * 100 >= Cardinality(KnownProducts) * FloorPercent]_vars

-----------------------------------------------------------------------------
(* The inductive invariant behind these properties.                        *)

\* A listing without trusted fact has never been retired, and what retired a
\* listing is the last thing seen of it.
LifecycleIsBacked ==
  \A l \in Listing :
    /\ life[l] = "NEW" => lastSeen[l] = 0
    /\ life[l] \in {"NEW", "UNTRUSTED"} => newest[l] = [at |-> 0, says |-> "NONE"]
    /\ life[l] = "INACTIVE" => newest[l].at = lastSeen[l]

\* The snapshot of a run stays true of the products the run did not find, until
\* their own page is read again; a candidate has all its misses.
SnapshotStaysTrue ==
  /\ run.phase = "units" /\ ~ run.errors =>
       /\ run.todo \subseteq run.found
       /\ \A l \in Listing : ProductOf[l] \notin run.found => (l \in run.known <=> life[l] = "ACTIVE")
  /\ run.phase = "confirm" =>
       \A l \in Listing : ProductOf[l] \in run.candidates =>
         /\ l \in run.known <=> life[l] = "ACTIVE"
         /\ l \in run.known => misses[l] = ConfirmationRuns
  /\ run.full => FloorMet(run.found, KnownProducts)

MissingInv ==
  /\ TypeOK
  /\ LifecycleFollowsEvidence
  /\ LifecycleIsBacked
  /\ SnapshotStaysTrue
  /\ MissesAreBacked
  /\ AbsenceIsConfirmed
=============================================================================

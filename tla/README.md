# A TLA+ model of device-price-service

The service collects Chinese prices from two kinds of source: five official device malls (Apple,
Huawei, Xiaomi, OPPO, vivo) and two published data sets of food prices (Shanghai, MOFCOM). One run
discovers the products or documents of a source, fetches and parses each, normalises its identity,
judges its price candidates and stores facts, and a projection of the facts, in MySQL. An audit and
a replay read the result.

These modules model the part of that program that is hard to test: what many runs, repeats,
corrections, late pages and failures do to the price tables, to the life of a listing and to the
record of a run; what becomes of a unit on its way from the site to the tables; and what units that
write at the same time do to each other. Paths below are relative to `src/src/device_price_service/`.

## 1. Inventory

| Component | State | Operations | Hard behaviour |
|---|---|---|---|
| Price ledger: `db/catalog_repositories.py`, `_persist_row` and `_persist_product_absence` of `services/catalog_crawl_pipeline.py`, `services/catalog_persistence.py` | `v2_price_observation`, `v2_price_current`, `v2_listing_revision`, `v2_source_listing` | store a row, record an identity, confirm an absence, rebuild the projection | evidence out of order, replays, same-day corrections, a listing that changes identity and changes back |
| Crawl run: `_run`, `_start_run`, `_finish_run`, `services/locks.py` | MySQL named lock, `v2_crawl_run`, counters of the process | lock, start (and recover stale rows), discover, units, finish, cancel | two processes, death between transactions, answers lost after a commit, a lock that dies with its connection |
| Missing products: `services/catalog_device_guards.py` and the second half of `_run` | `lifecycle_status`, `last_seen_at`, `consecutive_misses` | snapshot, discovery floor, coverage, count misses, confirm | a decision spread over many runs; a snapshot used long after it was taken; a clock that stands still |
| Price change confirmation: `_process_unit`, `price_change_requires_confirmation` | none of its own | compare with the last fact, fetch again, compare signatures | a wrong page must not pass, a true change must; an offer that changes between the two fetches |
| Row preparation: `services/catalog_preparation.py`, `validation/`, `domain/` | none | all-or-nothing identity of a product, trust of each candidate, validators and constraints | many combined conditions, stated three times |
| Listing matches and catalog items: `create_match`, `_get_or_create`, `_ensure_item` | `v2_listing_match`, `v2_catalog_item`, `v2_item_variant` | accept, reject, supersede a match | duplicate inserts under two isolation levels |
| Fetchers: `fetchers/http.py`, `browser.py`, `url_policy.py` | semaphore and next slot of each host, a browser page | fetch with retries, redirects, throttle; walk over a page's options | bounded retries, a walk that must end |
| Raw artifacts: `services/artifact_store.py` | files named after their hash | save, load | death between writing and renaming |
| Replay: `services/replay_service.py` | none (read-only) | re-parse stored pages | what may be concluded from partial evidence |
| Audit: `services/database_audit.py` | none (read-only) | queries over the tables | its queries are claims about every reachable state |
| Scheduler, CLI, runtime | jobs | start runs | two callers of one source |
| Connectors: `crawlers/` | none | gather the evidence of a unit over several requests or clicks, parse it | a site that changes between two requests, a walk that is cut short |
| Normalisation: `normalization/` | none | texts and units | formats; outside the reach of a model checker |

How they interact. The scheduler, or a command, calls `_run` for one source. `_run` takes the lock
`device-price:catalog:{channel}:{region_scope}:{region_code}` on a connection it uses for nothing
else, inserts a row RUNNING, asks the connector for units and hands each to `_process_unit`, which
fetches, prepares and stores it. Start, every unit, every failure record, the count of misses and the
finish are transactions of their own, so a process can die between any two of them and every
transaction's answer can be lost. Device transactions run READ COMMITTED and data set transactions
REPEATABLE READ. Two transactions of one listing do not overlap as long as the lock is held, since only
the runs of its source and region write it, and each takes the listing's row with `SELECT ... FOR UPDATE`;
that is why a transaction is one step in most of these models. `CatalogTransactions` takes the
transactions apart, because the catalog items, the locks of index gaps and a lost lock are shared all the same.

What makes each component correct is stated as the properties of section 3. The hazards of
`PROJECT.json` name the line where each can go wrong.

## 2. The modules

| Module | Models |
|---|---|
| `PriceLedger` | the price tables and every transaction that writes them |
| `LatestPrice` | abstract specification: a register per device listing that takes strictly newer quotes only |
| `PublishedLedger` | `PriceLedger` with a history variable: what the source said last |
| `PriceLedgerProofs`, `PublishedLedgerProofs` | theorems about `PriceLedger` and `PublishedLedger` |
| `CrawlRun`, `CrawlRunProofs` | runs, their lock and their rows, in several processes, and theorems about them |
| `MissingProducts`, `MissingProductsProofs` | the life of device listings over many runs, and theorems about it |
| `PriceChange`, `PriceChangeProofs` | the second fetch that a large price change of a device needs, and theorems about it |
| `HttpFetch` | fetches of several tasks that share the throttle of a host |
| `UnitEvidence` | extends `HttpFetch`: the units of a run with their fetches, the files and records they leave, and what a replay concludes from them |
| `UnitEvidenceProofs` | theorems about `UnitEvidence` and `HttpFetch` |
| `RowPreparation` | from parsed rows to observations: policy, preparation, validators and constraints |
| `SourceCollection` | extends `RowPreparation`: how the connectors gather the evidence of a unit while the site changes |
| `SourceCollectionProofs` | theorems about `SourceCollection` and `RowPreparation` |
| `CatalogTransactions`, `CatalogTransactionsProofs` | the transactions of units statement by statement: get-or-create, matches, locks, and theorems about them |
| `MC...` | instances of these modules for TLC |

**PriceLedger.** `facts` is the table of observations, `current` the projection (`NoQuote` is an
absent row), `revisionQuality` the revisions of each listing, `currentRevision` and `lastSeen` two
columns of the listing. `PersistDeviceRow` and `PersistDatasetRow` are the transaction of one row
(`_persist_row`): `WithRevision` is `get_or_create_listing_revision`, `Switches`, `SharesTrustedTime`
and `QuotesKept` are `set_current_revision`, `SameTimeConsistent` and `Resolves` are the same-time
rules of devices and of data sets, `Recorded`, `InsertedFacts` and `Projected` are `record`. A
transaction that raises rolls back, which is a step not taken: the exceptions are the guards.
`RecordIdentity` is a row whose identity is held for review, or that has no price. `Value` stands for
the source hash and the whole price payload; `Release` for the adapter and policy versions, which are
part of the key of a fact. `REVIEW_REQUIRED` stands for `REJECTED`, which no statement treats
differently. Regions of a data set row share one date, and a row has at most one candidate for each
region. Ids are the number of the writing transaction: the code compares ids within a listing and
region only, where one transaction writes one row. A row that fails is not a step, so its effect on
the other rows of the same product (they are rolled back with it) needs no variable: listings are
independent in the code except through that rollback.

**LatestPrice** is the promise to a reader of a device price. `PriceLedger` maps the projection row of
each device listing to the register (`DeviceQuote`), so every device write, absence and rebuild must be
a strictly newer quote or leave the register alone.

**PublishedLedger** adds `published`, for each listing and region the content the source gave last for
the newest time it has spoken of, and whether that content was new for its time.

**CrawlRun.** `pc` says where a process is in `_run`: `locked` before `_start_run`, `started` before
discovery, `units` until `_finish_run`, `cancel` in the handler of `BaseException`, `release` before the
`finally` of the lock. A row carries, besides its columns, what the run committed (`stored`, `flawed`)
and whether a later run recovered it. Every transaction has a variant whose answer is lost. A finished
row that no process refers to leaves the model (nothing reads it) and its place is free again, so the
number of runs is not bounded. The confirmations of missing products count as units.
`finish_run` does not ask whether the row is still RUNNING: after a lost answer CANCELLED overwrites
SUCCEEDED, and a process that lost its lock may finish a row another run has recovered.

**MissingProducts.** One run at a time (the lock). A listing has the newest trusted fact about it,
`lastSeen`, `misses` and a life; `UNTRUSTED` is a listing that no trusted row has reached, ACTIVE in
the table but left out of the snapshot because it has no current revision. A page shows any non-empty
subset of the product's listings, each on sale, off shelf or untrusted, and has any date: the clock may
stand still or step back. `run` holds the local variables of `_run`; after an error only the units left
matter (`Spoiled`). `omitted` is a history variable: the complete runs that omitted the listing since
it was last seen. `EndRun` is the finish of a run and also its death at any point.

**PriceChange.** One device product. `shop` is what the mall really says, which changes at any time and
which the code never sees; `quoted` is what `price_change_requires_confirmation` reads, the newest
trusted amount of each listing and specification; `first` is the page that waits for its confirmation
(`first_prepared`). A page is any set of rows and may be wrong. Dates are abstracted to `newer`, the
listings whose newest trusted price the page is later than. Amount, specification and "off shelf" are what
is left of the signature; a difference elsewhere, a second page that is not later or
not complete, an error and a death all store nothing and are `GiveUp`. A replayed page with a large
change is held for review at once and changes nothing here. Amounts are written as integers and the
division of the code as a product, which is exact.

**HttpFetch.** A task is at one place of `HttpFetcher.fetch`: `queued` in the line of a host, `pacing`
under its timing lock, `sent`, in `backoff`, or ended. `line` is the semaphore's queue: its first
`Concurrency` tasks hold it. `cooldown` is what is left until `_next_allowed`. Tasks of one event loop give
way only where the code awaits. Redirects inside the allowlist queue at the next host; a retry starts a new chain.
The devices' sources have disjoint hosts today, so two runs meet at a host only through discoveries and
restarts of the scheduler's jobs; the throttle is written for tasks that share one, and so is the model.

**UnitEvidence.** A job is one run; `page`, `kept`, `first` and `verdict` are the locals `result`, `artifact`,
`first_result` and the error code of the rows. `files` says of each content whether the file named by its hash
is absent, whole or partly written; the files of a run are in a directory of its own. `records` are the rows of
`v2_crawl_record`, written by transactions of which each may fail or lose its answer. `unproven` is no column: it says
that the page moved a price far and was not confirmed. `Replayable` and `Replayed` are `ReplayService.replay`
and `ReplayOutcome.to_dict`. `FetchMethod.REPLAY` as input of a run occurs in tests only.

**RowPreparation.** `page` is a parsed product or data set, `prepared` the `PreparedCatalogRows`, `facts` what
`_persist_row` stores. `Evaluate` is `CatalogPricePolicy.evaluate`, `Valid` the validators of
`CatalogPriceObservation`, `Checked` the constraints of the table: three statements of one rule, each translated from its own
source. What the category rules say of a row (identity, quantity) is an input. `facts` is a set, because `record` returns the
observation it finds under the key of a candidate (`FactAt`): a candidate that a row repeats is one fact. Two accepted candidates
of a device that differ share a region and a time (`Clash`), which `assert_same_time_consistent` refuses, and with it the unit.
`own` is the time and evidence hash a source gives a candidate, `None` for those of the fetch.

**SourceCollection.** `source` is what the site publishes now and `past` what it has published since the
collection began; `Publish` may change it between any two requests or clicks. Apple and Huawei answer with one
page; OPPO and vivo list the SKUs first and are then asked for each; Xiaomi, and the older pages of Huawei, OPPO and
vivo, are walked option by option (`_walk_dimensions`; `todoAt` is the stack of its loops); Shanghai and MOFCOM are found
by day and read later. Each `...Parses` is what that connector demands of the evidence; `Parse` hands its rows to
`Prepare` and `Persist` of `RowPreparation`. The loop of the walk resolves each option anew: one that is gone or disabled is passed over
(`SkipOption`), which may happen to any option at any time, and the history variable `tab.skipped` keeps the variants behind it. Options
that appear after the page was loaded are left out. A row of MOFCOM is a market
with a candidate for each region that quotes it; there an element of `Listing` is one such quote (`MarketOf`, `QuotedIn`), and the order of the
candidates, which no later step looks at, is any. Assumed of the sites: a page shows no variants but those it was loaded with, at the
price of its loading or of the click; options are hierarchical, so an option is offered if a variant has it
with the values chosen above it; a page settles within `settle_ms`; the selections tell variants apart; Shanghai's
addresses may go on showing any publication since the collection began. An answer that repeats a SKU is refused by
every connector and left out.

**CatalogTransactions.** `pc` and `stage` say at which statement of `_persist_success` a transaction is; `written`,
`held` and `gaps` are its uncommitted rows, its row locks and its gap locks, and `WaitsFor` is derived from
them. A product stands for its item, listing, revision and variant, numbered as the indexes order them.
Two transactions of one product are two runs whose lock was lost. Device units run READ COMMITTED and read what is
committed; data set units read the snapshot of their first statement. Merchants (created once for each source),
locks of foreign keys and reads of observations are left out.

## 3. The runs

Runs that pass:

| Run | Instance | Properties and what they say |
|---|---|---|
| `device_ledger` | 1 device listing, 2 identities, 2 contents, 2 releases, 3 times, 3 writes | `LedgerInv`, the inductive invariant of the proofs, with the audit's queries over pointers, revisions and same-time facts; one open fact per time; the projection is what `rebuild_current` derives; a device shows the newest time and what was last said of it; the ledger implements `LatestPrice` |
| `dataset_ledger` | 1 data set listing, 1 region, 2 identities, 3 contents, 2 days, 4 writes | corrections of a day form one chain whose end is shown and is what a rebuild derives; pointers are sound; a first quote or a correction to a content new for its day is shown |
| `crawl_run` | 2 processes, 2 scopes, 3 rows, 2 units, 1 fault, the lock may be lost | runs exclude each other unless a lock was lost, recovery hits dead runs only, the verdict of a run agrees with what it committed, the lock is given back, no run of the default scope stays RUNNING |
| `missing_variants` | a product with 2 listings and two with 1, 2 confirmations, 2 times, floor 50 % | life follows evidence, misses are backed by complete runs, an absence is confirmed and covers the product, a discovery below the floor counts no miss |
| `price_change` | 2 listings, 1 specification (the theorem covers a listing that changes its specification), amounts 100, 120, 150 at 30 % | an amount moves far only to what two pages said of every listing the step stores; an offer that stays is adopted |
| `unit_evidence` | a run of 2 units and another task, 1 host, 2 attempts, 1 redirect, 1 fault; 400 k states | records name whole files of the page they are about; the first page of a large change is on record before the second is asked for; requests keep their distance; every unit ends in a record unless its run stops |
| `row_preparation` | every candidate alone on a page, pages of two typical rows with up to two candidates, and eight ways of collecting 5 variants in 2 dimensions (for MOFCOM 5 quotes of 4 markets) with 2 changes of the site and a limit of 3 snapshots; 1.2 M states | a unit is refused after preparation only for a device quoted twice in a region or a unit price of zero, and never if a connector collected it; validators and constraints agree; counts and status match the facts; a product is all or nothing; what is stored was published, of a data set on its day; nothing sold throughout is missing but variants whose option the page withheld |
| `catalog_transactions` | 2 units of one product under 2 versions, a unit of another product and one of a data set, on any earlier contents; 117 thousand states | one open match for a listing; no product unit lost to a duplicate key; no circle of waiting |

Runs that find a disagreement between the code and its documentation:

* `dataset_switch_back` (`NoMissingPointer`). A data set listing quotes Beijing and Shanghai as A; a later
  row is of identity B, which deletes both projection rows; a still later row returns to A for Beijing
  only. Shanghai's accepted fact of A is the newest there is and has no projection row. The audit counts
  it as `missing_current_pointer`, critical; a rebuild would restore it, but nothing calls one.
* `dataset_release` (`OneOpenFactPerTime`). The key of a fact contains the adapter and policy version; the
  same publication read by a newer release is a second, unlinked fact of its day. The audit counts it as
  `ambiguous_same_time_observations`, and the next correction of that day is refused as ambiguous.
* `dataset_reverts` (`ShowsLastPublication`). A day published as A, corrected to B and published as A again
  takes the key of the first fact: `record` treats it as a replay and B stays current. The connector
  contract asks for a correction whenever the content of a row changes.
* `replay_upgrade` (`NoUpgradeByReplay`). A page moves a price far, the second page does not confirm it and lacks a
  known SKU. The record keeps `SKU_COVERAGE_INCOMPLETE` in place of `PRICE_CHANGE_UNCONFIRMED`; the replay tells an
  unconfirmed point by that code and reports SUCCEEDED, which a comment of the same file rules out.

Bounds. The rules of the ledger compare two facts, and a chain of corrections two links; three writes are
a fact, its rival and a third to expose what the second left behind (the counterexamples above take three), four
allow a correction of a correction next to another day. Three times distinguish before, equal and
after with room on both sides. Listings do not interact, so one is enough; the proofs lift the bound.
Two processes are enough to overlap; two scopes are the fewest where recovery must choose; a row
that is never free would show as a deadlock; two units mix a good one with a flawed one. Two confirmations are the fewest where a series can be broken; two listings of a
product the fewest where a page shows some of them; three products the fewest where the floor of 50 %
separates one found from two. Of three amounts two pairs are near and one is far, in both directions. Counters are capped where larger values are not told apart
(`Capped`). One region and one identity more than a data set run has are
the subject of `PointersAreSound` and of `dataset_switch_back`. In `unit_evidence` the second task is what a request can
collide with; two attempts and one redirect give every mixture of the two; the semaphore of 2 is never full with two
tasks, so the distance rests on the timing lock alone. In `row_preparation` the variants have a dimension in common,
one apart and one absent, the limit is reached by one of the publications, and two changes are the fewest
that lead back to an earlier state. A quantity of 9 against a price of 2 makes a unit price round to zero; pairs of
typical candidates hold every repetition and every conflict; one market is quoted in two regions. In `catalog_transactions` the rows of the data set are
the neighbours of a product's in every index, so that a gap of one contains the other. Deadlock is checked where the system
goes on for ever; a unit that is stored, a run that stopped and transactions that ended are ends.

Fairness of `price_change`. `SF` of a first page that is the offer and later than everything stored, and
`SF` of the same page as confirmation: runs are repeated, and a mall that is read again and again is
sometimes read correctly. `WF` of the end of a confirmation: its requests have timeouts. `StablePriceIsAdopted`
assumes besides that the offer stays as it is and that from then on no wrong page is set aside; a mall that
alternates wrong pages is held back for good, as the guard intends.

Fairness of `crawl_run`. `WF(Proceed(p))`: fetches, transactions and lock calls have timeouts, so a
process that is not dead goes on. `SF` of `Acquire` and `Start` of the scheduler: it tries every few
hours without end, finds the lock free now and then, and its channel is enabled; a lock that is free
only between attempts of others would starve it, which the code does not prevent but hours between runs
do. `WF(Age(r))`: time passes. Nothing is assumed of commands: a command's run
restricted to another scope, or to source items, is recovered only by a command of that scope, so
`NoRunStaysRunning` speaks of the default scope. Data set runs recover nothing, as the runbook says.

Fairness of `unit_evidence`. `WF` of the clock, of each fetch (its requests have timeouts, its sleeps end) and of the
unit (code between two awaits is run). No fairness of `Begin`: a run may stop.

## 4. What is proved

Every safety property that a passing run checks is also a theorem, some of them for devices or for listings quoted in one region only. The theorems hold for every
value of the constants under the assumptions each module names (`ASSUME`, evaluated by TLC on every run); what they suppose
besides is explained below. Each component's inductive invariant was checked by TLC on the instances of section 3
before it was proved.

| Theorem | Statement |
|---|---|
| **`PriceLedgerProofs`** | any listings, regions, identities, contents, releases, times, writes |
| `LedgerTypeCorrect`, `LedgerInvariant` | `Spec => []TypeOK`, `Spec => []LedgerInv` |
| `PointersAreSound` | the projection, the current revisions and the corrections are what the audit demands, for devices and data sets |
| `DeviceFactsNeverAmbiguous`, `DeviceProjectionRebuildable` | without data sets, `[]OneOpenFactPerTime`, `[]ProjectionIsRebuildable` |
| `LedgerImplementsLatest` | without data sets, the ledger implements `LatestPrice` |
| `FactsOnlyGrow`, `DeviceNeverRollsBack` | `FactsAreAppendOnly`; without data sets, `CurrentNeverRollsBack` |
| **`PublishedLedgerProofs`** | the same, and any contents a source gives |
| `OneRegionInvariant`, `CorrectionsTheorem` | `Spec => []OneRegionInv`, `Spec => []CorrectionsWellFormed` |
| `NoMissingPointerTheorem`, `NoOutdatedPointerTheorem`, `NeverRollsBackTheorem` | for listings quoted in one region, data sets included, the property of the name |
| `HistoryAddsNothing`, `HistoryInvariant` | `HistorySpec => Spec`, `HistorySpec => []HistoryInv` |
| `DevicesShowTheorem` | `HistorySpec => []DevicesShowLastPublication` |
| `ShowsLastNewsTheorem` | for listings quoted in one region, `HistorySpec => []ShowsLastNews` |
| **`CrawlRunProofs`** | any processes, scopes, rows, units and faults, the lock lost or not |
| `CrawlInvariant`, `CrawlTypeCorrect` | `Spec => []CrawlInv`, `Spec => []TypeOK` |
| `RunsAreApart`, `VerdictsAreTrue`, `RecoveryIsSafe` | `[]OneLiveRun`, `[]VerdictMatchesRows`, `RecoversDeadRunsOnly` |
| **`MissingProductsProofs`** | any products and listings, confirmations, times, floor |
| `MissingInvariant` | `Spec => []MissingInv` |
| `LifecycleTheorem`, `MissesTheorem`, `AbsenceTheorem` | `[]LifecycleFollowsEvidence`, `[]MissesAreBacked`, `[]AbsenceIsConfirmed` |
| `AbsenceCoversProductTheorem`, `FewDiscoveredTheorem` | the two action properties |
| **`PriceChangeProofs`** | any listings, specifications, amounts and threshold |
| `PriceTypeCorrect`, `LargeChangesAreConfirmed` | `Spec => []TypeOK`, where `TypeOK` also says that a waiting page moves an amount too far; `Spec => LargeChangeIsSeenTwice` |
| **`CatalogTransactionsProofs`** | any transactions, products and versions |
| `TransactionsInvariant` | `Spec => []TransactionsInv` |
| `NoUnitLosesARaceTheorem`, `MatchedOnceTheorem` | `[]NoUnitLosesARace`, `[]ListingsAreMatchedOnce` |
| `CirclesTheorem` | every circle of waiting transactions contains two data sets |
| `NoDeadlockTheorem` | if at most one transaction is of a data set, `[]NoDeadlock` |
| **`SourceCollectionProofs`** | any pages given; any listings, dimensions, options, prices, snapshot limit and changes of a site |
| `CollectInvariant` | `CollectSpec => []CollectInv` |
| `FactsWerePublishedTheorem`, `OnlyWithheldTheorem` | `[]FactsWerePublished`, `[]OnlyWithheldIsMissed` |
| `ValidatorsAgreeTheorem`, `ProductTheorem`, `VerdictTheorem` | `[]ValidatorsAgreeWithConstraints`, `[]ProductIsAllOrNothing`, `[]VerdictMatchesFacts` |
| `RefusedForCauseTheorem` | `[]RefusedForCause`: only a page given, not collected, is refused, and only if it quotes a device twice or has a unit price that rounds to zero |
| **`UnitEvidenceProofs`** | any jobs, tasks, hosts, contents, attempts, redirects and faults |
| `EvidenceInvariant` | `Spec => []EvidenceInv` |
| `EvidenceIsWholeTheorem`, `RecordsSpeakTheorem`, `FirstPageTheorem` | `[]EvidenceIsWhole`, `[]RecordsSpeakOfTheirPage`, `[]FirstPageIsKept` |
| `SendsAreSpacedTheorem` | `Spec => SendsAreSpaced` |

The ledger. No property of the tables is inductive alone. That the current revision is the newest
needs that it has an accepted fact (otherwise `set_current_revision` falls back on the revision's first
sighting, which untrusted evidence may date); that a projection row is exact after a switch needs
that a switch retires older facts only; that an absence is never a second fact of its instant needs that
`last_seen_at` covers every accepted fact. `LedgerInv` is the conjunction: `TypeOK`, `FactsBounded`
(ids and times of facts are covered by `writes` and `lastSeen`), `CorrectionsWellFormed`,
`CurrentPointsToTrustedFact`, `CurrentRevisionNewest`, `CurrentRevisionHasFact`, `DeviceFactsUnique` and
`DeviceProjectionExact`. The proof has one lemma for each transaction; the rows of devices and data
sets share theirs, since both are `RowWritten` with different links. `DeviceRegionAssumption` (a device listing is quoted
in one region) is what `validate_source` and the device connectors enforce. The theorems without data sets
read `Dataset = {}`: a channel is of one kind, and channels share no listing.

Data sets and history. A data set listing quoted in several regions does lose projection rows
(`dataset_switch_back`), so the theorems about its pointers are about listings with `QuotedOnce`. Devices and the Shanghai source are
quoted in one region; a market of MOFCOM may be quoted in several, and of such a market the theorems say nothing. For listings with `QuotedOnce` `OneRegionInv` adds two facts to `LedgerInv`: an id names one fact of a listing and
region, and the row is exact (`QuotesExact`: it exists, no fact of the current identity is newer, none supersedes it).
The step that needs both is `record`: a fact of the same day that is not the link of the row is refused, and one that is, advances it. That a rebuild
keeps the row exact rests on `LastIsOpen`: of the facts of a time the one with the largest id is superseded by none.
`HistoryInv` adds what the source said last. A last statement that was new to its time is the fact with the
largest id of that time (`NewsIsNewest`); this is what makes a later row, an absence and a rebuild keep showing it. For devices nothing of
the kind is needed: one fact per time, and the row is the newest.

Runs. `RowsAreOwned` says that a row has one process at most, which keeps it until its release; without it a second finish could
be of another run. `LockGuardsRuns` says that whoever is past the lock holds it or lost it. `TotalsAgree` relates the totals a process counts to
what the run has committed so far; a lost answer lowers the totals, never the row, which is why SUCCEEDED needs no error.

Missing products. `SnapshotStaysTrue` is what the code relies on when it confirms with an old snapshot: of a product that the run did
not find, nothing changes until its own page is read again, and a candidate has all its misses.
`LifecycleIsBacked` says that what retired a listing is the last thing seen of it. The proof found that a `CASE` of the model
had overlapping arms, of which TLC takes the first and the logic any; the definition now says which.

Price change. A page stored at once raised no question for any listing it is
news for, and an amount it is not news for stays or was absent; a confirmed page equals the first, so
whatever it stores was seen twice.

Transactions. From the select of its revision on, a product unit holds the lock of its listing (`LocksInOrder`), so what it read stays true
until it commits (`FindingsStayTrue`) and the matches it closes are all that are open (`ClosesWhatItReplaces`). Two product units
in a circle would each hold what the other waits for; the order item, listing, everything else excludes it, and gaps
are locked by data sets only. Two data sets at once may deadlock (section 5): that is the hypothesis of `NoDeadlockTheorem`.

Preparation. The policy, the validators and the constraints are compared case by case. The proof finds two causes for which a prepared
unit is refused: the only candidate the policy lets through and the validators refuse has a unit price that rounds to zero, and a device may be quoted
twice in a region. Pages that were collected have neither, because each of their rows speaks of a region once and their quantity is
one. The counts are those of the facts because what makes two facts one is a row that repeats itself (`RepeatsItself`); a listing is on one row only
(`DUPLICATE_LISTING`), so no other two candidates can meet in a fact.

Collection. `CollectInv` follows a unit from its first request to its facts. `EvidenceInv` says that each price gathered, and each "not sold" that
excuses a missing price, was published, of a data set on the day found before; no later answer can undo that, since `past` only grows. `HeardOfAll`
says that on the way to the parser one state of the site was heard of as a whole, whatever was asked of later states: the one page, the SKUs
of the first answer, or the page the browser was loaded with. The last rests on `WalkInv`: the loops of `_walk_dimensions` are nested
in the order of the dimensions, and each variant of the page has a snapshot, was skipped, agrees with the values chosen down to
the dimension about to be entered, or hangs on an option an outer loop has still to try. A click passes over no variant because it keeps the values chosen above it, and a dimension
without options because none of the variants left has one there: here the proof needs the assumption on sites that options are hierarchical.
What a connector accepts (`Parses`) then covers what it heard of but for what was skipped, and each row has one candidate for each region, of proven identity.

Evidence. A file is never seen half written, since it is renamed when it is whole (`files` has no other value). The first page is on record unless that record could not be
written, in which case the unit is failing and still holds the page (`FirstIsSaved`). Requests keep their distance because one task at a
time sleeps under the timing lock of a host, and nobody else's request can lengthen the wait it read.

Only model-checked:

* `OneOpenFactPerTime` and `ProjectionIsRebuildable` with data sets: the first is false there (`dataset_release`), the second is
  checked by `dataset_ledger` with one release.
* Liveness (`NoRunStaysRunning`, `LockIsReleased`, `StablePriceIsAdopted`, `EveryUnitIsRecorded`): it rests on fairness, which the prover does not handle.

## 5. What is not modelled, and known corners

* Normalisation, seeds and migrations: texts, units, static data and DDL. What the category rules say of a row is an
  input of `RowPreparation`; the constraint on accepted prices is `Checked` there.
* Of the connectors: names, categories, addresses, formats of prices, and how a discovery page yields a list of products
  (`MissingProducts` takes any list). Of the browser: routes, fixed options and the time a page needs. Of HTTP: headers,
  sizes and TLS.
* Of the replay: how the request is recovered from the manifest, and its historical report. Of the audit: hashes of
  identities and of files.
* The scheduler's jobs (`max_instances=1`, `coalesce`) are the fairness and the processes of `CrawlRun`; commands, signals and logging
  have no state.
* MySQL: a transaction is one step except in `CatalogTransactions`. There, two data set sources whose first
  units run at once can each lock the gap of an index (`DELETE` of a listing without projection under REPEATABLE READ) the
  other inserts into. InnoDB rolls one back, the unit is recorded as failed and the next run repeats it; the instance
  has one data set, since no claim of the code excludes this.
* A price so small and a quantity so large that the unit price rounds to zero: the policy accepts it, the validators
  refuse the observation and with it the unit. No source quotes such a row.
* A row that repeats a candidate counts it again and stores it once, so `accepted_count` is larger than the number of
  facts. No connector repeats one; `VerdictMatchesFacts` asks for equality of all other pages.
* An option of a browser page that is gone or disabled when the walk comes to it is passed over without an error, and the
  product is stored without the variants behind it. `OnlyWithheldIsMissed` allows exactly this. If a listing behind it
  is known, the unit is flagged `SKU_COVERAGE_INCOMPLETE` (`MissingProducts`); a new one waits for the next run.
* A revision first seen untrusted keeps `REVIEW_REQUIRED` for ever, so later accepted rows of that
  identity raise; it is a guard of `WriteRow`, and no document says what should happen.
* A listing created by an untrusted row takes that row's date as `last_seen_at`. A first trusted row that
  is not newer does not refresh the lifecycle: if it says off shelf, the listing stays ACTIVE.
  `LifecycleFollowsEvidence` allows exactly this.
* A listing missing from the page of a product that is still there never counts as missing: the run is
  incomplete (`SKU_COVERAGE_INCOMPLETE`), which the runbook states as intended.
* A data set row of another identity than the current one switches the listing only if it is newer than what
  every region shows. If it is not, its fact is recorded and its region goes on showing the older identity;
  `ShowsLastNews` is therefore checked for listings quoted in one region.
* If the server drops the idle connection of the lock, two runs may be live at once: `OneLiveRun` speaks of
  behaviours without that event, the other properties of `crawl_run` of all.
* A match that is closed takes the `first_observed_at` of its revision as its end, which is also its
  beginning: superseded matches are empty intervals. Only the open one is read.
* vivo's availability comes from the first answer and may be older than the price of a SKU; the pair was never shown
  at one time. `FactsWerePublished` speaks of the price.

## 6. Plan

Done, in this order: `PriceLedger`, its proofs, `LatestPrice`, `PublishedLedger`, `CrawlRun`, `MissingProducts`,
`PriceChange` and its proofs, `HttpFetch`, `UnitEvidence`, `RowPreparation`, `CatalogTransactions`, `SourceCollection`; then the proofs of
`CrawlRun`, `MissingProducts`, `CatalogTransactions`, `UnitEvidence`, `PublishedLedger` and `SourceCollection`.

Left to model: the discovery pages of the malls as a list that is cut short or repeats a product, against the discovery
floor; the jobs of the scheduler on top of `CrawlRun`.

Theorem worth proving next: `ProjectionIsRebuildable` for data sets of one release, whose corrections of a day form a chain.

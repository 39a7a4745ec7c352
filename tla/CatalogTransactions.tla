------------------------ MODULE CatalogTransactions ------------------------
(***************************************************************************)
(* The transactions of units that write at the same time: _persist_success *)
(* statement by statement, with _get_or_create, the locks and the current  *)
(* reads it relies on, and the matches of a listing's revision.            *)
(*                                                                         *)
(* A product stands for its item, its listing, the listing's revision and  *)
(* the variant of that revision; products of different numbers belong to   *)
(* different sources.  Two transactions of one product are two runs whose  *)
(* named lock was lost.  What InnoDB does with locks, gaps and snapshots   *)
(* is external.                                                            *)
(***************************************************************************)
EXTENDS Naturals, FiniteSets, Sequences

CONSTANTS
  Tx,         \* transactions
  Device,     \* those of product units; the others are of data sets
  Product,    \* numbers: indexes order the rows of products by them
  ProductOf,  \* the product a transaction writes
  Version,    \* normalizer versions
  VersionOf,  \* the version its process runs
  None

ASSUME TransactionsAssumption ==
  /\ Device \subseteq Tx
  /\ Product \subseteq Nat
  /\ ProductOf \in [Tx -> Product]
  /\ VersionOf \in [Tx -> Version]
  /\ \A d \in Device, t \in Tx \ Device : ProductOf[d] # ProductOf[t]

ASSUME NoneIsNoOutcome == None \notin {"committed", "duplicate", "aborted"}

VARIABLES
  stored,    \* committed rows, as <<table, product, version>>
  closed,    \* committed matches whose effective_to is set
  pc,        \* the step of its unit a transaction is at
  stage,     \* within the step: select, read, insert or reread
  snapshot,  \* what a consistent read of a REPEATABLE READ transaction sees
  written,   \* rows a transaction inserted and has not committed
  closing,   \* matches it set effective_to of
  held,      \* rows it locked
  gaps,      \* gaps of indexes it locked, as <<table, product>>
  outcome    \* None, committed, duplicate or aborted

vars == <<stored, closed, pc, stage, snapshot, written, closing, held, gaps, outcome>>

-----------------------------------------------------------------------------
(* The unit as a sequence of steps.                                        *)

DeviceUnit == <<"item", "listing", "revision", "variant", "match", "current">>
DatasetUnit == <<"listing", "revision", "current">>
UnitOf(t) == IF t \in Device THEN DeviceUnit ELSE DatasetUnit

GetOrCreate == {"item", "listing", "variant"}

Row(table, p, v) == <<table, p, IF table = "match" THEN v ELSE None>>
RowOf(t) == Row(UnitOf(t)[pc[t]], ProductOf[t], VersionOf[t])

Table(t) == UnitOf(t)[pc[t]]
Ended(t) == pc[t] > Len(UnitOf(t))
At(t, s) == outcome[t] = None /\ ~ Ended(t) /\ stage[t] = s

\* The unit runs READ COMMITTED if it is a product's, else the default.
RepeatableRead(t) == t \notin Device

-----------------------------------------------------------------------------
(* InnoDB.                                                                 *)

Sees(t, row) ==
  row \in written[t] \/ row \in (IF RepeatableRead(t) THEN snapshot[t] ELSE stored)

Rivals(t) == {u \in Tx \ {t} : outcome[u] = None}

\* Who holds a row, by a lock or by an insert that is not committed.
Holders(t, rows) == {u \in Rivals(t) : (held[u] \cup written[u]) \cap rows # {}}

\* The products whose rows would fall into the range an index read of p locks.
Between(a, q, b) == (a < q /\ q < b) \/ (b < q /\ q < a)
Gap(table, p) ==
  LET entries == {r[2] : r \in {x \in stored \cup UNION {written[u] : u \in Tx} : x[1] = table}} \ {p}
  IN {<<table, q>> : q \in {x \in Product \ entries : \A e \in entries : ~ Between(x, e, p)}}

GapsLockedByAll(t, table) == Gap(table, ProductOf[t])
GapsLocked(t, table) == IF RepeatableRead(t) THEN Gap(table, ProductOf[t]) ELSE {}

GapHolders(t) == {u \in Rivals(t) : <<Table(t), ProductOf[t]>> \in gaps[u]}

-----------------------------------------------------------------------------
(* The rows a statement has to lock, and whom it waits for.                *)

OpenMatches(p) == {m \in stored : m[1] = "match" /\ m[2] = p} \ closed

Wanted(t) ==
  IF stage[t] = "begin" \/ Ended(t) THEN {}
  ELSE CASE Table(t) = "revision" /\ stage[t] = "select" -> {Row("listing", ProductOf[t], None)}
         [] Table(t) = "match" /\ stage[t] = "select" -> {Row("revision", ProductOf[t], None)}
         [] Table(t) = "match" /\ stage[t] = "read" -> OpenMatches(ProductOf[t])
         [] Table(t) = "current" /\ stage[t] = "select" -> {RowOf(t)}
         [] stage[t] = "insert" -> {RowOf(t)}
         [] OTHER -> {}

WaitsFor(t) ==
  IF outcome[t] # None THEN {}
  ELSE Holders(t, Wanted(t)) \cup (IF ~ Ended(t) /\ stage[t] = "insert" THEN GapHolders(t) ELSE {})

Runs(t, s) == At(t, s) /\ WaitsFor(t) = {}

-----------------------------------------------------------------------------
(* Steps.                                                                  *)

Goes(t, n, s) == pc' = [pc EXCEPT ![t] = n] /\ stage' = [stage EXCEPT ![t] = s]
Advances(t) == Goes(t, pc[t] + 1, "select")

Ends(t, what) ==
  /\ outcome' = [outcome EXCEPT ![t] = what]
  /\ Goes(t, 0, "begin")
  /\ snapshot' = [snapshot EXCEPT ![t] = {}]
  /\ written' = [written EXCEPT ![t] = {}]
  /\ closing' = [closing EXCEPT ![t] = {}]
  /\ held' = [held EXCEPT ![t] = {}]
  /\ gaps' = [gaps EXCEPT ![t] = {}]

\* _get_or_create: the first select.
Select(t) ==
  /\ At(t, "select") /\ Table(t) \in GetOrCreate
  /\ IF Sees(t, RowOf(t)) THEN Advances(t) ELSE Goes(t, pc[t], "insert")
  /\ UNCHANGED <<stored, closed, snapshot, written, closing, held, gaps, outcome>>

\* get_or_create_listing_revision locks the listing, then selects.
SelectRevision(t) ==
  /\ Runs(t, "select") /\ Table(t) = "revision"
  /\ held' = [held EXCEPT ![t] = @ \cup Wanted(t)]
  /\ IF Sees(t, RowOf(t)) THEN Advances(t) ELSE Goes(t, pc[t], "insert")
  /\ UNCHANGED <<stored, closed, snapshot, written, closing, gaps, outcome>>

\* create_match locks the revision; a match of this version is returned as it is.
SelectMatch(t) ==
  /\ Runs(t, "select") /\ Table(t) = "match"
  /\ held' = [held EXCEPT ![t] = @ \cup Wanted(t)]
  /\ IF Sees(t, RowOf(t)) THEN Advances(t) ELSE Goes(t, pc[t], "read")
  /\ UNCHANGED <<stored, closed, snapshot, written, closing, gaps, outcome>>

\* Else it reads the open matches FOR UPDATE and closes them.
ClosesOwnVersion(t) == {m \in OpenMatches(ProductOf[t]) : m[3] = VersionOf[t]}
Closes(t) == OpenMatches(ProductOf[t])
ReadOpenMatches(t) ==
  /\ Runs(t, "read") /\ Table(t) = "match"
  /\ held' = [held EXCEPT ![t] = @ \cup Wanted(t)]
  /\ gaps' = [gaps EXCEPT ![t] = @ \cup GapsLocked(t, "match")]
  /\ closing' = [closing EXCEPT ![t] = Closes(t)]
  /\ Goes(t, pc[t], "insert")
  /\ UNCHANGED <<stored, closed, snapshot, written, outcome>>

\* set_current_revision and record read the projection of the listing, by
\* DELETE or FOR UPDATE.
ReadCurrent(t) ==
  /\ Runs(t, "select") /\ Table(t) = "current"
  /\ IF RowOf(t) \in stored
     THEN /\ held' = [held EXCEPT ![t] = @ \cup Wanted(t)]
          /\ Advances(t)
          /\ UNCHANGED gaps
     ELSE /\ gaps' = [gaps EXCEPT ![t] = @ \cup GapsLocked(t, "current")]
          /\ Goes(t, pc[t], "insert")
          /\ UNCHANGED held
  /\ UNCHANGED <<stored, closed, snapshot, written, closing, outcome>>

Insert(t) ==
  /\ Runs(t, "insert")
  /\ RowOf(t) \notin stored
  /\ written' = [written EXCEPT ![t] = @ \cup {RowOf(t)}]
  /\ Advances(t)
  /\ UNCHANGED <<stored, closed, snapshot, closing, held, gaps, outcome>>

\* A duplicate key: the savepoint is rolled back and the select repeated; an
\* insert outside of _get_or_create fails the unit.
RetriedNever(t) == FALSE
Retried(t) == Table(t) \in GetOrCreate
Duplicate(t) ==
  /\ Runs(t, "insert")
  /\ RowOf(t) \in stored
  /\ IF Retried(t)
     THEN Goes(t, pc[t], "reread") /\ UNCHANGED <<snapshot, written, closing, held, gaps, outcome>>
     ELSE Ends(t, "duplicate")
  /\ UNCHANGED <<stored, closed>>

Reread(t) ==
  /\ At(t, "reread")
  /\ IF Sees(t, RowOf(t))
     THEN Advances(t) /\ UNCHANGED <<snapshot, written, closing, held, gaps, outcome>>
     ELSE Ends(t, "duplicate")
  /\ UNCHANGED <<stored, closed>>

Commit(t) ==
  /\ outcome[t] = None /\ Ended(t)
  /\ stored' = stored \cup written[t]
  /\ closed' = closed \cup closing[t]
  /\ Ends(t, "committed")

\* Any later statement of the unit may raise: a refused price, a lost connection.
Abort(t) ==
  /\ outcome[t] = None /\ pc[t] > 1
  /\ Ends(t, "aborted")
  /\ UNCHANGED <<stored, closed>>

\* The first statement of a transaction, add_record, fixes its snapshot; READ
\* COMMITTED keeps none.
Begin(t) ==
  /\ outcome[t] = None /\ pc[t] = 0
  /\ snapshot' = [snapshot EXCEPT ![t] = IF RepeatableRead(t) THEN stored ELSE {}]
  /\ Advances(t)
  /\ UNCHANGED <<stored, closed, written, closing, held, gaps, outcome>>

-----------------------------------------------------------------------------

\* What an earlier unit of a product left behind.
Earlier(p, v) == {Row(table, p, v) : table \in {"item", "listing", "revision", "variant", "match", "current"}}
DeviceProducts == {ProductOf[d] : d \in Device}

Init ==
  /\ \E old \in SUBSET DeviceProducts, v \in Version :
       stored = UNION {Earlier(p, v) : p \in old}
  /\ closed = {}
  /\ pc = [t \in Tx |-> 0]
  /\ stage = [t \in Tx |-> "begin"]
  /\ snapshot = [t \in Tx |-> {}]
  /\ written = [t \in Tx |-> {}]
  /\ closing = [t \in Tx |-> {}]
  /\ held = [t \in Tx |-> {}]
  /\ gaps = [t \in Tx |-> {}]
  /\ outcome = [t \in Tx |-> None]

Step(t) ==
  \/ Begin(t) \/ Select(t) \/ SelectRevision(t) \/ SelectMatch(t) \/ ReadOpenMatches(t)
  \/ ReadCurrent(t) \/ Insert(t) \/ Duplicate(t) \/ Reread(t) \/ Commit(t)

Next == \E t \in Tx : Step(t) \/ Abort(t)

Spec == Init /\ [][Next]_vars

-----------------------------------------------------------------------------
(* Properties.                                                             *)

\* The audit's device_match_cardinality: listings with a current revision and
\* not exactly one open match.
device_match_cardinality ==
  {p \in DeviceProducts : Row("current", p, None) \in stored /\ Cardinality(OpenMatches(p)) # 1}

\* Whatever versions write at the same time, a current revision has exactly one
\* open match: create_match closes what is open under the revision's lock.
ListingsAreMatchedOnce == device_match_cardinality = {}

\* No product unit is lost because another one created the same row first.
NoUnitLosesARace == \A d \in Device : outcome[d] # "duplicate"

\* No transactions wait for each other in a circle: the locks are taken in one
\* order, and product units lock no gaps another source inserts into.
NoDeadlock ==
  ~ \E S \in (SUBSET Tx) \ {{}} : \A t \in S : WaitsFor(t) \cap S # {}

-----------------------------------------------------------------------------
(* The inductive invariant behind these properties.                        *)

Tables == {"item", "listing", "revision", "variant", "match", "current"}
AllRows == Tables \X Product \X (Version \cup {None})

Holds(t) == held[t] \cup written[t]
ListingOf(t) == Row("listing", ProductOf[t], None)
MatchOf(t) == Row("match", ProductOf[t], VersionOf[t])

TransactionTypes ==
  /\ stored \in SUBSET AllRows /\ closed \in SUBSET AllRows
  /\ pc \in [Tx -> Nat]
  /\ stage \in [Tx -> {"begin", "select", "read", "insert", "reread"}]
  /\ snapshot \in [Tx -> SUBSET AllRows] /\ written \in [Tx -> SUBSET AllRows]
  /\ closing \in [Tx -> SUBSET AllRows] /\ held \in [Tx -> SUBSET AllRows]
  /\ gaps \in [Tx -> SUBSET (Tables \X Product)]
  /\ outcome \in [Tx -> {None, "committed", "duplicate", "aborted"}]
  /\ \A t \in Tx : pc[t] <= Len(UnitOf(t)) + 1 /\ (stage[t] = "begin" <=> pc[t] = 0)

\* A data set writes rows of its own product, and no match.
DatasetKeepsToItsProduct(t) ==
  /\ \A r \in Holds(t) : r[2] = ProductOf[t]
  /\ closing[t] = {}

\* Where a product unit is, and what it holds there: from the select of its
\* revision on it holds the lock of the listing.
LocksInOrder(d) ==
  /\ stage[d] = "read" => pc[d] = 5
  /\ stage[d] = "reread" => pc[d] \in {1, 2, 4}
  /\ pc[d] = 7 => stage[d] = "select"
  /\ pc[d] = 0 => Holds(d) = {}
  /\ outcome[d] # None => pc[d] = 0
  /\ gaps[d] = {}
  /\ \A r \in Holds(d) :
       /\ r[2] = ProductOf[d]
       /\ r[1] = "item" => pc[d] >= 2
       /\ r[1] = "listing" => r = ListingOf(d) /\ pc[d] >= 3
       /\ r[1] \notin {"item", "listing"} => ListingOf(d) \in held[d]
  /\ pc[d] > 3 \/ (pc[d] = 3 /\ stage[d] = "insert") => ListingOf(d) \in held[d]

\* What it found stays true: nobody else creates the row it is about to insert
\* under the listing's lock, and the row that beat it stays.
FindingsStayTrue(d) ==
  /\ written[d] \cap stored = {}
  /\ stage[d] = "read" \/ (stage[d] = "insert" /\ pc[d] \in {3, 5, 6}) => RowOf(d) \notin stored
  /\ stage[d] = "reread" => RowOf(d) \in stored

\* It closes every open match if it adds one, and none otherwise.
ClosesWhatItReplaces(d) ==
  /\ \A r \in written[d] : r[1] = "match" => r = MatchOf(d) /\ pc[d] > 5
  /\ pc[d] < 5 \/ (pc[d] = 5 /\ stage[d] # "insert") => closing[d] = {}
  /\ pc[d] = 5 /\ stage[d] = "insert" => closing[d] = OpenMatches(ProductOf[d])
  /\ pc[d] > 5 => IF MatchOf(d) \in written[d] THEN closing[d] = OpenMatches(ProductOf[d])
                  ELSE closing[d] = {} /\ MatchOf(d) \in stored

LocksAreExclusive == \A d, e \in Device : d # e => Holds(d) \cap Holds(e) = {}

OneOpenMatch(p) ==
  /\ (\E m \in stored : m[1] = "match" /\ m[2] = p) => \E x \in OpenMatches(p) : OpenMatches(p) = {x}
  /\ Row("current", p, None) \in stored => \E m \in stored : m[1] = "match" /\ m[2] = p

TransactionsInv ==
  /\ TransactionTypes
  /\ \A t \in Tx \ Device : DatasetKeepsToItsProduct(t)
  /\ \A d \in Device : LocksInOrder(d) /\ FindingsStayTrue(d) /\ ClosesWhatItReplaces(d)
  /\ LocksAreExclusive
  /\ closed \subseteq stored
  /\ \A p \in DeviceProducts : OneOpenMatch(p)
  /\ NoUnitLosesARace
=============================================================================

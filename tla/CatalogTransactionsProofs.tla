---------------------- MODULE CatalogTransactionsProofs ----------------------
(* Theorems about CatalogTransactions, for any number of transactions of any   *)
(* products, sources and versions.                                             *)
EXTENDS CatalogTransactions, FiniteSetTheorems, TLAPS

USE TransactionsAssumption

-----------------------------------------------------------------------------
(* Rows and units.                                                         *)

LEMMA RowShape ==
  ASSUME NEW table, NEW p, NEW v
  PROVE  /\ Row(table, p, v)[1] = table /\ Row(table, p, v)[2] = p
         /\ table # "match" => Row(table, p, v) = Row(table, p, None)
         /\ table \in Tables /\ p \in Product /\ v \in Version \cup {None} =>
              Row(table, p, v) \in AllRows
BY DEF Row, AllRows

\* A product unit, step by step.
LEMMA DeviceSteps ==
  ASSUME NEW d \in Device, pc[d] \in 0 .. 7
  PROVE  /\ UnitOf(d) = DeviceUnit /\ ProductOf[d] \in DeviceProducts
         /\ Ended(d) <=> pc[d] = 7
         /\ pc[d] = 1 => Table(d) = "item" /\ RowOf(d) = Row("item", ProductOf[d], None)
         /\ pc[d] = 2 => Table(d) = "listing" /\ RowOf(d) = ListingOf(d)
         /\ pc[d] = 3 => Table(d) = "revision" /\ RowOf(d) = Row("revision", ProductOf[d], None)
         /\ pc[d] = 4 => Table(d) = "variant" /\ RowOf(d) = Row("variant", ProductOf[d], None)
         /\ pc[d] = 5 => Table(d) = "match" /\ RowOf(d) = MatchOf(d)
         /\ pc[d] = 6 => Table(d) = "current" /\ RowOf(d) = Row("current", ProductOf[d], None)
<1>1. UnitOf(d) = DeviceUnit /\ ProductOf[d] \in DeviceProducts
  BY DEF UnitOf, DeviceProducts
<1>2. /\ Len(DeviceUnit) = 6 /\ DeviceUnit[1] = "item" /\ DeviceUnit[2] = "listing"
      /\ DeviceUnit[3] = "revision" /\ DeviceUnit[4] = "variant" /\ DeviceUnit[5] = "match"
      /\ DeviceUnit[6] = "current"
  BY DEF DeviceUnit
<1>3. Ended(d) <=> pc[d] = 7
  BY <1>1, <1>2 DEF Ended
<1>4. ASSUME NEW k \in 1 .. 6, pc[d] = k
      PROVE  Table(d) = DeviceUnit[k] /\ RowOf(d) = Row(DeviceUnit[k], ProductOf[d], VersionOf[d])
  BY <1>1, <1>4 DEF Table, RowOf
<1>. QED
  BY <1>1, <1>2, <1>3, <1>4 DEF Row, ListingOf, MatchOf

\* A data set unit, step by step.
LEMMA DatasetSteps ==
  ASSUME NEW t \in Tx \ Device, pc[t] \in 0 .. 4
  PROVE  /\ Ended(t) <=> pc[t] = 4
         /\ ~ Ended(t) /\ pc[t] > 0 => Table(t) \in {"listing", "revision", "current"}
         /\ ~ Ended(t) /\ pc[t] > 0 => RowOf(t) = Row(Table(t), ProductOf[t], None)
         /\ ProductOf[t] \notin DeviceProducts
<1>1. UnitOf(t) = DatasetUnit /\ ProductOf[t] \notin DeviceProducts
  BY DEF UnitOf, DeviceProducts
<1>2. /\ Len(DatasetUnit) = 3 /\ DatasetUnit[1] = "listing" /\ DatasetUnit[2] = "revision"
      /\ DatasetUnit[3] = "current"
  BY DEF DatasetUnit
<1>3. Ended(t) <=> pc[t] = 4
  BY <1>1, <1>2 DEF Ended
<1>4. ASSUME NEW k \in 1 .. 3, pc[t] = k
      PROVE  Table(t) = DatasetUnit[k] /\ RowOf(t) = Row(DatasetUnit[k], ProductOf[t], VersionOf[t])
  BY <1>1, <1>4 DEF Table, RowOf
<1>. QED
  BY <1>1, <1>2, <1>3, <1>4 DEF Row

LEMMA UnitPosition ==
  ASSUME TransactionTypes, NEW t \in Tx
  PROVE  /\ Len(UnitOf(t)) \in Nat /\ pc[t] \in 0 .. Len(UnitOf(t)) + 1
         /\ t \in Device => Len(UnitOf(t)) = 6
         /\ t \notin Device => Len(UnitOf(t)) = 3
         /\ ~ Ended(t) => pc[t] \in 0 .. Len(UnitOf(t)) /\ pc[t] + 1 \in 0 .. Len(UnitOf(t)) + 1
         /\ \A k \in 1 .. Len(UnitOf(t)) : UnitOf(t)[k] \in Tables
<1>1. t \in Device => Len(UnitOf(t)) = 6 /\ \A k \in 1 .. 6 : UnitOf(t)[k] \in Tables
  BY DEF UnitOf, DeviceUnit, Tables
<1>2. t \notin Device => Len(UnitOf(t)) = 3 /\ \A k \in 1 .. 3 : UnitOf(t)[k] \in Tables
  BY DEF UnitOf, DatasetUnit, Tables
<1>3. pc[t] \in Nat /\ pc[t] <= Len(UnitOf(t)) + 1
  BY DEF TransactionTypes
<1>. QED
  BY <1>1, <1>2, <1>3 DEF Ended

LEMMA RowsAreRows ==
  ASSUME TransactionTypes, NEW t \in Tx, ~ Ended(t), pc[t] > 0
  PROVE  RowOf(t) \in AllRows /\ RowOf(t)[2] = ProductOf[t] /\ RowOf(t)[1] = Table(t)
<1>1. pc[t] \in 1 .. Len(UnitOf(t)) /\ Table(t) \in Tables
  BY UnitPosition DEF Table
<1>. QED
  BY <1>1, RowShape DEF RowOf, Table

\* What a transaction wants to lock belongs to its product.
LEMMA WantedRows ==
  ASSUME TransactionTypes, NEW t \in Tx
  PROVE  Wanted(t) \in SUBSET AllRows /\ \A r \in Wanted(t) : r[2] = ProductOf[t]
<1>1. Wanted(t) \subseteq {Row("listing", ProductOf[t], None), Row("revision", ProductOf[t], None)}
                          \cup OpenMatches(ProductOf[t])
                          \cup (IF ~ Ended(t) /\ stage[t] # "begin" THEN {RowOf(t)} ELSE {})
  BY DEF Wanted
<1>2. OpenMatches(ProductOf[t]) \in SUBSET AllRows /\ \A r \in OpenMatches(ProductOf[t]) : r[2] = ProductOf[t]
  BY DEF OpenMatches, TransactionTypes
<1>3. ASSUME ~ Ended(t), stage[t] # "begin"
      PROVE  RowOf(t) \in AllRows /\ RowOf(t)[2] = ProductOf[t]
  <2>1. pc[t] > 0
    BY <1>3 DEF TransactionTypes
  <2>. QED
    BY <2>1, <1>3, RowsAreRows
<1>4. \A table \in {"listing", "revision"} :
        Row(table, ProductOf[t], None) \in AllRows /\ Row(table, ProductOf[t], None)[2] = ProductOf[t]
  BY RowShape DEF Tables
<1>. QED
  BY <1>1, <1>2, <1>3, <1>4

-----------------------------------------------------------------------------
(* Steps.                                                                  *)

Positions ==
  /\ pc \in [Tx -> Nat]
  /\ stage \in [Tx -> {"begin", "select", "read", "insert", "reread"}]
  /\ \A t \in Tx : pc[t] <= Len(UnitOf(t)) + 1 /\ (stage[t] = "begin" <=> pc[t] = 0)

RowSets ==
  /\ snapshot \in [Tx -> SUBSET AllRows] /\ written \in [Tx -> SUBSET AllRows]
  /\ closing \in [Tx -> SUBSET AllRows] /\ held \in [Tx -> SUBSET AllRows]
  /\ gaps \in [Tx -> SUBSET (Tables \X Product)]
  /\ outcome \in [Tx -> {None, "committed", "duplicate", "aborted"}]

StoredRows == stored \in SUBSET AllRows /\ closed \in SUBSET AllRows

LEMMA TypeParts == TransactionTypes <=> Positions /\ RowSets /\ StoredRows
BY DEF TransactionTypes, Positions, RowSets, StoredRows

LEMMA TypePartsAfter == TransactionTypes' <=> Positions' /\ RowSets' /\ StoredRows'
BY DEF TransactionTypes, Positions, RowSets, StoredRows

\* Transactions other than t stay where they are, with what they have.
PositionsStay(t) == \A u \in Tx \ {t} : pc'[u] = pc[u] /\ stage'[u] = stage[u]

RowSetsStay(t) ==
  \A u \in Tx \ {t} :
    /\ snapshot'[u] = snapshot[u] /\ written'[u] = written[u] /\ closing'[u] = closing[u]
    /\ held'[u] = held[u] /\ gaps'[u] = gaps[u] /\ outcome'[u] = outcome[u]

LEMMA Moves ==
  ASSUME Positions, NEW t \in Tx, NEW n \in Nat, NEW s, Goes(t, n, s),
         s \in {"begin", "select", "read", "insert", "reread"},
         n <= Len(UnitOf(t)) + 1, s = "begin" <=> n = 0
  PROVE  Positions' /\ PositionsStay(t) /\ pc'[t] = n /\ stage'[t] = s
BY DEF Goes, Positions, PositionsStay

LEMMA Ending ==
  ASSUME Positions, RowSets, NEW t \in Tx, NEW what \in {"committed", "duplicate", "aborted"},
         Ends(t, what)
  PROVE  /\ Positions' /\ RowSets' /\ PositionsStay(t) /\ RowSetsStay(t)
         /\ pc'[t] = 0 /\ stage'[t] = "begin" /\ outcome'[t] = what
         /\ snapshot'[t] = {} /\ written'[t] = {} /\ closing'[t] = {} /\ held'[t] = {} /\ gaps'[t] = {}
<1>1. Len(UnitOf(t)) \in Nat
  BY DEF UnitOf, DeviceUnit, DatasetUnit
<1>2. Goes(t, 0, "begin")
  BY DEF Ends
<1>3. Positions' /\ PositionsStay(t) /\ pc'[t] = 0 /\ stage'[t] = "begin"
  BY <1>1, <1>2, Moves
<1>4. RowSets' /\ RowSetsStay(t)
  BY DEF Ends, RowSets, RowSetsStay
<1>5. /\ outcome'[t] = what /\ snapshot'[t] = {} /\ written'[t] = {} /\ closing'[t] = {}
      /\ held'[t] = {} /\ gaps'[t] = {}
  BY DEF Ends, RowSets
<1>. QED
  BY <1>3, <1>4, <1>5

LEMMA Advancing ==
  ASSUME TransactionTypes, NEW t \in Tx, ~ Ended(t), Advances(t)
  PROVE  Positions' /\ PositionsStay(t) /\ pc'[t] = pc[t] + 1 /\ stage'[t] = "select"
<1>1. pc[t] + 1 \in Nat /\ pc[t] + 1 <= Len(UnitOf(t)) + 1 /\ pc[t] + 1 # 0
  BY UnitPosition
<1>. QED
  BY <1>1, Moves, TypeParts DEF Advances

LEMMA Staying ==
  ASSUME TransactionTypes, NEW t \in Tx, NEW s \in {"read", "insert", "reread"},
         stage[t] # "begin", Goes(t, pc[t], s)
  PROVE  Positions' /\ PositionsStay(t) /\ pc'[t] = pc[t] /\ stage'[t] = s
<1>1. pc[t] \in Nat /\ pc[t] <= Len(UnitOf(t)) + 1 /\ pc[t] # 0
  BY UnitPosition DEF TransactionTypes
<1>. QED
  BY <1>1, Moves, TypeParts

LEMMA GapsAreEntries ==
  ASSUME NEW t \in Tx, NEW table \in Tables
  PROVE  GapsLocked(t, table) \in SUBSET (Tables \X Product)
BY DEF GapsLocked, Gap

\* A step of t changes what is t's, and what is stored only when it commits.
LEMMA StepIsPrivate ==
  ASSUME TransactionTypes, NEW t \in Tx, Step(t) \/ Abort(t)
  PROVE  /\ TransactionTypes' /\ PositionsStay(t) /\ RowSetsStay(t)
         /\ Commit(t) \/ UNCHANGED <<stored, closed>>
<1>1. Positions /\ RowSets /\ StoredRows
  BY TypeParts
<1>2. CASE Begin(t)
  <2>1. ~ Ended(t) /\ Advances(t)
    BY <1>2, UnitPosition DEF Begin, Ended
  <2>2. RowSets' /\ RowSetsStay(t) /\ UNCHANGED <<stored, closed>>
    <3>1. (IF RepeatableRead(t) THEN stored ELSE {}) \in SUBSET AllRows
      BY <1>1 DEF StoredRows
    <3>. QED
      BY <3>1, <1>1, <1>2 DEF Begin, RowSets, RowSetsStay
  <2>. QED
    BY <1>1, <2>1, <2>2, Advancing, TypePartsAfter DEF StoredRows
<1>3. CASE Select(t)
  <2>1. ~ Ended(t) /\ stage[t] # "begin" /\ (Advances(t) \/ Goes(t, pc[t], "insert"))
    BY <1>3 DEF Select, At
  <2>2. UNCHANGED <<stored, closed, snapshot, written, closing, held, gaps, outcome>>
    BY <1>3 DEF Select
  <2>. QED
    BY <1>1, <2>1, <2>2, Advancing, Staying, TypePartsAfter DEF StoredRows, RowSets, RowSetsStay
<1>4. CASE SelectRevision(t) \/ SelectMatch(t)
  <2>1. /\ ~ Ended(t) /\ stage[t] # "begin"
        /\ Advances(t) \/ Goes(t, pc[t], "insert") \/ Goes(t, pc[t], "read")
    BY <1>4 DEF SelectRevision, SelectMatch, Runs, At
  <2>2. /\ UNCHANGED <<stored, closed, snapshot, written, closing, gaps, outcome>>
        /\ held' = [held EXCEPT ![t] = @ \cup Wanted(t)]
    BY <1>4 DEF SelectRevision, SelectMatch
  <2>3. RowSets' /\ RowSetsStay(t)
    BY <1>1, <2>2, WantedRows DEF RowSets, RowSetsStay
  <2>. QED
    BY <1>1, <2>1, <2>2, <2>3, Advancing, Staying, TypePartsAfter DEF StoredRows
<1>5. CASE ReadOpenMatches(t)
  <2>1. ~ Ended(t) /\ stage[t] # "begin" /\ Goes(t, pc[t], "insert")
    BY <1>5 DEF ReadOpenMatches, Runs, At
  <2>2. /\ UNCHANGED <<stored, closed, snapshot, written, outcome>>
        /\ held' = [held EXCEPT ![t] = @ \cup Wanted(t)]
        /\ gaps' = [gaps EXCEPT ![t] = @ \cup GapsLocked(t, "match")]
        /\ closing' = [closing EXCEPT ![t] = Closes(t)]
    BY <1>5 DEF ReadOpenMatches
  <2>3. Closes(t) \in SUBSET AllRows /\ "match" \in Tables
    BY <1>1 DEF Closes, OpenMatches, StoredRows, Tables
  <2>4. RowSets' /\ RowSetsStay(t)
    BY <1>1, <2>2, <2>3, WantedRows, GapsAreEntries DEF RowSets, RowSetsStay
  <2>. QED
    BY <1>1, <2>1, <2>2, <2>4, Staying, TypePartsAfter DEF StoredRows
<1>6. CASE ReadCurrent(t)
  <2>1. ~ Ended(t) /\ stage[t] # "begin" /\ (Advances(t) \/ Goes(t, pc[t], "insert"))
    BY <1>6 DEF ReadCurrent, Runs, At
  <2>2. /\ UNCHANGED <<stored, closed, snapshot, written, closing, outcome>>
        /\ \/ held' = [held EXCEPT ![t] = @ \cup Wanted(t)] /\ UNCHANGED gaps
           \/ gaps' = [gaps EXCEPT ![t] = @ \cup GapsLocked(t, "current")] /\ UNCHANGED held
    BY <1>6 DEF ReadCurrent
  <2>3. "current" \in Tables
    BY DEF Tables
  <2>4. RowSets' /\ RowSetsStay(t)
    BY <1>1, <2>2, <2>3, WantedRows, GapsAreEntries DEF RowSets, RowSetsStay
  <2>. QED
    BY <1>1, <2>1, <2>2, <2>4, Advancing, Staying, TypePartsAfter DEF StoredRows
<1>7. CASE Insert(t)
  <2>1. ~ Ended(t) /\ stage[t] # "begin" /\ Advances(t)
    BY <1>7 DEF Insert, Runs, At
  <2>2. /\ UNCHANGED <<stored, closed, snapshot, closing, held, gaps, outcome>>
        /\ written' = [written EXCEPT ![t] = @ \cup {RowOf(t)}]
    BY <1>7 DEF Insert
  <2>3. RowOf(t) \in AllRows
    <3>1. pc[t] > 0
      BY <2>1 DEF TransactionTypes
    <3>. QED
      BY <2>1, <3>1, RowsAreRows
  <2>4. RowSets' /\ RowSetsStay(t)
    BY <1>1, <2>2, <2>3 DEF RowSets, RowSetsStay
  <2>. QED
    BY <1>1, <2>1, <2>2, <2>4, Advancing, TypePartsAfter DEF StoredRows
<1>8. CASE Duplicate(t) \/ Reread(t)
  <2>1. ~ Ended(t) /\ stage[t] # "begin" /\ UNCHANGED <<stored, closed>>
    BY <1>8 DEF Duplicate, Reread, Runs, At
  <2>2. \/ /\ Advances(t) \/ Goes(t, pc[t], "reread")
           /\ UNCHANGED <<snapshot, written, closing, held, gaps, outcome>>
        \/ Ends(t, "duplicate")
    BY <1>8 DEF Duplicate, Reread
  <2>3. CASE Ends(t, "duplicate")
    BY <1>1, <2>1, <2>3, Ending, TypePartsAfter DEF StoredRows
  <2>4. CASE /\ Advances(t) \/ Goes(t, pc[t], "reread")
             /\ UNCHANGED <<snapshot, written, closing, held, gaps, outcome>>
    BY <1>1, <2>1, <2>4, Advancing, Staying, TypePartsAfter DEF StoredRows, RowSets, RowSetsStay
  <2>. QED
    BY <2>2, <2>3, <2>4
<1>9. CASE Commit(t)
  <2>1. Ends(t, "committed") /\ stored' = stored \cup written[t] /\ closed' = closed \cup closing[t]
    BY <1>9 DEF Commit
  <2>. QED
    BY <1>1, <1>9, <2>1, Ending, TypePartsAfter DEF StoredRows, RowSets
<1>10. CASE Abort(t)
  <2>1. Ends(t, "aborted") /\ UNCHANGED <<stored, closed>>
    BY <1>10 DEF Abort
  <2>. QED
    BY <1>1, <2>1, Ending, TypePartsAfter DEF StoredRows
<1>. QED
  BY <1>2, <1>3, <1>4, <1>5, <1>6, <1>7, <1>8, <1>9, <1>10 DEF Step

-----------------------------------------------------------------------------
(* Product units: where they are and what they see.                        *)

DeviceInv(d) ==
  LocksInOrder(d) /\ FindingsStayTrue(d) /\ ClosesWhatItReplaces(d) /\ outcome[d] # "duplicate"

LEMMA InvParts ==
  TransactionsInv <=>
    /\ TransactionTypes /\ LocksAreExclusive /\ closed \subseteq stored
    /\ \A t \in Tx \ Device : DatasetKeepsToItsProduct(t)
    /\ \A d \in Device : DeviceInv(d)
    /\ \A p \in DeviceProducts : OneOpenMatch(p)
BY DEF TransactionsInv, DeviceInv, NoUnitLosesARace

LEMMA DeviceSees ==
  ASSUME NEW d \in Device, NEW row
  PROVE  Sees(d, row) <=> row \in written[d] \/ row \in stored
BY DEF Sees, RepeatableRead

\* The row of a step depends on the step alone.
LEMMA SameStepSameRow ==
  ASSUME NEW t \in Tx, pc'[t] = pc[t]
  PROVE  RowOf(t)' = RowOf(t)
BY DEF RowOf

LEMMA DevicePosition ==
  ASSUME TransactionTypes, NEW d \in Device
  PROVE  pc[d] \in 0 .. 7 /\ d \in Tx
BY UnitPosition

LEMMA AtStep ==
  ASSUME TransactionTypes, NEW d \in Device, NEW s \in {"select", "read", "insert", "reread"}, At(d, s)
  PROVE  /\ d \in Tx /\ outcome[d] = None /\ ~ Ended(d) /\ stage[d] = s /\ pc[d] \in 1 .. 6
         /\ Table(d) = "revision" => pc[d] = 3
         /\ Table(d) = "match" => pc[d] = 5
         /\ Table(d) = "current" => pc[d] = 6
         /\ Table(d) \in GetOrCreate <=> pc[d] \in {1, 2, 4}
<1>1. d \in Tx /\ outcome[d] = None /\ ~ Ended(d) /\ stage[d] = s /\ pc[d] \in 0 .. 7 /\ pc[d] # 0
  BY DevicePosition DEF At, TransactionTypes
<1>2. pc[d] \in {1, 2, 3, 4, 5, 6}
  BY <1>1, DeviceSteps
<1>. QED
  BY <1>1, <1>2, DeviceSteps DEF GetOrCreate

\* What a product unit waits to lock, step by step.
LEMMA DeviceWants ==
  ASSUME TransactionTypes, NEW d \in Device, LocksInOrder(d), ~ Ended(d), pc[d] > 0
  PROVE  /\ stage[d] = "insert" => Wanted(d) = {RowOf(d)}
         /\ pc[d] = 3 /\ stage[d] = "select" => Wanted(d) = {ListingOf(d)}
         /\ pc[d] > 3 \/ (pc[d] = 3 /\ stage[d] = "insert") =>
              \A r \in Wanted(d) : r[1] \notin {"item", "listing"}
         /\ pc[d] \in {1, 2} /\ stage[d] # "insert" => Wanted(d) = {}
<1>1. pc[d] \in 1 .. 6 /\ stage[d] # "begin"
  BY DevicePosition, DeviceSteps DEF TransactionTypes
<1>2. stage[d] = "insert" => Wanted(d) = {RowOf(d)}
  BY <1>1 DEF Wanted
<1>3. CASE pc[d] \in {1, 2}
  BY <1>1, <1>2, <1>3, DeviceSteps DEF Wanted
<1>4. CASE pc[d] = 3
  BY <1>1, <1>2, <1>4, DeviceSteps, RowShape DEF Wanted, ListingOf
<1>5. CASE pc[d] \in {4, 5, 6}
  <2>1. RowOf(d)[1] \in {"variant", "match", "current"}
    BY <1>5, DeviceSteps, DevicePosition, RowShape DEF MatchOf
  <2>2. Row("revision", ProductOf[d], None)[1] = "revision" /\ \A r \in OpenMatches(ProductOf[d]) : r[1] = "match"
    BY RowShape DEF OpenMatches
  <2>. QED
    BY <1>1, <1>2, <1>5, <2>1, <2>2, DeviceSteps DEF Wanted
<1>. QED
  BY <1>1, <1>3, <1>4, <1>5

\* A unit that is not waiting takes rows nobody else holds.
LEMMA FreeRows ==
  ASSUME TransactionsInv, NEW d \in Device, NEW e \in Device, d # e, WaitsFor(d) = {}, outcome[d] = None
  PROVE  Wanted(d) \cap Holds(e) = {}
<1>1. CASE outcome[e] = None
  <2>1. e \notin Holders(d, Wanted(d))
    BY DEF WaitsFor
  <2>. QED
    BY <1>1, <2>1 DEF Holders, Rivals, Holds
<1>2. CASE outcome[e] # None
  BY <1>2, InvParts DEF DeviceInv, LocksInOrder
<1>. QED
  BY <1>1, <1>2

-----------------------------------------------------------------------------
(* What a product unit's own steps keep.                                   *)

\* A step that takes rows, or none, and stays or goes on.
LEMMA OwnLocks ==
  ASSUME TransactionTypes, TransactionTypes', NEW t \in Device, LocksInOrder(t),
         pc[t] \in 1 .. 6, outcome[t] = None, outcome'[t] = None, gaps'[t] = {},
         NEW rows, Holds(t)' = Holds(t) \cup rows, held[t] \subseteq held'[t],
         \A r \in rows : /\ r[2] = ProductOf[t]
                         /\ r[1] = "item" => pc'[t] >= 2
                         /\ r[1] = "listing" => r = ListingOf(t) /\ pc'[t] >= 3
                         /\ r[1] \notin {"item", "listing"} => ListingOf(t) \in held'[t],
         pc'[t] = pc[t] \/ pc'[t] = pc[t] + 1,
         stage'[t] = "read" => pc'[t] = 5,
         stage'[t] = "reread" => pc'[t] \in {1, 2, 4},
         pc'[t] = 7 => stage'[t] = "select",
         pc'[t] > 3 \/ (pc'[t] = 3 /\ stage'[t] = "insert") => ListingOf(t) \in held'[t]
  PROVE  LocksInOrder(t)'
<1>1. ListingOf(t)' = ListingOf(t) /\ pc'[t] \in 1 .. 7
  BY DEF ListingOf
<1>2. \A r \in Holds(t)' : /\ r[2] = ProductOf[t]
                           /\ r[1] = "item" => pc'[t] >= 2
                           /\ r[1] = "listing" => r = ListingOf(t) /\ pc'[t] >= 3
                           /\ r[1] \notin {"item", "listing"} => ListingOf(t) \in held'[t]
  BY DEF LocksInOrder
<1>. QED
  BY <1>1, <1>2 DEF LocksInOrder

LEMMA OwnSelect ==
  ASSUME TransactionsInv, TransactionTypes', NEW t \in Device, Select(t)
  PROVE  DeviceInv(t)' /\ Holds(t)' = Holds(t)
<1>1. /\ TransactionTypes /\ LocksInOrder(t) /\ FindingsStayTrue(t) /\ ClosesWhatItReplaces(t)
      /\ outcome[t] # "duplicate"
  BY InvParts DEF DeviceInv
<1>2. /\ At(t, "select") /\ Table(t) \in GetOrCreate
      /\ IF Sees(t, RowOf(t)) THEN Advances(t) ELSE Goes(t, pc[t], "insert")
      /\ UNCHANGED <<stored, closed, snapshot, written, closing, held, gaps, outcome>>
  BY DEF Select
<1>3. t \in Tx /\ pc[t] \in {1, 2, 4} /\ outcome[t] = None /\ ~ Ended(t) /\ stage[t] = "select"
  BY <1>1, <1>2, AtStep
<1>4. Holds(t)' = Holds(t) /\ OpenMatches(ProductOf[t])' = OpenMatches(ProductOf[t])
      /\ MatchOf(t)' = MatchOf(t)
  BY <1>2 DEF Holds, OpenMatches, MatchOf
<1>5. \/ pc'[t] = pc[t] + 1 /\ stage'[t] = "select"
      \/ pc'[t] = pc[t] /\ stage'[t] = "insert"
  BY <1>1, <1>2, <1>3, Advancing, Staying
<1>6. LocksInOrder(t)'
  BY <1>1, <1>2, <1>3, <1>4, <1>5 DEF LocksInOrder, ListingOf, Holds
<1>7. FindingsStayTrue(t)'
  BY <1>1, <1>2, <1>3, <1>5 DEF FindingsStayTrue
<1>8. ClosesWhatItReplaces(t)'
  BY <1>1, <1>2, <1>3, <1>4, <1>5 DEF ClosesWhatItReplaces
<1>. QED
  BY <1>1, <1>2, <1>4, <1>6, <1>7, <1>8 DEF DeviceInv

LEMMA OwnSelectRevision ==
  ASSUME TransactionsInv, TransactionTypes', NEW t \in Device, SelectRevision(t)
  PROVE  DeviceInv(t)' /\ Holds(t)' = Holds(t) \cup Wanted(t)
<1>1. /\ TransactionTypes /\ LocksInOrder(t) /\ FindingsStayTrue(t) /\ ClosesWhatItReplaces(t)
      /\ outcome[t] # "duplicate"
  BY InvParts DEF DeviceInv
<1>2. /\ At(t, "select") /\ Table(t) = "revision"
      /\ held' = [held EXCEPT ![t] = @ \cup Wanted(t)]
      /\ IF Sees(t, RowOf(t)) THEN Advances(t) ELSE Goes(t, pc[t], "insert")
      /\ UNCHANGED <<stored, closed, snapshot, written, closing, gaps, outcome>>
  BY DEF SelectRevision, Runs
<1>3. t \in Tx /\ pc[t] = 3 /\ outcome[t] = None /\ ~ Ended(t) /\ stage[t] = "select"
  BY <1>1, <1>2, AtStep
<1>4. Wanted(t) = {ListingOf(t)}
  BY <1>1, <1>3, DeviceWants
<1>5. held'[t] = held[t] \cup {ListingOf(t)}
  BY <1>1, <1>2, <1>3, <1>4 DEF TransactionTypes
<1>6. /\ Holds(t)' = Holds(t) \cup {ListingOf(t)}
      /\ ListingOf(t)[1] = "listing" /\ ListingOf(t)[2] = ProductOf[t]
  BY <1>2, <1>5, RowShape DEF Holds, ListingOf
<1>7. \/ pc'[t] = 4 /\ stage'[t] = "select"
      \/ pc'[t] = 3 /\ stage'[t] = "insert" /\ RowOf(t) \notin stored
  BY <1>1, <1>2, <1>3, Advancing, Staying, DeviceSees
<1>8. LocksInOrder(t)'
  BY <1>1, <1>2, <1>3, <1>5, <1>6, <1>7, OwnLocks DEF LocksInOrder
<1>9. FindingsStayTrue(t)'
  BY <1>1, <1>2, <1>3, <1>7, SameStepSameRow DEF FindingsStayTrue
<1>10. ClosesWhatItReplaces(t)'
  BY <1>1, <1>2, <1>3, <1>7 DEF ClosesWhatItReplaces, MatchOf
<1>. QED
  BY <1>1, <1>2, <1>4, <1>6, <1>8, <1>9, <1>10 DEF DeviceInv

LEMMA OwnSelectMatch ==
  ASSUME TransactionsInv, TransactionTypes', NEW t \in Device, SelectMatch(t)
  PROVE  DeviceInv(t)' /\ Holds(t)' = Holds(t) \cup Wanted(t)
<1>1. /\ TransactionTypes /\ LocksInOrder(t) /\ FindingsStayTrue(t) /\ ClosesWhatItReplaces(t)
      /\ outcome[t] # "duplicate"
  BY InvParts DEF DeviceInv
<1>2. /\ At(t, "select") /\ Table(t) = "match"
      /\ held' = [held EXCEPT ![t] = @ \cup Wanted(t)]
      /\ IF Sees(t, RowOf(t)) THEN Advances(t) ELSE Goes(t, pc[t], "read")
      /\ UNCHANGED <<stored, closed, snapshot, written, closing, gaps, outcome>>
  BY DEF SelectMatch, Runs
<1>3. t \in Tx /\ pc[t] = 5 /\ outcome[t] = None /\ ~ Ended(t) /\ stage[t] = "select"
      /\ RowOf(t) = MatchOf(t)
  BY <1>1, <1>2, AtStep, DeviceSteps
<1>4. /\ ListingOf(t) \in held[t]
      /\ \A r \in Wanted(t) : r[2] = ProductOf[t] /\ r[1] \notin {"item", "listing"}
  BY <1>1, <1>3, DeviceWants, WantedRows DEF LocksInOrder
<1>5. held'[t] = held[t] \cup Wanted(t) /\ Holds(t)' = Holds(t) \cup Wanted(t)
  BY <1>1, <1>2, <1>3 DEF TransactionTypes, Holds
<1>6. \/ pc'[t] = 6 /\ stage'[t] = "select" /\ RowOf(t) \in written[t] \cup stored
      \/ pc'[t] = 5 /\ stage'[t] = "read" /\ RowOf(t) \notin stored
  BY <1>1, <1>2, <1>3, Advancing, Staying, DeviceSees
<1>7. LocksInOrder(t)'
  BY <1>1, <1>2, <1>3, <1>4, <1>5, <1>6, OwnLocks DEF LocksInOrder
<1>8. FindingsStayTrue(t)'
  BY <1>1, <1>2, <1>3, <1>6, SameStepSameRow DEF FindingsStayTrue
<1>9. MatchOf(t) \notin written[t]
  <2>1. MatchOf(t)[1] = "match"
    BY RowShape DEF MatchOf
  <2>. QED
    BY <2>1, <1>1, <1>3 DEF ClosesWhatItReplaces
<1>10. ClosesWhatItReplaces(t)'
  BY <1>1, <1>2, <1>3, <1>6, <1>9 DEF ClosesWhatItReplaces, MatchOf
<1>. QED
  BY <1>1, <1>2, <1>5, <1>7, <1>8, <1>10 DEF DeviceInv

LEMMA OwnReadOpenMatches ==
  ASSUME TransactionsInv, TransactionTypes', NEW t \in Device, ReadOpenMatches(t)
  PROVE  DeviceInv(t)' /\ Holds(t)' = Holds(t) \cup Wanted(t)
<1>1. /\ TransactionTypes /\ LocksInOrder(t) /\ FindingsStayTrue(t) /\ ClosesWhatItReplaces(t)
      /\ outcome[t] # "duplicate"
  BY InvParts DEF DeviceInv
<1>2. /\ At(t, "read") /\ Table(t) = "match"
      /\ held' = [held EXCEPT ![t] = @ \cup Wanted(t)]
      /\ gaps' = [gaps EXCEPT ![t] = @ \cup GapsLocked(t, "match")]
      /\ closing' = [closing EXCEPT ![t] = Closes(t)]
      /\ Goes(t, pc[t], "insert")
      /\ UNCHANGED <<stored, closed, snapshot, written, outcome>>
  BY DEF ReadOpenMatches, Runs
<1>3. t \in Tx /\ pc[t] = 5 /\ outcome[t] = None /\ ~ Ended(t) /\ stage[t] = "read"
  BY <1>1, <1>2, AtStep
<1>4. /\ ListingOf(t) \in held[t]
      /\ \A r \in Wanted(t) : r[2] = ProductOf[t] /\ r[1] \notin {"item", "listing"}
  BY <1>1, <1>3, DeviceWants, WantedRows DEF LocksInOrder
<1>5. held'[t] = held[t] \cup Wanted(t) /\ Holds(t)' = Holds(t) \cup Wanted(t)
  BY <1>1, <1>2, <1>3 DEF TransactionTypes, Holds
<1>6. pc'[t] = 5 /\ stage'[t] = "insert" /\ RowOf(t) \notin stored
  BY <1>1, <1>2, <1>3, Staying DEF FindingsStayTrue
<1>7. gaps'[t] = {} /\ closing'[t] = OpenMatches(ProductOf[t])'
  BY <1>1, <1>2, <1>3 DEF TransactionTypes, GapsLocked, RepeatableRead, LocksInOrder, Closes, OpenMatches
<1>8. LocksInOrder(t)'
  BY <1>1, <1>2, <1>3, <1>4, <1>5, <1>6, <1>7, OwnLocks DEF LocksInOrder
<1>9. FindingsStayTrue(t)'
  BY <1>1, <1>2, <1>3, <1>6, SameStepSameRow DEF FindingsStayTrue
<1>10. ClosesWhatItReplaces(t)'
  BY <1>1, <1>2, <1>3, <1>6, <1>7 DEF ClosesWhatItReplaces, MatchOf
<1>. QED
  BY <1>1, <1>2, <1>5, <1>8, <1>9, <1>10 DEF DeviceInv

LEMMA OwnReadCurrent ==
  ASSUME TransactionsInv, TransactionTypes', NEW t \in Device, ReadCurrent(t)
  PROVE  DeviceInv(t)' /\ Holds(t)' \subseteq Holds(t) \cup Wanted(t)
<1>1. /\ TransactionTypes /\ LocksInOrder(t) /\ FindingsStayTrue(t) /\ ClosesWhatItReplaces(t)
      /\ outcome[t] # "duplicate"
  BY InvParts DEF DeviceInv
<1>2. /\ At(t, "select") /\ Table(t) = "current"
      /\ IF RowOf(t) \in stored
         THEN /\ held' = [held EXCEPT ![t] = @ \cup Wanted(t)]
              /\ Advances(t)
              /\ UNCHANGED gaps
         ELSE /\ gaps' = [gaps EXCEPT ![t] = @ \cup GapsLocked(t, "current")]
              /\ Goes(t, pc[t], "insert")
              /\ UNCHANGED held
      /\ UNCHANGED <<stored, closed, snapshot, written, closing, outcome>>
  BY DEF ReadCurrent, Runs
<1>3. t \in Tx /\ pc[t] = 6 /\ outcome[t] = None /\ ~ Ended(t) /\ stage[t] = "select"
  BY <1>1, <1>2, AtStep
<1>4. /\ ListingOf(t) \in held[t] /\ gaps'[t] = {}
      /\ \A r \in Wanted(t) : r[2] = ProductOf[t] /\ r[1] \notin {"item", "listing"}
  <2>1. GapsLocked(t, "current") = {} /\ gaps[t] = {} /\ ListingOf(t) \in held[t]
    BY <1>1, <1>3 DEF LocksInOrder, GapsLocked, RepeatableRead
  <2>2. gaps'[t] = gaps[t] \/ gaps'[t] = gaps[t] \cup GapsLocked(t, "current")
    BY <1>1, <1>2, <1>3 DEF TransactionTypes
  <2>3. \A r \in Wanted(t) : r[2] = ProductOf[t] /\ r[1] \notin {"item", "listing"}
    BY <1>1, <1>3, DeviceWants, WantedRows
  <2>. QED
    BY <2>1, <2>2, <2>3
<1>5. \/ pc'[t] = 7 /\ stage'[t] = "select" /\ held' = [held EXCEPT ![t] = @ \cup Wanted(t)]
      \/ pc'[t] = 6 /\ stage'[t] = "insert" /\ RowOf(t) \notin stored /\ UNCHANGED held
  BY <1>1, <1>2, <1>3, Advancing, Staying
<1>6. \/ Holds(t)' = Holds(t) \cup Wanted(t) /\ held[t] \subseteq held'[t]
      \/ Holds(t)' = Holds(t) \cup {} /\ held[t] \subseteq held'[t]
  BY <1>1, <1>2, <1>3, <1>5 DEF Holds, TransactionTypes
<1>7. LocksInOrder(t)'
  BY <1>1, <1>2, <1>3, <1>4, <1>5, <1>6, OwnLocks DEF LocksInOrder
<1>8. FindingsStayTrue(t)'
  BY <1>1, <1>2, <1>3, <1>5, SameStepSameRow DEF FindingsStayTrue
<1>9. ClosesWhatItReplaces(t)'
  BY <1>1, <1>2, <1>3, <1>5 DEF ClosesWhatItReplaces, MatchOf, OpenMatches
<1>. QED
  BY <1>1, <1>2, <1>6, <1>7, <1>8, <1>9 DEF DeviceInv

LEMMA OwnInsert ==
  ASSUME TransactionsInv, TransactionTypes', NEW t \in Device, Insert(t)
  PROVE  DeviceInv(t)' /\ Holds(t)' \subseteq Holds(t) \cup Wanted(t)
<1>1. /\ TransactionTypes /\ LocksInOrder(t) /\ FindingsStayTrue(t) /\ ClosesWhatItReplaces(t)
      /\ outcome[t] # "duplicate"
  BY InvParts DEF DeviceInv
<1>2. /\ At(t, "insert")
      /\ RowOf(t) \notin stored
      /\ written' = [written EXCEPT ![t] = @ \cup {RowOf(t)}]
      /\ Advances(t)
      /\ UNCHANGED <<stored, closed, snapshot, closing, held, gaps, outcome>>
  BY DEF Insert, Runs
<1>3. t \in Tx /\ pc[t] \in 1 .. 6 /\ outcome[t] = None /\ ~ Ended(t) /\ stage[t] = "insert"
  BY <1>1, <1>2, AtStep
<1>4. /\ written'[t] = written[t] \cup {RowOf(t)} /\ Holds(t)' = Holds(t) \cup {RowOf(t)}
      /\ Wanted(t) = {RowOf(t)}
  <2>1. Wanted(t) = {RowOf(t)}
    BY <1>1, <1>3, DeviceWants
  <2>2. written'[t] = written[t] \cup {RowOf(t)} /\ held'[t] = held[t]
    BY <1>1, <1>2, <1>3 DEF TransactionTypes
  <2>. QED
    BY <2>1, <2>2 DEF Holds
<1>5. pc'[t] = pc[t] + 1 /\ stage'[t] = "select"
  BY <1>1, <1>2, <1>3, Advancing
<1>6. /\ RowOf(t)[2] = ProductOf[t]
      /\ RowOf(t)[1] = "item" => pc[t] = 1
      /\ RowOf(t)[1] = "listing" => RowOf(t) = ListingOf(t) /\ pc[t] = 2
      /\ RowOf(t)[1] \notin {"item", "listing"} => pc[t] >= 3
      /\ pc[t] = 5 => RowOf(t) = MatchOf(t)
      /\ RowOf(t)[1] = "match" => pc[t] = 5
  BY <1>3, DeviceSteps, RowShape DEF ListingOf, MatchOf
<1>7. pc[t] >= 3 => ListingOf(t) \in held[t]
  BY <1>1, <1>3 DEF LocksInOrder
<1>8. LocksInOrder(t)'
  BY <1>1, <1>2, <1>3, <1>4, <1>5, <1>6, <1>7, OwnLocks DEF LocksInOrder
<1>9. FindingsStayTrue(t)'
  BY <1>1, <1>2, <1>4, <1>5 DEF FindingsStayTrue
<1>10. ClosesWhatItReplaces(t)'
  <2>1. /\ MatchOf(t)' = MatchOf(t) /\ OpenMatches(ProductOf[t])' = OpenMatches(ProductOf[t])
        /\ closing'[t] = closing[t] /\ UNCHANGED stored /\ MatchOf(t)[1] = "match"
    BY <1>2, RowShape DEF MatchOf, OpenMatches
  <2>2. CASE pc[t] < 5
    BY <1>1, <1>3, <1>4, <1>5, <1>6, <2>1, <2>2 DEF ClosesWhatItReplaces
  <2>3. CASE pc[t] = 5
    BY <1>1, <1>3, <1>4, <1>5, <1>6, <2>1, <2>3 DEF ClosesWhatItReplaces
  <2>4. CASE pc[t] = 6
    <3>1. MatchOf(t) # RowOf(t)
      BY <1>6, <2>1, <2>4
    <3>. QED
      BY <1>1, <1>3, <1>4, <1>5, <1>6, <2>1, <2>4, <3>1 DEF ClosesWhatItReplaces
  <2>. QED
    BY <1>3, <2>2, <2>3, <2>4
<1>. QED
  BY <1>1, <1>2, <1>4, <1>8, <1>9, <1>10 DEF DeviceInv

\* A unit that ended holds nothing.
LEMMA OwnEnd ==
  ASSUME TransactionsInv, NEW t \in Device, NEW what \in {"committed", "aborted"}, Ends(t, what)
  PROVE  DeviceInv(t)' /\ Holds(t)' = {}
<1>1. /\ pc'[t] = 0 /\ stage'[t] = "begin" /\ outcome'[t] = what
      /\ snapshot'[t] = {} /\ written'[t] = {} /\ closing'[t] = {} /\ held'[t] = {} /\ gaps'[t] = {}
  BY InvParts, TypeParts, Ending
<1>2. Holds(t)' = {}
  BY <1>1 DEF Holds
<1>3. LocksInOrder(t)'
  BY <1>1, <1>2 DEF LocksInOrder
<1>4. FindingsStayTrue(t)' /\ ClosesWhatItReplaces(t)'
  BY <1>1 DEF FindingsStayTrue, ClosesWhatItReplaces
<1>. QED
  BY <1>1, <1>2, <1>3, <1>4 DEF DeviceInv

\* A duplicate key is met only where the select is repeated, and then found.
LEMMA OwnDuplicate ==
  ASSUME TransactionsInv, TransactionTypes', NEW t \in Device, Duplicate(t) \/ Reread(t)
  PROVE  DeviceInv(t)' /\ Holds(t)' = Holds(t)
<1>1. /\ TransactionTypes /\ LocksInOrder(t) /\ FindingsStayTrue(t) /\ ClosesWhatItReplaces(t)
      /\ outcome[t] # "duplicate"
  BY InvParts DEF DeviceInv
<1>2. \/ At(t, "insert") /\ RowOf(t) \in stored
      \/ At(t, "reread")
  BY DEF Duplicate, Reread, Runs
<1>3. t \in Tx /\ pc[t] \in {1, 2, 4} /\ outcome[t] = None /\ ~ Ended(t) /\ RowOf(t) \in stored
      /\ stage[t] \in {"insert", "reread"} /\ Retried(t)
  BY <1>1, <1>2, AtStep DEF FindingsStayTrue, LocksInOrder, Retried
<1>4. /\ Advances(t) \/ Goes(t, pc[t], "reread")
      /\ UNCHANGED <<stored, closed, snapshot, written, closing, held, gaps, outcome>>
  BY <1>3, DeviceSees DEF Duplicate, Reread
<1>5. Holds(t)' = Holds(t) /\ OpenMatches(ProductOf[t])' = OpenMatches(ProductOf[t])
      /\ MatchOf(t)' = MatchOf(t) /\ ListingOf(t)' = ListingOf(t)
  BY <1>4 DEF Holds, OpenMatches, MatchOf, ListingOf
<1>6. \/ pc'[t] = pc[t] + 1 /\ stage'[t] = "select"
      \/ pc'[t] = pc[t] /\ stage'[t] = "reread"
  BY <1>1, <1>3, <1>4, Advancing, Staying
<1>7. LocksInOrder(t)'
  BY <1>1, <1>3, <1>4, <1>5, <1>6 DEF LocksInOrder
<1>8. FindingsStayTrue(t)'
  BY <1>1, <1>3, <1>4, <1>6, SameStepSameRow DEF FindingsStayTrue
<1>9. ClosesWhatItReplaces(t)'
  BY <1>1, <1>3, <1>4, <1>5, <1>6 DEF ClosesWhatItReplaces
<1>. QED
  BY <1>1, <1>4, <1>5, <1>7, <1>8, <1>9 DEF DeviceInv

LEMMA OwnBegin ==
  ASSUME TransactionsInv, TransactionTypes', NEW t \in Device, Begin(t)
  PROVE  DeviceInv(t)' /\ Holds(t)' = Holds(t)
<1>1. /\ TransactionTypes /\ LocksInOrder(t) /\ FindingsStayTrue(t) /\ ClosesWhatItReplaces(t)
      /\ outcome[t] # "duplicate"
  BY InvParts DEF DeviceInv
<1>2. /\ outcome[t] = None /\ pc[t] = 0 /\ Advances(t)
      /\ UNCHANGED <<stored, closed, written, closing, held, gaps, outcome>>
  BY DEF Begin
<1>3. Holds(t)' = Holds(t) /\ Holds(t) = {} /\ written[t] = {}
  BY <1>1, <1>2 DEF Holds, LocksInOrder
<1>4. pc'[t] = 1 /\ stage'[t] = "select"
  <2>1. ~ Ended(t)
    BY <1>1, <1>2, UnitPosition DEF Ended
  <2>. QED
    BY <2>1, <1>1, <1>2, Advancing
<1>5. LocksInOrder(t)'
  BY <1>1, <1>2, <1>3, <1>4 DEF LocksInOrder
<1>6. FindingsStayTrue(t)' /\ ClosesWhatItReplaces(t)'
  BY <1>1, <1>2, <1>3, <1>4 DEF FindingsStayTrue, ClosesWhatItReplaces
<1>. QED
  BY <1>1, <1>2, <1>3, <1>5, <1>6 DEF DeviceInv

\* All steps of a product unit: it keeps its invariant, and takes only rows it
\* did not have to wait for.
LEMMA OwnStep ==
  ASSUME TransactionsInv, TransactionTypes', NEW t \in Device, Step(t) \/ Abort(t)
  PROVE  /\ DeviceInv(t)'
         /\ \A r \in Holds(t)' \ Holds(t) : r \in Wanted(t) /\ WaitsFor(t) = {} /\ outcome[t] = None
<1>1. CASE Begin(t) \/ Select(t) \/ Duplicate(t) \/ Reread(t)
  <2>1. DeviceInv(t)' /\ Holds(t)' = Holds(t)
    BY <1>1, OwnBegin, OwnSelect, OwnDuplicate
  <2>. QED
    BY <2>1
<1>2. CASE SelectRevision(t) \/ SelectMatch(t) \/ ReadOpenMatches(t) \/ ReadCurrent(t) \/ Insert(t)
  <2>1. DeviceInv(t)' /\ Holds(t)' \subseteq Holds(t) \cup Wanted(t)
    BY <1>2, OwnSelectRevision, OwnSelectMatch, OwnReadOpenMatches, OwnReadCurrent, OwnInsert
  <2>2. WaitsFor(t) = {} /\ outcome[t] = None
    BY <1>2 DEF SelectRevision, SelectMatch, ReadOpenMatches, ReadCurrent, Insert, Runs, At
  <2>. QED
    BY <2>1, <2>2
<1>3. CASE Commit(t) \/ Abort(t)
  <2>1. DeviceInv(t)' /\ Holds(t)' = {}
    BY <1>3, OwnEnd DEF Commit, Abort
  <2>. QED
    BY <2>1
<1>. QED
  BY <1>1, <1>2, <1>3 DEF Step

-----------------------------------------------------------------------------
(* What a commit changes for the others.                                   *)

\* A commit publishes rows of its own product, and closes matches of it.
LEMMA CommitPublishes ==
  ASSUME TransactionsInv, NEW t \in Tx, Commit(t)
  PROVE  /\ stored' = stored \cup written[t] /\ closed' = closed \cup closing[t]
         /\ closing[t] \subseteq stored
         /\ \A r \in written[t] \cup closing[t] : r[2] = ProductOf[t]
         /\ t \in Device => ListingOf(t) \in held[t] /\ pc[t] = 7
         /\ \A p : p # ProductOf[t] => OpenMatches(p)' = OpenMatches(p)
<1>1. /\ outcome[t] = None /\ Ended(t)
      /\ stored' = stored \cup written[t] /\ closed' = closed \cup closing[t]
  BY DEF Commit
<1>2. /\ closing[t] \subseteq stored
      /\ \A r \in written[t] \cup closing[t] : r[2] = ProductOf[t]
      /\ t \in Device => ListingOf(t) \in held[t] /\ pc[t] = 7
  <2>1. CASE t \in Device
    <3>1. TransactionTypes /\ LocksInOrder(t) /\ ClosesWhatItReplaces(t)
      BY <2>1, InvParts DEF DeviceInv
    <3>2. pc[t] = 7
      BY <2>1, <3>1, <1>1, DevicePosition, DeviceSteps
    <3>3. closing[t] = {} \/ closing[t] = OpenMatches(ProductOf[t])
      BY <3>1, <3>2 DEF ClosesWhatItReplaces
    <3>4. \A r \in written[t] : r[2] = ProductOf[t]
      BY <3>1 DEF LocksInOrder, Holds
    <3>5. ListingOf(t) \in held[t]
      BY <3>1, <3>2 DEF LocksInOrder
    <3>. QED
      BY <3>2, <3>3, <3>4, <3>5 DEF OpenMatches
  <2>2. CASE t \notin Device
    BY <2>2, InvParts DEF DatasetKeepsToItsProduct, Holds
  <2>. QED
    BY <2>1, <2>2
<1>3. ASSUME NEW p, p # ProductOf[t]
      PROVE  OpenMatches(p)' = OpenMatches(p)
  BY <1>1, <1>2, <1>3 DEF OpenMatches
<1>. QED
  BY <1>1, <1>2, <1>3

\* What another transaction's step leaves true of a product unit.
LEMMA Bystander ==
  ASSUME TransactionsInv, NEW t \in Tx, Step(t) \/ Abort(t), NEW u \in Device, u # t
  PROVE  DeviceInv(u)' /\ Holds(u)' = Holds(u)
<1>1. /\ TransactionTypes /\ LocksAreExclusive /\ u \in Tx
      /\ LocksInOrder(u) /\ FindingsStayTrue(u) /\ ClosesWhatItReplaces(u) /\ outcome[u] # "duplicate"
  BY InvParts DEF DeviceInv
<1>2. /\ pc'[u] = pc[u] /\ stage'[u] = stage[u] /\ written'[u] = written[u] /\ closing'[u] = closing[u]
      /\ held'[u] = held[u] /\ gaps'[u] = gaps[u] /\ outcome'[u] = outcome[u]
      /\ Commit(t) \/ UNCHANGED <<stored, closed>>
  BY <1>1, StepIsPrivate DEF PositionsStay, RowSetsStay
<1>3. /\ Holds(u)' = Holds(u) /\ RowOf(u)' = RowOf(u) /\ ListingOf(u)' = ListingOf(u)
      /\ MatchOf(u)' = MatchOf(u)
  BY <1>1, <1>2, SameStepSameRow DEF Holds, ListingOf, MatchOf
<1>4. LocksInOrder(u)'
  BY <1>1, <1>2, <1>3 DEF LocksInOrder
<1>5. /\ stored \subseteq stored' /\ written[u] \cap stored' = {}
      /\ ListingOf(u) \in held[u] =>
           /\ OpenMatches(ProductOf[u])' = OpenMatches(ProductOf[u])
           /\ \A r \in stored' \ stored : r[2] # ProductOf[u]
  <2>1. CASE UNCHANGED <<stored, closed>>
    BY <1>1, <2>1 DEF FindingsStayTrue, OpenMatches
  <2>2. CASE Commit(t) /\ ProductOf[t] # ProductOf[u]
    <3>1. /\ stored' = stored \cup written[t] /\ \A r \in written[t] : r[2] = ProductOf[t]
          /\ OpenMatches(ProductOf[u])' = OpenMatches(ProductOf[u])
      BY <2>2, CommitPublishes
    <3>2. \A r \in written[u] : r[2] = ProductOf[u]
      BY <1>1 DEF LocksInOrder, Holds
    <3>. QED
      BY <1>1, <2>2, <3>1, <3>2 DEF FindingsStayTrue
  <2>3. CASE Commit(t) /\ ProductOf[t] = ProductOf[u]
    <3>1. t \in Device
      BY <2>3
    <3>2. stored' = stored \cup written[t] /\ ListingOf(t) \in held[t] /\ ListingOf(t) = ListingOf(u)
      BY <2>3, <3>1, CommitPublishes DEF ListingOf
    <3>3. Holds(t) \cap Holds(u) = {}
      BY <1>1, <3>1 DEF LocksAreExclusive
    <3>4. ListingOf(u) \notin held[u]
      BY <3>2, <3>3 DEF Holds
    <3>5. written[u] \cap written[t] = {}
      BY <3>3 DEF Holds
    <3>. QED
      BY <1>1, <3>2, <3>4, <3>5 DEF FindingsStayTrue
  <2>. QED
    BY <1>2, <2>1, <2>2, <2>3
<1>6. pc[u] > 3 \/ (pc[u] = 3 /\ stage[u] = "insert") => ListingOf(u) \in held[u]
  BY <1>1 DEF LocksInOrder
<1>7. FindingsStayTrue(u)'
  <2>1. ASSUME stage[u] = "read" \/ (stage[u] = "insert" /\ pc[u] \in {3, 5, 6})
        PROVE  RowOf(u) \notin stored'
    <3>1. RowOf(u) \notin stored /\ ListingOf(u) \in held[u] /\ pc[u] \in {3, 5, 6}
      BY <1>1, <1>6, <2>1 DEF FindingsStayTrue, LocksInOrder
    <3>2. RowOf(u)[2] = ProductOf[u]
      BY <3>1, <1>1, DeviceSteps, RowShape DEF MatchOf
    <3>. QED
      BY <3>1, <3>2, <1>5
  <2>2. stage[u] = "reread" => RowOf(u) \in stored'
    BY <1>1, <1>5 DEF FindingsStayTrue
  <2>. QED
    BY <1>2, <1>3, <1>5, <2>1, <2>2 DEF FindingsStayTrue
<1>8. ClosesWhatItReplaces(u)'
  <2>1. CASE pc[u] < 5 \/ (pc[u] = 5 /\ stage[u] # "insert")
    BY <1>1, <1>2, <1>3, <2>1, DevicePosition DEF ClosesWhatItReplaces
  <2>2. CASE pc[u] > 5 \/ (pc[u] = 5 /\ stage[u] = "insert")
    <3>1. OpenMatches(ProductOf[u])' = OpenMatches(ProductOf[u])
      BY <1>1, <1>5, <1>6, <2>2, DevicePosition
    <3>. QED
      BY <1>1, <1>2, <1>3, <1>5, <2>2, <3>1, DevicePosition DEF ClosesWhatItReplaces
  <2>. QED
    BY <1>1, <2>1, <2>2, DevicePosition
<1>. QED
  BY <1>1, <1>2, <1>3, <1>4, <1>7, <1>8 DEF DeviceInv

-----------------------------------------------------------------------------
(* The invariant.                                                          *)

LEMMA DatasetStep ==
  ASSUME TransactionsInv, TransactionTypes', NEW t \in Tx \ Device, Step(t) \/ Abort(t)
  PROVE  DatasetKeepsToItsProduct(t)'
<1>1. TransactionTypes /\ Positions /\ RowSets /\ DatasetKeepsToItsProduct(t)
  BY InvParts, TypeParts
<1>2. CASE Commit(t) \/ Abort(t) \/ Ends(t, "duplicate")
  <2>1. written'[t] = {} /\ held'[t] = {} /\ closing'[t] = {}
    BY <1>1, <1>2, Ending DEF Commit, Abort
  <2>. QED
    BY <2>1 DEF DatasetKeepsToItsProduct, Holds
<1>3. ASSUME NEW rows, Holds(t)' \subseteq Holds(t) \cup rows, \A r \in rows : r[2] = ProductOf[t],
             closing'[t] = closing[t]
      PROVE  DatasetKeepsToItsProduct(t)'
  BY <1>1, <1>3 DEF DatasetKeepsToItsProduct
<1>4. \A r \in Wanted(t) : r[2] = ProductOf[t]
  BY <1>1, WantedRows
<1>5. CASE UNCHANGED <<written, closing, held>>
  <2>1. Holds(t)' \subseteq Holds(t) \cup Wanted(t) /\ closing'[t] = closing[t]
    BY <1>5 DEF Holds
  <2>. QED
    BY <2>1, <1>3, <1>4
<1>6. CASE UNCHANGED <<written, closing>> /\ held' = [held EXCEPT ![t] = @ \cup Wanted(t)]
  <2>1. Holds(t)' = Holds(t) \cup Wanted(t) /\ closing'[t] = closing[t]
    BY <1>1, <1>6 DEF Holds, RowSets
  <2>. QED
    BY <2>1, <1>3, <1>4
<1>7. CASE Insert(t)
  <2>1. /\ UNCHANGED <<closing, held>> /\ written' = [written EXCEPT ![t] = @ \cup {RowOf(t)}]
        /\ ~ Ended(t) /\ stage[t] = "insert"
    BY <1>7 DEF Insert, Runs, At
  <2>2. RowOf(t)[2] = ProductOf[t]
    BY <1>1, <2>1, RowsAreRows, UnitPosition DEF TransactionTypes
  <2>3. Holds(t)' = Holds(t) \cup {RowOf(t)} /\ closing'[t] = closing[t]
    BY <1>1, <2>1 DEF Holds, RowSets
  <2>. QED
    BY <2>2, <2>3, <1>3
<1>8. ~ ReadOpenMatches(t)
  <2>1. ASSUME At(t, "read"), Table(t) = "match" PROVE FALSE
    <3>1. pc[t] \in 0 .. 4 /\ pc[t] # 0 /\ ~ Ended(t)
      BY <1>1, <2>1, UnitPosition DEF At, TransactionTypes
    <3>. QED
      BY <2>1, <3>1, DatasetSteps
  <2>. QED
    BY <2>1 DEF ReadOpenMatches, Runs
<1>. QED
  BY <1>2, <1>5, <1>6, <1>7, <1>8
     DEF Step, Begin, Select, SelectRevision, SelectMatch, ReadCurrent, Duplicate, Reread

\* The commit of a unit that adds a match closes what was open: one is left.
LEMMA CommitKeepsOneMatch ==
  ASSUME TransactionsInv, NEW t \in Tx, Commit(t), NEW p \in DeviceProducts
  PROVE  OneOpenMatch(p)'
<1>1. /\ stored' = stored \cup written[t] /\ closed' = closed \cup closing[t]
      /\ closing[t] \subseteq stored
      /\ \A r \in written[t] \cup closing[t] : r[2] = ProductOf[t]
      /\ t \in Device => ListingOf(t) \in held[t] /\ pc[t] = 7
      /\ \A q : q # ProductOf[t] => OpenMatches(q)' = OpenMatches(q)
  BY CommitPublishes
<1>2. OneOpenMatch(p) /\ closed \subseteq stored
  BY InvParts
<1>3. CASE p # ProductOf[t]
  <2>1. /\ OpenMatches(p)' = OpenMatches(p)
        /\ \A r : r[2] = p => (r \in stored' <=> r \in stored)
    BY <1>1, <1>3
  <2>2. Row("current", p, None)[2] = p /\ Row("current", p, None)' = Row("current", p, None)
    BY RowShape DEF Row
  <2>. QED
    BY <1>2, <2>1, <2>2 DEF OneOpenMatch
<1>4. CASE p = ProductOf[t]
  <2>1. t \in Device /\ pc[t] = 7 /\ FindingsStayTrue(t) /\ ClosesWhatItReplaces(t)
    <3>1. t \in Device
      BY <1>4 DEF DeviceProducts
    <3>. QED
      BY <3>1, <1>1, InvParts DEF DeviceInv
  <2>2. MatchOf(t)[1] = "match" /\ MatchOf(t)[2] = p
    BY <1>4, RowShape DEF MatchOf
  <2>3. \A r \in written[t] : r[1] = "match" => r = MatchOf(t)
    BY <2>1 DEF ClosesWhatItReplaces
  <2>4. CASE MatchOf(t) \in written[t]
    <3>1. closing[t] = OpenMatches(p) /\ MatchOf(t) \notin stored
      BY <1>4, <2>1, <2>4 DEF ClosesWhatItReplaces, FindingsStayTrue
    <3>2. OpenMatches(p)' = {MatchOf(t)}
      BY <1>1, <1>2, <2>2, <2>3, <2>4, <3>1 DEF OpenMatches
    <3>. QED
      BY <1>1, <2>2, <2>4, <3>2 DEF OneOpenMatch
  <2>5. CASE MatchOf(t) \notin written[t]
    <3>1. closing[t] = {} /\ MatchOf(t) \in stored
      BY <2>1, <2>5 DEF ClosesWhatItReplaces
    <3>2. OpenMatches(p)' = OpenMatches(p) /\ MatchOf(t) \in stored'
      BY <1>1, <2>3, <2>5, <3>1 DEF OpenMatches
    <3>. QED
      BY <1>2, <2>2, <3>1, <3>2 DEF OneOpenMatch
  <2>. QED
    BY <2>4, <2>5
<1>. QED
  BY <1>3, <1>4

LEMMA StepTransactions ==
  ASSUME TransactionsInv, NEW t \in Tx, Step(t) \/ Abort(t)
  PROVE  TransactionsInv'
<1>1. /\ TransactionTypes /\ LocksAreExclusive /\ closed \subseteq stored
      /\ TransactionTypes' /\ PositionsStay(t) /\ RowSetsStay(t)
      /\ Commit(t) \/ UNCHANGED <<stored, closed>>
  BY InvParts, StepIsPrivate
<1>2. ASSUME NEW d \in Device PROVE DeviceInv(d)'
  BY <1>1, OwnStep, Bystander
<1>3. ASSUME NEW u \in Tx \ Device PROVE DatasetKeepsToItsProduct(u)'
  <2>1. CASE u = t
    BY <1>1, <2>1, DatasetStep
  <2>2. CASE u # t
    <3>1. written'[u] = written[u] /\ held'[u] = held[u] /\ closing'[u] = closing[u]
      BY <1>1, <2>2 DEF RowSetsStay
    <3>2. DatasetKeepsToItsProduct(u)
      BY InvParts
    <3>. QED
      BY <3>1, <3>2 DEF DatasetKeepsToItsProduct, Holds
  <2>. QED
    BY <2>1, <2>2
<1>4. LocksAreExclusive'
  <2>1. ASSUME NEW d \in Device, NEW e \in Device, d # e PROVE Holds(d)' \cap Holds(e)' = {}
    <3>1. Holds(d) \cap Holds(e) = {}
      BY <1>1, <2>1 DEF LocksAreExclusive
    <3>2. ASSUME t \in Device, NEW u \in Device, u # t, Holds(t) \cap Holds(u) = {}
          PROVE  Holds(t)' \cap Holds(u)' = {}
      <4>1. Holds(u)' = Holds(u)
        BY <3>2, Bystander
      <4>2. ASSUME NEW r \in Holds(t)' \ Holds(t) PROVE r \notin Holds(u)
        BY <1>1, <3>2, <4>2, OwnStep, FreeRows
      <4>. QED
        BY <3>2, <4>1, <4>2
    <3>3. CASE t = d
      BY <2>1, <3>1, <3>2, <3>3
    <3>4. CASE t = e
      BY <2>1, <3>1, <3>2, <3>4
    <3>5. CASE t # d /\ t # e
      BY <2>1, <3>1, <3>5, Bystander
    <3>. QED
      BY <3>3, <3>4, <3>5
  <2>. QED
    BY <2>1 DEF LocksAreExclusive
<1>5. closed' \subseteq stored'
  BY <1>1, CommitPublishes
<1>6. ASSUME NEW p \in DeviceProducts PROVE OneOpenMatch(p)'
  <2>1. CASE Commit(t)
    BY <2>1, CommitKeepsOneMatch
  <2>2. CASE UNCHANGED <<stored, closed>>
    BY <2>2, InvParts DEF OneOpenMatch, OpenMatches, Row
  <2>. QED
    BY <1>1, <2>1, <2>2
<1>7. NoUnitLosesARace'
  BY <1>2 DEF DeviceInv, NoUnitLosesARace
<1>. QED
  BY <1>1, <1>2, <1>3, <1>4, <1>5, <1>6, <1>7 DEF TransactionsInv, DeviceInv, DeviceProducts

LEMMA InitTransactions == Init => TransactionsInv
<1>. SUFFICES ASSUME Init PROVE TransactionsInv
  OBVIOUS
<1>1. PICK old \in SUBSET DeviceProducts, v \in Version : stored = UNION {Earlier(p, v) : p \in old}
  BY DEF Init
<1>2. /\ closed = {} /\ pc = [t \in Tx |-> 0] /\ stage = [t \in Tx |-> "begin"]
      /\ snapshot = [t \in Tx |-> {}] /\ written = [t \in Tx |-> {}] /\ closing = [t \in Tx |-> {}]
      /\ held = [t \in Tx |-> {}] /\ gaps = [t \in Tx |-> {}] /\ outcome = [t \in Tx |-> None]
  BY DEF Init
<1>3. DeviceProducts \subseteq Product
  BY DEF DeviceProducts
<1>4. \A r : r \in stored <=> \E p \in old, table \in Tables : r = Row(table, p, v)
  BY <1>1 DEF Earlier, Tables
<1>5. \A table \in Tables, p \in old : Row(table, p, v) \in AllRows
  BY <1>3, RowShape
<1>6. TransactionTypes
  <2>1. stored \subseteq AllRows
    BY <1>4, <1>5
  <2>2. \A t \in Tx : Len(UnitOf(t)) \in Nat
    BY DEF UnitOf, DeviceUnit, DatasetUnit
  <2>. QED
    BY <2>1, <2>2, <1>2 DEF TransactionTypes
<1>7. \A t \in Tx : Holds(t) = {}
  BY <1>2 DEF Holds
<1>8. \A t \in Tx \ Device : DatasetKeepsToItsProduct(t)
  BY <1>2, <1>7 DEF DatasetKeepsToItsProduct
<1>9. ASSUME NEW d \in Device PROVE DeviceInv(d)
  <2>1. d \in Tx /\ pc[d] = 0 /\ stage[d] = "begin" /\ outcome[d] = None /\ gaps[d] = {}
        /\ written[d] = {} /\ closing[d] = {} /\ Holds(d) = {}
    BY <1>2, <1>7
  <2>. QED
    BY <2>1, NoneIsNoOutcome DEF DeviceInv, LocksInOrder, FindingsStayTrue, ClosesWhatItReplaces
<1>10. LocksAreExclusive
  BY <1>7 DEF LocksAreExclusive
<1>11. ASSUME NEW p \in DeviceProducts PROVE OneOpenMatch(p)
  <2>1. ASSUME p \in old
        PROVE  OpenMatches(p) = {Row("match", p, v)}
    <3>1. Row("match", p, v) \in stored /\ Row("match", p, v)[1] = "match" /\ Row("match", p, v)[2] = p
      BY <2>1, <1>4, RowShape DEF Tables
    <3>2. ASSUME NEW r \in stored, r[1] = "match", r[2] = p PROVE r = Row("match", p, v)
      <4>1. PICK q \in old, table \in Tables : r = Row(table, q, v)
        BY <1>4
      <4>. QED
        BY <4>1, <3>2, RowShape
    <3>. QED
      BY <3>1, <3>2, <1>2 DEF OpenMatches
  <2>2. ASSUME p \notin old, NEW r \in stored PROVE r[2] # p
    <3>1. PICK q \in old, table \in Tables : r = Row(table, q, v)
      BY <1>4
    <3>. QED
      BY <3>1, <2>2, RowShape
  <2>3. p \in old => Row("match", p, v) \in stored /\ Row("match", p, v)[1] = "match"
                     /\ Row("match", p, v)[2] = p
    BY <1>4, RowShape DEF Tables
  <2>4. Row("current", p, None)[2] = p
    BY RowShape
  <2>. QED
    BY <2>1, <2>2, <2>3, <2>4 DEF OneOpenMatch
<1>. QED
  BY <1>2, <1>6, <1>8, <1>9, <1>10, <1>11, InvParts

\* The inductive invariant of the transactions.
THEOREM TransactionsInvariant == Spec => []TransactionsInv
<1>1. TransactionsInv /\ [Next]_vars => TransactionsInv'
  <2>. SUFFICES ASSUME TransactionsInv, [Next]_vars PROVE TransactionsInv'
    OBVIOUS
  <2>1. CASE Next
    BY <2>1, StepTransactions DEF Next
  <2>2. CASE UNCHANGED vars
    <3>1. TransactionTypes' /\ LocksAreExclusive' /\ closed' \subseteq stored'
      BY <2>2 DEF vars, TransactionsInv, TransactionTypes, LocksAreExclusive, Holds
    <3>2. ASSUME NEW t \in Tx \ Device PROVE DatasetKeepsToItsProduct(t)'
      BY <2>2 DEF vars, TransactionsInv, DatasetKeepsToItsProduct, Holds
    <3>3. ASSUME NEW d \in Device PROVE DeviceInv(d)'
      <4>1. DeviceInv(d)
        BY InvParts
      <4>2. LocksInOrder(d)'
        BY <2>2, <4>1 DEF vars, DeviceInv, LocksInOrder, Holds, ListingOf
      <4>3. FindingsStayTrue(d)' /\ ClosesWhatItReplaces(d)'
        BY <2>2, <4>1 DEF vars, DeviceInv, FindingsStayTrue, ClosesWhatItReplaces, RowOf, MatchOf, OpenMatches
      <4>. QED
        BY <2>2, <4>1, <4>2, <4>3 DEF vars, DeviceInv
    <3>4. ASSUME NEW p \in DeviceProducts PROVE OneOpenMatch(p)'
      BY <2>2 DEF vars, TransactionsInv, OneOpenMatch, OpenMatches, Row
    <3>5. NoUnitLosesARace'
      BY <2>2 DEF vars, TransactionsInv, NoUnitLosesARace
    <3>. QED
      BY <3>1, <3>2, <3>3, <3>4, <3>5 DEF TransactionsInv, DeviceInv, DeviceProducts
  <2>. QED
    BY <2>1, <2>2
<1>. QED
  BY <1>1, InitTransactions, PTL DEF Spec

\* No product unit is lost to a row another one created first, however many
\* units of one product meet: _get_or_create finds it again, and what is inserted
\* outside of it is inserted under the lock of the listing.
THEOREM NoUnitLosesARaceTheorem == Spec => []NoUnitLosesARace
<1>1. TransactionsInv => NoUnitLosesARace
  BY DEF TransactionsInv
<1>. QED
  BY <1>1, TransactionsInvariant, PTL

\* A current revision has exactly one open match (audit: device_match_cardinality),
\* however many versions write at the same time: create_match closes what is open
\* under the revision's lock.
THEOREM MatchedOnceTheorem == Spec => []ListingsAreMatchedOnce
<1>1. TransactionsInv => ListingsAreMatchedOnce
  <2>. SUFFICES ASSUME TransactionsInv, NEW p \in DeviceProducts, Row("current", p, None) \in stored
                PROVE  Cardinality(OpenMatches(p)) = 1
    BY DEF ListingsAreMatchedOnce, device_match_cardinality
  <2>1. PICK x \in OpenMatches(p) : OpenMatches(p) = {x}
    BY DEF TransactionsInv, OneOpenMatch
  <2>. QED
    BY <2>1, FS_Singleton
<1>. QED
  BY <1>1, TransactionsInvariant, PTL

-----------------------------------------------------------------------------
(* Who waits for whom.                                                     *)

\* How far a product unit is with what others may wait for.
Rank(d) == IF ListingOf(d) \in Holds(d) THEN 2 ELSE IF pc[d] >= 2 THEN 1 ELSE 0

\* A product unit waits for units that are further, and never for one that waits
\* for it.
LEMMA WaitsUpwards ==
  ASSUME TransactionsInv, NEW d \in Device, NEW u \in Device, u \in WaitsFor(d)
  PROVE  Rank(u) > Rank(d)
<1>1. /\ TransactionTypes /\ LocksInOrder(d) /\ LocksInOrder(u) /\ LocksAreExclusive
      /\ d \in Tx /\ u \in Tx /\ pc[d] \in 0 .. 7 /\ pc[u] \in 0 .. 7
  BY InvParts, DevicePosition DEF DeviceInv
<1>2. outcome[d] = None /\ u # d /\ u \notin GapHolders(d) /\ u \in Holders(d, Wanted(d))
  BY <1>1 DEF WaitsFor, Holders, GapHolders, Rivals, LocksInOrder
<1>3. PICK r \in Wanted(d) : r \in Holds(u)
  BY <1>2 DEF Holders, Holds
<1>4. r[2] = ProductOf[d] /\ r[2] = ProductOf[u] /\ ListingOf(u) = ListingOf(d)
  BY <1>1, <1>3, WantedRows DEF LocksInOrder, ListingOf
<1>5. ListingOf(u) \in Holds(u) => ListingOf(d) \notin Holds(d)
  BY <1>1, <1>2, <1>4 DEF LocksAreExclusive
<1>6. ~ Ended(d) /\ stage[d] # "begin" /\ pc[d] \in 1 .. 6
  <2>1. ~ Ended(d) /\ stage[d] # "begin"
    BY <1>3 DEF Wanted
  <2>. QED
    BY <2>1, <1>1, DeviceSteps DEF TransactionTypes
<1>7. CASE pc[d] = 1
  <2>1. r = Row("item", ProductOf[d], None) /\ r[1] = "item"
    BY <1>1, <1>3, <1>6, <1>7, DeviceWants, DeviceSteps, RowShape
  <2>2. pc[u] >= 2
    BY <1>1, <1>3, <2>1 DEF LocksInOrder
  <2>3. ListingOf(d) \notin Holds(d)
    <3>1. ListingOf(d)[1] = "listing"
      BY RowShape DEF ListingOf
    <3>. QED
      BY <3>1, <1>1, <1>7 DEF LocksInOrder
  <2>. QED
    BY <1>7, <2>2, <2>3 DEF Rank
<1>8. CASE pc[d] = 2 \/ (pc[d] = 3 /\ stage[d] # "insert")
  <2>1. r = ListingOf(d)
    <3>1. pc[d] = 3 => stage[d] = "select"
      BY <1>1, <1>6, <1>8 DEF LocksInOrder, TransactionTypes
    <3>. QED
      BY <3>1, <1>1, <1>3, <1>6, <1>8, DeviceWants, DeviceSteps
  <2>. QED
    BY <2>1, <1>3, <1>4, <1>5 DEF Rank
<1>9. CASE pc[d] > 3 \/ (pc[d] = 3 /\ stage[d] = "insert")
  <2>1. r[1] \notin {"item", "listing"}
    BY <1>1, <1>3, <1>6, <1>9, DeviceWants
  <2>2. ListingOf(u) \in held[u] /\ ListingOf(d) \in held[d]
    BY <1>1, <1>3, <1>9, <2>1 DEF LocksInOrder
  <2>. QED
    BY <2>2, <1>5 DEF Holds
<1>. QED
  BY <1>6, <1>7, <1>8, <1>9

\* A data set never waits for a product unit.
LEMMA DatasetsWaitForDatasets ==
  ASSUME TransactionsInv, NEW t \in Tx \ Device, NEW u \in Device
  PROVE  u \notin WaitsFor(t)
<1>1. TransactionTypes /\ LocksInOrder(u) /\ ProductOf[u] # ProductOf[t]
  BY InvParts DEF DeviceInv
<1>2. u \notin GapHolders(t)
  BY <1>1 DEF GapHolders, LocksInOrder
<1>3. u \notin Holders(t, Wanted(t))
  BY <1>1, WantedRows DEF Holders, LocksInOrder, Holds
<1>. QED
  BY <1>2, <1>3 DEF WaitsFor

\* Transactions that wait for each other in a circle include two data sets:
\* get_or_create_listing_revision locks the listing before anything a unit of the
\* same product may wait for, and product units lock no gaps.
CirclesNeedTwoDatasets ==
  \A S \in (SUBSET Tx) \ {{}} :
    (\A t \in S : WaitsFor(t) \cap S # {}) => \E t, u \in S \ Device : t # u

\* Whatever the transactions, only data sets that write at the same time can
\* lock each other out; product units of any source never do.
THEOREM CirclesTheorem == Spec => []CirclesNeedTwoDatasets
<1>1. TransactionsInv => CirclesNeedTwoDatasets
  <2>. SUFFICES ASSUME TransactionsInv, NEW S \in SUBSET Tx, S # {}, \A t \in S : WaitsFor(t) \cap S # {},
                       \A t, u \in S \ Device : t = u
                PROVE  FALSE
    BY DEF CirclesNeedTwoDatasets
  <2>1. S \subseteq Device
    <3>. SUFFICES ASSUME NEW t \in S \ Device PROVE FALSE
      OBVIOUS
    <3>1. PICK u \in S : u \in WaitsFor(t)
      OBVIOUS
    <3>2. u # t
      BY <3>1 DEF WaitsFor, Holders, GapHolders, Rivals
    <3>3. u \in Device
      BY <3>2
    <3>. QED
      BY <3>1, <3>3, DatasetsWaitForDatasets
  <2>2. ASSUME NEW d \in S PROVE Rank(d) \in 0 .. 2 /\ \E u \in S : Rank(u) > Rank(d)
    <3>1. PICK u \in S : u \in WaitsFor(d)
      OBVIOUS
    <3>2. Rank(u) > Rank(d)
      BY <2>1, <3>1, WaitsUpwards
    <3>. QED
      BY <3>2 DEF Rank
  <2>3. PICK d1 \in S : TRUE
    OBVIOUS
  <2>4. PICK d2 \in S : Rank(d2) > Rank(d1)
    BY <2>2
  <2>5. PICK d3 \in S : Rank(d3) > Rank(d2)
    BY <2>2
  <2>6. PICK d4 \in S : Rank(d4) > Rank(d3)
    BY <2>2
  <2>7. Rank(d1) \in 0 .. 2 /\ Rank(d2) \in 0 .. 2 /\ Rank(d3) \in 0 .. 2 /\ Rank(d4) \in 0 .. 2
    BY <2>2
  <2>. QED
    BY <2>4, <2>5, <2>6, <2>7
<1>. QED
  BY <1>1, TransactionsInvariant, PTL

\* With one data set writing at a time, as in the runs, there is no deadlock.
THEOREM NoDeadlockTheorem ==
  ASSUME \A t, u \in Tx \ Device : t = u
  PROVE  Spec => []NoDeadlock
<1>1. CirclesNeedTwoDatasets => NoDeadlock
  BY DEF CirclesNeedTwoDatasets, NoDeadlock
<1>. QED
  BY <1>1, CirclesTheorem, PTL
=============================================================================

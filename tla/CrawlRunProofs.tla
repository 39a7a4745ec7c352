---------------------------- MODULE CrawlRunProofs ----------------------------
(* Theorems about CrawlRun, for any processes, rows, scopes and bounds.      *)
EXTENDS CrawlRun, TLAPS

LEMMA NoRowType == NoRow \in RowType /\ NoTotals \in [accepted : 0 .. MaxUnits, errors : BOOLEAN]
BY CrawlAssumption DEF NoRow, NoTotals, RowType

\* Rows without a status or finished ones say nothing wrong.
LEMMA NoRowIsRight ==
  /\ NoRow.status = "NONE"
  /\ NoRow.accepted = 0 /\ NoRow.stored = 0 /\ NoRow.flawed = FALSE /\ NoRow.recovered = FALSE
BY DEF NoRow

\* Removing finished rows leaves the rows of processes as they are.
LEMMA RetainedRows ==
  ASSUME NEW table \in [Row -> RowType], NEW holders \in [Process -> Row \cup {None}]
  PROVE  /\ Retained(table, holders) \in [Row -> RowType]
         /\ \A r \in Row : Retained(table, holders)[r] \in {table[r], NoRow}
         /\ \A p \in Process : holders[p] # None =>
              Retained(table, holders)[holders[p]] = table[holders[p]]
<1>1. \A p \in Process : holders[p] \in Range(holders)
  BY DEF Range
<1>. QED
  BY <1>1, NoRowType, CrawlAssumption DEF Retained

\* Recovering a row changes its status and nothing of what it counted.
LEMMA RecoveredRow ==
  ASSUME NEW row \in RowType, NEW new, new = [row EXCEPT !.status = "FAILED", !.recovered = TRUE]
  PROVE  /\ new \in RowType
         /\ new.status = "FAILED"
         /\ new.stored = row.stored /\ new.flawed = row.flawed /\ new.accepted = row.accepted
BY DEF RowType, Finished

LEMMA FreshRow ==
  ASSUME NEW row \in RowType, NEW s \in Scope, NEW new, new = [row EXCEPT !.status = "RUNNING", !.scope = s]
  PROVE  /\ new \in RowType
         /\ new.status = "RUNNING"
         /\ new.stored = row.stored /\ new.flawed = row.flawed /\ new.accepted = row.accepted
BY DEF RowType

\* The rows _start_run leaves behind: new is RUNNING and has no price, the
\* others keep theirs and may have been recovered.
SameCounts(old, row) ==
  /\ row.stored = old.stored /\ row.flawed = old.flawed /\ row.accepted = old.accepted
  /\ row.status \in {old.status, "FAILED"}
  /\ row.status # old.status => old.status = "RUNNING"

LEMMA StartedRows ==
  ASSUME TypeOK, NEW new \in Unused, NEW s \in Scope, NEW whole \in BOOLEAN
  PROVE  /\ Started(new, s, whole) \in [Row -> RowType]
         /\ LET row == Started(new, s, whole)[new] IN
              row.status = "RUNNING" /\ row.accepted = 0 /\ row.stored = 0 /\ row.flawed = FALSE
         /\ \A r \in Row \ {new} : SameCounts(rows[r], Started(new, s, whole)[r])
<1>. DEFINE table == Started(new, s, whole)
            fresh == [NoRow EXCEPT !.status = "RUNNING", !.scope = s]
<1>1. new \in Row /\ table[new] = fresh
  BY DEF Started, Unused
<1>2. /\ fresh \in RowType
      /\ fresh.status = "RUNNING" /\ fresh.accepted = 0 /\ fresh.stored = 0 /\ fresh.flawed = FALSE
  BY NoRowType, NoRowIsRight, FreshRow
<1>3. ASSUME NEW r \in Row \ {new}
      PROVE  table[r] \in RowType /\ SameCounts(rows[r], table[r])
  <2>1. rows[r] \in RowType
    BY DEF TypeOK
  <2>2. CASE whole /\ Stale(r, s)
    <3>1. table[r] = [rows[r] EXCEPT !.status = "FAILED", !.recovered = TRUE]
      BY <2>2 DEF Started
    <3>. HIDE DEF table
    <3>2. rows[r].status = "RUNNING"
      BY <2>2 DEF Stale
    <3>. QED
      BY <2>1, <3>1, <3>2, RecoveredRow DEF SameCounts
  <2>3. CASE ~ (whole /\ Stale(r, s))
    BY <2>1, <2>3 DEF Started, SameCounts
  <2>. QED
    BY <2>2, <2>3
<1>4. table = [r \in Row |-> table[r]]
  BY DEF Started
<1>. HIDE DEF table, fresh
<1>5. table \in [Row -> RowType]
  BY <1>1, <1>2, <1>3, <1>4
<1>6. /\ table[new].status = "RUNNING" /\ table[new].accepted = 0
      /\ table[new].stored = 0 /\ table[new].flawed = FALSE
  BY <1>1, <1>2
<1>. QED
  BY <1>3, <1>5, <1>6 DEF table

LEMMA RequestType ==
  ASSUME NEW p \in Process, NEW q \in Requests(p)
  PROVE  q.scope \in Scope /\ q.whole \in BOOLEAN
<1>1. CASE p = Scheduled
  <2>1. q = [scope |-> Full, whole |-> TRUE]
    BY <1>1 DEF Requests
  <2>2. q.scope = Full /\ q.whole = TRUE
    BY <2>1
  <2>. QED
    BY <2>2, CrawlAssumption
<1>2. CASE p # Scheduled
  <2>1. q \in [scope : Scope, whole : BOOLEAN]
    BY <1>2 DEF Requests
  <2>. QED
    BY <2>1
<1>. QED
  BY <1>1, <1>2

-----------------------------------------------------------------------------
(* One lemma for each kind of step.                                        *)

\* Steps that change where a process is, and neither rows nor counters.
LEMMA MovePreserves ==
  ASSUME CrawlInv, NEW p \in Process, Acquire(p) \/ Refuse(p) \/ Abort(p) \/ FinishCancelledFails(p)
  PROVE  CrawlInv'
<1>. USE CrawlAssumption
<1>1. TypeOK'
  BY DEF CrawlInv, TypeOK, Acquire, Refuse, Abort, FinishCancelledFails, Fault, Live
<1>2. RowsAreOwned'
  BY DEF CrawlInv, TypeOK, RowsAreOwned, Acquire, Refuse, Abort, FinishCancelledFails
<1>3. LockGuardsRuns'
  BY DEF CrawlInv, TypeOK, LockGuardsRuns, Acquire, Refuse, Abort, FinishCancelledFails
<1>4. TotalsMatchRow'
  BY DEF CrawlInv, TypeOK, TotalsMatchRow, TotalsAgree, Live, Acquire, Refuse, Abort, FinishCancelledFails
<1>5. VerdictMatchesRows'
  BY DEF CrawlInv, VerdictMatchesRows, Acquire, Refuse, Abort, FinishCancelledFails
<1>. QED
  BY <1>1, <1>2, <1>3, <1>4, <1>5 DEF CrawlInv

\* The locals of a process end: it is idle, and its row may go.
LEMMA ForgetPreserves ==
  ASSUME CrawlInv, NEW p \in Process, Release(p) \/ Crash(p)
  PROVE  CrawlInv'
<1>. USE CrawlAssumption
<1>1. /\ run' = [run EXCEPT ![p] = None]
      /\ todo' = [todo EXCEPT ![p] = 0]
      /\ totals' = [totals EXCEPT ![p] = NoTotals]
      /\ dropped' = dropped \ {p}
      /\ rows' = Retained(rows, run')
      /\ pc' = [pc EXCEPT ![p] = "idle"]
      /\ lock' = IF lock = p THEN None ELSE lock
      /\ faults' \in 0 .. MaxFaults
  BY DEF Release, Crash, Forget, Fault, CrawlInv, TypeOK
<1>2. run' \in [Process -> Row \cup {None}]
  BY <1>1 DEF CrawlInv, TypeOK
<1>3. /\ rows' \in [Row -> RowType]
      /\ \A r \in Row : rows'[r] \in {rows[r], NoRow}
      /\ \A q \in Process : run'[q] # None => rows'[run'[q]] = rows[run'[q]]
  <2>1. rows \in [Row -> RowType]
    BY DEF CrawlInv, TypeOK
  <2>2. /\ Retained(rows, run') \in [Row -> RowType]
        /\ \A r \in Row : Retained(rows, run')[r] \in {rows[r], NoRow}
        /\ \A q \in Process : run'[q] # None => Retained(rows, run')[run'[q]] = rows[run'[q]]
    BY <1>2, <2>1, RetainedRows
  <2>. QED
    BY <2>2, <1>1
<1>4. TypeOK'
  <2>1. totals' \in [Process -> [accepted : 0 .. MaxUnits, errors : BOOLEAN]]
    BY <1>1, NoRowType DEF CrawlInv, TypeOK
  <2>2. \A q \in Process : Live(q)' => run'[q] \in Row
    BY <1>1 DEF CrawlInv, TypeOK, Live
  <2>3. /\ lock' \in Process \cup {None}
        /\ pc' \in [Process -> {"idle", "locked", "started", "units", "cancel", "release"}]
        /\ todo' \in [Process -> 0 .. MaxUnits]
        /\ dropped' \subseteq Process
    BY <1>1 DEF CrawlInv, TypeOK
  <2>. QED
    BY <1>1, <1>2, <1>3, <2>1, <2>2, <2>3 DEF TypeOK
<1>5. RowsAreOwned'
  BY <1>1, <1>3 DEF CrawlInv, TypeOK, RowsAreOwned
<1>6. LockGuardsRuns'
  BY <1>1 DEF CrawlInv, TypeOK, LockGuardsRuns
<1>7. TotalsMatchRow'
  <2>. SUFFICES ASSUME NEW q \in Process, Live(q)'
                PROVE  /\ q # p /\ Live(q) /\ totals'[q] = totals[q] /\ pc'[q] = pc[q] /\ todo'[q] = todo[q]
                       /\ rows'[run'[q]] = rows[run[q]]
    BY DEF CrawlInv, TotalsMatchRow, TotalsAgree
  <2>1. q # p /\ Live(q) /\ totals'[q] = totals[q] /\ pc'[q] = pc[q] /\ todo'[q] = todo[q] /\ run'[q] = run[q]
    BY <1>1 DEF CrawlInv, TypeOK, Live
  <2>2. run[q] # None
    BY <2>1 DEF CrawlInv, TypeOK
  <2>. QED
    BY <2>1, <2>2, <1>3
<1>8. VerdictMatchesRows'
  BY <1>3, NoRowIsRight DEF CrawlInv, VerdictMatchesRows, VerdictMatchesRow
<1>. QED
  BY <1>4, <1>5, <1>6, <1>7, <1>8 DEF CrawlInv

\* A row that _start_run did not insert keeps what its process knows of it.
LEMMA SameCountsAgree ==
  ASSUME NEW p \in Process, NEW old \in RowType, NEW row \in RowType, SameCounts(old, row)
  PROVE  /\ TotalsAgree(p, old) => TotalsAgree(p, row)
         /\ VerdictMatchesRow(old) => VerdictMatchesRow(row)
<1>1. TotalsAgree(p, old) => TotalsAgree(p, row)
  BY DEF SameCounts, TotalsAgree
<1>2. VerdictMatchesRow(old) => VerdictMatchesRow(row)
  BY DEF SameCounts, VerdictMatchesRow
<1>. QED
  BY <1>1, <1>2

LEMMA StartPreserves ==
  ASSUME CrawlInv, NEW p \in Process, Start(p)
  PROVE  CrawlInv'
<1>. USE CrawlAssumption
<1>1. PICK q \in Requests(p), r \in Unused :
        rows' = Started(r, q.scope, q.whole) /\ run' = [run EXCEPT ![p] = r]
  BY DEF Start
<1>2. r \in Row /\ rows[r].status = "NONE" /\ r # None
  BY DEF Unused
<1>3. /\ rows' \in [Row -> RowType]
      /\ rows'[r].status = "RUNNING" /\ rows'[r].accepted = 0 /\ rows'[r].stored = 0 /\ rows'[r].flawed = FALSE
      /\ \A x \in Row \ {r} : SameCounts(rows[x], rows'[x])
  <2>1. q.scope \in Scope /\ q.whole \in BOOLEAN
    BY RequestType
  <2>2. TypeOK
    BY DEF CrawlInv
  <2>3. /\ Started(r, q.scope, q.whole) \in [Row -> RowType]
        /\ LET row == Started(r, q.scope, q.whole)[r] IN
             row.status = "RUNNING" /\ row.accepted = 0 /\ row.stored = 0 /\ row.flawed = FALSE
        /\ \A x \in Row \ {r} : SameCounts(rows[x], Started(r, q.scope, q.whole)[x])
    BY <2>1, <2>2, StartedRows
  <2>. QED
    BY <1>1, <2>3
<1>4. /\ pc[p] = "locked" /\ pc' = [pc EXCEPT ![p] = "started"]
      /\ UNCHANGED <<lock, todo, totals, dropped, faults>>
  BY DEF Start
<1>5. TypeOK'
  BY <1>1, <1>2, <1>3, <1>4 DEF CrawlInv, TypeOK, Live
<1>6. \A x \in Process \ {p} : run'[x] = run[x] /\ (run[x] # None => run[x] \in Row \ {r})
  BY <1>1, <1>2 DEF CrawlInv, TypeOK, RowsAreOwned
<1>7. run'[p] = r
  BY <1>1 DEF CrawlInv, TypeOK
<1>8. RowsAreOwned'
  <2>1. \A x \in Process : run'[x] # None => pc'[x] \notin {"idle", "locked"} /\ rows'[run'[x]].status # "NONE"
    <3>1. \A x \in Row \ {r} : rows[x].status # "NONE" => rows'[x].status # "NONE"
      BY <1>3 DEF SameCounts
    <3>. QED
      BY <3>1, <1>3, <1>4, <1>6, <1>7 DEF CrawlInv, TypeOK, RowsAreOwned
  <2>2. \A x, y \in Process : run'[x] = run'[y] /\ run'[x] # None => x = y
    BY <1>6, <1>7 DEF CrawlInv, RowsAreOwned
  <2>3. \A x \in Process : pc'[x] \in {"idle", "locked", "started"} => todo'[x] = 0 /\ totals'[x] = NoTotals
    BY <1>4 DEF CrawlInv, TypeOK, RowsAreOwned
  <2>. QED
    BY <2>1, <2>2, <2>3 DEF RowsAreOwned
<1>9. LockGuardsRuns'
  BY <1>4 DEF CrawlInv, TypeOK, LockGuardsRuns
<1>10. TotalsMatchRow'
  <2>. SUFFICES ASSUME NEW x \in Process, Live(x)'
                PROVE  TotalsAgree(x, rows[run[x]])'
    BY DEF TotalsMatchRow
  <2>1. CASE x = p
    <3>1. totals'[p].accepted = 0 /\ totals'[p].errors = FALSE
      BY <1>4 DEF CrawlInv, RowsAreOwned, NoTotals
    <3>. QED
      BY <2>1, <3>1, <1>3, <1>4, <1>7 DEF CrawlInv, TypeOK, TotalsAgree
  <2>2. CASE x # p
    <3>1. Live(x) /\ pc'[x] = pc[x] /\ run'[x] = run[x] /\ run[x] \in Row \ {r}
      BY <2>2, <1>4, <1>6 DEF CrawlInv, TypeOK, Live
    <3>2. TotalsAgree(x, rows'[run[x]])
      BY <3>1, <1>3, SameCountsAgree DEF CrawlInv, TypeOK, TotalsMatchRow
    <3>. QED
      BY <3>1, <3>2, <1>4 DEF TotalsAgree
  <2>. QED
    BY <2>1, <2>2
<1>11. VerdictMatchesRows'
  <2>. SUFFICES ASSUME NEW x \in Row PROVE VerdictMatchesRow(rows'[x])
    BY DEF VerdictMatchesRows, VerdictMatchesRow
  <2>1. CASE x = r
    BY <2>1, <1>3 DEF VerdictMatchesRow
  <2>2. CASE x # r
    BY <2>2, <1>3, SameCountsAgree DEF CrawlInv, TypeOK, VerdictMatchesRows
  <2>. QED
    BY <2>1, <2>2
<1>. QED
  BY <1>5, <1>8, <1>9, <1>10, <1>11 DEF CrawlInv

\* The transaction of _start_run fails, with or without its effect.
LEMMA StartFailsPreserves ==
  ASSUME CrawlInv, NEW p \in Process, StartFails(p)
  PROVE  CrawlInv'
<1>. USE CrawlAssumption
<1>1. /\ pc[p] = "locked" /\ pc' = [pc EXCEPT ![p] = "release"]
      /\ faults' \in 0 .. MaxFaults
      /\ UNCHANGED <<lock, run, todo, totals, dropped>>
  BY DEF StartFails, Fault, CrawlInv, TypeOK
<1>2. /\ rows' \in [Row -> RowType]
      /\ \A x \in Row : rows[x].status # "NONE" =>
           SameCounts(rows[x], rows'[x]) \/ (rows'[x] = NoRow /\ \A y \in Process : run[y] # x)
      /\ \A x \in Row : VerdictMatchesRow(rows[x]) => VerdictMatchesRow(rows'[x])
  <2>1. CASE UNCHANGED rows
    BY <2>1 DEF CrawlInv, TypeOK, SameCounts, VerdictMatchesRow
  <2>2. ASSUME NEW q \in Requests(p), NEW r \in Unused, rows' = Retained(Started(r, q.scope, q.whole), run)
        PROVE  <1>2
    <3>. DEFINE table == Started(r, q.scope, q.whole)
    <3>1. q.scope \in Scope /\ q.whole \in BOOLEAN /\ TypeOK /\ r \in Row /\ rows[r].status = "NONE"
      BY RequestType DEF CrawlInv, Unused
    <3>2. /\ table \in [Row -> RowType]
          /\ table[r].status = "RUNNING" /\ table[r].accepted = 0 /\ table[r].stored = 0 /\ table[r].flawed = FALSE
          /\ \A x \in Row \ {r} : SameCounts(rows[x], table[x])
      BY <3>1, StartedRows
    <3>. HIDE DEF table
    <3>3. run \in [Process -> Row \cup {None}]
      BY DEF CrawlInv, TypeOK
    <3>4. /\ rows' \in [Row -> RowType]
          /\ \A x \in Row : rows'[x] \in {table[x], NoRow}
          /\ \A y \in Process : run[y] # None => rows'[run[y]] = table[run[y]]
      <4>1. /\ Retained(table, run) \in [Row -> RowType]
            /\ \A x \in Row : Retained(table, run)[x] \in {table[x], NoRow}
            /\ \A y \in Process : run[y] # None => Retained(table, run)[run[y]] = table[run[y]]
        BY <3>2, <3>3, RetainedRows
      <4>. QED
        BY <4>1, <2>2 DEF table
    <3>5. ASSUME NEW x \in Row, rows[x].status # "NONE"
          PROVE  SameCounts(rows[x], rows'[x]) \/ (rows'[x] = NoRow /\ \A y \in Process : run[y] # x)
      BY <3>1, <3>2, <3>4, <3>5
    <3>6. ASSUME NEW x \in Row, VerdictMatchesRow(rows[x])
          PROVE  VerdictMatchesRow(rows'[x])
      <4>1. VerdictMatchesRow(NoRow)
        BY NoRowIsRight DEF VerdictMatchesRow
      <4>2. VerdictMatchesRow(table[x])
        <5>1. CASE x = r
          BY <5>1, <3>2 DEF VerdictMatchesRow
        <5>2. CASE x # r
          BY <5>2, <3>2, <3>6, SameCountsAgree DEF CrawlInv, TypeOK
        <5>. QED
          BY <5>1, <5>2
      <4>. QED
        BY <4>1, <4>2, <3>4
    <3>. QED
      BY <3>4, <3>5, <3>6
  <2>. QED
    BY <2>1, <2>2 DEF StartFails
<1>3. \A x \in Process : run[x] # None => SameCounts(rows[run[x]], rows'[run[x]])
  BY <1>2 DEF CrawlInv, TypeOK, RowsAreOwned
<1>4. TypeOK'
  BY <1>1, <1>2 DEF CrawlInv, TypeOK, Live
<1>5. RowsAreOwned'
  <2>1. \A x \in Process : run[x] # None => rows'[run[x]].status # "NONE"
    BY <1>3 DEF CrawlInv, RowsAreOwned, SameCounts
  <2>. QED
    BY <2>1, <1>1 DEF CrawlInv, TypeOK, RowsAreOwned
<1>6. LockGuardsRuns'
  BY <1>1 DEF CrawlInv, TypeOK, LockGuardsRuns
<1>7. TotalsMatchRow'
  <2>. SUFFICES ASSUME NEW x \in Process, Live(x)'
                PROVE  TotalsAgree(x, rows[run[x]])'
    BY DEF TotalsMatchRow
  <2>1. Live(x) /\ pc'[x] = pc[x] /\ run[x] \in Row /\ run[x] # None
    BY <1>1 DEF CrawlInv, TypeOK, Live
  <2>2. TotalsAgree(x, rows'[run[x]])
    BY <2>1, <1>2, <1>3, SameCountsAgree DEF CrawlInv, TypeOK, TotalsMatchRow
  <2>. QED
    BY <2>1, <2>2, <1>1 DEF TotalsAgree
<1>8. VerdictMatchesRows'
  BY <1>2 DEF CrawlInv, VerdictMatchesRows, VerdictMatchesRow
<1>. QED
  BY <1>4, <1>5, <1>6, <1>7, <1>8 DEF CrawlInv

\* Discovery sets what is left to do, or notes an error.
LEMMA DiscoverPreserves ==
  ASSUME CrawlInv, NEW p \in Process, Discover(p)
  PROVE  CrawlInv'
<1>. USE CrawlAssumption
<1>1. /\ pc[p] = "started" /\ pc' = [pc EXCEPT ![p] = "units"]
      /\ UNCHANGED <<lock, rows, run, dropped, faults>>
      /\ \/ \E n \in 1 .. MaxUnits : todo' = [todo EXCEPT ![p] = n] /\ UNCHANGED totals
         \/ totals' = [totals EXCEPT ![p].errors = TRUE] /\ UNCHANGED todo
  BY DEF Discover
<1>2. totals[p].accepted = 0 /\ totals[p].errors = FALSE /\ todo[p] = 0
  BY <1>1 DEF CrawlInv, RowsAreOwned, NoTotals
<1>3. /\ totals' \in [Process -> [accepted : 0 .. MaxUnits, errors : BOOLEAN]]
      /\ todo' \in [Process -> 0 .. MaxUnits]
      /\ totals'[p].accepted = 0 /\ (totals'[p].errors => todo'[p] = 0)
      /\ \A x \in Process \ {p} : totals'[x] = totals[x] /\ todo'[x] = todo[x]
  <2>1. ASSUME NEW n \in 1 .. MaxUnits, todo' = [todo EXCEPT ![p] = n], UNCHANGED totals
        PROVE  <1>3
    BY <2>1, <1>2 DEF CrawlInv, TypeOK
  <2>2. ASSUME totals' = [totals EXCEPT ![p].errors = TRUE], UNCHANGED todo
        PROVE  <1>3
    <3>1. totals[p] \in [accepted : 0 .. MaxUnits, errors : BOOLEAN]
      BY DEF CrawlInv, TypeOK
    <3>2. totals' \in [Process -> [accepted : 0 .. MaxUnits, errors : BOOLEAN]]
      BY <2>2, <3>1 DEF CrawlInv, TypeOK
    <3>3. totals'[p].accepted = 0
      BY <2>2, <3>1, <1>2 DEF CrawlInv, TypeOK
    <3>4. \A x \in Process \ {p} : totals'[x] = totals[x] /\ todo'[x] = todo[x]
      BY <2>2 DEF CrawlInv, TypeOK
    <3>. QED
      BY <2>2, <3>2, <3>3, <3>4, <1>2 DEF CrawlInv, TypeOK
  <2>. QED
    BY <1>1, <2>1, <2>2
<1>4. TypeOK'
  BY <1>1, <1>3 DEF CrawlInv, TypeOK, Live
<1>5. RowsAreOwned'
  BY <1>1, <1>3 DEF CrawlInv, TypeOK, RowsAreOwned
<1>6. LockGuardsRuns'
  BY <1>1 DEF CrawlInv, TypeOK, LockGuardsRuns
<1>7. TotalsMatchRow'
  <2>. SUFFICES ASSUME NEW x \in Process, Live(x)'
                PROVE  TotalsAgree(x, rows[run[x]])'
    BY DEF TotalsMatchRow
  <2>1. Live(x) /\ TotalsAgree(x, rows[run[x]])
    BY <1>1 DEF CrawlInv, TypeOK, Live, TotalsMatchRow
  <2>2. CASE x = p
    BY <2>1, <2>2, <1>1, <1>2, <1>3 DEF CrawlInv, TypeOK, TotalsAgree
  <2>3. CASE x # p
    BY <2>1, <2>3, <1>1, <1>3 DEF CrawlInv, TypeOK, TotalsAgree
  <2>. QED
    BY <2>2, <2>3
<1>8. VerdictMatchesRows'
  BY <1>1 DEF CrawlInv, VerdictMatchesRows, VerdictMatchesRow
<1>. QED
  BY <1>4, <1>5, <1>6, <1>7, <1>8 DEF CrawlInv

\* A unit adds to the row of its run, and to its totals, what it stored.
LEMMA UnitPreserves ==
  ASSUME CrawlInv, NEW p \in Process, ProcessUnit(p) \/ UnitUnacknowledged(p)
  PROVE  CrawlInv'
<1>. USE CrawlAssumption
<1>1. PICK s \in BOOLEAN, c \in BOOLEAN :
        /\ CountUnit(p, s, c)
        /\ c => s
        /\ \/ totals' = [totals EXCEPT ![p] = Counted(p, s, c)]
           \/ ~ c /\ totals' = [totals EXCEPT ![p].errors = TRUE]
        /\ faults' \in 0 .. MaxFaults
  <2>1. CASE ProcessUnit(p)
    BY <2>1 DEF ProcessUnit, CrawlInv, TypeOK
  <2>2. CASE UnitUnacknowledged(p)
    <3>1. /\ CountUnit(p, TRUE, FALSE) /\ totals' = [totals EXCEPT ![p].errors = TRUE]
          /\ faults' \in 0 .. MaxFaults
      <4>1. CountUnit(p, TRUE, FALSE) /\ totals' = [totals EXCEPT ![p].errors = TRUE]
        BY <2>2, Zenon DEF UnitUnacknowledged
      <4>2. faults' \in 0 .. MaxFaults
        BY <2>2 DEF UnitUnacknowledged, Fault, CrawlInv, TypeOK
      <4>. QED
        BY <4>1, <4>2
    <3>. WITNESS TRUE \in BOOLEAN, FALSE \in BOOLEAN
    <3>. QED
      BY <3>1
  <2>. QED
    BY <2>1, <2>2
<1>2. /\ pc[p] = "units" /\ todo[p] \in 1 .. MaxUnits
      /\ todo' = [todo EXCEPT ![p] = @ - 1]
      /\ UNCHANGED <<lock, pc, run, dropped>>
  BY <1>1 DEF CountUnit, CrawlInv, TypeOK
<1>. DEFINE r == run[p]
<1>3. /\ r \in Row /\ r # None /\ TotalsAgree(p, rows[r])
      /\ \A x \in Process \ {p} : run[x] # r
  BY <1>2 DEF CrawlInv, TypeOK, Live, TotalsMatchRow, RowsAreOwned
<1>. HIDE DEF r
<1>4. /\ \A x \in Row \ {r} : rows'[x] = rows[x]
      /\ rows' = [x \in Row |-> rows'[x]]
      /\ rows'[r] = [rows[r] EXCEPT !.stored = IF s THEN @ + 1 ELSE @, !.flawed = @ \/ ~ c]
  BY <1>1, <1>3 DEF CountUnit, CrawlInv, TypeOK, r
<1>5. rows[r] \in RowType
  BY <1>3 DEF CrawlInv, TypeOK
<1>6. /\ rows'[r].status = rows[r].status /\ rows'[r].accepted = rows[r].accepted
      /\ rows'[r].stored = rows[r].stored + (IF s THEN 1 ELSE 0)
      /\ rows'[r].flawed <=> rows[r].flawed \/ ~ c
  <2>1. /\ rows'[r].status = rows[r].status /\ rows'[r].accepted = rows[r].accepted
        /\ rows'[r].stored = IF s THEN rows[r].stored + 1 ELSE rows[r].stored
        /\ rows'[r].flawed = (rows[r].flawed \/ ~ c)
    BY <1>4, <1>5 DEF RowType
  <2>2. rows[r].stored \in Nat /\ rows[r].flawed \in BOOLEAN
    BY <1>5 DEF RowType
  <2>3. rows'[r].stored = rows[r].stored + (IF s THEN 1 ELSE 0)
    BY <2>1, <2>2
  <2>4. rows'[r].flawed <=> rows[r].flawed \/ ~ c
    BY <2>1
  <2>. QED
    BY <2>1, <2>3, <2>4
<1>7. rows[r].stored < MaxUnits
  BY <1>2, <1>3, <1>5 DEF TotalsAgree, RowType
<1>8. rows'[r] \in RowType
  <2>1. (IF s THEN rows[r].stored + 1 ELSE rows[r].stored) \in 0 .. MaxUnits
    BY <1>5, <1>7 DEF RowType
  <2>2. (rows[r].flawed \/ ~ c) \in BOOLEAN
    OBVIOUS
  <2>. QED
    BY <1>4, <1>5, <2>1, <2>2 DEF RowType
<1>9. totals[p] \in [accepted : 0 .. MaxUnits, errors : BOOLEAN]
  BY DEF CrawlInv, TypeOK
<1>10. /\ totals'[p].accepted \in {totals[p].accepted, totals[p].accepted + (IF s THEN 1 ELSE 0)}
       /\ totals'[p].errors <=> totals[p].errors \/ ~ c
       /\ c => totals'[p].accepted = totals[p].accepted + 1
       /\ ~ totals'[p].errors => c
  <2>1. CASE totals' = [totals EXCEPT ![p] = Counted(p, s, c)]
    <3>1. totals'[p] = Counted(p, s, c)
      BY <2>1 DEF CrawlInv, TypeOK
    <3>2. /\ totals'[p].accepted = totals[p].accepted + (IF s THEN 1 ELSE 0)
          /\ totals'[p].errors = (totals[p].errors \/ ~ c)
      BY <3>1 DEF Counted
    <3>. QED
      BY <3>2, <1>1, <1>9
  <2>2. CASE ~ c /\ totals' = [totals EXCEPT ![p].errors = TRUE]
    <3>1. totals'[p].accepted = totals[p].accepted /\ totals'[p].errors = TRUE
      BY <2>2, <1>9 DEF CrawlInv, TypeOK
    <3>. QED
      BY <2>2, <3>1
  <2>. QED
    BY <1>1, <2>1, <2>2
<1>11. totals' \in [Process -> [accepted : 0 .. MaxUnits, errors : BOOLEAN]]
  <2>1. totals[p].accepted < MaxUnits
    BY <1>3, <1>5, <1>7, <1>9 DEF TotalsAgree, RowType
  <2>2. totals'[p] \in [accepted : 0 .. MaxUnits, errors : BOOLEAN]
    <3>1. CASE totals' = [totals EXCEPT ![p] = Counted(p, s, c)]
      <4>1. totals[p].accepted + (IF s THEN 1 ELSE 0) \in 0 .. MaxUnits
        BY <2>1, <1>9
      <4>2. (totals[p].errors \/ ~ c) \in BOOLEAN
        OBVIOUS
      <4>3. Counted(p, s, c) \in [accepted : 0 .. MaxUnits, errors : BOOLEAN]
        BY <4>1, <4>2 DEF Counted
      <4>. QED
        BY <3>1, <4>3 DEF CrawlInv, TypeOK
    <3>2. CASE totals' = [totals EXCEPT ![p].errors = TRUE]
      BY <3>2, <1>9 DEF CrawlInv, TypeOK
    <3>. QED
      BY <1>1, <3>1, <3>2
  <2>. QED
    BY <1>1, <2>2 DEF CrawlInv, TypeOK
<1>12. TypeOK'
  <2>1. rows' \in [Row -> RowType]
    BY <1>4, <1>8 DEF CrawlInv, TypeOK
  <2>. QED
    BY <1>1, <1>2, <1>11, <2>1 DEF CrawlInv, TypeOK, Live
<1>13. \A x \in Process \ {p} : totals'[x] = totals[x] /\ todo'[x] = todo[x]
  BY <1>1, <1>2 DEF CrawlInv, TypeOK
<1>14. RowsAreOwned'
  <2>1. \A x \in Process : run[x] # None => rows'[run[x]].status = rows[run[x]].status
    BY <1>4, <1>6 DEF CrawlInv, TypeOK
  <2>2. pc[p] \notin {"idle", "locked", "started"}
    BY <1>2
  <2>. QED
    BY <1>2, <1>13, <2>1, <2>2 DEF CrawlInv, RowsAreOwned
<1>15. LockGuardsRuns'
  BY <1>2 DEF CrawlInv, LockGuardsRuns
<1>16. TotalsMatchRow'
  <2>. SUFFICES ASSUME NEW x \in Process, Live(x)'
                PROVE  TotalsAgree(x, rows[run[x]])'
    BY DEF TotalsMatchRow
  <2>1. Live(x) /\ TotalsAgree(x, rows[run[x]]) /\ run[x] \in Row
    BY <1>2 DEF CrawlInv, TypeOK, Live, TotalsMatchRow
  <2>2. CASE x = p
    <3>1. todo'[p] = todo[p] - 1 /\ run'[p] = r /\ pc'[p] = "units"
      BY <1>2 DEF CrawlInv, TypeOK, r
    <3>. QED
      BY <2>2, <3>1, <1>2, <1>3, <1>5, <1>6, <1>9, <1>10 DEF TotalsAgree, RowType
  <2>3. CASE x # p
    BY <2>1, <2>3, <1>2, <1>3, <1>4, <1>13 DEF TotalsAgree
  <2>. QED
    BY <2>2, <2>3
<1>17. VerdictMatchesRows'
  <2>. SUFFICES ASSUME NEW x \in Row PROVE VerdictMatchesRow(rows'[x])
    BY DEF VerdictMatchesRows, VerdictMatchesRow
  <2>1. CASE x = r
    BY <2>1, <1>2, <1>3, <1>5, <1>6 DEF CrawlInv, VerdictMatchesRows, VerdictMatchesRow, TotalsAgree, RowType
  <2>2. CASE x # r
    BY <2>2, <1>4 DEF CrawlInv, VerdictMatchesRows
  <2>. QED
    BY <2>1, <2>2
<1>. QED
  BY <1>12, <1>14, <1>15, <1>16, <1>17 DEF CrawlInv

\* finish_run: any status is right for the row of a process that is done.
LEMMA FinishPreserves ==
  ASSUME CrawlInv, NEW p \in Process, Finish(p) \/ FinishFails(p) \/ FinishCancelled(p)
  PROVE  CrawlInv'
<1>. USE CrawlAssumption
<1>1. /\ pc[p] \in {"units", "cancel"} /\ (pc[p] = "units" => todo[p] = 0)
      /\ \/ pc' = [pc EXCEPT ![p] = "release"]
         \/ pc[p] = "units" /\ pc' = [pc EXCEPT ![p] = "cancel"]
      /\ \/ pc[p] = "units" /\ rows' = rows
         \/ pc[p] = "units" /\ rows' = FinishedWith(p, Verdict(p))
         \/ rows' = FinishedWith(p, "CANCELLED")
      /\ faults' \in 0 .. MaxFaults
      /\ UNCHANGED <<lock, run, todo, totals, dropped>>
  BY DEF Finish, FinishFails, FinishCancelled, Fault, CrawlInv, TypeOK
<1>. DEFINE r == run[p]
<1>2. /\ r \in Row /\ r # None /\ TotalsAgree(p, rows[r])
      /\ \A x \in Process \ {p} : run[x] # r
  BY <1>1 DEF CrawlInv, TypeOK, Live, TotalsMatchRow, RowsAreOwned
<1>. HIDE DEF r
<1>3. /\ rows[r] \in RowType
      /\ totals[p] \in [accepted : 0 .. MaxUnits, errors : BOOLEAN]
  BY <1>2 DEF CrawlInv, TypeOK
<1>4. /\ \A x \in Row \ {r} : rows'[x] = rows[x]
      /\ rows' = [x \in Row |-> rows'[x]]
      /\ \/ pc[p] = "units" /\ rows'[r] = rows[r]
         \/ pc[p] = "units" /\ rows'[r] = [rows[r] EXCEPT !.status = Verdict(p), !.accepted = totals[p].accepted]
         \/ rows'[r] = [rows[r] EXCEPT !.status = "CANCELLED", !.accepted = totals[p].accepted]
  BY <1>1, <1>2 DEF FinishedWith, CrawlInv, TypeOK, r
<1>5. Verdict(p) \in Finished
  BY DEF Verdict, Finished
<1>6. rows'[r] \in RowType
  BY <1>3, <1>4, <1>5 DEF RowType, Finished
<1>7. /\ rows'[r].stored = rows[r].stored /\ rows'[r].flawed = rows[r].flawed
      /\ rows'[r].status \in {rows[r].status, Verdict(p), "CANCELLED"}
      /\ \/ rows'[r].accepted = totals[p].accepted
         \/ rows'[r].status = rows[r].status /\ rows'[r].accepted = rows[r].accepted
      /\ \/ pc[p] = "units" /\ rows'[r] = rows[r]
         \/ pc[p] = "units" /\ rows'[r].status = Verdict(p) /\ rows'[r].accepted = totals[p].accepted
         \/ rows'[r].status = "CANCELLED" /\ rows'[r].accepted = totals[p].accepted
  BY <1>3, <1>4 DEF RowType
<1>8. TypeOK'
  <2>1. rows' \in [Row -> RowType]
    BY <1>4, <1>6 DEF CrawlInv, TypeOK
  <2>. QED
    BY <1>1, <2>1 DEF CrawlInv, TypeOK, Live
<1>9. RowsAreOwned'
  <2>1. \A x \in Process : run[x] # None => rows'[run[x]].status # "NONE"
    <3>1. rows'[r].status # "NONE"
      BY <1>2, <1>5, <1>7 DEF Finished, CrawlInv, RowsAreOwned, r
    <3>. QED
      BY <3>1, <1>4 DEF CrawlInv, TypeOK, RowsAreOwned
  <2>. QED
    BY <1>1, <2>1 DEF CrawlInv, TypeOK, RowsAreOwned
<1>10. LockGuardsRuns'
  BY <1>1 DEF CrawlInv, TypeOK, LockGuardsRuns
<1>11. TotalsMatchRow'
  <2>. SUFFICES ASSUME NEW x \in Process, Live(x)'
                PROVE  TotalsAgree(x, rows[run[x]])'
    BY DEF TotalsMatchRow
  <2>1. Live(x) /\ TotalsAgree(x, rows[run[x]]) /\ run[x] \in Row
    BY <1>1 DEF CrawlInv, TypeOK, Live, TotalsMatchRow
  <2>2. CASE x = p
    <3>1. pc'[p] \in {"cancel", "release"}
      BY <1>1 DEF CrawlInv, TypeOK
    <3>. QED
      BY <2>1, <2>2, <3>1, <1>1, <1>2, <1>7 DEF TotalsAgree, r
  <2>3. CASE x # p
    BY <2>1, <2>3, <1>1, <1>2, <1>4 DEF TotalsAgree, CrawlInv, TypeOK
  <2>. QED
    BY <2>2, <2>3
<1>12. VerdictMatchesRows'
  <2>. SUFFICES ASSUME NEW x \in Row PROVE VerdictMatchesRow(rows'[x])
    BY DEF VerdictMatchesRows, VerdictMatchesRow
  <2>1. CASE x = r
    BY <2>1, <1>2, <1>3, <1>7 DEF CrawlInv, VerdictMatchesRows, VerdictMatchesRow, TotalsAgree, RowType, Verdict
  <2>2. CASE x # r
    BY <2>2, <1>4 DEF CrawlInv, VerdictMatchesRows
  <2>. QED
    BY <2>1, <2>2
<1>. QED
  BY <1>8, <1>9, <1>10, <1>11, <1>12 DEF CrawlInv

\* The environment drops a lock, and time passes.
LEMMA EnvironmentPreserves ==
  ASSUME CrawlInv, LoseLock \/ (\E r \in Row : Age(r)) \/ UNCHANGED vars
  PROVE  CrawlInv'
<1>. USE CrawlAssumption
<1>1. CASE LoseLock
  <2>1. TypeOK'
    BY <1>1 DEF LoseLock, Fault, CrawlInv, TypeOK, Live
  <2>2. RowsAreOwned' /\ TotalsMatchRow' /\ VerdictMatchesRows'
    BY <1>1 DEF LoseLock, CrawlInv, RowsAreOwned, TotalsMatchRow, TotalsAgree, Live, VerdictMatchesRows, VerdictMatchesRow
  <2>3. LockGuardsRuns'
    BY <1>1 DEF LoseLock, CrawlInv, LockGuardsRuns
  <2>. QED
    BY <2>1, <2>2, <2>3 DEF CrawlInv
<1>2. ASSUME NEW r \in Row, Age(r)
      PROVE  CrawlInv'
  <2>1. /\ rows' \in [Row -> RowType]
        /\ \A x \in Row : /\ rows'[x].stored = rows[x].stored /\ rows'[x].flawed = rows[x].flawed
                          /\ rows'[x].accepted = rows[x].accepted /\ rows'[x].status = rows[x].status
    <3>1. rows[r] \in RowType /\ rows' = [rows EXCEPT ![r].old = TRUE]
      BY <1>2 DEF Age, CrawlInv, TypeOK
    <3>. QED
      BY <3>1 DEF CrawlInv, TypeOK, RowType
  <2>2. UNCHANGED <<lock, pc, run, todo, totals, dropped, faults>>
    BY <1>2 DEF Age
  <2>3. TypeOK'
    BY <2>1, <2>2 DEF CrawlInv, TypeOK, Live
  <2>4. RowsAreOwned' /\ LockGuardsRuns'
    BY <2>1, <2>2 DEF CrawlInv, TypeOK, RowsAreOwned, LockGuardsRuns
  <2>5. TotalsMatchRow'
    BY <2>1, <2>2 DEF CrawlInv, TypeOK, TotalsMatchRow, TotalsAgree, Live
  <2>6. VerdictMatchesRows'
    BY <2>1 DEF CrawlInv, VerdictMatchesRows, VerdictMatchesRow
  <2>. QED
    BY <2>3, <2>4, <2>5, <2>6 DEF CrawlInv
<1>3. CASE UNCHANGED vars
  BY <1>3 DEF vars, CrawlInv, TypeOK, RowsAreOwned, LockGuardsRuns, TotalsMatchRow, TotalsAgree, Live,
              VerdictMatchesRows, VerdictMatchesRow
<1>. QED
  BY <1>1, <1>2, <1>3

-----------------------------------------------------------------------------
(* Theorems.                                                               *)

\* Rows, locals and lock of any number of processes stay well-formed and
\* consistent with each other, whatever fails.
THEOREM CrawlInvariant == Spec => []CrawlInv
<1>1. Init => CrawlInv
  <2>. SUFFICES ASSUME Init PROVE CrawlInv
    OBVIOUS
  <2>1. TypeOK
    BY NoRowType, CrawlAssumption DEF Init, TypeOK, Live
  <2>2. RowsAreOwned /\ LockGuardsRuns /\ TotalsMatchRow
    BY DEF Init, RowsAreOwned, LockGuardsRuns, TotalsMatchRow, Live
  <2>3. VerdictMatchesRows
    BY NoRowIsRight DEF Init, VerdictMatchesRows, VerdictMatchesRow
  <2>. QED
    BY <2>1, <2>2, <2>3 DEF CrawlInv
<1>2. CrawlInv /\ [Next]_vars => CrawlInv'
  <2>. SUFFICES ASSUME CrawlInv, [Next]_vars PROVE CrawlInv'
    OBVIOUS
  <2>1. ASSUME NEW p \in Process, Acquire(p) \/ Proceed(p) \/ Fail(p)
        PROVE  CrawlInv'
    BY <2>1, MovePreserves, ForgetPreserves, StartPreserves, StartFailsPreserves, DiscoverPreserves,
       UnitPreserves, FinishPreserves DEF Proceed, Fail
  <2>2. CASE LoseLock \/ (\E r \in Row : Age(r)) \/ UNCHANGED vars
    BY <2>2, EnvironmentPreserves
  <2>. QED
    BY <2>1, <2>2 DEF Next
<1>. QED
  BY <1>1, <1>2, PTL DEF Spec

\* The types of TypeOK, for every number of processes, rows and units.
THEOREM CrawlTypeCorrect == Spec => []TypeOK
<1>1. CrawlInv => TypeOK
  BY DEF CrawlInv
<1>. QED
  BY <1>1, CrawlInvariant, PTL

\* The named lock keeps runs apart as long as the server keeps it.
THEOREM RunsAreApart == Spec => []OneLiveRun
<1>1. CrawlInv => OneLiveRun
  BY CrawlAssumption DEF CrawlInv, TypeOK, LockGuardsRuns, OneLiveRun, Live
<1>. QED
  BY <1>1, CrawlInvariant, PTL

\* The status of a run agrees with the prices it committed.
THEOREM VerdictsAreTrue == Spec => []VerdictMatchesRows
<1>1. CrawlInv => VerdictMatchesRows
  BY DEF CrawlInv
<1>. QED
  BY <1>1, CrawlInvariant, PTL

\* Recovery touches the row of a process that is still there only after the
\* loss of a lock.
THEOREM RecoveryIsSafe == Spec => RecoversDeadRunsOnly
<1>. DEFINE Safe == \A r \in Row, p \in Process :
              rows'[r].recovered /\ ~ rows[r].recovered /\ run[p] = r =>
                \E q \in dropped : q = p \/ pc'[q] # pc[q]
<1>1. CrawlInv /\ [Next]_vars => [Safe]_vars
  <2>. SUFFICES ASSUME CrawlInv, Next, NEW r \in Row, NEW p \in Process,
                       rows'[r].recovered, ~ rows[r].recovered, run[p] = r
                PROVE  \E q \in dropped : q = p \/ pc'[q] # pc[q]
    OBVIOUS
  <2>1. PICK q \in Process : Start(q) \/ StartFails(q)
    <3>1. rows' # rows
      OBVIOUS
    <3>2. ASSUME NEW x \in Process, Forget(x) PROVE FALSE
      <4>1. rows'[r] \in {rows[r], NoRow}
        BY <3>2 DEF Forget, Retained
      <4>. QED
        BY <4>1, NoRowIsRight
    <3>3. ASSUME NEW x \in Row, Age(x) PROVE FALSE
      BY <3>3 DEF Age, CrawlInv, TypeOK, RowType
    <3>4. ASSUME NEW x \in Process, NEW s \in BOOLEAN, NEW c \in BOOLEAN, CountUnit(x, s, c) PROVE FALSE
      BY <3>4 DEF CountUnit, CrawlInv, TypeOK, RowType
    <3>5. ASSUME NEW x \in Process, NEW s, rows' = FinishedWith(x, s) PROVE FALSE
      BY <3>5 DEF FinishedWith, CrawlInv, TypeOK, RowType
    <3>. QED
      BY <3>1, <3>2, <3>3, <3>4, <3>5 DEF Next, Proceed, Fail, Acquire, Refuse, Discover, ProcessUnit, Abort,
         Finish, FinishCancelled, Release, UnitUnacknowledged, FinishFails, FinishCancelledFails, Crash, LoseLock
  <2>2. pc[q] = "locked" /\ pc'[q] # pc[q] /\ q # p
    BY <2>1, CrawlAssumption DEF Start, StartFails, CrawlInv, TypeOK, RowsAreOwned
  <2>3. pc[p] # "idle"
    BY CrawlAssumption DEF CrawlInv, RowsAreOwned
  <2>. QED
    BY <2>2, <2>3 DEF CrawlInv, LockGuardsRuns
<1>. QED
  BY <1>1, CrawlInvariant, PTL DEF Spec, RecoversDeadRunsOnly
=============================================================================

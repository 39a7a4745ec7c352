------------------------------- MODULE CrawlRun -------------------------------
(***************************************************************************)
(* The runs of one device source in one region: CatalogCrawlPipeline._run  *)
(* in several processes (the scheduler, commands on a terminal) that share *)
(* a MySQL named lock and the table v2_crawl_run.                          *)
(*                                                                         *)
(* A run is start_run, a discovery, one transaction per unit and           *)
(* finish_run, each a transaction of its own: a process may die between    *)
(* any two of them and leave its row RUNNING.  The next full run recovers  *)
(* the row once it is older than stale_run_after_minutes.                  *)
(***************************************************************************)
EXTENDS Integers, FiniteSets, Functions

CONSTANTS
  Process,       \* processes that run the pipeline for this source
  Scheduled,     \* the process of the scheduler: full runs of scope Full only
  Row,           \* rows of v2_crawl_run that are RUNNING or recent
  Scope,         \* category scopes a command may ask for
  Full,          \* default_category_codes
  None,
  MaxUnits,      \* products discovered by one run
  MaxFaults,     \* bound on crashes, database errors and lost answers
  LockCanBeLost  \* may the server drop the connection that holds the lock?

ASSUME CrawlAssumption ==
  /\ Scheduled \in Process /\ Full \in Scope
  /\ None \notin Process \cup Row
  /\ MaxUnits \in Nat \ {0} /\ MaxFaults \in Nat
  /\ LockCanBeLost \in BOOLEAN

VARIABLES
  lock,    \* process whose connection holds the named lock, or None
  rows,    \* [Row -> row of v2_crawl_run]
  pc,      \* [Process -> where the process is in _run]
  run,     \* [Process -> its row]
  todo,    \* [Process -> units left to process]
  totals,  \* [Process -> accepted and errors so far]
  dropped, \* processes whose lock the server dropped since they acquired it
  faults   \* faults so far

vars == <<lock, rows, pc, run, todo, totals, dropped, faults>>

Finished == {"SUCCEEDED", "PARTIAL", "FAILED", "CANCELLED"}

\* old: started more than stale_run_after_minutes ago.  stored and flawed are
\* what the prices and records of the run say, accepted what finish_run wrote.
NoRow == [status |-> "NONE", old |-> FALSE, scope |-> Full, accepted |-> 0,
          stored |-> 0, flawed |-> FALSE, recovered |-> FALSE]

NoTotals == [accepted |-> 0, errors |-> FALSE]

\* A process whose run has started and is not finished.
Live(p) == pc[p] \in {"started", "units", "cancel"}

\* Nothing reads a finished row that no process refers to: it leaves the
\* model, and its place stands for the next row of the table.
Retained(table, holders) ==
  [r \in Row |-> IF table[r].status \in Finished /\ r \notin Range(holders)
                 THEN NoRow ELSE table[r]]

Unused == {r \in Row : rows[r].status = "NONE"}

Fault == faults < MaxFaults /\ faults' = faults + 1

-----------------------------------------------------------------------------
(* mysql_named_lock: GET_LOCK(name, 0) fails at once when another          *)
(* connection holds the lock, and the run is not started.                  *)

AcquireUnchecked(p) ==
  /\ pc[p] = "idle"
  /\ lock' = p
  /\ pc' = [pc EXCEPT ![p] = "locked"]
  /\ UNCHANGED <<rows, run, todo, totals, dropped, faults>>
Acquire(p) ==
  /\ pc[p] = "idle"
  /\ lock = None
  /\ lock' = p
  /\ pc' = [pc EXCEPT ![p] = "locked"]
  /\ UNCHANGED <<rows, run, todo, totals, dropped, faults>>

\* The local variables of _run end with it.
ForgetKeepingTotals(p) ==
  /\ run' = [run EXCEPT ![p] = None]
  /\ todo' = [todo EXCEPT ![p] = 0]
  /\ UNCHANGED totals
  /\ dropped' = dropped \ {p}
  /\ rows' = Retained(rows, run')
Forget(p) ==
  /\ run' = [run EXCEPT ![p] = None]
  /\ todo' = [todo EXCEPT ![p] = 0]
  /\ totals' = [totals EXCEPT ![p] = NoTotals]
  /\ dropped' = dropped \ {p}
  /\ rows' = Retained(rows, run')

\* The finally clause of the lock; RELEASE_LOCK of a lost lock frees nothing.
ReleaseStarted(p) ==
  /\ pc[p] = "release"
  /\ lock' = IF lock = p /\ run[p] # None THEN None ELSE lock
  /\ pc' = [pc EXCEPT ![p] = "idle"]
  /\ Forget(p)
  /\ UNCHANGED faults
Release(p) ==
  /\ pc[p] = "release"
  /\ lock' = IF lock = p THEN None ELSE lock
  /\ pc' = [pc EXCEPT ![p] = "idle"]
  /\ Forget(p)
  /\ UNCHANGED faults

\* validate_source finds the channel disabled or configured differently.
Refuse(p) ==
  /\ pc[p] = "locked"
  /\ pc' = [pc EXCEPT ![p] = "release"]
  /\ UNCHANGED <<lock, rows, run, todo, totals, dropped, faults>>

-----------------------------------------------------------------------------
(* _start_run: recover stale rows of the same scope, insert the new row.   *)

StaleOfSiblings(r, s) == rows[r].status = "RUNNING" /\ rows[r].old /\ rows[r].scope # s
Stale(r, s) ==
  /\ rows[r].status = "RUNNING"
  /\ rows[r].old
  /\ rows[r].scope = s

\* A run restricted to source items (whole = FALSE) recovers nothing.
Started(new, s, whole) ==
  [r \in Row |->
     IF r = new
     THEN [NoRow EXCEPT !.status = "RUNNING", !.scope = s]
     ELSE IF whole /\ Stale(r, s)
          THEN [rows[r] EXCEPT !.status = "FAILED", !.recovered = TRUE]
          ELSE rows[r]]

Requests(p) ==
  IF p = Scheduled THEN {[scope |-> Full, whole |-> TRUE]}
                   ELSE [scope : Scope, whole : BOOLEAN]

Start(p) ==
  /\ pc[p] = "locked"
  /\ \E q \in Requests(p), r \in Unused :
       /\ rows' = Started(r, q.scope, q.whole)
       /\ run' = [run EXCEPT ![p] = r]
  /\ pc' = [pc EXCEPT ![p] = "started"]
  /\ UNCHANGED <<lock, todo, totals, dropped, faults>>

\* The transaction fails, or commits and its answer is lost: _run has no row
\* to finish yet, so the exception only releases the lock.
StartFails(p) ==
  /\ Fault
  /\ pc[p] = "locked"
  /\ \/ UNCHANGED rows
     \/ \E q \in Requests(p), r \in Unused :
          rows' = Retained(Started(r, q.scope, q.whole), run)
  /\ pc' = [pc EXCEPT ![p] = "release"]
  /\ UNCHANGED <<lock, run, todo, totals, dropped>>

-----------------------------------------------------------------------------
(* Discovery and units.                                                    *)

\* Discovery raises, finds too few products or the same product twice: an
\* error and no unit, so that finish_run is given FAILED.
Discover(p) ==
  /\ pc[p] = "started"
  /\ \/ \E n \in 1 .. MaxUnits : todo' = [todo EXCEPT ![p] = n] /\ UNCHANGED totals
     \/ totals' = [totals EXCEPT ![p].errors = TRUE] /\ UNCHANGED todo
  /\ pc' = [pc EXCEPT ![p] = "units"]
  /\ UNCHANGED <<lock, rows, run, dropped, faults>>

\* _process_unit: the transaction of a unit stores its accepted prices before
\* the totals count them; anything but a complete product is an error.
CountUnit(p, isStored, isComplete) ==
  /\ pc[p] = "units"
  /\ todo[p] > 0
  /\ todo' = [todo EXCEPT ![p] = @ - 1]
  /\ rows' = [rows EXCEPT ![run[p]].stored = IF isStored THEN @ + 1 ELSE @,
                          ![run[p]].flawed = @ \/ ~ isComplete]
  /\ UNCHANGED <<lock, pc, run, dropped>>

CountedIncomplete(p, isStored, isComplete) ==
  [accepted |-> totals[p].accepted + (IF isStored THEN 1 ELSE 0), errors |-> totals[p].errors]
Counted(p, isStored, isComplete) ==
  [accepted |-> totals[p].accepted + (IF isStored THEN 1 ELSE 0),
   errors |-> totals[p].errors \/ ~ isComplete]

ProcessUnit(p) ==
  \E isStored, isComplete \in BOOLEAN :
    /\ isComplete => isStored
    /\ CountUnit(p, isStored, isComplete)
    /\ totals' = [totals EXCEPT ![p] = Counted(p, isStored, isComplete)]
    /\ UNCHANGED faults

\* The transaction commits but its answer is lost: _record_failure counts the
\* unit as failed although its prices are stored.
UnitUnacknowledged(p) ==
  /\ Fault
  /\ CountUnit(p, TRUE, FALSE)
  /\ totals' = [totals EXCEPT ![p].errors = TRUE]

\* The failure cannot be recorded either, or the task is cancelled at one of
\* its awaits: the handler of BaseException finishes the run.
Abort(p) ==
  /\ pc[p] \in {"started", "units"}
  /\ pc[p] = "units" => todo[p] > 0
  /\ pc' = [pc EXCEPT ![p] = "cancel"]
  /\ UNCHANGED <<lock, rows, run, todo, totals, dropped, faults>>

-----------------------------------------------------------------------------
(* finish_run writes its status whatever the row says.                     *)

Verdict(p) ==
  IF totals[p].accepted = 0 THEN "FAILED"
  ELSE IF totals[p].errors THEN "PARTIAL" ELSE "SUCCEEDED"

FinishedWith(p, status) ==
  [rows EXCEPT ![run[p]].status = status, ![run[p]].accepted = totals[p].accepted]

Finish(p) ==
  /\ pc[p] = "units"
  /\ todo[p] = 0
  /\ rows' = FinishedWith(p, Verdict(p))
  /\ pc' = [pc EXCEPT ![p] = "release"]
  /\ UNCHANGED <<lock, run, todo, totals, dropped, faults>>

\* finish_run raises, with or without its effect: a second finish follows.
FinishFails(p) ==
  /\ Fault
  /\ pc[p] = "units"
  /\ todo[p] = 0
  /\ rows' \in {rows, FinishedWith(p, Verdict(p))}
  /\ pc' = [pc EXCEPT ![p] = "cancel"]
  /\ UNCHANGED <<lock, run, todo, totals, dropped>>

FinishCancelled(p) ==
  /\ pc[p] = "cancel"
  /\ rows' = FinishedWith(p, "CANCELLED")
  /\ pc' = [pc EXCEPT ![p] = "release"]
  /\ UNCHANGED <<lock, run, todo, totals, dropped, faults>>

FinishCancelledFails(p) ==
  /\ Fault
  /\ pc[p] = "cancel"
  /\ pc' = [pc EXCEPT ![p] = "release"]
  /\ UNCHANGED <<lock, rows, run, todo, totals, dropped>>

-----------------------------------------------------------------------------
(* The environment.                                                        *)

\* A process dies: its connections close and the server frees its lock.
Crash(p) ==
  /\ Fault
  /\ pc[p] # "idle"
  /\ lock' = IF lock = p THEN None ELSE lock
  /\ pc' = [pc EXCEPT ![p] = "idle"]
  /\ Forget(p)

\* The server drops the connection that holds the lock and nothing else uses;
\* the run goes on.
LoseLock ==
  /\ LockCanBeLost
  /\ Fault
  /\ lock # None
  /\ lock' = None
  /\ dropped' = dropped \cup {lock}
  /\ UNCHANGED <<rows, pc, run, todo, totals>>

\* stale_run_after_minutes pass since the start of a run.
Age(r) ==
  /\ rows[r].status = "RUNNING"
  /\ ~ rows[r].old
  /\ rows' = [rows EXCEPT ![r].old = TRUE]
  /\ UNCHANGED <<lock, pc, run, todo, totals, dropped, faults>>

-----------------------------------------------------------------------------
Init ==
  /\ lock = None
  /\ rows = [r \in Row |-> NoRow]
  /\ pc = [p \in Process |-> "idle"]
  /\ run = [p \in Process |-> None]
  /\ todo = [p \in Process |-> 0]
  /\ totals = [p \in Process |-> NoTotals]
  /\ dropped = {}
  /\ faults = 0

\* What a process does by itself once it holds the lock.
Proceed(p) ==
  \/ Refuse(p) \/ Start(p) \/ Discover(p) \/ ProcessUnit(p) \/ Abort(p)
  \/ Finish(p) \/ FinishCancelled(p) \/ Release(p)

Fail(p) ==
  \/ StartFails(p) \/ UnitUnacknowledged(p) \/ FinishFails(p)
  \/ FinishCancelledFails(p) \/ Crash(p)

Next ==
  \/ \E p \in Process : Acquire(p) \/ Proceed(p) \/ Fail(p)
  \/ LoseLock
  \/ \E r \in Row : Age(r)

Spec == Init /\ [][Next]_vars

(***************************************************************************)
(* Fetches and transactions end (they have timeouts), the scheduler tries  *)
(* every few hours and now and then finds the lock free and its channel    *)
(* enabled, and time passes.                                               *)
(***************************************************************************)
Fairness ==
  /\ \A p \in Process : WF_vars(Proceed(p))
  /\ SF_vars(Acquire(Scheduled))
  /\ SF_vars(Start(Scheduled))
  /\ \A r \in Row : WF_vars(Age(r))

FairSpec == Spec /\ Fairness

-----------------------------------------------------------------------------
(* Properties.                                                             *)

RowType ==
  [status : Finished \cup {"NONE", "RUNNING"}, old : BOOLEAN,
   scope : Scope, accepted : 0 .. MaxUnits, stored : 0 .. MaxUnits,
   flawed : BOOLEAN, recovered : BOOLEAN]

\* Types of the variables; a process has a row exactly from its start to its
\* release, and no counter passes the number of units of its run.
TypeOK ==
  /\ lock \in Process \cup {None}
  /\ rows \in [Row -> RowType]
  /\ pc \in [Process -> {"idle", "locked", "started", "units", "cancel", "release"}]
  /\ run \in [Process -> Row \cup {None}]
  /\ todo \in [Process -> 0 .. MaxUnits]
  /\ totals \in [Process -> [accepted : 0 .. MaxUnits, errors : BOOLEAN]]
  /\ dropped \subseteq Process
  /\ faults \in 0 .. MaxFaults
  /\ \A p \in Process : Live(p) => run[p] \in Row

\* A row belongs to one process at most, which keeps it from its start to its
\* release; before its start a process has counted nothing.
RowsAreOwned ==
  /\ \A p \in Process : run[p] # None => pc[p] \notin {"idle", "locked"} /\ rows[run[p]].status # "NONE"
  /\ \A p, q \in Process : run[p] = run[q] /\ run[p] # None => p = q
  /\ \A p \in Process : pc[p] \in {"idle", "locked", "started"} => todo[p] = 0 /\ totals[p] = NoTotals

\* Whoever is past the lock holds it, or lost it to the server.
LockGuardsRuns == \A p \in Process : pc[p] # "idle" => lock = p \/ p \in dropped

\* What the totals of a run say of its prices before they are written.
TotalsAgree(p, row) ==
  /\ totals[p].accepted <= row.stored
  /\ pc[p] = "started" => row.stored = 0 /\ ~ row.flawed
  /\ pc[p] = "units" => row.stored + todo[p] <= MaxUnits
  /\ pc[p] \in {"started", "units"} => row.status \in {"RUNNING", "FAILED"}
  /\ pc[p] \in {"started", "units"} /\ ~ totals[p].errors =>
       totals[p].accepted = row.stored /\ ~ row.flawed
  /\ totals[p].errors => row.flawed \/ (totals[p].accepted = 0 /\ todo[p] = 0)

TotalsMatchRow == \A p \in Process : Live(p) => TotalsAgree(p, rows[run[p]])

\* The named lock keeps the runs of one source and region apart: two processes
\* are between _start_run and _finish_run at once only when the server dropped
\* the lock of one of them in its run.
OneLiveRun ==
  \A p, q \in Process : Live(p) /\ Live(q) /\ p # q => {p, q} \cap dropped # {}

\* _start_run recovers only the runs of dead processes: a row becomes
\* STALE_RUNNING_RECOVERED while a process will still finish it only when that
\* process, or the one that recovers the row, lost its lock.
RecoversDeadRunsOnly ==
  [][\A r \in Row, p \in Process :
       rows'[r].recovered /\ ~ rows[r].recovered /\ run[p] = r =>
         \E q \in dropped : q = p \/ pc'[q] # pc[q]]_vars

\* What a finished row may say of its own prices.
VerdictMatchesRow(row) ==
  /\ row.status = "SUCCEEDED" => row.accepted > 0 /\ row.accepted = row.stored /\ ~ row.flawed
  /\ row.status = "PARTIAL" => row.accepted > 0 /\ row.flawed
  /\ row.accepted <= row.stored

\* The status finish_run writes agrees with the prices the run committed, also
\* after lost answers, second finishes and crashes: SUCCEEDED counts every
\* accepted price and hides no incomplete unit, PARTIAL counts some price and
\* has an incomplete unit, and no run counts a price it did not commit.
VerdictMatchesRows == \A r \in Row : VerdictMatchesRow(rows[r])

\* The inductive invariant behind the safety properties.
CrawlInv ==
  /\ TypeOK
  /\ RowsAreOwned
  /\ LockGuardsRuns
  /\ TotalsMatchRow
  /\ VerdictMatchesRows

\* A row of the default scope does not stay RUNNING: its process finishes it,
\* or a later scheduled run recovers it.
NoRunStaysRunning ==
  \A r \in Row :
    rows[r].status = "RUNNING" /\ rows[r].scope = Full ~> rows[r].status # "RUNNING"

\* A process that holds the lock gives it back, whatever fails on the way.
LockIsReleased == \A p \in Process : lock = p ~> lock # p
=============================================================================

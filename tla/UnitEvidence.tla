---------------------------- MODULE UnitEvidence ----------------------------
(***************************************************************************)
(* What is kept of the pages behind a price: _process_unit of a device     *)
(* source with its fetches (HttpFetch), the files of RawArtifactStore and  *)
(* the rows of v2_crawl_record, and what ReplayService concludes from a    *)
(* record later.  A job is one run: it processes its units one after       *)
(* another and its files are in a directory of their own.  The files and   *)
(* the database are two stores: anything between two writes may fail.      *)
(***************************************************************************)
EXTENDS HttpFetch

CONSTANTS
  Job,           \* tasks of Task that process units
  Body,          \* contents of product pages
  TrustedPrice,  \* the price known of every product before
  None,
  MaxUnits,      \* units of a run
  MaxFaults      \* bound on failing writes, crashes and lost answers

\* What the parser and prepare_catalog_product make of a page (RAISES: it is
\* no product page), the price it states, and whether it shows every known SKU.
Contents ==
  [static : {"SUCCEEDED", "PARTIAL", "FAILED", "RAISES"}, price : Nat, whole : BOOLEAN]

ASSUME EvidenceAssumption ==
  /\ Job \subseteq Task /\ Body \subseteq Contents
  /\ None \notin Body /\ None \notin [body : Body, usable : BOOLEAN]
  /\ MaxUnits \in Nat \ {0} /\ MaxFaults \in Nat

VARIABLES
  stage,    \* [Job -> where the job is in _process_unit]
  left,     \* [Job -> units not processed yet, the present one included]
  page,     \* [Job -> result, the response under judgement, or None]
  kept,     \* [Job -> artifact, the content of the file saved for it, or None]
  first,    \* [Job -> first_result, the page to be confirmed, or None]
  verdict,  \* [Job -> error_code of the rows to store, or None]
  files,    \* [Job -> [Body -> state of the file named by the hash]]
  records,  \* [Job -> rows of v2_crawl_record of the run]
  faults

unitVars == <<stage, left, page, kept, first, verdict, files, records, faults>>
vars == <<fetchVars, unitVars>>

Fault == faults < MaxFaults /\ faults' = faults + 1

Enters(j, s) == stage' = [stage EXCEPT ![j] = s]

-----------------------------------------------------------------------------
(* The records of a unit.                                                  *)

\* _record_failure and _persist_success write what the two locals hold: page
\* is the result, raw the artifact, initial the manifest entry of the first
\* page.  unproven (not stored): the page had to be confirmed and was not.
RecordOf(j, kind, code, unproven) ==
  [unit |-> left[j], kind |-> kind, code |-> code, page |-> page[j], raw |-> kept[j],
   initial |-> IF first[j] = None THEN None ELSE first[j].body, unproven |-> unproven]

Records(j, kind, code, unproven) ==
  records' = [records EXCEPT ![j] = @ \cup {RecordOf(j, kind, code, unproven)}]

\* The locals of _process_unit end with it.
Leaves(j) ==
  /\ page' = [page EXCEPT ![j] = None]
  /\ kept' = [kept EXCEPT ![j] = None]
  /\ first' = [first EXCEPT ![j] = None]
  /\ verdict' = [verdict EXCEPT ![j] = None]

NextUnit(j) ==
  /\ Leaves(j)
  /\ left' = [left EXCEPT ![j] = @ - 1]
  /\ Enters(j, "idle")

-----------------------------------------------------------------------------
(* Fetching: connector.fetch_product awaits one fetch of its address.      *)

Begin(j) ==
  /\ stage[j] = "idle" /\ left[j] > 0
  /\ Issue(j)
  /\ Enters(j, "fetching")
  /\ UNCHANGED <<left, page, kept, first, verdict, files, records, faults>>

\* usable: a 2xx status, and both addresses in the allowlist of the channel.
Receive(j) ==
  /\ stage[j] = "fetching"
  /\ \/ /\ at[j] = "got"
        /\ \E b \in Body, usable \in BOOLEAN :
             page' = [page EXCEPT ![j] = [body |-> b, usable |-> usable]]
        /\ Enters(j, "saving")
     \/ at[j] = "raised" /\ Enters(j, "failing") /\ UNCHANGED page
  /\ Return(j)
  /\ UNCHANGED <<left, kept, first, verdict, files, records, faults>>

-----------------------------------------------------------------------------
(* RawArtifactStore.save: a file that exists is taken as it is; otherwise  *)
(* the content goes to a temporary file that replaces the target when it   *)
(* is written, and is removed when writing fails.                          *)

Written(j) == [files EXCEPT ![j][page[j].body] = "whole"]

SpoiltInPlace(j) == [files EXCEPT ![j][page[j].body] = "part"]
Spoilt(j) == files

Save(j) ==
  /\ stage[j] = "saving"
  /\ \/ /\ IF files[j][page[j].body] = "none" THEN files' = Written(j) ELSE UNCHANGED files
        /\ kept' = [kept EXCEPT ![j] = page[j].body]
        /\ Enters(j, "judging")
        /\ UNCHANGED faults
     \/ /\ Fault
        /\ files[j][page[j].body] = "none"
        /\ files' = Spoilt(j)
        /\ Enters(j, "failing")
        /\ UNCHANGED kept
  /\ UNCHANGED <<left, page, first, verdict, records, fetchVars>>

-----------------------------------------------------------------------------
(* Judging the saved page.                                                 *)

\* price_change_requires_confirmation, of a price that is trusted already.
Far(b) == b.static \in {"SUCCEEDED", "PARTIAL"} /\ b.price # TrustedPrice

\* The same complete product, listing by listing; fetched_at may be the same
\* millisecond, and then nothing is confirmed.
SameSignature(b, c) ==
  b.static = "SUCCEEDED" /\ c.static = "SUCCEEDED" /\ b.price = c.price /\ b.whole = c.whole

Parses(j) == page[j].usable /\ page[j].body.static # "RAISES"

Reject(j) ==
  /\ stage[j] = "judging"
  /\ ~ Parses(j)
  /\ Enters(j, "failing")
  /\ UNCHANGED <<left, page, kept, first, verdict, files, records, faults, fetchVars>>

\* Rows go to _persist_success under the code of prepared.error_code.
Judge(j) ==
  /\ stage[j] = "judging"
  /\ Parses(j)
  /\ LET b == page[j].body IN
     \/ first[j] = None /\ ~ Far(b) /\ verdict' = [verdict EXCEPT ![j] = b.static]
     \/ first[j] # None /\ SameSignature(first[j].body, b) /\ verdict' = [verdict EXCEPT ![j] = b.static]
     \/ first[j] # None /\ verdict' = [verdict EXCEPT ![j] = "PRICE_CHANGE_UNCONFIRMED"]
  /\ Enters(j, "committing")
  /\ UNCHANGED <<left, page, kept, first, files, records, faults, fetchVars>>

\* A large change: the first page gets a record of its own, result and
\* artifact are reset, and the product is fetched again.
ForgetsResultOnly(j) == page' = [page EXCEPT ![j] = None] /\ UNCHANGED kept
ForgetsPage(j) == page' = [page EXCEPT ![j] = None] /\ kept' = [kept EXCEPT ![j] = None]

AsksUnrecorded(j) == UNCHANGED records
AsksRecorded(j) == Records(j, "pending", "PRICE_CHANGE_CONFIRMATION_REQUIRED", TRUE)

AskAgain(j) ==
  /\ stage[j] = "judging"
  /\ Parses(j) /\ first[j] = None /\ Far(page[j].body)
  /\ first' = [first EXCEPT ![j] = page[j]]
  /\ \/ /\ AsksRecorded(j)
        /\ ForgetsPage(j)
        /\ Issue(j)
        /\ Enters(j, "fetching")
        /\ UNCHANGED faults
     \/ /\ Fault
        /\ UNCHANGED records \/ AsksRecorded(j)
        /\ Enters(j, "failing")
        /\ UNCHANGED <<page, kept, fetchVars>>
  /\ UNCHANGED <<left, verdict, files>>

-----------------------------------------------------------------------------
(* The end of a unit.                                                      *)

\* A missing SKU takes the place of the error code of the rows.
StoredCode(j) == IF page[j].body.whole THEN verdict[j] ELSE "SKU_COVERAGE_INCOMPLETE"

Unproven(j) == first[j] # None /\ verdict[j] \in {None, "PRICE_CHANGE_UNCONFIRMED"}

StoreRows(j) == Records(j, "rows", StoredCode(j), Unproven(j))

Commit(j) ==
  /\ stage[j] = "committing"
  /\ StoreRows(j)
  /\ NextUnit(j)
  /\ UNCHANGED <<files, faults, fetchVars>>

\* The transaction fails, or commits and its answer is lost.
CommitFails(j) ==
  /\ Fault
  /\ stage[j] = "committing"
  /\ UNCHANGED records \/ StoreRows(j)
  /\ Enters(j, "failing")
  /\ UNCHANGED <<left, page, kept, first, verdict, files, fetchVars>>

RecordFailure(j) ==
  /\ stage[j] = "failing"
  /\ Records(j, "failure", "ERROR", Unproven(j))
  /\ NextUnit(j)
  /\ UNCHANGED <<files, faults, fetchVars>>

\* The failure cannot be recorded: the exception ends the run.
RecordFailureFails(j) ==
  /\ Fault
  /\ stage[j] = "failing"
  /\ UNCHANGED records \/ Records(j, "failure", "ERROR", Unproven(j))
  /\ Leaves(j)
  /\ Enters(j, "stopped")
  /\ UNCHANGED <<left, files, fetchVars>>

\* The process dies, with every job in it; files and records remain.
Crash ==
  /\ Fault
  /\ \E j \in Job : stage[j] \notin {"idle", "stopped"}
  /\ stage' = [j \in Job |-> "stopped"]
  /\ UNCHANGED <<left, page, kept, first, verdict, files, records, fetchVars>>

-----------------------------------------------------------------------------
(* ReplayService.replay of a record, later and without the network.        *)

Loads(j, b) == files[j][b] = "whole"

\* raw_path and raw_hash present and the file intact, so is the file of every
\* additional response, and the page can be parsed.
Replayable(j, r) ==
  /\ r.raw # None /\ r.page # None
  /\ Loads(j, r.raw)
  /\ r.initial # None => Loads(j, r.initial)
  /\ r.page.usable /\ r.raw.static # "RAISES"

\* ReplayOutcome.to_dict: a page whose confirmation is missing or failed, as
\* the error code of the record tells, is not reported as a success.
Replayed(r) ==
  IF r.code \in {"PRICE_CHANGE_CONFIRMATION_REQUIRED", "PRICE_CHANGE_UNCONFIRMED"}
  THEN IF r.raw.static = "FAILED" THEN "FAILED" ELSE "PARTIAL"
  ELSE r.raw.static

-----------------------------------------------------------------------------
Init ==
  /\ FetchInit
  /\ stage = [j \in Job |-> "idle"]
  /\ left = [j \in Job |-> MaxUnits]
  /\ page = [j \in Job |-> None]
  /\ kept = [j \in Job |-> None]
  /\ first = [j \in Job |-> None]
  /\ verdict = [j \in Job |-> None]
  /\ files = [j \in Job |-> [b \in Body |-> "none"]]
  /\ records = [j \in Job |-> {}]
  /\ faults = 0

\* What a unit does by itself while it does not wait for an answer.
UnitStep(j) ==
  \/ Receive(j) \/ Save(j) \/ Reject(j) \/ Judge(j) \/ AskAgain(j)
  \/ Commit(j) \/ RecordFailure(j)

UnitFault(j) == CommitFails(j) \/ RecordFailureFails(j)

\* Other users of the fetcher: discoveries, other sources.
Visit(t) == (Issue(t) \/ Return(t)) /\ UNCHANGED unitVars

Travel(t) == FetchStep(t) /\ UNCHANGED unitVars
Pass == Tick /\ UNCHANGED unitVars

Next ==
  \/ \E j \in Job : Begin(j) \/ UnitStep(j) \/ UnitFault(j)
  \/ \E t \in Task \ Job : Visit(t)
  \/ \E t \in Task : Travel(t)
  \/ Pass
  \/ Crash

Spec == Init /\ [][Next]_vars

\* Steps between awaits are taken, requests have timeouts, sleeps end.
Fairness ==
  /\ WF_vars(Pass)
  /\ \A t \in Task : WF_vars(Travel(t))
  /\ \A j \in Job : WF_vars(UnitStep(j))

FairSpec == Spec /\ Fairness

-----------------------------------------------------------------------------
(* What a unit relies on between its steps: the strengthening from which   *)
(* the properties below are proved.                                        *)

Response == [body : Body, usable : BOOLEAN]

Codes == {"SUCCEEDED", "PARTIAL", "FAILED", "RAISES", "PRICE_CHANGE_UNCONFIRMED", "SKU_COVERAGE_INCOMPLETE",
          "PRICE_CHANGE_CONFIRMATION_REQUIRED", "ERROR"}

Row ==
  [unit : 1 .. MaxUnits, kind : {"pending", "rows", "failure"}, code : Codes \cup {None},
   page : Response \cup {None}, raw : Body \cup {None}, initial : Body \cup {None}, unproven : BOOLEAN]

UnitTypes ==
  /\ stage \in [Job -> {"idle", "fetching", "saving", "judging", "committing", "failing", "stopped"}]
  /\ left \in [Job -> 0 .. MaxUnits]
  /\ page \in [Job -> Response \cup {None}]
  /\ kept \in [Job -> Body \cup {None}]
  /\ first \in [Job -> Response \cup {None}]
  /\ verdict \in [Job -> Codes \cup {None}]
  /\ files \in [Job -> [Body -> {"none", "whole"}]]  \* a file is not there, or whole
  /\ records \in [Job -> SUBSET Row]

HasRecord(j, n, b) == \E r \in records[j] : r.unit = n /\ r.raw = b

\* What a job holds at each stage: nothing of the unit before it, no artifact
\* while it fetches, a page and its artifact once it judges.
LocalsFitStage ==
  \A j \in Job :
    /\ stage[j] = "idle" => page[j] = None /\ kept[j] = None /\ first[j] = None
    /\ stage[j] \notin {"idle", "stopped"} => left[j] > 0
    /\ stage[j] \in {"fetching", "saving"} => kept[j] = None
    /\ stage[j] \in {"saving", "judging", "committing"} => page[j] # None
    /\ stage[j] \in {"judging", "committing"} => kept[j] # None

\* An artifact is a whole file, and that of the page under judgement.
KeptIsSaved ==
  \A j \in Job :
    kept[j] # None => page[j] # None /\ kept[j] = page[j].body /\ Loads(j, kept[j])

\* The file of the page to be confirmed is whole, and a record names it unless
\* that record could not be written: then the unit is failing, and holds it yet.
FirstIsSaved ==
  \A j \in Job :
    first[j] # None =>
      /\ Loads(j, first[j].body)
      /\ \/ HasRecord(j, left[j], first[j].body)
         \/ stage[j] \in {"failing", "stopped"} /\ kept[j] = first[j].body

-----------------------------------------------------------------------------
(* Properties.                                                             *)

\* Every content a record names is in the store, whole: also when the same
\* content is saved again, a write fails, or the process dies.
EvidenceIsWhole ==
  \A j \in Job : \A r \in records[j] :
    /\ r.raw # None => Loads(j, r.raw)
    /\ r.initial # None => Loads(j, r.initial)

\* The evidence of a record is the page the record is about, never that of
\* the other page of the product.
RecordsSpeakOfTheirPage ==
  \A j \in Job : \A r \in records[j] :
    r.raw # None => r.page # None /\ r.page.body = r.raw

\* "Keep the first evidence even if the second request fails or is cancelled":
\* a record holds the first page before the second one is asked for, and stays
\* when a later record of the unit refers to it.
FirstPageIsKept ==
  \A j \in Job :
    /\ first[j] # None /\ stage[j] \in {"fetching", "saving"} => HasRecord(j, left[j], first[j].body)
    /\ \A r \in records[j] : r.initial # None => HasRecord(j, r.unit, r.initial)

\* The inductive invariant.
EvidenceInv ==
  /\ FetchInv /\ UnitTypes /\ LocalsFitStage /\ KeptIsSaved /\ FirstIsSaved
  /\ EvidenceIsWhole /\ RecordsSpeakOfTheirPage /\ FirstPageIsKept

\* Whatever its requests, retries, redirects and writes do, a unit that was
\* begun ends in a record, unless its run stops.
EveryUnitIsRecorded ==
  \A j \in Job, n \in 1 .. MaxUnits :
    stage[j] = "fetching" /\ left[j] = n ~>
      \/ stage[j] = "stopped"
      \/ \E r \in records[j] : r.unit = n /\ r.kind # "pending"

\* "Static parsing cannot upgrade a point that never passed runtime
\* confirmation": a page whose confirmation failed replays as no success.
NoUpgradeByReplay ==
  \A j \in Job : \A r \in records[j] :
    r.unproven /\ Replayable(j, r) => Replayed(r) # "SUCCEEDED"
=============================================================================

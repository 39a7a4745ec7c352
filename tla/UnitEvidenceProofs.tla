------------------------- MODULE UnitEvidenceProofs -------------------------
(* Theorems about the requests of the fetcher and the evidence of a unit.  *)
EXTENDS UnitEvidence, TLAPS

-----------------------------------------------------------------------------
(* The fetcher.                                                            *)

LEMMA MovingKeepsFetchInv ==
  ASSUME FetchInv, NEW t \in Task, at[t] # "pacing" \/ at'[t] # "pacing",
         at' \in [Task -> {"idle", "queued", "pacing", "sent", "backoff", "got", "raised"}],
         \A u \in Task : u # t => at'[u] = at[u] /\ host'[u] = host[u] /\ wait'[u] = wait[u],
         at'[t] # "pacing",
         host' \in [Task -> Host], wait' \in [Task -> Nat], cooldown' = cooldown
  PROVE  FetchInv'
<1>1. FetchTypes' BY DEF FetchInv, FetchTypes
<1>2. OnePacer' BY DEF FetchInv, OnePacer
<1>3. PacersWaitEnough' BY DEF FetchInv, PacersWaitEnough
<1>4. QED BY <1>1, <1>2, <1>3 DEF FetchInv

LEMMA IssueKeepsFetchInv ==
  ASSUME FetchInv, NEW t \in Task, Issue(t)
  PROVE  FetchInv'
<1>1. PICK h \in Host : Enqueue(t, h) BY DEF Issue
<1>2. at' = [at EXCEPT ![t] = "queued"] /\ host' = [host EXCEPT ![t] = h] /\ wait' = wait /\ cooldown' = cooldown
  BY <1>1 DEF Enqueue, MovesTo, Issue
<1>3. QED BY <1>2, MovingKeepsFetchInv DEF FetchInv, FetchTypes

LEMMA ReturnKeepsFetchInv ==
  ASSUME FetchInv, NEW t \in Task, Return(t)
  PROVE  FetchInv'
<1>1. at' = [at EXCEPT ![t] = "idle"] /\ host' = host /\ wait' = wait /\ cooldown' = cooldown
  BY DEF MovesTo, Return
<1>2. QED BY <1>1, MovingKeepsFetchInv DEF FetchInv, FetchTypes

LEMMA PaceKeepsFetchInv ==
  ASSUME FetchInv, NEW t \in Task, Pace(t)
  PROVE  FetchInv'
<1>1. /\ at' = [at EXCEPT ![t] = "pacing"] /\ host' = host /\ cooldown' = cooldown
      /\ wait' = [wait EXCEPT ![t] = cooldown[host[t]]]
  BY DEF Pace, MovesTo
<1>2. \A u \in Task : ~ (at[u] = "pacing" /\ host[u] = host[t])
  BY DEF Pace, TimingLockFree, Pacing
<1>3. FetchTypes' BY <1>1 DEF FetchInv, FetchTypes
<1>4. OnePacer' BY <1>1, <1>2 DEF FetchInv, FetchTypes, OnePacer
<1>5. PacersWaitEnough' BY <1>1 DEF FetchInv, FetchTypes, PacersWaitEnough
<1>6. QED BY <1>3, <1>4, <1>5 DEF FetchInv

\* The next delay of a host is drawn by its only pacing task, which stops pacing.
LEMMA SendKeepsFetchInv ==
  ASSUME FetchAssumption, FetchInv, NEW t \in Task, Send(t)
  PROVE  FetchInv'
<1>1. PICK d \in MinDelay .. MaxDelay : cooldown' = [cooldown EXCEPT ![host[t]] = d] BY DEF Send
<1>2. at' = [at EXCEPT ![t] = "sent"] /\ host' = host /\ wait' = wait /\ at[t] = "pacing" BY DEF Send, MovesTo
<1>3. d \in Nat BY <1>1 DEF FetchAssumption
<1>4. FetchTypes' BY <1>1, <1>2, <1>3 DEF FetchInv, FetchTypes
<1>5. OnePacer' BY <1>2 DEF FetchInv, FetchTypes, OnePacer
<1>6. ASSUME NEW u \in Task, at'[u] = "pacing" PROVE cooldown'[host'[u]] <= wait'[u]
  <2>1. u # t /\ at[u] = "pacing" BY <1>2, <1>6 DEF FetchInv, FetchTypes
  <2>2. host[u] # host[t] BY <1>2, <2>1 DEF FetchInv, OnePacer
  <2>3. cooldown'[host'[u]] = cooldown[host[u]] BY <1>1, <1>2, <2>2 DEF FetchInv, FetchTypes
  <2>4. QED BY <1>2, <2>1, <2>3 DEF FetchInv, PacersWaitEnough
<1>7. PacersWaitEnough' BY <1>6 DEF PacersWaitEnough
<1>8. QED BY <1>4, <1>5, <1>7 DEF FetchInv

LEMMA AnswerKeepsFetchInv ==
  ASSUME FetchInv, NEW t \in Task, Answer(t) \/ Redirect(t) \/ Again(t), FetchAssumption
  PROVE  FetchInv'
<1>1. CASE \E place \in {"got", "raised"} : Ends(t, place)
  <2>1. PICK place \in {"got", "raised"} :
          at' = [at EXCEPT ![t] = place] /\ host' = host /\ wait' = wait /\ cooldown' = cooldown
    BY <1>1 DEF Ends, MovesTo
  <2>2. QED BY <2>1, MovingKeepsFetchInv DEF FetchInv, FetchTypes
<1>2. CASE Retry(t)
  <2>1. PICK d \in 0 .. MaxBackoff : wait' = [wait EXCEPT ![t] = d] BY <1>2 DEF Retry
  <2>2. at' = [at EXCEPT ![t] = "backoff"] /\ host' = host /\ cooldown' = cooldown BY <1>2 DEF Retry, MovesTo
  <2>3. d \in Nat BY <2>1 DEF FetchAssumption
  <2>4. wait' \in [Task -> Nat] /\ \A u \in Task : u # t => wait'[u] = wait[u]
    BY <2>1, <2>3 DEF FetchInv, FetchTypes
  <2>5. QED BY <2>2, <2>4, MovingKeepsFetchInv DEF FetchInv, FetchTypes
<1>3. CASE Redirect(t)
  <2>1. PICK h \in Host : host' = [host EXCEPT ![t] = h] BY <1>3 DEF Redirect
  <2>2. at' = [at EXCEPT ![t] = "queued"] /\ wait' = wait /\ cooldown' = cooldown BY <1>3 DEF Redirect, MovesTo
  <2>3. QED BY <2>1, <2>2, MovingKeepsFetchInv DEF FetchInv, FetchTypes
<1>4. CASE Again(t)
  <2>1. PICK h \in Host : Enqueue(t, h) BY <1>4 DEF Again
  <2>2. at' = [at EXCEPT ![t] = "queued"] /\ host' = [host EXCEPT ![t] = h] /\ wait' = wait /\ cooldown' = cooldown
    BY <1>4, <2>1 DEF Enqueue, MovesTo, Again
  <2>3. QED BY <2>2, MovingKeepsFetchInv DEF FetchInv, FetchTypes
<1>5. QED BY <1>1, <1>2, <1>3, <1>4 DEF Answer

\* Sleepers and hosts are served by the same clock.
LEMMA TickKeepsFetchInv ==
  ASSUME FetchInv, Tick
  PROVE  FetchInv'
<1>1. /\ wait' = [t \in Task |-> IF wait[t] = 0 THEN 0 ELSE wait[t] - 1]
      /\ cooldown' = [h \in Host |-> IF cooldown[h] = 0 THEN 0 ELSE cooldown[h] - 1]
      /\ at' = at /\ host' = host
  BY DEF Tick
<1>2. FetchTypes' BY <1>1 DEF FetchInv, FetchTypes
<1>3. OnePacer' BY <1>1 DEF FetchInv, OnePacer
<1>4. ASSUME NEW t \in Task, at'[t] = "pacing" PROVE cooldown'[host'[t]] <= wait'[t]
  <2>1. host[t] \in Host /\ wait[t] \in Nat /\ cooldown[host[t]] \in Nat BY DEF FetchInv, FetchTypes
  <2>2. cooldown[host[t]] <= wait[t] BY <1>1, <1>4 DEF FetchInv, PacersWaitEnough
  <2>3. /\ wait'[t] = IF wait[t] = 0 THEN 0 ELSE wait[t] - 1
        /\ cooldown'[host'[t]] = IF cooldown[host[t]] = 0 THEN 0 ELSE cooldown[host[t]] - 1
    BY <1>1, <2>1
  <2>4. QED BY <2>1, <2>2, <2>3
<1>5. PacersWaitEnough' BY <1>4 DEF PacersWaitEnough
<1>6. QED BY <1>2, <1>3, <1>5 DEF FetchInv

LEMMA FetchStepKeepsFetchInv ==
  ASSUME FetchAssumption, FetchInv, NEW t \in Task, FetchStep(t)
  PROVE  FetchInv'
<1>1. QED BY PaceKeepsFetchInv, SendKeepsFetchInv, AnswerKeepsFetchInv DEF FetchStep

LEMMA StandingKeepsFetchInv ==
  ASSUME FetchInv, UNCHANGED fetchVars
  PROVE  FetchInv'
<1>1. at' = at /\ host' = host /\ wait' = wait /\ cooldown' = cooldown BY DEF fetchVars
<1>2. FetchTypes' BY <1>1 DEF FetchInv, FetchTypes
<1>3. OnePacer' BY <1>1 DEF FetchInv, OnePacer
<1>4. PacersWaitEnough' BY <1>1 DEF FetchInv, PacersWaitEnough
<1>5. QED BY <1>2, <1>3, <1>4 DEF FetchInv

-----------------------------------------------------------------------------
(* What holds of one job: of the locals of its unit and of its records.    *)

LocalsSound(j) ==
  /\ stage[j] = "idle" => page[j] = None /\ kept[j] = None /\ first[j] = None
  /\ stage[j] \notin {"idle", "stopped"} => left[j] > 0
  /\ stage[j] \in {"fetching", "saving"} => kept[j] = None
  /\ stage[j] \in {"saving", "judging", "committing"} => page[j] # None
  /\ stage[j] \in {"judging", "committing"} => kept[j] # None
  /\ kept[j] # None => page[j] # None /\ kept[j] = page[j].body /\ Loads(j, kept[j])
  /\ first[j] # None =>
       /\ Loads(j, first[j].body)
       /\ \/ HasRecord(j, left[j], first[j].body)
          \/ stage[j] \in {"failing", "stopped"} /\ kept[j] = first[j].body

RecordSound(j, r) ==
  /\ r.raw # None => Loads(j, r.raw) /\ r.page # None /\ r.page.body = r.raw
  /\ r.initial # None => Loads(j, r.initial) /\ HasRecord(j, r.unit, r.initial)

RecordsSound(j) == \A r \in records[j] : RecordSound(j, r)

LEMMA InvByJob ==
  EvidenceInv => FetchInv /\ UnitTypes /\ \A j \in Job : LocalsSound(j) /\ RecordsSound(j)
BY DEF EvidenceInv, LocalsFitStage, KeptIsSaved, FirstIsSaved, EvidenceIsWhole,
       RecordsSpeakOfTheirPage, FirstPageIsKept, LocalsSound, RecordsSound, RecordSound

LEMMA InvFromJobs ==
  ASSUME FetchInv', UnitTypes', \A j \in Job : LocalsSound(j)' /\ RecordsSound(j)'
  PROVE  EvidenceInv'
<1>1. LocalsFitStage' /\ KeptIsSaved' /\ FirstIsSaved' BY DEF LocalsFitStage, KeptIsSaved, FirstIsSaved, LocalsSound
<1>2. EvidenceIsWhole' /\ RecordsSpeakOfTheirPage' BY DEF EvidenceIsWhole, RecordsSpeakOfTheirPage, RecordsSound, RecordSound
<1>3. FirstPageIsKept' BY DEF FirstPageIsKept, LocalsSound, RecordsSound, RecordSound
<1>4. QED BY <1>1, <1>2, <1>3 DEF EvidenceInv

\* Another job keeps its unit and its files.
LEMMA OtherJobStays ==
  ASSUME NEW i \in Job, LocalsSound(i), RecordsSound(i),
         stage'[i] = stage[i], left'[i] = left[i], page'[i] = page[i], kept'[i] = kept[i],
         first'[i] = first[i], files'[i] = files[i], records'[i] = records[i]
  PROVE  LocalsSound(i)' /\ RecordsSound(i)'
BY DEF LocalsSound, RecordsSound, RecordSound, Loads, HasRecord

\* Records and files are never lost.
LEMMA RecordsStay ==
  ASSUME UnitTypes, NEW j \in Job, RecordsSound(j), records'[j] = records[j],
         \A b \in Body : files[j][b] = "whole" => files'[j][b] = "whole"
  PROVE  RecordsSound(j)'
<1>1. ASSUME NEW r \in records[j] PROVE RecordSound(j, r)'
  <2>1. RecordSound(j, r) BY DEF RecordsSound
  <2>2. r.raw \in Body \cup {None} /\ r.initial \in Body \cup {None} BY DEF UnitTypes, Row
  <2>3. QED BY <2>1, <2>2 DEF RecordSound, HasRecord, Loads
<1>2. QED BY <1>1 DEF RecordsSound

\* A new record names whole files only, that of its page among them, and the
\* first page either has a record or is the page of this one.
LEMMA RecordsGrow ==
  ASSUME NEW j \in Job, LocalsSound(j), RecordsSound(j), NEW kind, NEW code, NEW unproven,
         records'[j] = records[j] \cup {RecordOf(j, kind, code, unproven)}, files' = files
  PROVE  RecordsSound(j)' /\ (\A n, b : HasRecord(j, n, b) => HasRecord(j, n, b)')
<1>0. PICK new : new = RecordOf(j, kind, code, unproven) OBVIOUS
<1>1. /\ new.unit = left[j] /\ new.page = page[j] /\ new.raw = kept[j]
      /\ new.initial = IF first[j] = None THEN None ELSE first[j].body
  BY <1>0 DEF RecordOf
<1>2. records'[j] = records[j] \cup {new} BY <1>0
<1>3. \A n, b : HasRecord(j, n, b) => HasRecord(j, n, b)' BY <1>2 DEF HasRecord
<1>4. ASSUME NEW r \in records[j] PROVE RecordSound(j, r)'
  <2>1. RecordSound(j, r) BY DEF RecordsSound
  <2>2. QED BY <2>1, <1>3 DEF RecordSound, Loads
<1>5. RecordSound(j, new)'
  <2>1. kept[j] # None => Loads(j, kept[j]) /\ page[j] # None /\ page[j].body = kept[j]
    BY DEF LocalsSound, Loads
  <2>2. first[j] # None => Loads(j, first[j].body)
    BY DEF LocalsSound
  <2>3. first[j] # None => HasRecord(j, left[j], first[j].body) \/ kept[j] = first[j].body
    BY DEF LocalsSound
  <2>4. ASSUME first[j] # None PROVE \E r \in records'[j] : r.unit = left[j] /\ r.raw = first[j].body
    <3>1. CASE HasRecord(j, left[j], first[j].body) BY <3>1, <1>2 DEF HasRecord
    <3>2. CASE kept[j] = first[j].body BY <3>2, <1>1, <1>2
    <3>3. QED BY <2>3, <2>4, <3>1, <3>2
  <2>5. new.raw # None => files'[j][new.raw] = "whole" /\ new.page # None /\ new.page.body = new.raw
    BY <1>1, <2>1 DEF LocalsSound, Loads
  <2>6. ASSUME new.initial # None
        PROVE  /\ files'[j][new.initial] = "whole"
               /\ \E r \in records'[j] : r.unit = new.unit /\ r.raw = new.initial
    <3>1. first[j] # None /\ new.initial = first[j].body BY <1>1, <2>6
    <3>2. QED BY <3>1, <2>2, <2>4, <1>1 DEF Loads
  <2>7. QED BY <2>5, <2>6 DEF RecordSound, Loads, HasRecord
<1>6. QED BY <1>2, <1>3, <1>4, <1>5 DEF RecordsSound

LEMMA RecordIsRow ==
  ASSUME EvidenceAssumption, UnitTypes, NEW j \in Job, left[j] > 0,
         NEW kind \in {"pending", "rows", "failure"}, NEW code \in Codes \cup {None}, NEW unproven \in BOOLEAN
  PROVE  RecordOf(j, kind, code, unproven) \in Row
<1>1. left[j] \in 1 .. MaxUnits BY DEF UnitTypes, EvidenceAssumption
<1>2. page[j] \in Response \cup {None} /\ kept[j] \in Body \cup {None} BY DEF UnitTypes
<1>3. (IF first[j] = None THEN None ELSE first[j].body) \in Body \cup {None} BY DEF UnitTypes, Response
<1>4. QED BY <1>1, <1>2, <1>3 DEF RecordOf, Row

LEMMA RecordsKeepType ==
  ASSUME EvidenceAssumption, UnitTypes, NEW j \in Job, left[j] > 0,
         NEW kind \in {"pending", "rows", "failure"}, NEW code \in Codes \cup {None}, NEW unproven \in BOOLEAN,
         Records(j, kind, code, unproven)
  PROVE  /\ records' \in [Job -> SUBSET Row]
         /\ records'[j] = records[j] \cup {RecordOf(j, kind, code, unproven)}
         /\ \A i \in Job : i # j => records'[i] = records[i]
<1>0. PICK new : new = RecordOf(j, kind, code, unproven) OBVIOUS
<1>1. new \in Row BY <1>0, RecordIsRow
<1>2. records' = [records EXCEPT ![j] = @ \cup {new}] BY <1>0 DEF Records
<1>3. QED BY <1>0, <1>1, <1>2 DEF UnitTypes

\* The stored code and the marks of a record.
LEMMA StoredFields ==
  ASSUME UnitTypes, NEW j \in Job
  PROVE  StoredCode(j) \in Codes \cup {None} /\ Unproven(j) \in BOOLEAN
<1>1. StoredCode(j) \in Codes \cup {None} BY DEF UnitTypes, StoredCode, Codes
<1>2. Unproven(j) \in BOOLEAN BY DEF Unproven
<1>3. QED BY <1>1, <1>2

\* A step of a unit that leaves files and records alone.
LEMMA ForgettingIsSound ==
  ASSUME NEW j \in Job, page'[j] = None, kept'[j] = None, first'[j] = None, stage'[j] \in {"idle", "stopped"}
  PROVE  LocalsSound(j)'
BY DEF LocalsSound

-----------------------------------------------------------------------------
(* The steps of a unit.                                                    *)

LEMMA BeginKeepsInv ==
  ASSUME EvidenceAssumption, EvidenceInv, NEW j \in Job, Begin(j)
  PROVE  EvidenceInv'
<1>1. FetchInv /\ UnitTypes /\ \A i \in Job : LocalsSound(i) /\ RecordsSound(i) BY InvByJob
<1>2. /\ stage' = [stage EXCEPT ![j] = "fetching"] /\ stage[j] = "idle" /\ left[j] > 0
      /\ UNCHANGED <<left, page, kept, first, verdict, files, records>>
  BY DEF Begin, Enters
<1>3. FetchInv'
  <2>1. j \in Task /\ Issue(j) BY DEF Begin, EvidenceAssumption
  <2>2. QED BY <1>1, <2>1, IssueKeepsFetchInv
<1>4. UnitTypes' BY <1>1, <1>2 DEF UnitTypes
<1>5. LocalsSound(j)' BY <1>1, <1>2 DEF LocalsSound, UnitTypes, HasRecord, Loads
<1>6. RecordsSound(j)' BY <1>1, <1>2, RecordsStay DEF Loads
<1>7. ASSUME NEW i \in Job, i # j PROVE LocalsSound(i)' /\ RecordsSound(i)'
  BY <1>1, <1>2, <1>7, OtherJobStays DEF UnitTypes
<1>8. QED BY <1>3, <1>4, <1>5, <1>6, <1>7, InvFromJobs

LEMMA ReceiveKeepsInv ==
  ASSUME EvidenceAssumption, EvidenceInv, NEW j \in Job, Receive(j)
  PROVE  EvidenceInv'
<1>1. FetchInv /\ UnitTypes /\ \A i \in Job : LocalsSound(i) /\ RecordsSound(i) BY InvByJob
<1>2. stage[j] = "fetching" /\ UNCHANGED <<left, kept, first, verdict, files, records>> BY DEF Receive
<1>3. FetchInv'
  <2>1. j \in Task /\ Return(j) BY DEF Receive, EvidenceAssumption
  <2>2. QED BY <1>1, <2>1, ReturnKeepsFetchInv
<1>4. PICK p \in Response \cup {None}, s \in {"saving", "failing"} :
        /\ page' = [page EXCEPT ![j] = p] /\ stage' = [stage EXCEPT ![j] = s]
        /\ s = "saving" => p # None
  <2>1. CASE at[j] = "raised" /\ Enters(j, "failing") /\ UNCHANGED page
    <3>1. page' = [page EXCEPT ![j] = page[j]] BY <1>1, <2>1 DEF UnitTypes
    <3>2. page[j] \in Response \cup {None} BY <1>1 DEF UnitTypes
    <3>3. stage' = [stage EXCEPT ![j] = "failing"] BY <2>1 DEF Enters
    <3>4. QED BY <3>1, <3>2, <3>3
  <2>2. CASE /\ \E b \in Body, usable \in BOOLEAN : page' = [page EXCEPT ![j] = [body |-> b, usable |-> usable]]
             /\ Enters(j, "saving")
    <3>1. PICK b \in Body, usable \in BOOLEAN : page' = [page EXCEPT ![j] = [body |-> b, usable |-> usable]]
      BY <2>2
    <3>2. [body |-> b, usable |-> usable] \in Response BY DEF Response
    <3>3. [body |-> b, usable |-> usable] # None BY <3>2 DEF Response, EvidenceAssumption
    <3>4. stage' = [stage EXCEPT ![j] = "saving"] BY <2>2 DEF Enters
    <3>5. QED BY <3>1, <3>2, <3>3, <3>4
  <2>3. QED BY <2>1, <2>2 DEF Receive
<1>5. UnitTypes' BY <1>1, <1>2, <1>4 DEF UnitTypes
<1>6. LocalsSound(j)' BY <1>1, <1>2, <1>4 DEF LocalsSound, UnitTypes, HasRecord, Loads
<1>7. RecordsSound(j)' BY <1>1, <1>2, RecordsStay DEF Loads
<1>8. ASSUME NEW i \in Job, i # j PROVE LocalsSound(i)' /\ RecordsSound(i)'
  BY <1>1, <1>2, <1>4, <1>8, OtherJobStays DEF UnitTypes
<1>9. QED BY <1>3, <1>5, <1>6, <1>7, <1>8, InvFromJobs

\* The artifact is in place before anything refers to it; a failed write
\* leaves no file at all.
LEMMA SaveKeepsInv ==
  ASSUME EvidenceAssumption, EvidenceInv, NEW j \in Job, Save(j)
  PROVE  EvidenceInv'
<1>1. FetchInv /\ UnitTypes /\ \A i \in Job : LocalsSound(i) /\ RecordsSound(i) BY InvByJob
<1>2. /\ stage[j] = "saving" /\ UNCHANGED <<left, page, first, verdict, records>> /\ UNCHANGED fetchVars
  BY DEF Save
<1>3. FetchInv' BY <1>1, <1>2, StandingKeepsFetchInv
<1>4. page[j] \in Response /\ page[j].body \in Body /\ page[j] # None /\ kept[j] = None
  <2>1. page[j] # None /\ kept[j] = None BY <1>1, <1>2 DEF LocalsSound
  <2>2. QED BY <1>1, <2>1 DEF UnitTypes, Response
<1>5. CASE /\ files' = files
           /\ stage' = [stage EXCEPT ![j] = "failing"] /\ UNCHANGED kept
  <2>1. UnitTypes' BY <1>1, <1>2, <1>5 DEF UnitTypes
  <2>2. LocalsSound(j)' BY <1>1, <1>2, <1>5 DEF LocalsSound, UnitTypes, HasRecord, Loads
  <2>3. RecordsSound(j)' BY <1>1, <1>2, <1>5, RecordsStay DEF Loads
  <2>4. ASSUME NEW i \in Job, i # j PROVE LocalsSound(i)' /\ RecordsSound(i)'
    BY <1>1, <1>2, <1>5, <2>4, OtherJobStays DEF UnitTypes
  <2>5. QED BY <1>3, <2>1, <2>2, <2>3, <2>4, InvFromJobs
<1>6. CASE /\ IF files[j][page[j].body] = "none" THEN files' = Written(j) ELSE UNCHANGED files
           /\ kept' = [kept EXCEPT ![j] = page[j].body]
           /\ stage' = [stage EXCEPT ![j] = "judging"]
  <2>1. files \in [Job -> [Body -> {"none", "whole"}]] BY <1>1 DEF UnitTypes
  <2>2. /\ files' \in [Job -> [Body -> {"none", "whole"}]]
        /\ \A i \in Job : i # j => files'[i] = files[i]
        /\ \A b \in Body : files[j][b] = "whole" => files'[j][b] = "whole"
        /\ files'[j][page[j].body] = "whole"
    <3>1. CASE files[j][page[j].body] = "none" /\ files' = [files EXCEPT ![j][page[j].body] = "whole"]
      BY <3>1, <2>1, <1>4
    <3>2. CASE files[j][page[j].body] # "none" /\ files' = files BY <3>2, <2>1, <1>4
    <3>3. QED BY <1>6, <3>1, <3>2 DEF Written
  <2>4. UnitTypes' BY <1>1, <1>2, <1>4, <1>6, <2>2 DEF UnitTypes
  <2>5. LocalsSound(j)'
    <3>1. /\ kept'[j] = page[j].body /\ stage'[j] = "judging" /\ page'[j] = page[j] /\ left'[j] = left[j]
          /\ first'[j] = first[j] /\ records'[j] = records[j] /\ left[j] > 0
      BY <1>1, <1>2, <1>6 DEF UnitTypes, LocalsSound
    <3>2. page[j].body # None BY <1>4 DEF EvidenceAssumption
    <3>3. first[j] # None => HasRecord(j, left[j], first[j].body) /\ files[j][first[j].body] = "whole"
      BY <1>1, <1>2 DEF LocalsSound, Loads
    <3>4. first[j] # None => first[j].body \in Body BY <1>1 DEF UnitTypes, Response
    <3>5. QED BY <1>4, <2>2, <3>1, <3>2, <3>3, <3>4 DEF LocalsSound, HasRecord, Loads
  <2>6. RecordsSound(j)' BY <1>1, <1>2, <2>2, RecordsStay DEF Loads
  <2>7. ASSUME NEW i \in Job, i # j PROVE LocalsSound(i)' /\ RecordsSound(i)'
    BY <1>1, <1>2, <1>6, <2>2, <2>7, OtherJobStays DEF UnitTypes
  <2>8. QED BY <1>3, <2>4, <2>5, <2>6, <2>7, InvFromJobs
<1>7. QED BY <1>5, <1>6 DEF Save, Spoilt, Enters

LEMMA JudgingKeepsInv ==
  ASSUME EvidenceAssumption, EvidenceInv, NEW j \in Job, Reject(j) \/ Judge(j)
  PROVE  EvidenceInv'
<1>1. FetchInv /\ UnitTypes /\ \A i \in Job : LocalsSound(i) /\ RecordsSound(i) BY InvByJob
<1>2. /\ stage[j] = "judging" /\ UNCHANGED <<left, page, kept, first, files, records>> /\ UNCHANGED fetchVars
  BY DEF Reject, Judge
<1>3. FetchInv' BY <1>1, <1>2, StandingKeepsFetchInv
<1>4. PICK s \in {"failing", "committing"} : stage' = [stage EXCEPT ![j] = s] BY DEF Reject, Judge, Enters
<1>5. verdict' \in [Job -> Codes \cup {None}]
  <2>1. CASE UNCHANGED verdict BY <1>1, <2>1 DEF UnitTypes
  <2>2. CASE Judge(j)
    <3>1. page[j] \in Response BY <1>1, <1>2 DEF LocalsSound, UnitTypes
    <3>2. page[j].body.static \in Codes BY <3>1 DEF Response, EvidenceAssumption, Contents, Codes
    <3>3. PICK v \in Codes : verdict' = [verdict EXCEPT ![j] = v] BY <2>2, <3>2 DEF Judge, Codes
    <3>4. QED BY <1>1, <3>3 DEF UnitTypes
  <2>3. QED BY <2>1, <2>2 DEF Reject
<1>6. UnitTypes' BY <1>1, <1>2, <1>4, <1>5 DEF UnitTypes
<1>7. LocalsSound(j)' BY <1>1, <1>2, <1>4 DEF LocalsSound, UnitTypes, HasRecord, Loads
<1>8. RecordsSound(j)' BY <1>1, <1>2, RecordsStay
<1>9. ASSUME NEW i \in Job, i # j PROVE LocalsSound(i)' /\ RecordsSound(i)'
  BY <1>1, <1>2, <1>4, <1>9, OtherJobStays DEF UnitTypes
<1>10. QED BY <1>3, <1>6, <1>7, <1>8, <1>9, InvFromJobs

\* Writing a record, or failing to, of a job that is busy with a unit: what
\* follows of its records.
LEMMA WritingKeepsRecords ==
  ASSUME EvidenceAssumption, EvidenceInv, NEW j \in Job, stage[j] \notin {"idle", "stopped"}, files' = files,
         NEW kind \in {"pending", "rows", "failure"}, NEW code \in Codes \cup {None}, NEW unproven \in BOOLEAN,
         UNCHANGED records \/ Records(j, kind, code, unproven)
  PROVE  /\ records' \in [Job -> SUBSET Row]
         /\ \A i \in Job : i # j => records'[i] = records[i]
         /\ RecordsSound(j)'
         /\ \A n, b : HasRecord(j, n, b) => HasRecord(j, n, b)'
<1>1. UnitTypes /\ LocalsSound(j) /\ RecordsSound(j) BY InvByJob
<1>2. CASE UNCHANGED records
  <2>1. RecordsSound(j)' BY <1>1, <1>2, RecordsStay
  <2>2. QED BY <1>1, <1>2, <2>1 DEF UnitTypes, HasRecord
<1>3. CASE Records(j, kind, code, unproven)
  <2>1. left[j] > 0 BY <1>1 DEF LocalsSound
  <2>2. /\ records' \in [Job -> SUBSET Row]
        /\ records'[j] = records[j] \cup {RecordOf(j, kind, code, unproven)}
        /\ \A i \in Job : i # j => records'[i] = records[i]
    BY <1>1, <1>3, <2>1, RecordsKeepType
  <2>3. RecordsSound(j)' /\ (\A n, b : HasRecord(j, n, b) => HasRecord(j, n, b)')
    BY <1>1, <2>2, RecordsGrow
  <2>4. QED BY <2>2, <2>3
<1>4. QED BY <1>2, <1>3

\* The first page has its record when the second one is asked for, or the
\* unit is failing with the artifact of the first page in hand.
LEMMA AskAgainKeepsInv ==
  ASSUME EvidenceAssumption, EvidenceInv, NEW j \in Job, AskAgain(j)
  PROVE  EvidenceInv'
<1>1. FetchInv /\ UnitTypes /\ \A i \in Job : LocalsSound(i) /\ RecordsSound(i) BY InvByJob
<1>2. /\ stage[j] = "judging" /\ first[j] = None /\ UNCHANGED <<left, verdict, files>>
      /\ first' = [first EXCEPT ![j] = page[j]]
  BY DEF AskAgain
<1>3. /\ page[j] \in Response /\ page[j] # None /\ kept[j] = page[j].body /\ kept[j] # None
      /\ Loads(j, kept[j]) /\ left[j] > 0
  <2>1. LocalsSound(j) /\ page[j] # None BY <1>1, <1>2 DEF LocalsSound
  <2>2. QED BY <1>1, <1>2, <2>1 DEF LocalsSound, UnitTypes
<1>4. UNCHANGED records \/ AsksRecorded(j) BY DEF AskAgain
<1>5. /\ records' \in [Job -> SUBSET Row]
      /\ \A i \in Job : i # j => records'[i] = records[i]
      /\ RecordsSound(j)'
  <2>1. UNCHANGED records \/ Records(j, "pending", "PRICE_CHANGE_CONFIRMATION_REQUIRED", TRUE)
    BY <1>4 DEF AsksRecorded
  <2>2. "PRICE_CHANGE_CONFIRMATION_REQUIRED" \in Codes \cup {None} BY DEF Codes
  <2>3. QED BY <1>1, <1>2, <2>1, <2>2, WritingKeepsRecords
<1>6. CASE /\ AsksRecorded(j) /\ ForgetsPage(j) /\ Issue(j) /\ stage' = [stage EXCEPT ![j] = "fetching"]
  <2>1. FetchInv' BY <1>1, <1>6, IssueKeepsFetchInv DEF EvidenceAssumption
  <2>2. page' = [page EXCEPT ![j] = None] /\ kept' = [kept EXCEPT ![j] = None] BY <1>6 DEF ForgetsPage
  <2>3. UnitTypes' BY <1>1, <1>2, <1>3, <1>5, <1>6, <2>2 DEF UnitTypes
  <2>4. \E r \in records'[j] : r.unit = left[j] /\ r.raw = page[j].body
    <3>1. PICK r : r = RecordOf(j, "pending", "PRICE_CHANGE_CONFIRMATION_REQUIRED", TRUE) OBVIOUS
    <3>2. r.unit = left[j] /\ r.raw = kept[j] BY <3>1 DEF RecordOf
    <3>3. records' = [records EXCEPT ![j] = @ \cup {r}] BY <1>6, <3>1 DEF AsksRecorded, Records
    <3>4. r \in records'[j] BY <1>1, <3>3 DEF UnitTypes
    <3>5. QED BY <1>3, <3>2, <3>4
  <2>5. LocalsSound(j)'
    <3>1. /\ stage'[j] = "fetching" /\ page'[j] = None /\ kept'[j] = None /\ left'[j] = left[j]
          /\ first'[j] = page[j] /\ files' = files
      BY <1>1, <1>2, <1>6, <2>2 DEF UnitTypes
    <3>2. QED BY <1>3, <2>4, <3>1 DEF LocalsSound, HasRecord, Loads
  <2>6. ASSUME NEW i \in Job, i # j PROVE LocalsSound(i)' /\ RecordsSound(i)'
    BY <1>1, <1>2, <1>5, <1>6, <2>2, <2>6, OtherJobStays DEF UnitTypes
  <2>7. QED BY <1>5, <2>1, <2>3, <2>5, <2>6, InvFromJobs
<1>7. CASE UNCHANGED <<page, kept>> /\ UNCHANGED fetchVars /\ stage' = [stage EXCEPT ![j] = "failing"]
  <2>1. FetchInv' BY <1>1, <1>7, StandingKeepsFetchInv
  <2>2. UnitTypes' BY <1>1, <1>2, <1>3, <1>5, <1>7 DEF UnitTypes
  <2>3. LocalsSound(j)' BY <1>1, <1>2, <1>3, <1>7 DEF LocalsSound, UnitTypes, Loads
  <2>4. ASSUME NEW i \in Job, i # j PROVE LocalsSound(i)' /\ RecordsSound(i)'
    BY <1>1, <1>2, <1>5, <1>7, <2>4, OtherJobStays DEF UnitTypes
  <2>5. QED BY <1>5, <2>1, <2>2, <2>3, <2>4, InvFromJobs
<1>8. QED BY <1>6, <1>7 DEF AskAgain, Enters

LEMMA FinishingKeepsInv ==
  ASSUME EvidenceAssumption, EvidenceInv, NEW j \in Job,
         Commit(j) \/ RecordFailure(j) \/ RecordFailureFails(j)
  PROVE  EvidenceInv'
<1>1. FetchInv /\ UnitTypes /\ \A i \in Job : LocalsSound(i) /\ RecordsSound(i) BY InvByJob
<1>2. stage[j] \in {"committing", "failing"} /\ files' = files /\ UNCHANGED fetchVars
  BY DEF Commit, RecordFailure, RecordFailureFails
<1>3. FetchInv' BY <1>1, <1>2, StandingKeepsFetchInv
<1>4. left[j] > 0 BY <1>1, <1>2 DEF LocalsSound
<1>5. /\ page' = [page EXCEPT ![j] = None] /\ kept' = [kept EXCEPT ![j] = None]
      /\ first' = [first EXCEPT ![j] = None] /\ verdict' = [verdict EXCEPT ![j] = None]
  BY DEF Commit, RecordFailure, RecordFailureFails, NextUnit, Leaves
<1>6. PICK s \in {"idle", "stopped"} : stage' = [stage EXCEPT ![j] = s]
  BY DEF Commit, RecordFailure, RecordFailureFails, NextUnit, Enters
<1>7. left' = [left EXCEPT ![j] = @ - 1] \/ left' = left
  BY DEF Commit, RecordFailure, RecordFailureFails, NextUnit
<1>8. left' \in [Job -> 0 .. MaxUnits] /\ \A i \in Job : i # j => left'[i] = left[i]
  BY <1>1, <1>4, <1>7 DEF UnitTypes, EvidenceAssumption
<1>9. /\ records' \in [Job -> SUBSET Row]
      /\ \A i \in Job : i # j => records'[i] = records[i]
      /\ RecordsSound(j)'
  <2>1. \/ UNCHANGED records \/ Records(j, "failure", "ERROR", Unproven(j))
        \/ Records(j, "rows", StoredCode(j), Unproven(j))
    BY DEF Commit, StoreRows, RecordFailure, RecordFailureFails
  <2>2. StoredCode(j) \in Codes \cup {None} /\ Unproven(j) \in BOOLEAN BY <1>1, StoredFields
  <2>3. "ERROR" \in Codes \cup {None} BY DEF Codes
  <2>4. CASE UNCHANGED records \/ Records(j, "failure", "ERROR", Unproven(j))
    BY <1>2, <2>2, <2>3, <2>4, WritingKeepsRecords
  <2>5. CASE Records(j, "rows", StoredCode(j), Unproven(j)) BY <1>2, <2>2, <2>5, WritingKeepsRecords
  <2>6. QED BY <2>1, <2>4, <2>5
<1>10. UnitTypes' BY <1>1, <1>2, <1>5, <1>6, <1>8, <1>9 DEF UnitTypes
<1>11. LocalsSound(j)' BY <1>1, <1>5, <1>6, ForgettingIsSound DEF UnitTypes
<1>12. ASSUME NEW i \in Job, i # j PROVE LocalsSound(i)' /\ RecordsSound(i)'
  <2>1. /\ stage'[i] = stage[i] /\ page'[i] = page[i] /\ kept'[i] = kept[i] /\ first'[i] = first[i]
    BY <1>1, <1>5, <1>6, <1>12 DEF UnitTypes
  <2>2. QED BY <1>1, <1>2, <1>8, <1>9, <1>12, <2>1, OtherJobStays
<1>13. QED BY <1>3, <1>9, <1>10, <1>11, <1>12, InvFromJobs

\* Whether the rows were stored or not, the failing unit still holds its page.
LEMMA CommitFailsKeepsInv ==
  ASSUME EvidenceAssumption, EvidenceInv, NEW j \in Job, CommitFails(j)
  PROVE  EvidenceInv'
<1>1. FetchInv /\ UnitTypes /\ \A i \in Job : LocalsSound(i) /\ RecordsSound(i) BY InvByJob
<1>2. /\ stage[j] = "committing" /\ UNCHANGED <<left, page, kept, first, verdict, files>> /\ UNCHANGED fetchVars
      /\ stage' = [stage EXCEPT ![j] = "failing"]
  BY DEF CommitFails, Enters
<1>3. FetchInv' BY <1>1, <1>2, StandingKeepsFetchInv
<1>4. UNCHANGED records \/ Records(j, "rows", StoredCode(j), Unproven(j)) BY DEF CommitFails, StoreRows
<1>5. StoredCode(j) \in Codes \cup {None} /\ Unproven(j) \in BOOLEAN BY <1>1, StoredFields
<1>6. /\ records' \in [Job -> SUBSET Row]
      /\ \A i \in Job : i # j => records'[i] = records[i]
      /\ RecordsSound(j)'
      /\ \A n, b : HasRecord(j, n, b) => HasRecord(j, n, b)'
  BY <1>2, <1>4, <1>5, WritingKeepsRecords
<1>7. UnitTypes' BY <1>1, <1>2, <1>6 DEF UnitTypes
<1>8. LocalsSound(j)'
  <2>1. stage'[j] = "failing" BY <1>1, <1>2 DEF UnitTypes
  <2>2. first[j] # None => Loads(j, first[j].body) /\ HasRecord(j, left[j], first[j].body)
    BY <1>1, <1>2 DEF LocalsSound
  <2>3. first[j] # None => \E r \in records'[j] : r.unit = left[j] /\ r.raw = first[j].body
    BY <2>2, <1>6 DEF HasRecord
  <2>4. QED BY <1>1, <1>2, <2>1, <2>2, <2>3 DEF LocalsSound, HasRecord, Loads
<1>9. ASSUME NEW i \in Job, i # j PROVE LocalsSound(i)' /\ RecordsSound(i)'
  BY <1>1, <1>2, <1>6, <1>9, OtherJobStays DEF UnitTypes
<1>10. QED BY <1>3, <1>6, <1>7, <1>8, <1>9, InvFromJobs

\* The process dies between any two steps: what is on disk and in the database
\* was sound before it died.
LEMMA CrashKeepsInv ==
  ASSUME EvidenceAssumption, EvidenceInv, Crash
  PROVE  EvidenceInv'
<1>1. FetchInv /\ UnitTypes /\ \A i \in Job : LocalsSound(i) /\ RecordsSound(i) BY InvByJob
<1>2. /\ stage' = [i \in Job |-> "stopped"] /\ UNCHANGED <<left, page, kept, first, verdict, files, records>>
      /\ UNCHANGED fetchVars
  BY DEF Crash
<1>3. FetchInv' BY <1>1, <1>2, StandingKeepsFetchInv
<1>4. UnitTypes' BY <1>1, <1>2 DEF UnitTypes
<1>5. ASSUME NEW i \in Job PROVE LocalsSound(i)' /\ RecordsSound(i)'
  <2>1. RecordsSound(i)' BY <1>1, <1>2, RecordsStay
  <2>2. first[i] # None => \/ HasRecord(i, left[i], first[i].body)
                           \/ kept[i] = first[i].body
    BY <1>1 DEF LocalsSound
  <2>3. stage'[i] = "stopped" BY <1>2
  <2>4. LocalsSound(i)' BY <1>1, <1>2, <2>2, <2>3 DEF LocalsSound, HasRecord, Loads
  <2>5. QED BY <2>1, <2>4
<1>6. QED BY <1>3, <1>4, <1>5, InvFromJobs

\* Steps of the fetcher do not touch a unit.
LEMMA FetchingKeepsInv ==
  ASSUME EvidenceAssumption, FetchAssumption, EvidenceInv,
         (\E t \in Task : Visit(t) \/ Travel(t)) \/ Pass
  PROVE  EvidenceInv'
<1>1. FetchInv /\ UnitTypes /\ \A i \in Job : LocalsSound(i) /\ RecordsSound(i) BY InvByJob
<1>2. UNCHANGED unitVars BY DEF Visit, Travel, Pass
<1>3. UNCHANGED <<stage, left, page, kept, first, verdict, files, records>> BY <1>2 DEF unitVars
<1>4. FetchInv'
  <2>1. CASE Pass BY <1>1, <2>1, TickKeepsFetchInv DEF Pass
  <2>2. ASSUME NEW t \in Task, Visit(t) \/ Travel(t) PROVE FetchInv'
    BY <1>1, <2>2, IssueKeepsFetchInv, ReturnKeepsFetchInv, FetchStepKeepsFetchInv DEF Visit, Travel
  <2>3. QED BY <2>1, <2>2
<1>5. UnitTypes' BY <1>1, <1>3 DEF UnitTypes
<1>6. ASSUME NEW i \in Job PROVE LocalsSound(i)' /\ RecordsSound(i)'
  BY <1>1, <1>3, OtherJobStays
<1>7. QED BY <1>4, <1>5, <1>6, InvFromJobs

LEMMA StutterKeepsInv ==
  ASSUME EvidenceInv, UNCHANGED vars
  PROVE  EvidenceInv'
<1>1. FetchInv /\ UnitTypes /\ \A i \in Job : LocalsSound(i) /\ RecordsSound(i) BY InvByJob
<1>2. UNCHANGED fetchVars /\ UNCHANGED unitVars BY DEF vars
<1>3. UNCHANGED <<stage, left, page, kept, first, verdict, files, records>> BY <1>2 DEF unitVars
<1>4. FetchInv' BY <1>1, <1>2, StandingKeepsFetchInv
<1>5. UnitTypes' BY <1>1, <1>3 DEF UnitTypes
<1>6. ASSUME NEW i \in Job PROVE LocalsSound(i)' /\ RecordsSound(i)'
  BY <1>1, <1>3, OtherJobStays
<1>7. QED BY <1>4, <1>5, <1>6, InvFromJobs

LEMMA InitIsSound ==
  ASSUME EvidenceAssumption, FetchAssumption, Init
  PROVE  EvidenceInv
<1>1. FetchTypes BY DEF Init, FetchInit, FetchTypes
<1>2. OnePacer /\ PacersWaitEnough BY DEF Init, FetchInit, OnePacer, PacersWaitEnough
<1>3. MaxUnits \in 0 .. MaxUnits BY DEF EvidenceAssumption
<1>4. UnitTypes BY <1>3 DEF Init, UnitTypes
<1>5. LocalsFitStage /\ KeptIsSaved /\ FirstIsSaved BY DEF Init, LocalsFitStage, KeptIsSaved, FirstIsSaved
<1>6. EvidenceIsWhole /\ RecordsSpeakOfTheirPage /\ FirstPageIsKept
  BY DEF Init, EvidenceIsWhole, RecordsSpeakOfTheirPage, FirstPageIsKept
<1>7. QED BY <1>1, <1>2, <1>4, <1>5, <1>6 DEF EvidenceInv, FetchInv

-----------------------------------------------------------------------------
(* Theorems.                                                               *)

\* Files, records and the locals of every unit agree at every step of every
\* job, whatever is fetched, fails or crashes.
THEOREM EvidenceInvariant == Spec => []EvidenceInv
<1>1. Init => EvidenceInv BY InitIsSound, EvidenceAssumption, FetchAssumption
<1>2. ASSUME EvidenceInv, [Next]_vars PROVE EvidenceInv'
  <2>1. ASSUME NEW j \in Job, Begin(j) \/ UnitStep(j) \/ UnitFault(j) PROVE EvidenceInv'
    BY <1>2, <2>1, BeginKeepsInv, ReceiveKeepsInv, SaveKeepsInv, JudgingKeepsInv, AskAgainKeepsInv,
       FinishingKeepsInv, CommitFailsKeepsInv, EvidenceAssumption DEF UnitStep, UnitFault
  <2>2. CASE (\E t \in Task \ Job : Visit(t)) \/ (\E t \in Task : Travel(t)) \/ Pass
    BY <1>2, <2>2, FetchingKeepsInv, EvidenceAssumption, FetchAssumption
  <2>3. CASE Crash BY <1>2, <2>3, CrashKeepsInv, EvidenceAssumption
  <2>4. CASE UNCHANGED vars BY <1>2, <2>4, StutterKeepsInv
  <2>5. QED BY <1>2, <2>1, <2>2, <2>3, <2>4 DEF Next
<1>3. QED BY <1>1, <1>2, PTL DEF Spec

\* RawArtifactStore and v2_crawl_record: a record never names a file that is
\* missing or half written, whichever write failed and whenever the process died.
THEOREM EvidenceIsWholeTheorem == Spec => []EvidenceIsWhole
<1>1. EvidenceInv => EvidenceIsWhole BY DEF EvidenceInv
<1>2. QED BY <1>1, EvidenceInvariant, PTL

\* _process_unit: result and artifact of a record are of one page, also after
\* the product was fetched a second time.
THEOREM RecordsSpeakTheorem == Spec => []RecordsSpeakOfTheirPage
<1>1. EvidenceInv => RecordsSpeakOfTheirPage BY DEF EvidenceInv
<1>2. QED BY <1>1, EvidenceInvariant, PTL

\* _process_unit: the first page of a confirmation has a record of its own
\* before the second request, and whenever a later record refers to it.
THEOREM FirstPageTheorem == Spec => []FirstPageIsKept
<1>1. EvidenceInv => FirstPageIsKept BY DEF EvidenceInv
<1>2. QED BY <1>1, EvidenceInvariant, PTL

\* DomainThrottle.slot: the wait read before a sleep is still long enough
\* after it, so no request precedes the delay drawn by the one before it.
THEOREM SendsAreSpacedTheorem == Spec => SendsAreSpaced
<1>1. ASSUME EvidenceInv, [Next]_vars
      PROVE  [\A t \in Task : at[t] = "pacing" /\ at'[t] = "sent" => cooldown[host[t]] = 0]_fetchVars
  <2>1. FetchInv BY <1>1 DEF EvidenceInv
  <2>2. SUFFICES ASSUME NEW t \in Task, at[t] = "pacing", at'[t] = "sent" PROVE cooldown[host[t]] = 0
    OBVIOUS
  <2>3. \E u \in Task : FetchStep(u) \/ Issue(u) \/ Return(u)
    <3>1. CASE UNCHANGED fetchVars BY <2>2, <3>1 DEF fetchVars
    <3>2. CASE Pass BY <2>2, <3>2 DEF Pass, Tick
    <3>3. CASE \E v \in Task : Visit(v) \/ Travel(v) BY <3>3 DEF Visit, Travel
    <3>4. CASE \E j \in Job : Begin(j) \/ UnitStep(j) \/ UnitFault(j)
      <4>1. PICK j \in Job : Begin(j) \/ UnitStep(j) \/ UnitFault(j) BY <3>4
      <4>2. j \in Task BY EvidenceAssumption DEF EvidenceAssumption
      <4>3. Issue(j) \/ Return(j) \/ UNCHANGED fetchVars
        BY <4>1 DEF Begin, UnitStep, UnitFault, Receive, Save, Reject, Judge, AskAgain, Commit,
                    RecordFailure, CommitFails, RecordFailureFails
      <4>4. QED BY <3>1, <4>2, <4>3
    <3>5. CASE Crash BY <3>1, <3>5 DEF Crash
    <3>6. QED BY <1>1, <3>1, <3>2, <3>3, <3>4, <3>5 DEF Next, vars
  <2>4. Send(t)
    <3>1. PICK u \in Task : FetchStep(u) \/ Issue(u) \/ Return(u) BY <2>3
    <3>2. CASE Send(u) BY <2>1, <2>2, <3>2 DEF Send, MovesTo, FetchInv, FetchTypes
    <3>3. CASE Pace(u) BY <2>1, <2>2, <3>3 DEF Pace, MovesTo, FetchInv, FetchTypes
    <3>4. CASE Answer(u) \/ Redirect(u) \/ Again(u) \/ Issue(u) \/ Return(u)
      BY <2>1, <2>2, <3>4 DEF Answer, Ends, Retry, Redirect, Again, Issue, Return, Enqueue, MovesTo, FetchInv, FetchTypes
    <3>5. QED BY <3>1, <3>2, <3>3, <3>4 DEF FetchStep
  <2>5. wait[t] = 0 BY <2>4 DEF Send
  <2>6. cooldown[host[t]] <= wait[t] /\ cooldown[host[t]] \in Nat BY <2>1, <2>2 DEF FetchInv, FetchTypes, PacersWaitEnough
  <2>7. QED BY <2>5, <2>6
<1>2. QED BY <1>1, EvidenceInvariant, PTL DEF Spec, SendsAreSpaced
=============================================================================

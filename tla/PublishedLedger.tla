---------------------------- MODULE PublishedLedger ----------------------------
(***************************************************************************)
(* The price tables together with what the source last said.  published is *)
(* a history variable: for each listing and region the trusted content the *)
(* source gave most recently for the newest time it has spoken about.      *)
(***************************************************************************)
EXTENDS PriceLedger

VARIABLE published \* [Listing -> [Region -> [time, value, news]]]

historyVars == <<vars, published>>

Silence == [time |-> 0, value |-> None, news |-> FALSE]

\* Nothing trusted said v of listing l in region g for time t before.
IsNews(l, g, t, v) ==
  \A f \in Trusted(l) : ~ (f.region = g /\ f.time = t /\ f.value = v)

\* A row that the transaction accepts is a publication of its time.
Publishes(l, t, o) ==
  published' = [published EXCEPT ![l] =
    [g \in Region |->
       IF g \in AcceptedIn(o) /\ t >= published[l][g].time
       THEN [time |-> t, value |-> o[g].value, news |-> IsNews(l, g, t, o[g].value)]
       ELSE published[l][g]]]

HistoryInit ==
  /\ Init
  /\ published = [l \in Listing |-> [g \in Region |-> Silence]]

HistoryNext ==
  \E l \in Listing :
    \/ \E r \in Fingerprint, t \in Time :
         \/ \E q \in Quality :
              RecordIdentity(l, r, q, t) /\ UNCHANGED published
         \/ \E o \in Offers(l), rel \in Release :
              /\ Offered(o) # {}
              /\ PersistDeviceRow(l, r, t, o, rel) \/ PersistDatasetRow(l, r, t, o, rel)
              /\ Publishes(l, t, o)
    \/ \E t \in Time, v \in Value, rel \in Release :
         /\ PersistProductAbsence(l, t, v, rel)
         /\ published' = [published EXCEPT ![l] =
              [g \in Region |-> IF g \in RegionsOf[l]
                                THEN [time |-> t, value |-> v, news |-> TRUE]
                                ELSE published[l][g]]]
    \/ RebuildCurrent(l) /\ UNCHANGED published

HistorySpec == HistoryInit /\ [][HistoryNext]_historyVars

-----------------------------------------------------------------------------
\* What the projection shows of listing l in region g is what the source said.
ShowsPublished(l, g) ==
  current[l][g].time = published[l][g].time =>
    \E f \in Trusted(l) :
      /\ f.region = g /\ QuoteOf(f) = current[l][g]
      /\ f.value = published[l][g].value

\* Whenever the projection shows the newest time the source has spoken about,
\* it shows what the source said last about that time: a changed statement is
\* a correction that record links and advances to, or it is refused.
ShowsLastPublication ==
  \A l \in Listing, g \in Region : current[l][g] # NoQuote => ShowsPublished(l, g)

\* The same, for a last statement whose content that time had not seen yet: a
\* first quote, or a correction to a new content, is what a reader sees.
\* It speaks of listings quoted in one region: in several, a row of another
\* identity than the current one may be older than what another region shows,
\* and is then recorded only.
ShowsLastNews ==
  \A l \in Listing, g \in Region :
    current[l][g] # NoQuote /\ published[l][g].news => ShowsPublished(l, g)

\* The row of listing l in region g is that of the last statement.
ShowsLast(l, g) ==
  /\ current[l][g].time = published[l][g].time
  /\ current[l][g] # NoQuote => ShowsPublished(l, g)

\* For a device listing the projection is never behind the source: it shows the
\* newest time with trusted evidence, and what the source said last about it.
DevicesShowLastPublication ==
  \A l \in Listing \ Dataset, g \in Region : ShowsLast(l, g)

-----------------------------------------------------------------------------
(* The inductive invariant of the proofs.                                  *)

PublishedTypeOK ==
  published \in [Listing -> [Region -> [time : Nat, value : Value \cup {None}, news : BOOLEAN]]]

\* While the last statement about a time is news, its fact is the last one
\* recorded of that time, and a row of that time is its row.
NewsIsNewest(l, g) ==
  published[l][g].news =>
    \E f \in Trusted(l) :
      /\ f.region = g /\ f.time = published[l][g].time /\ f.value = published[l][g].value
      /\ \A h \in Trusted(l) : h.region = g /\ h.time = f.time => h.id <= f.id
      /\ current[l][g].time = f.time => current[l][g] = QuoteOf(f)

HistoryInv ==
  /\ OneRegionInv
  /\ PublishedTypeOK
  /\ DevicesShowLastPublication
  /\ \A l \in Listing : QuotedOnce(l) => \A g \in Region : NewsIsNewest(l, g)
=============================================================================

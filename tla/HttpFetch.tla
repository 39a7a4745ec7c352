------------------------------ MODULE HttpFetch ------------------------------
(***************************************************************************)
(* HttpFetcher.fetch of several tasks that share one DomainThrottle: the   *)
(* jobs of the scheduler run in one event loop with one fetcher.  A fetch  *)
(* is at most RetryAttempts chains of at most MaxRedirects + 1 requests.   *)
(* Every request takes a slot of its host: a place in the semaphore, then  *)
(* the timing lock, a wait until the next request is allowed, and the      *)
(* request.  Tasks give way only where the code awaits, so that the code   *)
(* between two awaits is one step.  Time is counted in ticks.              *)
(***************************************************************************)
EXTENDS Integers, Sequences

CONSTANTS
  Task,           \* tasks that fetch
  Host,           \* allowed hosts
  Concurrency,    \* http_concurrency_per_domain
  MinDelay,       \* http_min_delay_seconds
  MaxDelay,       \* http_max_delay_seconds
  RetryAttempts,  \* retry_attempts
  MaxRedirects,   \* http_max_redirects
  MaxBackoff      \* longest pause before a retry

ASSUME FetchAssumption ==
  /\ Concurrency \in Nat \ {0} /\ RetryAttempts \in Nat \ {0}
  /\ MinDelay \in Nat /\ MaxDelay \in Nat /\ MinDelay <= MaxDelay
  /\ MaxRedirects \in Nat /\ MaxBackoff \in Nat

VARIABLES
  at,        \* [Task -> where the task is in fetch]
  host,      \* [Task -> host of the request or of the first one of a retry]
  attempt,   \* [Task -> chains begun]
  hop,       \* [Task -> redirects followed in this chain]
  wait,      \* [Task -> ticks the task still sleeps]
  line,      \* [Host -> tasks in the order they asked for the semaphore]
  cooldown   \* [Host -> ticks until _next_allowed]

fetchVars == <<at, host, attempt, hop, wait, line, cooldown>>

Ended == {"got", "raised"}

MovesTo(t, place) == at' = [at EXCEPT ![t] = place]

\* _fetch_redirect_chain asks for a slot of a host.
Enqueue(t, h) ==
  /\ host' = [host EXCEPT ![t] = h]
  /\ MovesTo(t, "queued")
  /\ line' = [line EXCEPT ![h] = Append(@, t)]

Issue(t) ==
  /\ at[t] = "idle"
  /\ \E h \in Host : Enqueue(t, h)
  /\ attempt' = [attempt EXCEPT ![t] = 1]
  /\ hop' = [hop EXCEPT ![t] = 0]
  /\ UNCHANGED <<wait, cooldown>>

-----------------------------------------------------------------------------
(* DomainThrottle.slot.  Semaphore and lock serve in order of arrival.     *)

HoldsSemaphore(t) ==
  \E i \in DOMAIN line[host[t]] : i <= Concurrency /\ line[host[t]][i] = t

Pacing(h) == {t \in Task : at[t] = "pacing" /\ host[t] = h}

\* The tasks before t in its line have taken the timing lock already.
IsNext(t) ==
  \A i, j \in DOMAIN line[host[t]] :
    i < j /\ line[host[t]][j] = t => at[line[host[t]][i]] # "queued"

TimingLockUnused(t) == TRUE
TimingLockFree(t) == Pacing(host[t]) = {} /\ IsNext(t)

\* The time to wait is read once, and slept.
Pace(t) ==
  /\ at[t] = "queued"
  /\ HoldsSemaphore(t)
  /\ TimingLockFree(t)
  /\ MovesTo(t, "pacing")
  /\ wait' = [wait EXCEPT ![t] = cooldown[host[t]]]
  /\ UNCHANGED <<host, attempt, hop, line, cooldown>>

\* The next request is allowed after a random delay; this one is sent.
Send(t) ==
  /\ at[t] = "pacing"
  /\ wait[t] = 0
  /\ MovesTo(t, "sent")
  /\ \E d \in MinDelay .. MaxDelay : cooldown' = [cooldown EXCEPT ![host[t]] = d]
  /\ UNCHANGED <<host, attempt, hop, wait, line>>

-----------------------------------------------------------------------------
(* The answer of the host.  The slot is given back first, whatever it is.  *)

Leave(t) == [line EXCEPT ![host[t]] = SelectSeq(@, LAMBDA u : u # t)]

\* A result goes to the caller: any status that is not retried, a redirect
\* without location, or a retried status at the last attempt; fetch raises for
\* a page that is too large or a location outside the allowlist.
Ends(t, place) ==
  /\ at[t] = "sent"
  /\ MovesTo(t, place)
  /\ line' = Leave(t)
  /\ UNCHANGED <<host, attempt, hop, wait, cooldown>>

\* 429 or a server error pauses as long as it asks, but 30 seconds at most,
\* an error of the connection for the backoff of the attempt.
Retries(t) == attempt[t] < RetryAttempts

Retry(t) ==
  /\ at[t] = "sent"
  /\ Retries(t)
  /\ MovesTo(t, "backoff")
  /\ line' = Leave(t)
  /\ \E d \in 0 .. MaxBackoff : wait' = [wait EXCEPT ![t] = d]
  /\ UNCHANGED <<host, attempt, hop, cooldown>>

\* The error of the last attempt becomes HttpFetchError.
Answer(t) == Ends(t, "got") \/ Ends(t, "raised") \/ Retry(t)

\* A redirect inside the allowlist, followed unless the chain is too long.
Follows(t) == hop[t] < MaxRedirects

Redirect(t) ==
  /\ at[t] = "sent"
  /\ Follows(t)
  /\ hop' = [hop EXCEPT ![t] = @ + 1]
  /\ \E h \in Host :
       /\ host' = [host EXCEPT ![t] = h]
       /\ line' = [Leave(t) EXCEPT ![h] = Append(@, t)]
  /\ MovesTo(t, "queued")
  /\ UNCHANGED <<attempt, wait, cooldown>>

\* After the pause the next attempt starts a new chain at the first address.
AgainUncounted(t) ==
  /\ at[t] = "backoff"
  /\ wait[t] = 0
  /\ \E h \in Host : Enqueue(t, h)
  /\ hop' = [hop EXCEPT ![t] = 0]
  /\ UNCHANGED <<wait, cooldown, attempt>>
Again(t) ==
  /\ at[t] = "backoff"
  /\ wait[t] = 0
  /\ \E h \in Host : Enqueue(t, h)
  /\ attempt' = [attempt EXCEPT ![t] = @ + 1]
  /\ hop' = [hop EXCEPT ![t] = 0]
  /\ UNCHANGED <<wait, cooldown>>

\* The caller has the result or the exception; the locals of fetch are gone.
Return(t) ==
  /\ at[t] \in Ended
  /\ MovesTo(t, "idle")
  /\ attempt' = [attempt EXCEPT ![t] = 0]
  /\ hop' = [hop EXCEPT ![t] = 0]
  /\ UNCHANGED <<host, wait, line, cooldown>>

Tick ==
  /\ \/ \E t \in Task : wait[t] > 0
     \/ \E h \in Host : cooldown[h] > 0
  /\ wait' = [t \in Task |-> IF wait[t] = 0 THEN 0 ELSE wait[t] - 1]
  /\ cooldown' = [h \in Host |-> IF cooldown[h] = 0 THEN 0 ELSE cooldown[h] - 1]
  /\ UNCHANGED <<at, host, attempt, hop, line>>

-----------------------------------------------------------------------------
FetchInit ==
  /\ at = [t \in Task |-> "idle"]
  /\ host \in [Task -> Host]
  /\ attempt = [t \in Task |-> 0]
  /\ hop = [t \in Task |-> 0]
  /\ wait = [t \in Task |-> 0]
  /\ line = [h \in Host |-> <<>>]
  /\ cooldown = [h \in Host |-> 0]

\* What a fetch does by itself once it is issued.
FetchStep(t) == Pace(t) \/ Send(t) \/ Answer(t) \/ Redirect(t) \/ Again(t)

-----------------------------------------------------------------------------
(* What the throttle relies on.                                            *)

FetchTypes ==
  /\ at \in [Task -> {"idle", "queued", "pacing", "sent", "backoff", "got", "raised"}]
  /\ host \in [Task -> Host]
  /\ wait \in [Task -> Nat]
  /\ cooldown \in [Host -> Nat]

\* The timing lock: one task at a time sleeps before its request to a host.
OnePacer == \A t, u \in Task : at[t] = "pacing" /\ at[u] = "pacing" /\ host[t] = host[u] => t = u

\* The time read before the sleep is still long enough after it.
PacersWaitEnough == \A t \in Task : at[t] = "pacing" => cooldown[host[t]] <= wait[t]

FetchInv == FetchTypes /\ OnePacer /\ PacersWaitEnough

-----------------------------------------------------------------------------
(* Properties.                                                             *)

\* No request goes to a host before the delay drawn for the one before it has
\* passed, whoever sent that one: retries, redirects and other tasks included.
SendsAreSpaced ==
  [][\A t \in Task : at[t] = "pacing" /\ at'[t] = "sent" => cooldown[host[t]] = 0]_fetchVars
=============================================================================

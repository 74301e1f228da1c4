------------------------------- MODULE Publisher -------------------------------
(****************************************************************************)
(* The requests of one phase 2 run (internal/apim/publisher.go): page after *)
(* page of the list of APIs, then the detail of each published one, fetched *)
(* by goroutines behind a semaphore; every request with the retries of      *)
(* internal/httputil/retry.go.  The API Manager is external: a list that    *)
(* administrators change between two requests.                              *)
(****************************************************************************)
EXTENDS Integers, SequencesExt

CONSTANTS
    Api,           \* APIs of the API Manager, in any lifecycle state
    PageSize,      \* pageSize: 200 in the code
    Concurrency,   \* managed.fetch_concurrency
    MaxAttempts,   \* MaxAttempts of DoWithRetry
    MaxChanges     \* changes of the list during a run: a bound for TLC

ASSUME PublisherAssumption ==
    /\ IsFiniteSet(Api)
    /\ PageSize \in Nat \ {0} /\ Concurrency \in Nat \ {0}
    /\ MaxAttempts \in Nat \ {0} /\ MaxChanges \in Nat

VARIABLES
    catalogue,   \* the APIs in the order of the listing
    published,   \* those in state PUBLISHED
    changes,     \* changes so far
    stable,      \* history: APIs that have been published since the run began
    inserted,    \* history: an API was created during the run
    deleted,     \* history: an API was deleted during the run
    pc,          \* ListPublishedAPIs and then FetchDetails of the run
    offset,      \* offset of the next page
    attempt,     \* attempt of the request for the page
    listed,      \* all: the APIs listed so far
    worker,      \* worker[i]: the goroutine for listed[i]
    tries,       \* tries[i]: its attempt
    free         \* free places in sem

list == <<catalogue, published, changes, stable, inserted, deleted>>
fetching == <<worker, tries, free>>
publisherVars == <<list, pc, offset, attempt, listed, fetching>>

Working(i) == worker[i] = "running"

\* The places of the semaphore are free or held by a running goroutine, one
\* goroutine for each API that has been taken from the list so far.
PublisherTypeOK ==
    /\ catalogue \in Seq(Api) /\ published \subseteq ToSet(catalogue)
    /\ changes \in 0 .. MaxChanges
    /\ stable \subseteq published
    /\ inserted \in BOOLEAN /\ deleted \in BOOLEAN
    /\ pc \in {"list", "fetch", "returned", "failed"}
    /\ offset \in Nat /\ attempt \in 1 .. MaxAttempts
    /\ listed \in Seq(Api)
    /\ worker \in Seq({"running", "got", "error"}) /\ Len(worker) <= Len(listed)
    /\ tries \in [DOMAIN worker -> 1 .. MaxAttempts]
    /\ free = Concurrency - Cardinality({i \in DOMAIN worker : Working(i)})
    /\ free >= 0

PublisherInit ==
    /\ catalogue \in {SetToSeq(S) : S \in SUBSET Api}   \* an order is as good as another
    /\ published \in SUBSET ToSet(catalogue)
    /\ changes = 0
    /\ stable = published
    /\ inserted = FALSE
    /\ deleted = FALSE
    /\ pc = "list"
    /\ offset = 0
    /\ attempt = 1
    /\ listed = <<>>
    /\ worker = <<>>
    /\ tries = <<>>
    /\ free = Concurrency

----------------------------------------------------------------------------
(* The administrators. *)

Changing ==
    /\ changes < MaxChanges
    /\ changes' = changes + 1
    /\ UNCHANGED <<pc, offset, attempt, listed, fetching>>

\* A new API appears anywhere in the listing.
Create(a) ==
    /\ Changing
    /\ a \notin ToSet(catalogue)
    /\ \E i \in 1 .. Len(catalogue) + 1 : catalogue' = InsertAt(catalogue, i, a)
    /\ inserted' = TRUE
    /\ UNCHANGED <<published, stable, deleted>>

Delete(a) ==
    /\ Changing
    /\ \E i \in DOMAIN catalogue : catalogue[i] = a /\ catalogue' = RemoveAt(catalogue, i)
    /\ published' = published \ {a}
    /\ stable' = stable \ {a}
    /\ deleted' = TRUE
    /\ UNCHANGED inserted

\* An API is published or withdrawn and keeps its place in the listing.
ChangeLifecycle(a) ==
    /\ Changing
    /\ a \in ToSet(catalogue)
    /\ published' = IF a \in published THEN published \ {a} ELSE published \cup {a}
    /\ stable' = stable \ {a}
    /\ UNCHANGED <<catalogue, inserted, deleted>>

----------------------------------------------------------------------------
(* ListPublishedAPIs. *)

Page == SubSeq(catalogue, offset + 1, Min({offset + PageSize, Len(catalogue)}))

\* The published APIs of the page; their order is left open.
Kept == ToSet(Page) \cap published

\* The next page starts behind the APIs that were kept.
NextOffset_Kept == offset + Cardinality(Kept)

NextOffset == offset + PageSize

\* The last page has no link to a next one; Total is the number of APIs.
LastPage == NextOffset >= Len(catalogue)

\* A page arrives: keep the published APIs, client-side.
ListPage ==
    /\ pc = "list"
    /\ listed' = listed \o SetToSeq(Kept)
    /\ offset' = NextOffset
    /\ attempt' = 1
    /\ pc' = IF LastPage THEN "fetch" ELSE "list"
    /\ UNCHANGED <<list, fetching>>

\* A transport error or a retryable status: back off and try again.
RetryPage ==
    /\ pc = "list"
    /\ attempt < MaxAttempts
    /\ attempt' = attempt + 1
    /\ UNCHANGED <<list, pc, offset, listed, fetching>>

\* No token, the last attempt, or another status: the listing is given up.
ListFails ==
    /\ pc = "list"
    /\ pc' = "failed"
    /\ UNCHANGED <<list, offset, attempt, listed, fetching>>

----------------------------------------------------------------------------
(* FetchDetails. *)

\* sem <- struct{}{} and go: the loop waits for a place of the semaphore.
Spawn ==
    /\ pc = "fetch"
    /\ Len(worker) < Len(listed)
    /\ free > 0
    /\ free' = free - 1
    /\ worker' = Append(worker, "running")
    /\ tries' = Append(tries, 1)
    /\ UNCHANGED <<list, pc, offset, attempt, listed>>

RetryDetail(i) ==
    /\ Working(i)
    /\ tries[i] < MaxAttempts
    /\ tries' = [tries EXCEPT ![i] = @ + 1]
    /\ UNCHANGED <<list, pc, offset, attempt, listed, worker, free>>

\* The error path returns without a deferred release.
EndDetail_KeepsPlace(i, outcome) ==
    /\ Working(i)
    /\ worker' = [worker EXCEPT ![i] = outcome]
    /\ free' = IF outcome = "got" THEN free + 1 ELSE free
    /\ UNCHANGED <<list, pc, offset, attempt, listed, tries>>

\* Under mu the detail is appended to results, or the error to errs; the
\* deferred calls release the place and count the goroutine as done.
EndDetail(i, outcome) ==
    /\ Working(i)
    /\ worker' = [worker EXCEPT ![i] = outcome]
    /\ free' = free + 1
    /\ UNCHANGED <<list, pc, offset, attempt, listed, tries>>

\* FetchDetails does not wait for the goroutines.
Return_NoWait ==
    /\ pc = "fetch"
    /\ Len(worker) = Len(listed)
    /\ pc' = "returned"
    /\ UNCHANGED <<list, offset, attempt, listed, fetching>>

\* wg.Wait returns when every goroutine is done.
Return ==
    /\ pc = "fetch"
    /\ Len(worker) = Len(listed)
    /\ \A i \in DOMAIN worker : ~Working(i)
    /\ pc' = "returned"
    /\ UNCHANGED <<list, offset, attempt, listed, fetching>>

Listing == ListPage \/ RetryPage \/ ListFails

Detail(i) ==
    \/ RetryDetail(i)
    \/ \E outcome \in {"got", "error"} : EndDetail(i, outcome)

PublisherNext ==
    \/ \E a \in Api : Create(a) \/ Delete(a) \/ ChangeLifecycle(a)
    \/ Listing
    \/ Spawn
    \/ \E i \in DOMAIN worker : Detail(i)
    \/ Return

PublisherSpec == PublisherInit /\ [][PublisherNext]_publisherVars

\* Every request is answered or times out, and the goroutines are scheduled.
PublisherFairness ==
    /\ WF_publisherVars(Listing)
    /\ WF_publisherVars(Spawn)
    /\ WF_publisherVars(\E i \in DOMAIN worker : Detail(i))
    /\ WF_publisherVars(Return)

PublisherFairSpec == PublisherSpec /\ PublisherFairness

----------------------------------------------------------------------------
(* Properties. *)

\* Pages of a list that changes between two requests: only the deletion of an
\* API may hide another one that was published all along, and only the
\* creation of one makes another appear twice.  Publishing and withdrawing do
\* neither, because the filter runs behind the paging (publisher.go:112-114).
ListingIsFaithful ==
    pc \in {"fetch", "returned"} =>
        /\ ~deleted => stable \subseteq ToSet(listed)
        /\ ~inserted => IsInjective(listed)

\* The listing begins and needs one page.
OnePage == offset = 0 /\ Len(catalogue) <= PageSize

\* What the run returns of the goroutines that ended with an outcome.
Ended(outcome) ==
    {listed[i] : i \in {j \in DOMAIN worker : pc = "returned" /\ worker[j] = outcome}}

Policy == INSTANCE FetchPolicy WITH
    onePage <- OnePage,
    stage   <- pc,
    apis    <- ToSet(listed),
    results <- Ended("got"),
    errors  <- Ended("error")

\* Pages, retries, goroutines and places add up to the two calls that phase 2
\* makes: all that is published at one moment, if there is one page, and every
\* API that was listed among the results or among the errors that
\* FetchDetails returns (publisher.go:155).
KeepsFetchPolicy == Policy!FetchSpec

\* A run comes to its end, whatever the API Manager answers: the retries end,
\* the paging ends, and no goroutine waits for a place forever.
RunReturns == <>(pc \in {"returned", "failed"})
=============================================================================

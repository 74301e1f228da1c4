------------------------------- MODULE Managed -------------------------------
(****************************************************************************)
(* Phase 2 (internal/managed/pipeline.go): list the published APIs, fetch   *)
(* the detail of each, replace the managed operations, stamp the success.   *)
(* The API Manager is external: a set of published APIs that anybody may    *)
(* change between two requests.                                             *)
(****************************************************************************)
EXTENDS Catalogue

CONSTANTS
    Stable,             \* APIs that stay published throughout a behaviour
    FetchMayFail,       \* whether the detail of a listed API may be missing
    Epoch               \* phase2_last_success of a NULL column, in 1970

ASSUME ManagedAssumption ==
    /\ Stable \in SUBSET Api
    /\ FetchMayFail \in BOOLEAN
    /\ Epoch \in Int /\ Epoch < 0

VARIABLES
    published,       \* APIs in state PUBLISHED in the API Manager
    sync,            \* sync[r]: the next step of phase 2 of replica r
    startedAt,       \* startedAt[r]: its syncStartedAt (0 when it is idle)
    apis,            \* apis[r]: the APIs it listed, then those it has the detail of
    phase2Success    \* ads_pipeline_state.phase2_last_success

SyncPC == {"idle", "list", "fetch", "sync", "stamp"}

ManagedTypeOK ==
    /\ published \in SUBSET Api
    /\ sync \in [Replica -> SyncPC]
    /\ startedAt \in [Replica -> Time]
    /\ apis \in [Replica -> SUBSET Api]
    /\ phase2Success \in Int

ManagedInit ==
    /\ published \in {P \in SUBSET Api : Stable \subseteq P}
    /\ sync = [r \in Replica |-> "idle"]
    /\ startedAt = [r \in Replica |-> 0]
    /\ apis = [r \in Replica |-> {}]
    /\ phase2Success = Epoch

SyncGoes(r, from, to) ==
    /\ sync[r] = from
    /\ sync' = [sync EXCEPT ![r] = to]

\* Run returns: its local variables are gone.
SyncReturns(r) ==
    /\ sync' = [sync EXCEPT ![r] = "idle"]
    /\ startedAt' = [startedAt EXCEPT ![r] = 0]
    /\ apis' = [apis EXCEPT ![r] = {}]

\* An administrator publishes or withdraws an API.
ChangePublished(a) ==
    /\ a \notin Stable
    /\ published' = IF a \in published THEN published \ {a} ELSE published \cup {a}
    /\ UNCHANGED <<tables, sync, startedAt, apis, phase2Success>>

\* syncStartedAt := time.Now(), microseconds apart from every other sync.
StartSync(r) ==
    /\ SyncGoes(r, "idle", "list")
    /\ \A o \in Op : syncedAt[o] < now
    /\ \A q \in Replica : startedAt[q] # now
    /\ startedAt' = [startedAt EXCEPT ![r] = now]
    /\ UNCHANGED <<tables, published, apis, phase2Success>>

ListPublishedAPIs(r) ==
    /\ SyncGoes(r, "list", "fetch")
    /\ apis' = [apis EXCEPT ![r] = published]
    /\ UNCHANGED <<tables, published, startedAt, phase2Success>>

\* FetchDetails returns the details it got.  Run logs the error and goes on.
FetchDetails(r) ==
    /\ SyncGoes(r, "fetch", "sync")
    /\ \E fetched \in SUBSET apis[r] :
          /\ ~FetchMayFail => fetched = apis[r]
          /\ apis' = [apis EXCEPT ![r] = fetched]
    /\ UNCHANGED <<tables, published, startedAt, phase2Success>>

\* The operations of a set of APIs (Expander.Expand; an API may have none).
OpsOf(fetched) == {o \in Op : ApiOf[o] \in fetched}

SyncCatalogue(r) ==
    /\ SyncGoes(r, "sync", "stamp")
    /\ SyncManaged(OpsOf(apis[r]), startedAt[r])
    /\ UNCHANGED <<published, startedAt, apis, phase2Success>>

StampPhase2(r) ==
    /\ sync[r] = "stamp"
    /\ phase2Success' = now
    /\ SyncReturns(r)
    /\ UNCHANGED <<tables, published>>

\* The listing, the transaction or the stamp fails: Run returns the error.
SyncFails(r) ==
    /\ sync[r] \in {"list", "sync", "stamp"}
    /\ SyncReturns(r)
    /\ UNCHANGED <<tables, published, phase2Success>>
=============================================================================

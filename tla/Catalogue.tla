------------------------------ MODULE Catalogue ------------------------------
(****************************************************************************)
(* The PostgreSQL tables the three phases, the retention job and the BFF    *)
(* share (internal/store and internal/store/migrations), and the SQL        *)
(* statements that change them.  Each statement is sent on its own and      *)
(* commits on its own, except the two of ManagedRepo.Sync, which share a    *)
(* transaction.  Under READ COMMITTED a statement reads the tables as they  *)
(* were when it began, and tests again, on the row it is about to change,   *)
(* only what its WHERE clause says of that row.  All statements but one     *)
(* test the row itself and are one step each; markAnchorSQL tests is_active *)
(* in a subquery, and is two.                                               *)
(*                                                                          *)
(* A boolean column is the set of the keys for which it is true, and a      *)
(* table is the set of the keys that have a row.  Columns that no statement *)
(* or predicate reads back (sample pods, durations, warnings, the stamps of *)
(* phase 1, phase 3 and retention in ads_pipeline_state) are left out.      *)
(****************************************************************************)
EXTENDS Integers

CONSTANTS
    Endpoint,          \* keys (service, method, normalized_path) of ads_discovered_apis
    Service,           \* keys service_identity of ads_services
    Op,                \* keys (apim_api_id, method, gateway_path) of ads_managed_apis
    Api,               \* APIs of the API Manager
    Signature,         \* pairs (method, path) that classification compares
    ServiceOf,         \* the service of an endpoint
    SignatureOf,       \* the (method, normalized_path) of an endpoint
    ApiOf,             \* the API of an operation
    GatewaySignature,  \* the (method, gateway_path) of an operation
    BackendSignature,  \* the (method, backend_path) of an operation
    SoftDays,          \* idle time after which a discovered row is deactivated
    HardDays,          \* discovered_apis_retention_days
    ClassDays,         \* classifications_retention_days
    ManagedDays,       \* age after which an inactive managed row is deleted
    Replica,           \* ADS processes that share the database
    MaxTime            \* bound on the clock, for TLC

ASSUME CatalogueAssumption ==
    /\ ServiceOf \in [Endpoint -> Service]
    /\ SignatureOf \in [Endpoint -> Signature]
    /\ ApiOf \in [Op -> Api]
    /\ GatewaySignature \in [Op -> Signature]
    /\ BackendSignature \in [Op -> Signature]
    /\ SoftDays \in Nat /\ HardDays \in Nat
    /\ ClassDays \in Nat /\ ManagedDays \in Nat
    /\ MaxTime \in Nat

VARIABLES
    now,         \* the clock of now() and time.Now()
    services,    \* ads_services: identities that have a row
    discovered,  \* ads_discovered_apis: endpoints that have a row
    active,      \* ads_discovered_apis.is_active
    anchored,    \* ads_discovered_apis.is_anchor
    lastSeen,    \* ads_discovered_apis.last_seen_at (0 for an endpoint without a row)
    stored,      \* ads_managed_apis: operations that have a row
    activeOps,   \* ads_managed_apis.is_active
    syncedAt,    \* ads_managed_apis.last_synced_at (0 for an operation without a row)
    findings,    \* ads_classifications
    view         \* v_current_classifications as of its last refresh

discoveredTable == <<discovered, active, anchored, lastSeen>>
managedTable    == <<stored, activeOps, syncedAt>>
tables == <<services, discoveredTable, managedTable, findings, view>>

Time    == Nat
Verdict == {"shadow", "drift"}

\* A row of ads_classifications.  Its key is a fresh UUID; (endpoint, at)
\* identifies it as well, because no two cycles read the same clock.
Finding == [endpoint : Endpoint, verdict : Verdict, at : Time]

CatalogueTypeOK ==
    /\ now \in Time
    /\ services \in SUBSET Service
    /\ discovered \in SUBSET Endpoint
    /\ active \in SUBSET Endpoint
    /\ anchored \in SUBSET Endpoint
    /\ lastSeen \in [Endpoint -> Time]
    /\ stored \in SUBSET Op
    /\ activeOps \in SUBSET Op
    /\ syncedAt \in [Op -> Time]
    /\ findings \in SUBSET Finding
    /\ view \in SUBSET Finding

\* The tables are empty, as the migrations leave them on a new database.
DiscoveredTableInit ==
    /\ discovered = {}
    /\ active = {}
    /\ anchored = {}
    /\ lastSeen = [e \in Endpoint |-> 0]

ManagedTableInit ==
    /\ stored = {}
    /\ activeOps = {}
    /\ syncedAt = [o \in Op |-> 0]

FindingsInit == findings = {}

\* The view is created WITH DATA, of tables that are empty.
ViewInit == view = {}

CatalogueInit ==
    /\ now = 1
    /\ services = {}
    /\ DiscoveredTableInit
    /\ ManagedTableInit
    /\ FindingsInit
    /\ ViewInit

\* x < now() - INTERVAL 'days'
OlderThan(time, days) == time < now - days

----------------------------------------------------------------------------
(* Statements of phase 1. *)

\* EnsureServices: insert the identities that are new, keep the others.
EnsureServices(identities) ==
    /\ services' = services \cup identities
    /\ UNCHANGED <<discoveredTable, managedTable, findings, view>>

\* The row takes the last_seen_at of the latest window, whatever it held.
UpsertDiscovered_NoGreatest(rows) ==
    LET seen == {e \in Endpoint : rows[e] # -1}
    IN  /\ discovered' = discovered \cup seen
        /\ active' = active \cup seen
        /\ anchored' = anchored \ (seen \ discovered)
        /\ lastSeen' = [e \in Endpoint |-> IF e \in seen THEN rows[e] ELSE lastSeen[e]]
        /\ UNCHANGED <<services, managedTable, findings, view>>

\* The conflict branch resets is_anchor with the other columns.
UpsertDiscovered_DropsAnchor(rows) ==
    LET seen == {e \in Endpoint : rows[e] # -1}
    IN  /\ discovered' = discovered \cup seen
        /\ active' = active \cup seen
        /\ anchored' = anchored \ seen
        /\ lastSeen' = [e \in Endpoint |->
              IF e \in seen /\ rows[e] > lastSeen[e] THEN rows[e] ELSE lastSeen[e]]
        /\ UNCHANGED <<services, managedTable, findings, view>>

\* BatchUpsert: one batch, one implicit transaction.  rows maps an endpoint
\* to the time it was last seen in the window, and to -1 if it was not seen.
\* A row that exists keeps is_anchor and takes the GREATEST last_seen_at; a
\* new row has is_anchor = false.  Either way the row is active afterwards.
UpsertDiscovered(rows) ==
    LET seen == {e \in Endpoint : rows[e] # -1}
    IN  /\ discovered' = discovered \cup seen
        /\ active' = active \cup seen
        /\ anchored' = anchored \ (seen \ discovered)
        /\ lastSeen' = [e \in Endpoint |->
              IF e \in seen /\ rows[e] > lastSeen[e] THEN rows[e] ELSE lastSeen[e]]
        /\ UNCHANGED <<services, managedTable, findings, view>>

----------------------------------------------------------------------------
(* Statements of phase 2. *)

\* The conflict branch leaves last_synced_at of an existing row alone.
SyncManaged_StampsOnlyInserts(ops, started) ==
    /\ stored' = stored \cup ops
    /\ syncedAt' = [o \in Op |-> IF o \in ops \ stored THEN started ELSE syncedAt[o]]
    /\ activeOps' = {o \in activeOps \cup ops : syncedAt'[o] >= started}
    /\ UNCHANGED <<services, discoveredTable, findings, view>>

\* ManagedRepo.Sync: upsert every operation with last_synced_at = started,
\* then deactivate the rows whose last_synced_at is older, in one transaction.
SyncManaged(ops, started) ==
    /\ stored' = stored \cup ops
    /\ syncedAt' = [o \in Op |-> IF o \in ops THEN started ELSE syncedAt[o]]
    /\ activeOps' = {o \in activeOps \cup ops : syncedAt'[o] >= started}
    /\ UNCHANGED <<services, discoveredTable, findings, view>>

----------------------------------------------------------------------------
(* Statements of phase 3. *)

\* The join condition of classifySQL: same method, and the gateway path or the
\* backend path is the observed one.  The service is not part of it.
Matches(o, e) ==
    \/ GatewaySignature[o] = SignatureOf[e]
    \/ BackendSignature[o] = SignatureOf[e]

\* CTE matched: active discovered rows that an active managed row accounts for.
Matched == {e \in active : \E o \in activeOps : Matches(o, e)}

\* CTE partial_managed: services with at least one matched row.
PartialManaged == {ServiceOf[e] : e \in Matched}

\* Managed endpoints are recorded as well.
NewFindings_All ==
    {[endpoint |-> e,
      verdict  |-> CASE e \in Matched -> "managed"
                     [] e \notin Matched /\ ServiceOf[e] \in PartialManaged -> "drift"
                     [] OTHER -> "shadow",
      at       |-> now] : e \in active}

\* The rows classifySQL inserts: one for each active row that is not matched.
NewFindings ==
    {[endpoint |-> e,
      verdict  |-> IF ServiceOf[e] \in PartialManaged THEN "drift" ELSE "shadow",
      at       |-> now] : e \in active \ Matched}

Classify ==
    /\ findings' = findings \cup NewFindings
    /\ UNCHANGED <<services, discoveredTable, managedTable, view>>

\* markAnchorSQL: flag the rows its subquery found that still exist.  A row
\* that was deactivated since is flagged too: only id and is_anchor are tested
\* again.  Nothing ever clears the flag.
MarkAnchors(rows) ==
    /\ anchored' = anchored \cup (rows \cap discovered)
    /\ UNCHANGED <<services, discovered, active, lastSeen, managedTable, findings, view>>

\* f is the newest classification of its endpoint.
Newest(f) == \A g \in findings : g.endpoint = f.endpoint => g.at <= f.at

\* The view without DISTINCT ON: every finding of an active row.
RefreshView_NoDistinct ==
    /\ view' = {f \in findings : f.endpoint \in active}
    /\ UNCHANGED <<services, discoveredTable, managedTable, findings>>

\* REFRESH MATERIALIZED VIEW: DISTINCT ON (discovered_api_id) of the active rows.
RefreshView ==
    /\ view' = {f \in findings : f.endpoint \in active /\ Newest(f)}
    /\ UNCHANGED <<services, discoveredTable, managedTable, findings>>

----------------------------------------------------------------------------
(* Statements of the retention job. *)

\* The sweep deletes by age alone.
CleanupClassifications_ByAge ==
    /\ findings' = {f \in findings : ~OlderThan(f.at, ClassDays)}
    /\ UNCHANGED <<services, discoveredTable, managedTable, view>>

\* Delete old classifications, but never the newest of an endpoint.
CleanupClassifications ==
    /\ findings' = {f \in findings : OlderThan(f.at, ClassDays) => Newest(f)}
    /\ UNCHANGED <<services, discoveredTable, managedTable, view>>

\* The update forgets AND is_anchor = false.
SoftDeleteDiscovered_Anchors ==
    /\ active' = active \ {e \in active : OlderThan(lastSeen[e], SoftDays)}
    /\ UNCHANGED <<services, discovered, anchored, lastSeen, managedTable, findings, view>>

\* First statement of cleanupDiscoveredAPIs: deactivate idle rows that are not anchors.
SoftDeleteDiscovered ==
    /\ active' = active \ {e \in active \ anchored : OlderThan(lastSeen[e], SoftDays)}
    /\ UNCHANGED <<services, discovered, anchored, lastSeen, managedTable, findings, view>>

\* The foreign key of ads_classifications without ON DELETE CASCADE.
HardDeleteDiscovered_NoCascade ==
    LET gone == {e \in discovered \ active :
                    e \notin anchored /\ OlderThan(lastSeen[e], HardDays)}
    IN  /\ discovered' = discovered \ gone
        /\ lastSeen' = [e \in Endpoint |-> IF e \in gone THEN 0 ELSE lastSeen[e]]
        /\ UNCHANGED <<services, active, anchored, managedTable, findings, view>>

\* Second statement of cleanupDiscoveredAPIs: delete rows that are inactive and
\* idle for long; their classifications go with them (ON DELETE CASCADE).
HardDeleteDiscovered ==
    LET gone == {e \in discovered \ active :
                    e \notin anchored /\ OlderThan(lastSeen[e], HardDays)}
    IN  /\ discovered' = discovered \ gone
        /\ lastSeen' = [e \in Endpoint |-> IF e \in gone THEN 0 ELSE lastSeen[e]]
        /\ findings' = {f \in findings : f.endpoint \notin gone}
        /\ UNCHANGED <<services, active, anchored, managedTable, view>>

\* cleanupManagedAPIs: delete rows that phase 2 deactivated long ago.
CleanupManaged ==
    LET gone == {o \in stored \ activeOps : OlderThan(syncedAt[o], ManagedDays)}
    IN  /\ stored' = stored \ gone
        /\ syncedAt' = [o \in Op |-> IF o \in gone THEN 0 ELSE syncedAt[o]]
        /\ UNCHANGED <<services, discoveredTable, activeOps, findings, view>>
=============================================================================

------------------------------ MODULE Pipelines ------------------------------
(****************************************************************************)
(* The API discovery server as a whole: on every replica the cycle of       *)
(* phases 1 and 3, the sync of phase 2 and the retention job interleave     *)
(* statement by statement on the tables of one database, while the clock    *)
(* runs, APIs are published and withdrawn, and processes crash.             *)
(****************************************************************************)
EXTENDS Comparison, Retention

VARIABLE overtaken   \* inactive rows that retention deactivated while a
                     \* markAnchorSQL that had found them was still running

cycleVars == <<cycle, traffic, marking>>
syncVars  == <<published, sync, startedAt, apis, phase2Success>>
vars == <<now, tables, cycleVars, syncVars, cleaner, overtaken>>

TypeOK ==
    /\ CatalogueTypeOK /\ ManagedTypeOK /\ CycleTypeOK /\ CleanerTypeOK
    /\ overtaken \in SUBSET Endpoint

Init == CatalogueInit /\ ManagedInit /\ CycleInit /\ CleanerInit /\ overtaken = {}

Tick ==
    /\ now < MaxTime
    /\ now' = now + 1
    /\ UNCHANGED <<tables, cycleVars, syncVars, cleaner>>

Publishing ==
    /\ \E a \in Api : ChangePublished(a)
    /\ UNCHANGED <<now, cycleVars, cleaner>>

CycleStep(r) ==
    /\ \/ StartCycle(r)
       \/ CycleEnsureServices(r)
       \/ CycleUpsert(r)
       \/ PassGuard(r)
       \/ SkipPhase3(r)
       \/ CycleClassify(r)
       \/ CycleFindAnchors(r)
       \/ CycleMarkAnchors(r)
       \/ CycleRefreshView(r)
       \/ CycleFails(r)
    /\ UNCHANGED <<now, syncVars, cleaner>>

SyncStep(r) ==
    /\ \/ StartSync(r)
       \/ ListPublishedAPIs(r)
       \/ FetchDetails(r)
       \/ SyncCatalogue(r)
       \/ StampPhase2(r)
       \/ SyncFails(r)
    /\ UNCHANGED <<now, cycleVars, cleaner>>

RetentionStep(r) ==
    /\ \/ RetainClassifications(r)
       \/ RetainActive(r)
       \/ RetainDiscovered(r)
       \/ RetainManaged(r)
       \/ RetentionFails(r)
    /\ UNCHANGED <<now, cycleVars, syncVars>>

\* The process dies.  The database keeps what was committed.
Crash(r) ==
    /\ cycle' = [cycle EXCEPT ![r] = "idle"]
    /\ traffic' = [traffic EXCEPT ![r] = NoTraffic]
    /\ marking' = [marking EXCEPT ![r] = {}]
    /\ SyncReturns(r)
    /\ cleaner' = [cleaner EXCEPT ![r] = "findings"]
    /\ UNCHANGED <<now, tables, published, phase2Success>>

\* Bookkeeping of a step: the rows of overtaken are inactive, until traffic
\* revives them or they are deleted.
Overtake ==
    overtaken' = (overtaken \cup {e \in active : \E r \in Replica : e \in marking[r]})
                    \cap (discovered' \ active')

Next ==
    /\ \/ Tick
       \/ Publishing
       \/ \E r \in Replica : CycleStep(r) \/ SyncStep(r) \/ RetentionStep(r) \/ Crash(r)
    /\ Overtake

Spec == Init /\ [][Next]_vars

----------------------------------------------------------------------------
(* Invariants. *)

\* Every row refers to rows that exist: an endpoint to its service, a finding
\* to its endpoint, and the boolean columns to a row of their table.  Deletes
\* by retention and inserts by phases 1 to 3 interleave freely.
ReferentialIntegrity ==
    /\ \A e \in discovered : ServiceOf[e] \in services
    /\ \A f \in findings : f.endpoint \in discovered
    /\ active \subseteq discovered
    /\ activeOps \subseteq stored

\* An anchor is an active row, so that phase 3, which looks at active rows only,
\* can draw the inference it is kept for (retention_repo.go:69-73), but for one
\* race: retention deactivated the row after markAnchorSQL had found it and
\* before it was flagged.  Nothing else deactivates an anchor or flags an
\* inactive row.
AnchorsActiveUnlessOvertaken == anchored \subseteq active \cup overtaken

\* What is classified was compared with a catalogue that some sync filled:
\* nothing is ever classified before phase 2 succeeded for the first time.
NoFindingBeforeSync == phase2Success = Epoch => findings = {}

----------------------------------------------------------------------------
(* Action properties. *)

\* An anchor stays an anchor, and one that is active stays active, whatever
\* traffic, syncs, retention and crashes do: "rows with is_anchor = true are
\* preserved regardless of last_seen_at" (retention_repo.go:69-70).
AnchorsKept ==
    [][anchored \subseteq anchored' /\ anchored \cap active \subseteq active']_vars

\* As long as a service has an anchored endpoint that an active operation
\* accounts for, no endpoint of the service is reported as shadow, however
\* long the anchored endpoint has been idle (retention_repo.go:69-73), unless
\* retention overtook the statement that anchored it.
NoShadowBesideAnchor ==
    [][\A f \in findings' \ findings : \A e \in anchored \ overtaken :
          f.verdict = "shadow" /\ ServiceOf[e] = ServiceOf[f.endpoint]
             => \A o \in activeOps : ~Matches(o, e)]_vars

\* The newest verdict of an endpoint is never lost or replaced by an older
\* one while the endpoint has a row, although retention deletes findings and
\* several cycles insert them (retention_repo.go:49-51).
VerdictNeverRegresses ==
    [][\A f \in findings : f.endpoint \in discovered' =>
          \E g \in findings' : g.endpoint = f.endpoint /\ g.at >= f.at]_vars

\* last_seen_at of a row never goes back, although windows overlap and a slow
\* cycle commits late: retention never ages a row faster than its traffic.
LastSeenNeverRegresses ==
    [][\A e \in discovered \cap discovered' : lastSeen'[e] >= lastSeen[e]]_vars

\* The report never goes back to an older verdict on an endpoint, whichever
\* replica refreshes the view and whatever retention deleted in between.
ViewNeverRegresses ==
    [][\A v \in view, w \in view' : v.endpoint = w.endpoint => w.at >= v.at]_vars

\* With one replica, a sync leaves exactly the operations it fetched active.
SyncIsExact ==
    [][\A r \in Replica : SyncCatalogue(r) => activeOps' = OpsOf(apis[r])]_vars

\* "Prevents false Shadow classifications when managed data is stale"
\* (USER_GUIDE.md:613): no endpoint is reported as shadow while another active
\* endpoint of its service is an operation of an API that has been published
\* all along.
NoFalseShadow ==
    [][\A f \in findings' \ findings : \A e \in active :
          f.verdict = "shadow" /\ ServiceOf[e] = ServiceOf[f.endpoint]
             => \A o \in Op : ApiOf[o] \in Stable => ~Matches(o, e)]_vars

\* "Phase 3 is exception-only - managed rows never appear in the report"
\* (test/results/round_4_test_report.md:56): a refresh of the view by phase 3
\* does not show once more a row the view already had, whose endpoint an active
\* managed operation accounts for.
ManagedNeverReported ==
    [][\A r \in Replica : CycleRefreshView(r) =>
          \A f \in view \cap view' : f.endpoint \notin Matched]_vars
=============================================================================

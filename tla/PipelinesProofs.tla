--------------------------- MODULE PipelinesProofs ---------------------------
(****************************************************************************)
(* Proofs about Pipelines, for any number of replicas, endpoints, services, *)
(* APIs and operations, any retention periods and any freshness threshold.  *)
(* What phase 2 leaves behind and phase 3 concludes from it is true under   *)
(* hypotheses, which the theorems name: the runs of Pipelines show what     *)
(* happens without them.                                                    *)
(****************************************************************************)
EXTENDS Pipelines, WellFoundedInduction, TLAPS

----------------------------------------------------------------------------
(* Types. *)

LEMMA StatementTypes ==
    ASSUME CatalogueTypeOK, now' = now
    PROVE  /\ \A S \in SUBSET Service : EnsureServices(S) => CatalogueTypeOK'
           /\ \A tr \in [Endpoint -> Nat \cup {NotSeen}] :
                 UpsertDiscovered(tr) => CatalogueTypeOK'
           /\ \A ops \in SUBSET Op, t \in Time : SyncManaged(ops, t) => CatalogueTypeOK'
           /\ Classify => CatalogueTypeOK'
           /\ \A rows \in SUBSET Endpoint : MarkAnchors(rows) => CatalogueTypeOK'
           /\ RefreshView => CatalogueTypeOK'
           /\ CleanupClassifications => CatalogueTypeOK'
           /\ SoftDeleteDiscovered => CatalogueTypeOK'
           /\ HardDeleteDiscovered => CatalogueTypeOK'
           /\ CleanupManaged => CatalogueTypeOK'
           /\ UNCHANGED tables => CatalogueTypeOK'
<1> USE DEF CatalogueTypeOK, tables, discoveredTable, managedTable, Time
<1>1. ASSUME NEW S \in SUBSET Service, EnsureServices(S)
      PROVE  CatalogueTypeOK'
  BY <1>1 DEF EnsureServices
<1>2. ASSUME NEW tr \in [Endpoint -> Nat \cup {NotSeen}], UpsertDiscovered(tr)
      PROVE  CatalogueTypeOK'
  BY <1>2 DEF UpsertDiscovered, NotSeen
<1>3. ASSUME NEW ops \in SUBSET Op, NEW t \in Time, SyncManaged(ops, t)
      PROVE  CatalogueTypeOK'
  BY <1>3 DEF SyncManaged
<1>4. Classify => CatalogueTypeOK'
  BY DEF Classify, NewFindings, Finding, Verdict
<1>5. ASSUME NEW rows \in SUBSET Endpoint, MarkAnchors(rows)
      PROVE  CatalogueTypeOK'
  BY <1>5 DEF MarkAnchors
<1>6. RefreshView => CatalogueTypeOK'
  BY DEF RefreshView
<1>7. CleanupClassifications => CatalogueTypeOK'
  BY DEF CleanupClassifications
<1>8. SoftDeleteDiscovered => CatalogueTypeOK'
  BY DEF SoftDeleteDiscovered
<1>9. HardDeleteDiscovered => CatalogueTypeOK'
  BY DEF HardDeleteDiscovered
<1>10. CleanupManaged => CatalogueTypeOK'
  BY DEF CleanupManaged
<1>11. UNCHANGED tables => CatalogueTypeOK'
  OBVIOUS
<1> QED
  BY <1>1, <1>2, <1>3, <1>4, <1>5, <1>6, <1>7, <1>8, <1>9, <1>10, <1>11

\* The bookkeeping of a step holds endpoints.
LEMMA OvertakeTypes ==
    ASSUME TypeOK, Overtake
    PROVE  overtaken' \in SUBSET Endpoint
BY DEF TypeOK, CatalogueTypeOK, Overtake

LEMMA CycleStepTypes ==
    ASSUME TypeOK, Overtake, NEW r \in Replica, CycleStep(r)
    PROVE  TypeOK'
<1> USE DEF CycleTypeOK, CyclePC, CycleGoes
<1>1. CatalogueTypeOK /\ CycleTypeOK /\ now' = now
  BY DEF TypeOK, CycleStep
<1>2. NoTraffic \in [Endpoint -> Nat \cup {NotSeen}]
  BY DEF NoTraffic
<1>3. CatalogueTypeOK' /\ CycleTypeOK'
  <2>1. CASE StartCycle(r)
    <3>1. \A rows \in [Endpoint -> {NotSeen} \cup {t \in 0 .. now : t >= now - Window}] :
             rows \in [Endpoint -> Nat \cup {NotSeen}]
      OBVIOUS
    <3> QED BY <1>1, <2>1, <3>1, StatementTypes DEF StartCycle
  <2>2. CASE CycleEnsureServices(r)
    <3>1. SeenServices(r) \in SUBSET Service
      BY CatalogueAssumption DEF CatalogueAssumption, SeenServices
    <3> QED BY <1>1, <2>2, <3>1, StatementTypes DEF CycleEnsureServices
  <2>3. CASE CycleUpsert(r)
    BY <1>1, <1>2, <2>3, StatementTypes DEF CycleUpsert
  <2>4. CASE PassGuard(r)
    BY <1>1, <2>4, StatementTypes DEF PassGuard
  <2>5. CASE SkipPhase3(r)
    BY <1>1, <2>5, StatementTypes DEF SkipPhase3
  <2>6. CASE CycleFails(r)
    BY <1>1, <1>2, <2>6, StatementTypes DEF CycleFails
  <2>7. CASE CycleClassify(r)
    BY <1>1, <2>7, StatementTypes DEF CycleClassify
  <2>8. CASE CycleMarkAnchors(r)
    BY <1>1, <2>8, StatementTypes DEF CycleMarkAnchors
  <2>9. CASE CycleRefreshView(r)
    BY <1>1, <2>9, StatementTypes DEF CycleRefreshView
  <2>10. CASE CycleFindAnchors(r)
    <3>1. Matched \subseteq Endpoint
      BY <1>1 DEF Matched, CatalogueTypeOK
    <3> QED BY <1>1, <2>10, <3>1, StatementTypes DEF CycleFindAnchors
  <2> QED
    BY <2>1, <2>2, <2>3, <2>4, <2>5, <2>6, <2>7, <2>8, <2>9, <2>10 DEF CycleStep
<1> QED
  BY <1>3, OvertakeTypes DEF TypeOK, CycleStep, ManagedTypeOK, CleanerTypeOK, syncVars

LEMMA SyncStepTypes ==
    ASSUME TypeOK, Overtake, NEW r \in Replica, SyncStep(r)
    PROVE  TypeOK'
<1> USE DEF ManagedTypeOK, SyncPC, SyncGoes, SyncReturns
<1>1. CatalogueTypeOK /\ ManagedTypeOK /\ now' = now /\ now \in Time
  BY DEF TypeOK, SyncStep, CatalogueTypeOK
<1>2. CatalogueTypeOK' /\ ManagedTypeOK'
  <2>1. CASE StartSync(r)
    BY <1>1, <2>1, StatementTypes DEF StartSync
  <2>2. CASE ListPublishedAPIs(r)
    BY <1>1, <2>2, StatementTypes DEF ListPublishedAPIs
  <2>3. CASE FetchDetails(r)
    BY <1>1, <2>3, StatementTypes DEF FetchDetails
  <2>4. CASE SyncCatalogue(r)
    <3>1. OpsOf(apis[r]) \in SUBSET Op /\ startedAt[r] \in Time
      BY <1>1 DEF OpsOf
    <3> QED BY <1>1, <2>4, <3>1, StatementTypes DEF SyncCatalogue
  <2>5. CASE StampPhase2(r)
    BY <1>1, <2>5, StatementTypes DEF StampPhase2, Time
  <2>6. CASE SyncFails(r)
    BY <1>1, <2>6, StatementTypes DEF SyncFails, Time
  <2> QED
    BY <2>1, <2>2, <2>3, <2>4, <2>5, <2>6 DEF SyncStep
<1> QED
  BY <1>2, OvertakeTypes DEF TypeOK, SyncStep, CycleTypeOK, CleanerTypeOK, cycleVars

LEMMA RetentionStepTypes ==
    ASSUME TypeOK, Overtake, NEW r \in Replica, RetentionStep(r)
    PROVE  TypeOK'
<1> USE DEF CleanerTypeOK, CleanerPC, Advance
<1>1. CatalogueTypeOK /\ CleanerTypeOK /\ now' = now
  BY DEF TypeOK, RetentionStep
<1>2. CatalogueTypeOK' /\ CleanerTypeOK'
  BY <1>1, StatementTypes
     DEF RetentionStep, RetainClassifications, RetainActive, RetainDiscovered,
         RetainManaged, RetentionFails
<1> QED
  BY <1>2, OvertakeTypes
     DEF TypeOK, RetentionStep, CycleTypeOK, ManagedTypeOK, cycleVars, syncVars

LEMMA StepTypes ==
    ASSUME TypeOK, [Next]_vars
    PROVE  TypeOK'
<1>0. overtaken' \in SUBSET Endpoint
  BY OvertakeTypes DEF Next, vars, TypeOK
<1>1. CASE Tick
  BY <1>0, <1>1 DEF Tick, TypeOK, CatalogueTypeOK, ManagedTypeOK, CycleTypeOK, CleanerTypeOK,
              tables, discoveredTable, managedTable, cycleVars, syncVars, Time
<1>2. CASE Publishing
  <2>1. CatalogueTypeOK'
    BY <1>2, StatementTypes DEF Publishing, ChangePublished, TypeOK
  <2> QED BY <1>0, <1>2, <2>1 DEF Publishing, ChangePublished, TypeOK, ManagedTypeOK,
              CycleTypeOK, CleanerTypeOK, cycleVars
<1>3. ASSUME Overtake, NEW r \in Replica, CycleStep(r) PROVE TypeOK'
  BY <1>3, CycleStepTypes
<1>4. ASSUME Overtake, NEW r \in Replica, SyncStep(r) PROVE TypeOK'
  BY <1>4, SyncStepTypes
<1>5. ASSUME Overtake, NEW r \in Replica, RetentionStep(r) PROVE TypeOK'
  BY <1>5, RetentionStepTypes
<1>6. ASSUME NEW r \in Replica, Crash(r) PROVE TypeOK'
  <2>1. CatalogueTypeOK'
    BY <1>6, StatementTypes DEF Crash, TypeOK
  <2>2. CycleTypeOK'
    BY <1>6 DEF Crash, TypeOK, CycleTypeOK, CyclePC, NoTraffic
  <2>3. ManagedTypeOK'
    BY <1>6 DEF Crash, TypeOK, ManagedTypeOK, SyncPC, SyncReturns, Time
  <2>4. CleanerTypeOK'
    BY <1>6 DEF Crash, TypeOK, CleanerTypeOK, CleanerPC
  <2> QED BY <1>0, <2>1, <2>2, <2>3, <2>4 DEF TypeOK
<1>7. CASE UNCHANGED vars
  BY <1>7 DEF vars, TypeOK, CatalogueTypeOK, ManagedTypeOK, CycleTypeOK, CleanerTypeOK,
              tables, discoveredTable, managedTable, cycleVars, syncVars
<1> QED
  BY <1>1, <1>2, <1>3, <1>4, <1>5, <1>6, <1>7 DEF Next

\* Every reachable state has the types of TypeOK: in particular no statement
\* ever leaves a finding, a time or a control state outside its domain.
THEOREM TypeCorrectness == Spec => []TypeOK
<1>1. Init => TypeOK
  <2>1. CatalogueInit => CatalogueTypeOK
    BY DEF CatalogueInit, DiscoveredTableInit, ManagedTableInit, FindingsInit, ViewInit,
           CatalogueTypeOK, Time
  <2>2. ManagedInit => ManagedTypeOK
    BY ManagedAssumption DEF ManagedAssumption, ManagedInit, ManagedTypeOK, SyncPC, Time
  <2>3. CycleInit => CycleTypeOK
    BY DEF CycleInit, CycleTypeOK, CyclePC, NoTraffic
  <2>4. CleanerInit => CleanerTypeOK
    BY DEF CleanerInit, CleanerTypeOK, CleanerPC
  <2> QED BY <2>1, <2>2, <2>3, <2>4 DEF Init, TypeOK
<1>2. TypeOK /\ [Next]_vars => TypeOK'
  BY StepTypes
<1> QED
  BY <1>1, <1>2, PTL DEF Spec

----------------------------------------------------------------------------
(* Rows: what refers to what, and what retention may delete. *)

\* Between the insertion of its services and that of its endpoints a cycle
\* relies on the services it inserted: no one deletes a service.  Between the
\* subquery of markAnchorSQL and its update, the rows it found are active,
\* deleted, or counted as overtaken.
RowsInv ==
    /\ ReferentialIntegrity
    /\ AnchorsActiveUnlessOvertaken
    /\ anchored \subseteq discovered
    /\ \A r \in Replica : marking[r] \cap discovered \subseteq active \cup overtaken
    /\ \A r \in Replica : cycle[r] = "upsert" => SeenServices(r) \subseteq services

LEMMA CycleStepRows ==
    ASSUME TypeOK, RowsInv, Overtake, NEW r \in Replica, CycleStep(r)
    PROVE  RowsInv'
<1> USE DEF RowsInv, ReferentialIntegrity, AnchorsActiveUnlessOvertaken, Overtake,
            CycleGoes, SeenServices, tables, discoveredTable, managedTable
<1>1. /\ cycle \in [Replica -> CyclePC]
      /\ traffic \in [Replica -> [Endpoint -> Nat \cup {NotSeen}]]
      /\ marking \in [Replica -> SUBSET Endpoint]
  BY DEF TypeOK, CycleTypeOK
<1>2. /\ discovered \subseteq Endpoint /\ active \subseteq Endpoint
      /\ findings \subseteq Finding
  BY DEF TypeOK, CatalogueTypeOK
<1>3. CASE StartCycle(r)
  BY <1>1, <1>3 DEF StartCycle
<1>4. CASE CycleEnsureServices(r)
  BY <1>1, <1>4 DEF CycleEnsureServices, EnsureServices
<1>5. CASE CycleUpsert(r)
  BY <1>1, <1>2, <1>5 DEF CycleUpsert, UpsertDiscovered, NotSeen
<1>6. CASE PassGuard(r) \/ SkipPhase3(r)
  BY <1>1, <1>6 DEF PassGuard, SkipPhase3
<1>7. CASE CycleFails(r)
  BY <1>1, <1>7 DEF CycleFails
<1>8. CASE CycleClassify(r)
  BY <1>1, <1>2, <1>8 DEF CycleClassify, Classify, NewFindings
<1>9. CASE CycleMarkAnchors(r)
  BY <1>1, <1>2, <1>9 DEF CycleMarkAnchors, MarkAnchors
<1>10. CASE CycleRefreshView(r)
  BY <1>1, <1>10 DEF CycleRefreshView, RefreshView
<1>11. CASE CycleFindAnchors(r)
  BY <1>1, <1>2, <1>11 DEF CycleFindAnchors, Matched
<1> QED
  BY <1>3, <1>4, <1>5, <1>6, <1>7, <1>8, <1>9, <1>10, <1>11 DEF CycleStep

LEMMA SyncStepRows ==
    ASSUME TypeOK, RowsInv, Overtake, NEW r \in Replica, SyncStep(r)
    PROVE  RowsInv'
<1> USE DEF RowsInv, ReferentialIntegrity, AnchorsActiveUnlessOvertaken, Overtake,
            SeenServices, tables, discoveredTable, managedTable, cycleVars
<1>1. CASE SyncCatalogue(r)
  BY <1>1 DEF SyncStep, SyncCatalogue, SyncManaged
<1>2. CASE UNCHANGED tables
  BY <1>2 DEF SyncStep
<1> QED
  BY <1>1, <1>2 DEF SyncStep, StartSync, ListPublishedAPIs, FetchDetails, StampPhase2,
                    SyncFails

LEMMA RetentionStepRows ==
    ASSUME TypeOK, RowsInv, Overtake, NEW r \in Replica, RetentionStep(r)
    PROVE  RowsInv'
<1> USE DEF RowsInv, ReferentialIntegrity, AnchorsActiveUnlessOvertaken, Overtake,
            SeenServices, tables, discoveredTable, managedTable, cycleVars
<1>1. CASE RetainClassifications(r)
  BY <1>1 DEF RetentionStep, RetainClassifications, CleanupClassifications
<1>2. CASE RetainActive(r)
  BY <1>2 DEF RetentionStep, RetainActive, SoftDeleteDiscovered
<1>3. CASE RetainDiscovered(r)
  BY <1>3 DEF RetentionStep, RetainDiscovered, HardDeleteDiscovered
<1>4. CASE RetainManaged(r)
  BY <1>4 DEF RetentionStep, RetainManaged, CleanupManaged
<1>5. CASE RetentionFails(r)
  BY <1>5 DEF RetentionStep, RetentionFails
<1> QED
  BY <1>1, <1>2, <1>3, <1>4, <1>5 DEF RetentionStep

LEMMA RowsInvariant == Spec => []RowsInv
<1>1. Init => RowsInv
  BY DEF Init, CatalogueInit, DiscoveredTableInit, ManagedTableInit, FindingsInit, ViewInit,
         CycleInit, RowsInv, ReferentialIntegrity, AnchorsActiveUnlessOvertaken
<1>2. TypeOK /\ RowsInv /\ [Next]_vars => RowsInv'
  <2> SUFFICES ASSUME TypeOK, RowsInv, [Next]_vars PROVE RowsInv'
    OBVIOUS
  <2> USE DEF RowsInv, ReferentialIntegrity, AnchorsActiveUnlessOvertaken, SeenServices,
              tables, discoveredTable, managedTable, cycleVars
  <2>1. CASE Tick /\ Overtake
    BY <2>1 DEF Tick, Overtake
  <2>2. CASE Publishing /\ Overtake
    BY <2>2 DEF Publishing, ChangePublished, Overtake
  <2>3. ASSUME Overtake, NEW r \in Replica, CycleStep(r) PROVE RowsInv'
    BY <2>3, CycleStepRows
  <2>4. ASSUME Overtake, NEW r \in Replica, SyncStep(r) PROVE RowsInv'
    BY <2>4, SyncStepRows
  <2>5. ASSUME Overtake, NEW r \in Replica, RetentionStep(r) PROVE RowsInv'
    BY <2>5, RetentionStepRows
  <2>6. ASSUME Overtake, NEW r \in Replica, Crash(r) PROVE RowsInv'
    BY <2>6 DEF Crash, Overtake, TypeOK, CycleTypeOK
  <2>7. CASE UNCHANGED vars
    BY <2>7 DEF vars
  <2> QED
    BY <2>1, <2>2, <2>3, <2>4, <2>5, <2>6, <2>7 DEF Next
<1> QED
  BY <1>1, <1>2, TypeCorrectness, PTL DEF Spec

\* Whatever the interleaving of cycles, syncs, retention runs and crashes, no
\* row refers to a row that does not exist.
THEOREM RowsReferToRows == Spec => []ReferentialIntegrity
<1>1. RowsInv => ReferentialIntegrity
  BY DEF RowsInv
<1> QED
  BY <1>1, RowsInvariant, PTL

\* An inactive anchor has one cause: retention deactivated the row between the
\* subquery of markAnchorSQL and its update.  Otherwise retention never
\* deactivates an anchor, and phase 3 makes no anchor of an inactive row.
THEOREM AnchorsGoInactiveByRaceOnly == Spec => []AnchorsActiveUnlessOvertaken
<1>1. RowsInv => AnchorsActiveUnlessOvertaken
  BY DEF RowsInv
<1> QED
  BY <1>1, RowsInvariant, PTL

----------------------------------------------------------------------------
(* What a step does to the rows: action properties. *)

\* Anchors survive every statement: the upsert clears the flag of new rows
\* only, and those have none; the one statement that deactivates rows spares
\* the anchors.
THEOREM AnchorsSurvive == Spec => AnchorsKept
<1> DEFINE Kept == anchored \subseteq anchored' /\ anchored \cap active \subseteq active'
<1>1. TypeOK /\ RowsInv /\ [Next]_vars => [Kept]_vars
  <2> SUFFICES ASSUME TypeOK, RowsInv, Next PROVE Kept
    OBVIOUS
  <2> USE DEF tables, discoveredTable, managedTable
  <2>1. CASE Tick \/ Publishing
    BY <2>1 DEF Tick, Publishing, ChangePublished
  <2>2. ASSUME NEW r \in Replica, CycleStep(r) PROVE Kept
    <3>1. CASE CycleUpsert(r)
      <4>1. anchored \subseteq discovered
        BY DEF RowsInv
      <4> QED BY <3>1, <4>1 DEF CycleUpsert, UpsertDiscovered
    <3>2. CASE CycleMarkAnchors(r)
      BY <3>2 DEF CycleMarkAnchors, MarkAnchors
    <3> QED
      BY <2>2, <3>1, <3>2
         DEF CycleStep, StartCycle, CycleEnsureServices, EnsureServices, PassGuard,
             SkipPhase3, CycleClassify, Classify, CycleFindAnchors, CycleRefreshView,
             RefreshView, CycleFails
  <2>3. ASSUME NEW r \in Replica, SyncStep(r) PROVE Kept
    BY <2>3 DEF SyncStep, StartSync, ListPublishedAPIs, FetchDetails, SyncCatalogue,
                SyncManaged, StampPhase2, SyncFails
  <2>4. ASSUME NEW r \in Replica, RetentionStep(r) PROVE Kept
    BY <2>4 DEF RetentionStep, RetainClassifications, CleanupClassifications, RetainActive,
                SoftDeleteDiscovered, RetainDiscovered, HardDeleteDiscovered, RetainManaged,
                CleanupManaged, RetentionFails
  <2>5. ASSUME NEW r \in Replica, Crash(r) PROVE Kept
    BY <2>5 DEF Crash
  <2> QED
    BY <2>1, <2>2, <2>3, <2>4, <2>5 DEF Next
<1> QED
  BY <1>1, TypeCorrectness, RowsInvariant, PTL DEF Spec, AnchorsKept

\* No upsert, deletion or late cycle takes last_seen_at of a row back.
THEOREM LastSeenGrows == Spec => LastSeenNeverRegresses
<1> DEFINE Grows == \A e \in discovered \cap discovered' : lastSeen'[e] >= lastSeen[e]
<1>1. TypeOK /\ [Next]_vars => [Grows]_vars
  <2> SUFFICES ASSUME TypeOK, Next PROVE Grows
    OBVIOUS
  <2> USE DEF tables, discoveredTable, managedTable
  <2>1. discovered \subseteq Endpoint /\ lastSeen \in [Endpoint -> Nat]
    BY DEF TypeOK, CatalogueTypeOK, Time
  <2>2. UNCHANGED lastSeen => Grows
    BY <2>1
  <2>3. CASE Tick \/ Publishing
    BY <2>2, <2>3 DEF Tick, Publishing, ChangePublished
  <2>4. ASSUME NEW r \in Replica, CycleStep(r) PROVE Grows
    <3>1. CASE CycleUpsert(r)
      <4>1. traffic[r] \in [Endpoint -> Nat \cup {NotSeen}]
        BY DEF TypeOK, CycleTypeOK
      <4> QED BY <2>1, <3>1, <4>1 DEF CycleUpsert, UpsertDiscovered, NotSeen
    <3> QED
      BY <2>2, <2>4, <3>1
         DEF CycleStep, StartCycle, CycleEnsureServices, EnsureServices, PassGuard,
             SkipPhase3, CycleClassify, Classify, CycleFindAnchors, CycleMarkAnchors,
             MarkAnchors,
             CycleRefreshView, RefreshView, CycleFails
  <2>5. ASSUME NEW r \in Replica, SyncStep(r) PROVE Grows
    BY <2>2, <2>5 DEF SyncStep, StartSync, ListPublishedAPIs, FetchDetails, SyncCatalogue,
                      SyncManaged, StampPhase2, SyncFails
  <2>6. ASSUME NEW r \in Replica, RetentionStep(r) PROVE Grows
    <3>1. CASE RetainDiscovered(r)
      BY <2>1, <3>1 DEF RetainDiscovered, HardDeleteDiscovered
    <3> QED
      BY <2>2, <2>6, <3>1
         DEF RetentionStep, RetainClassifications, CleanupClassifications, RetainActive,
             SoftDeleteDiscovered, RetainManaged, CleanupManaged, RetentionFails
  <2>7. ASSUME NEW r \in Replica, Crash(r) PROVE Grows
    BY <2>2, <2>7 DEF Crash
  <2> QED
    BY <2>3, <2>4, <2>5, <2>6, <2>7 DEF Next
<1> QED
  BY <1>1, TypeCorrectness, PTL DEF Spec, LastSeenNeverRegresses

\* The only statement that adds findings compares with the active operations.
LEMMA OnlyClassifyFinds ==
    ASSUME TypeOK, Next
    PROVE  \/ findings' \subseteq findings
           \/ \E r \in Replica : CycleClassify(r)
<1> USE DEF tables, discoveredTable, managedTable
<1>1. CASE Tick \/ Publishing
  BY <1>1 DEF Tick, Publishing, ChangePublished
<1>2. ASSUME NEW r \in Replica, CycleStep(r)
      PROVE  findings' \subseteq findings \/ CycleClassify(r)
  BY <1>2 DEF CycleStep, StartCycle, CycleEnsureServices, EnsureServices, CycleUpsert,
              UpsertDiscovered, PassGuard, SkipPhase3, CycleFindAnchors, CycleMarkAnchors,
              MarkAnchors,
              CycleRefreshView, RefreshView, CycleFails
<1>3. ASSUME NEW r \in Replica, SyncStep(r) PROVE findings' \subseteq findings
  BY <1>3 DEF SyncStep, StartSync, ListPublishedAPIs, FetchDetails, SyncCatalogue,
              SyncManaged, StampPhase2, SyncFails
<1>4. ASSUME NEW r \in Replica, RetentionStep(r) PROVE findings' \subseteq findings
  BY <1>4 DEF RetentionStep, RetainClassifications, CleanupClassifications, RetainActive,
              SoftDeleteDiscovered, RetainDiscovered, HardDeleteDiscovered, RetainManaged,
              CleanupManaged, RetentionFails
<1>5. ASSUME NEW r \in Replica, Crash(r) PROVE findings' \subseteq findings
  BY <1>5 DEF Crash
<1> QED
  BY <1>1, <1>2, <1>3, <1>4, <1>5 DEF Next

\* A finding says shadow only if no active row of its service is matched.
LEMMA ShadowMeansUnmanaged ==
    ASSUME NEW r \in Replica, CycleClassify(r), NEW f \in findings' \ findings,
           f.verdict = "shadow", NEW e \in active, ServiceOf[e] = ServiceOf[f.endpoint],
           NEW o \in activeOps
    PROVE  ~Matches(o, e)
BY DEF CycleClassify, Classify, NewFindings, PartialManaged, Matched

\* Retention and traffic cannot turn the siblings of an anchored endpoint into
\* shadow APIs: unless it was overtaken, the anchor is still active when phase 3
\* looks for it.
THEOREM AnchorsPreventShadow == Spec => NoShadowBesideAnchor
<1> DEFINE Holds == \A f \in findings' \ findings : \A e \in anchored \ overtaken :
                       f.verdict = "shadow" /\ ServiceOf[e] = ServiceOf[f.endpoint]
                          => \A o \in activeOps : ~Matches(o, e)
<1>1. TypeOK /\ RowsInv /\ [Next]_vars => [Holds]_vars
  <2> SUFFICES ASSUME TypeOK, RowsInv, Next PROVE Holds
    OBVIOUS
  <2>1. anchored \ overtaken \subseteq active
    BY DEF RowsInv, AnchorsActiveUnlessOvertaken
  <2> QED
    BY <2>1, OnlyClassifyFinds, ShadowMeansUnmanaged
<1> QED
  BY <1>1, TypeCorrectness, RowsInvariant, PTL DEF Spec, NoShadowBesideAnchor

----------------------------------------------------------------------------
(* The freshness guard. *)

\* A cycle that is past the guard saw the stamp of a sync; stamps are never
\* taken back.
GuardInv ==
    \A r \in Replica : cycle[r] = "classify" => phase2Success # Epoch

LEMMA GuardInvariant == Spec => [](GuardInv /\ NoFindingBeforeSync)
<1> DEFINE Inv == GuardInv /\ NoFindingBeforeSync
<1>1. Init => Inv
  BY DEF Init, CatalogueInit, FindingsInit, CycleInit, GuardInv, NoFindingBeforeSync
<1>2. TypeOK /\ Inv /\ [Next]_vars => Inv'
  <2> SUFFICES ASSUME TypeOK, Inv, [Next]_vars PROVE Inv'
    OBVIOUS
  <2> USE DEF GuardInv, NoFindingBeforeSync
  <2>1. cycle \in [Replica -> CyclePC] /\ now \in Nat /\ phase2Success \in Int
    BY DEF TypeOK, CycleTypeOK, CatalogueTypeOK, ManagedTypeOK, Time
  <2>2. CASE UNCHANGED vars
    BY <2>2 DEF vars, tables, cycleVars, syncVars
  <2>3. CASE Next
    <3>1. (phase2Success' # phase2Success) => phase2Success' # Epoch
      BY <2>1, <2>3, ManagedAssumption
         DEF ManagedAssumption, Next, Tick, Publishing, ChangePublished, CycleStep, SyncStep,
             StartSync, ListPublishedAPIs, FetchDetails, SyncCatalogue, StampPhase2, SyncFails,
             RetentionStep, Crash, syncVars
    <3>2. ASSUME NEW r \in Replica, cycle'[r] = "classify", cycle[r] # "classify"
          PROVE  PassGuard(r)
      BY <2>1, <2>3, <3>2
         DEF Next, Tick, Publishing, CycleStep, StartCycle, CycleEnsureServices, CycleUpsert,
             PassGuard, SkipPhase3, CycleClassify, CycleFindAnchors, CycleMarkAnchors,
             CycleRefreshView,
             CycleFails, CycleGoes, SyncStep, RetentionStep, Crash, cycleVars
    <3>3. ASSUME NEW r \in Replica, PassGuard(r)
          PROVE  phase2Success # Epoch
      BY <2>1, <3>3, ManagedAssumption, ComparisonAssumption
         DEF ManagedAssumption, ComparisonAssumption, PassGuard, Fresh
    <3>4. GuardInv'
      BY <3>1, <3>2, <3>3
    <3>5. findings' \subseteq findings \/ phase2Success # Epoch
      BY <2>3, OnlyClassifyFinds DEF CycleClassify, CycleGoes
    <3> QED
      BY <3>1, <3>4, <3>5
  <2> QED
    BY <2>2, <2>3
<1> QED
  BY <1>1, <1>2, TypeCorrectness, PTL DEF Spec

\* The check against the epoch, and not the IsZero test, keeps phase 3 from
\* running before the first sync.
THEOREM GuardWaitsForSync == Spec => []NoFindingBeforeSync
BY GuardInvariant, PTL

----------------------------------------------------------------------------
(* The newest finding of an endpoint. *)

\* Findings carry a time that has passed.
FindingsInv ==
    /\ \A f \in findings : f.at <= now
    /\ \A v \in view : v.at <= now

\* Among the findings of an endpoint there is a newest.
LEMMA NewestExists ==
    ASSUME TypeOK, FindingsInv, NEW f \in findings
    PROVE  \E g \in findings : g.endpoint = f.endpoint /\ g.at >= f.at /\ Newest(g)
<1> DEFINE Same == {g \in findings : g.endpoint = f.endpoint}
           Ages == {now - g.at : g \in Same}
<1>1. now \in Nat /\ \A g \in findings : g.at \in Nat /\ g.at <= now
  BY DEF TypeOK, CatalogueTypeOK, Finding, Time, FindingsInv
<1>2. Ages \subseteq Nat /\ now - f.at \in Ages
  BY <1>1
<1>3. PICK a \in Ages : \A b \in Ages : ~(<<b, a>> \in OpToRel(<, Nat))
  <2>1. Ages # {}
    BY <1>2
  <2> HIDE DEF Ages
  <2> QED BY <1>2, <2>1, NatLessThanWellFounded, WFMin, Zenon
<1>4. \A b \in Ages : ~(b < a)
  BY <1>2, <1>3 DEF OpToRel
<1>5. PICK g \in Same : a = now - g.at
  OBVIOUS
<1>6. ASSUME NEW h \in Same
      PROVE  h.at <= g.at
  <2>1. now - h.at \in Ages /\ h.at \in Nat /\ g.at \in Nat
    BY <1>1
  <2>2. ~(now - h.at < now - g.at)
    BY <1>4, <1>5, <2>1
  <2> HIDE DEF Ages, Same
  <2> QED BY <1>1, <2>1, <2>2
<1> QED
  BY <1>5, <1>6 DEF Newest

LEMMA FindingsInvariant == Spec => []FindingsInv
<1>1. Init => FindingsInv
  BY DEF Init, CatalogueInit, FindingsInit, ViewInit, FindingsInv
<1>2. TypeOK /\ FindingsInv /\ [Next]_vars => FindingsInv'
  <2> SUFFICES ASSUME TypeOK, FindingsInv, [Next]_vars PROVE FindingsInv'
    OBVIOUS
  <2> USE DEF FindingsInv, tables, discoveredTable, managedTable
  <2>1. /\ now \in Nat
        /\ \A f \in findings : f.at \in Nat
        /\ \A v \in view : v.at \in Nat
    BY DEF TypeOK, CatalogueTypeOK, Time, Finding
  <2>2. CASE UNCHANGED vars
    BY <2>2 DEF vars
  <2>3. CASE Tick
    BY <2>1, <2>3 DEF Tick
  <2>4. CASE Publishing
    BY <2>4 DEF Publishing, ChangePublished
  <2>5. ASSUME NEW r \in Replica, CycleStep(r) PROVE FindingsInv'
    BY <2>1, <2>5
       DEF CycleStep, StartCycle, CycleEnsureServices, EnsureServices, CycleUpsert,
           UpsertDiscovered, PassGuard, SkipPhase3, CycleClassify, Classify, NewFindings,
           CycleFindAnchors, CycleMarkAnchors, MarkAnchors, CycleRefreshView, RefreshView,
           CycleFails
  <2>6. ASSUME NEW r \in Replica, SyncStep(r) PROVE FindingsInv'
    BY <2>6 DEF SyncStep, StartSync, ListPublishedAPIs, FetchDetails, SyncCatalogue,
                SyncManaged, StampPhase2, SyncFails
  <2>7. ASSUME NEW r \in Replica, RetentionStep(r) PROVE FindingsInv'
    BY <2>7 DEF RetentionStep, RetainClassifications, CleanupClassifications, RetainActive,
                SoftDeleteDiscovered, RetainDiscovered, HardDeleteDiscovered, RetainManaged,
                CleanupManaged, RetentionFails
  <2>8. ASSUME NEW r \in Replica, Crash(r) PROVE FindingsInv'
    BY <2>8 DEF Crash
  <2> QED
    BY <2>2, <2>3, <2>4, <2>5, <2>6, <2>7, <2>8 DEF Next
<1> QED
  BY <1>1, <1>2, TypeCorrectness, PTL DEF Spec

\* A step keeps, for every finding of an endpoint that keeps its row, one that
\* is at least as new.
LEMMA NewestKept ==
    ASSUME TypeOK, FindingsInv, Next, NEW f \in findings, f.endpoint \in discovered'
    PROVE  \E g \in findings' : g.endpoint = f.endpoint /\ g.at >= f.at
<1> USE DEF tables, discoveredTable, managedTable
<1>1. f.at \in Nat
  BY DEF TypeOK, CatalogueTypeOK, Time, Finding
<1>2. CASE f \in findings'
  BY <1>1, <1>2
<1>3. CASE f \notin findings'
  <2>1. PICK r \in Replica : RetainClassifications(r) \/ RetainDiscovered(r)
    BY <1>3 DEF Next, Tick, Publishing, ChangePublished, CycleStep, StartCycle,
                CycleEnsureServices, EnsureServices, CycleUpsert, UpsertDiscovered,
                PassGuard,
                SkipPhase3, CycleClassify, Classify, CycleFindAnchors, CycleMarkAnchors,
                MarkAnchors,
                CycleRefreshView, RefreshView, CycleFails, SyncStep, StartSync,
                ListPublishedAPIs, FetchDetails, SyncCatalogue, SyncManaged, StampPhase2,
                SyncFails, RetentionStep, RetainActive, SoftDeleteDiscovered, RetainManaged,
                CleanupManaged, RetentionFails, Crash
  <2>2. CASE RetainClassifications(r)
    <3>1. PICK g \in findings : g.endpoint = f.endpoint /\ g.at >= f.at /\ Newest(g)
      BY NewestExists
    <3> QED BY <2>2, <3>1 DEF RetainClassifications, CleanupClassifications
  <2>3. CASE RetainDiscovered(r)
    BY <1>3, <2>3 DEF RetainDiscovered, HardDeleteDiscovered
  <2> QED BY <2>1, <2>2, <2>3
<1> QED BY <1>2, <1>3

\* The newest verdict of an endpoint is safe from retention.
THEOREM VerdictsAdvance == Spec => VerdictNeverRegresses
<1>1. TypeOK /\ FindingsInv /\ [Next]_vars =>
         [\A f \in findings : f.endpoint \in discovered' =>
             \E g \in findings' : g.endpoint = f.endpoint /\ g.at >= f.at]_vars
  BY NewestKept
<1> QED
  BY <1>1, TypeCorrectness, FindingsInvariant, PTL DEF Spec, VerdictNeverRegresses

\* The only statement that changes the view is its refresh.
LEMMA OnlyRefreshChangesView ==
    ASSUME Next
    PROVE  UNCHANGED view \/ \E r \in Replica : CycleRefreshView(r)
<1> USE DEF tables, discoveredTable, managedTable
<1>1. CASE Tick \/ Publishing
  BY <1>1 DEF Tick, Publishing, ChangePublished
<1>2. ASSUME NEW r \in Replica, CycleStep(r)
      PROVE  UNCHANGED view \/ CycleRefreshView(r)
  BY <1>2 DEF CycleStep, StartCycle, CycleEnsureServices, EnsureServices, CycleUpsert,
              UpsertDiscovered, PassGuard, SkipPhase3, CycleClassify, Classify,
              CycleFindAnchors, CycleMarkAnchors, MarkAnchors, CycleFails
<1>3. ASSUME NEW r \in Replica, SyncStep(r) PROVE UNCHANGED view
  BY <1>3 DEF SyncStep, StartSync, ListPublishedAPIs, FetchDetails, SyncCatalogue,
              SyncManaged, StampPhase2, SyncFails
<1>4. ASSUME NEW r \in Replica, RetentionStep(r) PROVE UNCHANGED view
  BY <1>4 DEF RetentionStep, RetainClassifications, CleanupClassifications, RetainActive,
              SoftDeleteDiscovered, RetainDiscovered, HardDeleteDiscovered, RetainManaged,
              CleanupManaged, RetentionFails
<1>5. ASSUME NEW r \in Replica, Crash(r) PROVE UNCHANGED view
  BY <1>5 DEF Crash
<1> QED
  BY <1>1, <1>2, <1>3, <1>4, <1>5 DEF Next

\* The view shows one time for an endpoint, and not one that is newer than its
\* newest finding.
ViewInv ==
    /\ \A v, w \in view : v.endpoint = w.endpoint => v.at = w.at
    /\ \A v \in view, f \in findings :
          Newest(f) /\ v.endpoint = f.endpoint => f.at >= v.at

LEMMA ViewStaysBehind ==
    ASSUME TypeOK, FindingsInv, ViewInv, ReferentialIntegrity', Next, UNCHANGED view
    PROVE  ViewInv'
<1>1. /\ now \in Nat
      /\ \A f \in findings : f.at \in Nat
      /\ \A v \in view : v.at \in Nat /\ v.at <= now
  BY DEF TypeOK, CatalogueTypeOK, Time, Finding, FindingsInv
<1>2. SUFFICES ASSUME NEW v \in view, NEW f \in findings', v.endpoint = f.endpoint,
                      \A g \in findings' : g.endpoint = f.endpoint => g.at <= f.at
               PROVE  f.at >= v.at
  BY DEF ViewInv, Newest
<1>3. CASE f \notin findings
  <2>1. PICK r \in Replica : CycleClassify(r)
    BY <1>3, OnlyClassifyFinds
  <2>2. f.at = now
    BY <1>3, <2>1 DEF CycleClassify, Classify, NewFindings
  <2> QED BY <1>1, <2>2
<1>4. CASE f \in findings
  <2>1. PICK n \in findings : n.endpoint = f.endpoint /\ n.at >= f.at /\ Newest(n)
    BY <1>4, NewestExists
  <2>2. n.at >= v.at
    BY <1>2, <2>1 DEF ViewInv
  <2>3. n.endpoint \in discovered'
    BY <2>1 DEF ReferentialIntegrity
  <2>4. PICK g \in findings' : g.endpoint = n.endpoint /\ g.at >= n.at
    BY <2>1, <2>3, NewestKept
  <2>5. g.at <= f.at /\ g.at \in Nat
    <3>1. g.at <= f.at
      BY <1>2, <2>1, <2>4
    <3>2. TypeOK'
      BY StepTypes
    <3> QED BY <3>1, <3>2 DEF TypeOK, CatalogueTypeOK, Time, Finding
  <2> QED BY <1>1, <1>4, <2>2, <2>4, <2>5
<1> QED BY <1>3, <1>4

LEMMA ViewInvariant == Spec => []ViewInv
<1>1. Init => ViewInv
  BY DEF Init, CatalogueInit, ViewInit, ViewInv
<1>2. TypeOK /\ FindingsInv /\ ViewInv /\ ReferentialIntegrity' /\ [Next]_vars => ViewInv'
  <2> SUFFICES ASSUME TypeOK, FindingsInv, ViewInv, ReferentialIntegrity', [Next]_vars
               PROVE  ViewInv'
    OBVIOUS
  <2>1. CASE UNCHANGED vars
    BY <2>1 DEF vars, tables, ViewInv, Newest
  <2>2. CASE Next /\ UNCHANGED view
    BY <2>2, ViewStaysBehind
  <2>3. ASSUME NEW r \in Replica, CycleRefreshView(r) PROVE ViewInv'
    <3>1. \A f \in findings : f.at \in Nat
      BY DEF TypeOK, CatalogueTypeOK, Time, Finding
    <3> QED BY <2>3, <3>1 DEF CycleRefreshView, RefreshView, ViewInv, Newest
  <2> QED
    BY <2>1, <2>2, <2>3, OnlyRefreshChangesView
<1> QED
  BY <1>1, <1>2, TypeCorrectness, FindingsInvariant, RowsReferToRows, PTL DEF Spec

\* The report advances: each refresh shows a verdict at least as new.
THEOREM ReportAdvances == Spec => ViewNeverRegresses
<1> DEFINE Holds == \A v \in view, w \in view' : v.endpoint = w.endpoint => w.at >= v.at
<1>1. TypeOK /\ ViewInv /\ [Next]_vars => [Holds]_vars
  <2> SUFFICES ASSUME TypeOK, ViewInv, Next PROVE Holds
    OBVIOUS
  <2>1. \A v \in view : v.at \in Nat
    BY DEF TypeOK, CatalogueTypeOK, Time, Finding
  <2>2. CASE UNCHANGED view
    BY <2>1, <2>2 DEF ViewInv
  <2>3. ASSUME NEW r \in Replica, CycleRefreshView(r) PROVE Holds
    BY <2>3 DEF CycleRefreshView, RefreshView, ViewInv
  <2> QED
    BY <2>2, <2>3, OnlyRefreshChangesView
<1> QED
  BY <1>1, TypeCorrectness, ViewInvariant, PTL DEF Spec, ViewNeverRegresses

----------------------------------------------------------------------------
(* One replica: a sync is exact. *)

\* The rows a running sync is about to replace were synced before it started.
SyncInv ==
    \A r \in Replica : sync[r] \in {"list", "fetch", "sync"}
                          => \A o \in Op : syncedAt[o] < startedAt[r]

\* Only a sync stamps a row; retention forgets the stamp with the row.
LEMMA OnlySyncStamps ==
    ASSUME TypeOK, Next, NEW o \in Op
    PROVE  \/ syncedAt'[o] \in {0, syncedAt[o]}
           \/ \E r \in Replica : SyncCatalogue(r)
<1> USE DEF tables, discoveredTable, managedTable
<1>1. CASE Tick \/ Publishing
  BY <1>1 DEF Tick, Publishing, ChangePublished
<1>2. ASSUME NEW r \in Replica, CycleStep(r) PROVE UNCHANGED syncedAt
  BY <1>2 DEF CycleStep, StartCycle, CycleEnsureServices, EnsureServices, CycleUpsert,
              UpsertDiscovered, PassGuard, SkipPhase3, CycleClassify, Classify,
              CycleFindAnchors, CycleMarkAnchors, MarkAnchors, CycleRefreshView,
              RefreshView, CycleFails
<1>3. ASSUME NEW r \in Replica, SyncStep(r) PROVE UNCHANGED syncedAt \/ SyncCatalogue(r)
  BY <1>3 DEF SyncStep, StartSync, ListPublishedAPIs, FetchDetails, StampPhase2, SyncFails
<1>4. ASSUME NEW r \in Replica, RetentionStep(r) PROVE syncedAt'[o] \in {0, syncedAt[o]}
  <2>1. CASE RetainManaged(r)
    BY <2>1 DEF RetainManaged, CleanupManaged
  <2> QED
    BY <1>4, <2>1 DEF RetentionStep, RetainClassifications, CleanupClassifications,
                      RetainActive, SoftDeleteDiscovered, RetainDiscovered,
                      HardDeleteDiscovered, RetentionFails
<1>5. ASSUME NEW r \in Replica, Crash(r) PROVE UNCHANGED syncedAt
  BY <1>5 DEF Crash
<1> QED
  BY <1>1, <1>2, <1>3, <1>4, <1>5 DEF Next

\* A sync that is running has kept its start time since StartSync.
LEMMA StartKept ==
    ASSUME TypeOK, Next, NEW r \in Replica, sync'[r] \in {"list", "fetch", "sync"}
    PROVE  StartSync(r) \/ (startedAt'[r] = startedAt[r] /\ sync[r] \in {"list", "fetch"})
                        \/ (startedAt'[r] = startedAt[r] /\ sync'[r] = sync[r])
<1>1. /\ sync \in [Replica -> SyncPC] /\ startedAt \in [Replica -> Nat]
  BY DEF TypeOK, ManagedTypeOK, Time
<1>2. ASSUME NEW q \in Replica, SyncStep(q), q # r
      PROVE  startedAt'[r] = startedAt[r] /\ sync'[r] = sync[r]
  BY <1>1, <1>2 DEF SyncStep, StartSync, ListPublishedAPIs, FetchDetails, SyncCatalogue,
                    StampPhase2, SyncFails, SyncGoes, SyncReturns
<1>3. CASE SyncStep(r)
  BY <1>1, <1>3 DEF SyncStep, StartSync, ListPublishedAPIs, FetchDetails, SyncCatalogue,
                    StampPhase2, SyncFails, SyncGoes, SyncReturns
<1>4. ASSUME NEW q \in Replica, Crash(q)
      PROVE  q # r /\ startedAt'[r] = startedAt[r] /\ sync'[r] = sync[r]
  BY <1>1, <1>4 DEF Crash, SyncReturns
<1> QED
  BY <1>2, <1>3, <1>4
     DEF Next, Tick, Publishing, ChangePublished, CycleStep, RetentionStep, syncVars

\* With one replica no sync can overtake another: the soft-delete of a sync
\* removes exactly what it did not fetch, whatever failed or crashed before.
THEOREM OneReplicaSyncsExactly ==
    ASSUME \A q, r \in Replica : q = r
    PROVE  Spec => SyncIsExact
<1>1. Init => SyncInv
  BY DEF Init, ManagedInit, SyncInv
<1>2. TypeOK /\ SyncInv /\ [Next]_vars => SyncInv'
  <2> SUFFICES ASSUME TypeOK, SyncInv, [Next]_vars PROVE SyncInv'
    OBVIOUS
  <2>1. CASE UNCHANGED vars
    BY <2>1 DEF vars, tables, managedTable, syncVars, SyncInv
  <2>2. CASE Next
    <3> SUFFICES ASSUME NEW r \in Replica, sync'[r] \in {"list", "fetch", "sync"},
                        NEW o \in Op
                 PROVE  syncedAt'[o] < startedAt'[r]
      BY DEF SyncInv
    <3>1. syncedAt \in [Op -> Nat] /\ startedAt \in [Replica -> Nat] /\ now \in Nat
      BY DEF TypeOK, CatalogueTypeOK, ManagedTypeOK, Time
    <3>2. CASE StartSync(r)
      BY <3>1, <3>2 DEF StartSync, tables, managedTable
    <3>3. CASE ~StartSync(r)
      <4>1. startedAt'[r] = startedAt[r] /\ syncedAt[o] < startedAt[r]
        BY <2>2, <3>3, StartKept DEF SyncInv
      <4>2. ~ \E q \in Replica : SyncCatalogue(q)
        BY DEF SyncCatalogue, SyncGoes, TypeOK, ManagedTypeOK
      <4>3. syncedAt'[o] \in {0, syncedAt[o]}
        BY <2>2, <4>2, OnlySyncStamps
      <4> QED BY <3>1, <4>1, <4>3
    <3> QED BY <3>2, <3>3
  <2> QED BY <2>1, <2>2
<1>3. TypeOK /\ SyncInv /\ [Next]_vars =>
         [\A r \in Replica : SyncCatalogue(r) => activeOps' = OpsOf(apis[r])]_vars
  <2> SUFFICES ASSUME TypeOK, SyncInv, NEW r \in Replica, SyncCatalogue(r)
               PROVE  activeOps' = OpsOf(apis[r])
    OBVIOUS
  <2>1. /\ syncedAt \in [Op -> Nat] /\ startedAt[r] \in Nat /\ activeOps \subseteq Op
        /\ \A o \in Op : syncedAt[o] < startedAt[r]
    BY DEF TypeOK, CatalogueTypeOK, ManagedTypeOK, Time, SyncInv, SyncCatalogue, SyncGoes
  <2> QED
    BY <2>1 DEF SyncCatalogue, SyncManaged, OpsOf
<1> QED
  BY <1>1, <1>2, <1>3, TypeCorrectness, PTL DEF Spec, SyncIsExact

----------------------------------------------------------------------------
(* Complete fetches: what stays published is never reported as shadow. *)

\* An API that stays published is in every listing, in every fetch, and, once
\* a sync has committed, in the catalogue.
StableInv ==
    /\ Stable \subseteq published
    /\ \A r \in Replica : sync[r] \in {"fetch", "sync"} => Stable \subseteq apis[r]
    /\ (phase2Success # Epoch \/ \E r \in Replica : sync[r] = "stamp")
          => OpsOf(Stable) \subseteq activeOps

LEMMA SyncStepStable ==
    ASSUME ~FetchMayFail, TypeOK, StableInv, NEW r \in Replica, SyncStep(r)
    PROVE  StableInv'
<1> USE DEF StableInv, SyncGoes, SyncReturns, tables, managedTable
<1>1. /\ sync \in [Replica -> SyncPC] /\ apis \in [Replica -> SUBSET Api]
      /\ startedAt \in [Replica -> Nat] /\ syncedAt \in [Op -> Nat]
  BY DEF TypeOK, ManagedTypeOK, CatalogueTypeOK, Time
<1>2. CASE StartSync(r)
  BY <1>1, <1>2 DEF StartSync
<1>3. CASE ListPublishedAPIs(r)
  BY <1>1, <1>3 DEF ListPublishedAPIs
<1>4. CASE FetchDetails(r)
  BY <1>1, <1>4 DEF FetchDetails
<1>5. CASE SyncCatalogue(r)
  <2>1. OpsOf(Stable) \subseteq OpsOf(apis[r]) /\ OpsOf(apis[r]) \subseteq Op
    BY <1>5 DEF SyncCatalogue, OpsOf
  <2>2. OpsOf(apis[r]) \subseteq activeOps'
    BY <1>1, <1>5, <2>1 DEF SyncCatalogue, SyncManaged
  <2> QED BY <1>1, <1>5, <2>1, <2>2 DEF SyncCatalogue
<1>6. CASE StampPhase2(r)
  BY <1>1, <1>6 DEF StampPhase2
<1>7. CASE SyncFails(r)
  BY <1>1, <1>7 DEF SyncFails
<1> QED
  BY <1>2, <1>3, <1>4, <1>5, <1>6, <1>7 DEF SyncStep

\* If no detail fetch is ever lost, an API that stays published protects the
\* endpoints of its services from shadow verdicts, for any number of replicas.
THEOREM CompleteFetchesPreventFalseShadow ==
    ASSUME ~FetchMayFail
    PROVE  Spec => NoFalseShadow
<1> DEFINE Holds == \A f \in findings' \ findings : \A e \in active :
                       f.verdict = "shadow" /\ ServiceOf[e] = ServiceOf[f.endpoint]
                          => \A o \in Op : ApiOf[o] \in Stable => ~Matches(o, e)
<1>1. Init => StableInv
  BY DEF Init, ManagedInit, StableInv
<1>2. TypeOK /\ StableInv /\ [Next]_vars => StableInv'
  <2> SUFFICES ASSUME TypeOK, StableInv, [Next]_vars PROVE StableInv'
    OBVIOUS
  <2> USE DEF StableInv, tables, managedTable, syncVars, OpsOf
  <2>1. CASE Tick \/ UNCHANGED vars
    BY <2>1 DEF Tick, vars
  <2>2. CASE Publishing
    BY <2>2 DEF Publishing, ChangePublished
  <2>3. ASSUME NEW r \in Replica, CycleStep(r) PROVE StableInv'
    <3>1. UNCHANGED activeOps
      BY <2>3 DEF CycleStep, StartCycle, CycleEnsureServices, EnsureServices, CycleUpsert,
              UpsertDiscovered, PassGuard, SkipPhase3, CycleClassify, Classify,
              CycleFindAnchors, CycleMarkAnchors, MarkAnchors, CycleRefreshView,
              RefreshView, CycleFails
    <3> QED BY <2>3, <3>1 DEF CycleStep
  <2>4. ASSUME NEW r \in Replica, SyncStep(r) PROVE StableInv'
    BY <2>4, SyncStepStable
  <2>5. ASSUME NEW r \in Replica, RetentionStep(r) PROVE StableInv'
    <3>1. UNCHANGED activeOps
      BY <2>5 DEF RetentionStep, RetainClassifications, CleanupClassifications, RetainActive,
              SoftDeleteDiscovered, RetainDiscovered, HardDeleteDiscovered, RetainManaged,
              CleanupManaged, RetentionFails
    <3> QED BY <2>5, <3>1 DEF RetentionStep
  <2>6. ASSUME NEW r \in Replica, Crash(r) PROVE StableInv'
    BY <2>6 DEF Crash, SyncReturns, TypeOK, ManagedTypeOK
  <2> QED
    BY <2>1, <2>2, <2>3, <2>4, <2>5, <2>6 DEF Next
<1>3. TypeOK /\ StableInv /\ GuardInv /\ [Next]_vars => [Holds]_vars
  <2> SUFFICES ASSUME TypeOK, StableInv, GuardInv, NEW r \in Replica, CycleClassify(r)
               PROVE  Holds
    BY OnlyClassifyFinds
  <2>1. OpsOf(Stable) \subseteq activeOps
    BY DEF CycleClassify, CycleGoes, GuardInv, StableInv
  <2> QED
    BY <2>1, ShadowMeansUnmanaged DEF OpsOf
<1> QED
  BY <1>1, <1>2, <1>3, TypeCorrectness, GuardInvariant, PTL DEF Spec, NoFalseShadow
=============================================================================

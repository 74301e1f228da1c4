---------------------------- MODULE StartupProofs ----------------------------
(****************************************************************************)
(* Proofs about Startup for any number of replicas and faults: if a fresh   *)
(* database is given to one replica only, what is recorded was applied, and *)
(* a replica that is up finds the whole schema.                             *)
(****************************************************************************)
EXTENDS Startup, TLAPS

\* Two replicas are started over a database that has tables already.
SafeDeployment ==
    \A d \in Deployment : d.database = "fresh" => \A q, r \in d.replicas : q = r

----------------------------------------------------------------------------
(* The migrations. *)

LEMMA ProvidesObjects ==
    ASSUME NEW m \in Migration
    PROVE  Provides(m) \subseteq Objects /\ "identity" \notin Provides(m)
<1>1. Provides(m) \subseteq Objects
  BY DEF Objects
<1>2. "identity" \notin Provides(m)
  BY DEF Provides, Migration
<1> QED BY <1>1, <1>2

\* A body undoes nothing that an earlier migration left behind.
LEMMA BodyKeeps ==
    ASSUME schema \in SUBSET Objects, view \in {0, 5, 7, 8},
           NEW m \in Migration, NEW k \in Migration, Body(m), Applied(k),
           m = 7 => k # 8
    PROVE  Applied(k)'
<1>1. Provides(k) \subseteq schema'
  BY ProvidesObjects DEF Body, Applied
<1>2. ViewOf(k) <= view'
  BY DEF Body, Applied, ViewOf, Migration
<1> QED BY <1>1, <1>2 DEF Applied

LEMMA BodyApplies ==
    ASSUME schema \in SUBSET Objects, view \in {0, 5, 7, 8}, NEW m \in Migration, Body(m)
    PROVE  Applied(m)'
<1>1. Provides(m) \subseteq schema'
  BY ProvidesObjects DEF Body
<1>2. ViewOf(m) <= view'
  BY DEF Body, ViewOf, Migration
<1> QED BY <1>1, <1>2 DEF Applied

LEMMA BodyTypes ==
    ASSUME schema \in SUBSET Objects, view \in {0, 5, 7, 8}, stateRows \in Nat,
           NEW m \in Migration, Body(m)
    PROVE  schema' \in SUBSET Objects /\ view' \in {0, 5, 7, 8} /\ stateRows' \in Nat
<1>1. "identity" \in Objects
  BY DEF Objects
<1>2. schema' \in SUBSET Objects
  BY <1>1, ProvidesObjects DEF Body
<1> QED BY <1>2 DEF Body, ViewOf

LEMMA LegacyApplied ==
    ASSUME NEW d \in {"legacy6", "legacy7"}, NEW m \in 1 .. 6
    PROVE  Provides(m) \subseteq LegacySchema(d) /\ ViewOf(m) <= LegacyView(d)
BY DEF LegacySchema, LegacyView, ViewOf

----------------------------------------------------------------------------
(* Types. *)

LEMMA ProcessStates ==
    /\ Migrating \subseteq ProcessState
    /\ {"absent", "connect", "wire", "up", "waiting", "readHealth", "readBff"} \subseteq ProcessState
    /\ {"count", "probe", "column", "backfill", "check", "apply"} \subseteq ProcessState
    /\ {"done", "failed", "gaveUp", "crashed"} \subseteq ProcessState
BY DEF ProcessState, Alive, Exited, Migrating, Serving

LEMMA FreshTypes ==
    ASSUME StartupTypeOK, NEW r \in Replica, Fresh(r)
    PROVE  /\ attempt' \in [Replica -> 1 .. Attempts]
           /\ backoff' \in [Replica -> 1 .. MaxBackoff]
           /\ waited' \in [Replica -> Nat]
           /\ next' \in [Replica -> Migration]
           /\ upTo' \in [Replica -> {6, 7}]
           /\ server' \in [Replica -> [Server -> ServerState]]
           /\ loops' \in [Replica -> SUBSET Loop]
<1>1. NoServer \in [Server -> ServerState]
  BY DEF NoServer, ServerState, Returned
<1> QED
  BY <1>1, StartupAssumption DEF StartupAssumption, StartupTypeOK, Fresh, Migration

LEMMA MigrateTypes ==
    ASSUME StartupTypeOK, NEW r \in Replica, Migrate(r)
    PROVE  StartupTypeOK'
<1> USE ProcessStates DEF StartupTypeOK, Becomes, dbVars, connectVars, migrateVars, taskVars
<1>1. CASE CountRecorded(r)
  <2>1. next' \in [Replica -> Migration]
    BY <1>1 DEF CountRecorded, Migration
  <2> QED BY <1>1, <2>1 DEF CountRecorded, KeepsData
<1>2. CASE ProbeManaged(r) \/ ProbeColumn(r)
  BY <1>2 DEF ProbeManaged, ProbeColumn, KeepsData
<1>3. CASE Backfill(r)
  <2>1. next[r] < upTo[r] => next[r] + 1 \in Migration
    <3>1. upTo[r] <= 7 /\ next[r] \in 1 .. 8
      BY DEF Migration
    <3> QED BY <3>1 DEF Migration
  <2>2. /\ next' \in [Replica -> Migration] /\ pc' \in [Replica -> ProcessState]
        /\ upTo' \in [Replica -> {6, 7}]
    <3>1. CASE next[r] < upTo[r]
      BY <1>3, <2>1, <3>1 DEF Backfill
    <3>2. CASE ~(next[r] < upTo[r])
      <4>1. 1 \in Migration
        BY DEF Migration
      <4> QED BY <1>3, <3>2, <4>1 DEF Backfill
    <3> QED BY <3>1, <3>2
  <2>3. recorded' \in SUBSET Migration
    BY <1>3 DEF Backfill
  <2> QED BY <1>3, <2>2, <2>3 DEF Backfill
<1>6. Advance(r) => next' \in [Replica -> Migration] /\ pc' \in [Replica -> ProcessState]
  <2>1. next[r] < 8 => next[r] + 1 \in Migration
    BY DEF Migration
  <2> QED BY <2>1 DEF Advance
<1>7. CASE CheckRecorded(r)
  <2>1. next' \in [Replica -> Migration] /\ pc' \in [Replica -> ProcessState]
    BY <1>6, <1>7 DEF CheckRecorded
  <2> QED BY <1>7, <2>1 DEF CheckRecorded, KeepsData
<1>4. CASE Apply(r)
  <2>1. schema' \in SUBSET Objects /\ view' \in {0, 5, 7, 8} /\ stateRows' \in Nat
    BY <1>4, BodyTypes DEF Apply
  <2>2. recorded' \in SUBSET Migration
    BY <1>4 DEF Apply
  <2>3. next' \in [Replica -> Migration] /\ pc' \in [Replica -> ProcessState]
    BY <1>4, <1>6 DEF Apply
  <2> QED BY <1>4, <2>1, <2>2, <2>3 DEF Apply
<1>5. CASE ApplyFails(r)
  BY <1>5, FreshTypes DEF ApplyFails
<1> QED BY <1>1, <1>2, <1>3, <1>4, <1>5, <1>7 DEF Migrate

LEMMA RunTypes ==
    ASSUME StartupTypeOK, NEW r \in Replica, Run(r)
    PROVE  StartupTypeOK'
<1> USE ProcessStates DEF StartupTypeOK, Becomes, dbVars, connectVars, migrateVars, taskVars
<1>1. CASE Wire(r)
  <2>1. \A bff \in {"running", "stopped"} :
            [health |-> "running", bff |-> bff] \in [Server -> ServerState]
    BY DEF Server, ServerState, Returned
  <2>2. server' \in [Replica -> [Server -> ServerState]]
    BY <1>1, <2>1 DEF Wire
  <2> QED BY <1>1, <2>2 DEF Wire
<1>2. CASE Shutdown(r) \/ AllReturned(r) \/ ReadHealth(r) \/ ReadBff(r)
  BY <1>2 DEF Shutdown, AllReturned, ReadHealth, ReadBff, KeepsData
<1>3. ASSUME NEW s \in Server, ServerReturns(r, s) \/ ServerStops(r, s) PROVE StartupTypeOK'
  <2>1. CASE ServerReturns(r, s)
    BY <2>1 DEF ServerReturns, ServerState, Returned
  <2>2. CASE ServerStops(r, s)
    BY <2>2 DEF ServerStops, ServerState, Returned
  <2> QED BY <1>3, <2>1, <2>2
<1>4. ASSUME NEW l \in Loop, LoopStops(r, l) PROVE StartupTypeOK'
  BY <1>4 DEF LoopStops
<1> QED BY <1>1, <1>2, <1>3, <1>4 DEF Run

\* The database, the processes and their local variables keep their types.
THEOREM StartupTypes == StartupSpec => []StartupTypeOK
<1> USE StartupAssumption DEF StartupAssumption
<1>1. StartupInit => StartupTypeOK
  <2> SUFFICES ASSUME StartupInit PROVE StartupTypeOK
    OBVIOUS
  <2>1. schema \in SUBSET Objects /\ view \in {0, 5, 7, 8} /\ stateRows \in Nat
    <3>1. PICK d \in Deployment : /\ schema = LegacySchema(d.database)
                                  /\ view = LegacyView(d.database)
                                  /\ stateRows = d.starts
      BY DEF StartupInit
    <3>2. LegacySchema(d.database) \subseteq Objects
      BY DEF LegacySchema, Objects, Migration
    <3> QED BY <3>1, <3>2 DEF LegacyView
  <2>2. pc \in [Replica -> ProcessState] /\ server \in [Replica -> [Server -> ServerState]]
    BY ProcessStates DEF StartupInit, NoServer, ServerState, Returned
  <2> QED BY <2>1, <2>2 DEF StartupInit, StartupTypeOK, Migration
<1>2. StartupTypeOK /\ [StartupNext]_startupVars => StartupTypeOK'
  <2> SUFFICES ASSUME StartupTypeOK, [StartupNext]_startupVars PROVE StartupTypeOK'
    OBVIOUS
  <2> USE ProcessStates DEF StartupTypeOK, Becomes, dbVars, connectVars, migrateVars, taskVars
  <2>1. CASE UNCHANGED startupVars
    BY <2>1 DEF startupVars
  <2>9. Fault => faults' \in 0 .. MaxFaults
    BY DEF Fault
  <2>2. CASE DatabaseFails \/ DatabaseReturns
    BY <2>2, <2>9 DEF DatabaseFails, DatabaseReturns
  <2>3. ASSUME NEW r \in Replica, ConnectSucceeds(r) \/ ConnectFails(r) PROVE StartupTypeOK'
    <3>1. CASE ConnectSucceeds(r)
      BY <3>1 DEF ConnectSucceeds
    <3>2. CASE ConnectFails(r)
      <4>1. Least(2 * backoff[r], MaxBackoff) \in 1 .. MaxBackoff
        BY DEF Least
      <4>2. /\ backoff' \in [Replica -> 1 .. MaxBackoff]
            /\ waited' \in [Replica -> Nat]
            /\ attempt' \in [Replica -> 1 .. Attempts]
        BY <3>2, <4>1 DEF ConnectFails
      <4> QED BY <3>2, <4>2 DEF ConnectFails
    <3> QED BY <2>3, <3>1, <3>2
  <2>4. ASSUME NEW r \in Replica, Migrate(r) \/ Run(r) PROVE StartupTypeOK'
    BY <2>4, MigrateTypes, RunTypes
  <2>5. ASSUME NEW r \in Replica, GivesError(r) \/ Restart(r) PROVE StartupTypeOK'
    <3>1. Fresh(r) /\ UNCHANGED <<dbUp, dbVars, faults, term>>
      BY <2>5 DEF GivesError, Restart
    <3>2. pc' \in [Replica -> ProcessState]
      BY <2>5 DEF GivesError, Restart
    <3> QED BY <3>1, <3>2, FreshTypes
  <2>6. ASSUME NEW r \in Replica, Crash(r) \/ StatementFails(r) PROVE StartupTypeOK'
    <3>1. Fresh(r) /\ Fault /\ UNCHANGED <<dbUp, dbVars, term>>
      BY <2>6 DEF Crash, StatementFails
    <3>2. pc' \in [Replica -> ProcessState]
      BY <2>6 DEF Crash, StatementFails
    <3> QED BY <3>1, <3>2, <2>9, FreshTypes
  <2>7. ASSUME NEW r \in Replica, Terminate(r) PROVE StartupTypeOK'
    BY <2>7, <2>9 DEF Terminate
  <2>8. ASSUME NEW r \in Replica, NEW s \in Server, ListenFails(r, s) PROVE StartupTypeOK'
    BY <2>8 DEF ListenFails, ServerState
  <2> QED
    BY <2>1, <2>2, <2>3, <2>4, <2>5, <2>6, <2>7, <2>8 DEF StartupNext, Process, Disturb
<1> QED
  BY <1>1, <1>2, PTL DEF StartupSpec

----------------------------------------------------------------------------
(* The invariant. *)

\* The record is an initial segment of the migrations.
Segment == \A m \in recorded : \A k \in Migration : k < m => k \in recorded

\* What a process knows of the record where it stands.
Reached(r) ==
    /\ pc[r] \in {"probe", "column"} => next[r] = 1
    /\ pc[r] \in {"backfill", "check", "apply"} =>
          \A k \in Migration : k < next[r] => k \in recorded
    /\ pc[r] = "backfill" => next[r] <= upTo[r] /\ (upTo[r] = 7 => Applied(7))
    /\ pc[r] \in {"wire", "up", "waiting"} => Migration \subseteq recorded

\* A legacy database: whoever finds an empty record is right to backfill it,
\* and nobody runs 001.
Old ==
    /\ \A m \in 1 .. 6 : Applied(m)
    /\ "identity" \notin schema => Applied(7)
    /\ \A r \in Replica : pc[r] \in {"check", "apply"} => 1 \in recorded

\* A database of one replica: it never takes it for a legacy one.
Lone ==
    /\ \A q, r \in Replica : pc[q] # "absent" /\ pc[r] # "absent" => q = r
    /\ "managed" \in schema => recorded # {}
    /\ "pipeline_state" \in schema => 1 \in recorded
    /\ \A r \in Replica : pc[r] \notin {"column", "backfill"}
    /\ \A r \in Replica : pc[r] = "probe" => recorded = {}

MigrateInv ==
    /\ Segment
    /\ RecordedWasApplied
    /\ \A r \in Replica : Reached(r)
    /\ Old \/ Lone

\* A step of a process that touches neither the database nor, unless it was up,
\* goes on to a place where it relies on the record.
LEMMA QuietStep ==
    ASSUME StartupTypeOK, MigrateInv, UNCHANGED dbVars, NEW r \in Replica, NEW to,
           pc[r] # "absent", Becomes(r, to),
           \/ to \in {"connect", "count", "readHealth", "readBff"} \cup Exited
           \/ to \in {"up", "waiting"} /\ pc[r] \in {"wire", "up"},
           \A q \in Replica : q # r => next'[q] = next[q] /\ upTo'[q] = upTo[q]
    PROVE  MigrateInv'
<1>1. /\ \A q \in Replica : q # r => pc'[q] = pc[q]
      /\ pc'[r] = to
      /\ to \notin {"absent", "probe", "column", "backfill", "check", "apply", "wire"}
  BY DEF StartupTypeOK, Becomes, Exited
<1>2. UNCHANGED <<schema, view, stateRows, recorded>>
  BY DEF dbVars
<1>3. (Segment /\ RecordedWasApplied)'
  BY <1>2 DEF MigrateInv, Segment, RecordedWasApplied, Applied
<1>7. \A q \in Replica : q # r => Reached(q)'
  BY <1>1, <1>2 DEF MigrateInv, Reached, Applied
<1>8. Reached(r)'
  BY <1>1, <1>2 DEF MigrateInv, Reached, Exited
<1>4. \A q \in Replica : Reached(q)'
  BY <1>7, <1>8
<1>5. Old => Old'
  BY <1>1, <1>2 DEF Old, Applied
<1>6. Lone => Lone'
  BY <1>1, <1>2 DEF Lone
<1> QED
  BY <1>3, <1>4, <1>5, <1>6 DEF MigrateInv

\* A step of a migrating process that only reads.
LEMMA ReadStep ==
    ASSUME StartupTypeOK, MigrateInv, NEW r \in Replica,
           CountRecorded(r) \/ ProbeManaged(r) \/ ProbeColumn(r) \/ CheckRecorded(r)
    PROVE  MigrateInv'
<1>1. UNCHANGED <<schema, view, stateRows, recorded>>
  BY DEF CountRecorded, ProbeManaged, ProbeColumn, CheckRecorded, KeepsData, dbVars
<1>2. /\ \A q \in Replica : q # r => pc'[q] = pc[q] /\ next'[q] = next[q] /\ upTo'[q] = upTo[q]
      /\ pc[r] # "absent"
  BY DEF StartupTypeOK, Becomes, CountRecorded, ProbeManaged, ProbeColumn, CheckRecorded,
         Advance, Statement, migrateVars
<1>3. (Segment /\ RecordedWasApplied)'
  BY <1>1 DEF MigrateInv, Segment, RecordedWasApplied, Applied
<1>4. next[r] \in Migration /\ recorded \in SUBSET Migration
  BY DEF StartupTypeOK
<1>5. recorded # {} => 1 \in recorded
  <2> SUFFICES ASSUME NEW m \in recorded PROVE 1 \in recorded
    OBVIOUS
  <2>1. m \in 1 .. 8 /\ 1 \in Migration
    BY <1>4 DEF Migration
  <2>2. CASE m = 1
    BY <2>2
  <2>3. CASE m > 1
    BY <2>1, <2>3 DEF MigrateInv, Segment
  <2> QED BY <2>1, <2>2, <2>3
<1>6. CASE CountRecorded(r)
  <2>1. pc'[r] = (IF recorded = {} THEN "probe" ELSE "check") /\ next'[r] = 1
    BY <1>6 DEF StartupTypeOK, Becomes, CountRecorded
  <2>2. Reached(r)'
    BY <1>1, <2>1 DEF Reached, Migration
  <2>3. \A q \in Replica : Reached(q)'
    BY <1>1, <1>2, <2>2 DEF MigrateInv, Reached, Applied
  <2>4. Old => Old'
    BY <1>1, <1>2, <1>5, <2>1 DEF Old, Applied
  <2>5. Lone => Lone'
    BY <1>1, <1>2, <2>1 DEF Lone
  <2> QED BY <1>3, <2>3, <2>4, <2>5 DEF MigrateInv
<1>7. CASE ProbeManaged(r)
  <2>1. /\ pc'[r] = (IF "managed" \in schema THEN "column" ELSE "check")
        /\ next'[r] = next[r] /\ pc[r] = "probe"
    BY <1>7 DEF StartupTypeOK, Becomes, ProbeManaged, Statement, migrateVars
  <2>2. Reached(r)'
    BY <1>1, <2>1 DEF MigrateInv, Reached, Migration
  <2>3. \A q \in Replica : Reached(q)'
    BY <1>1, <1>2, <2>2 DEF MigrateInv, Reached, Applied
  <2>4. Old => Old'
    <3>1. Old => "managed" \in schema
      BY DEF Old, Applied, Provides
    <3> QED BY <1>1, <1>2, <2>1, <3>1 DEF Old, Applied
  <2>5. Lone => Lone'
    BY <1>1, <1>2, <2>1 DEF Lone
  <2> QED BY <1>3, <2>3, <2>4, <2>5 DEF MigrateInv
<1>8. CASE ProbeColumn(r)
  <2>1. /\ pc'[r] = "backfill" /\ pc[r] = "column" /\ next'[r] = next[r]
        /\ upTo'[r] = IF "identity" \in schema THEN 6 ELSE 7
    BY <1>8 DEF StartupTypeOK, Becomes, ProbeColumn, Statement
  <2>2. Old
    BY <2>1 DEF MigrateInv, Lone
  <2>3. Reached(r)'
    BY <1>1, <2>1, <2>2 DEF MigrateInv, Reached, Migration, Old, Applied
  <2>4. \A q \in Replica : Reached(q)'
    BY <1>1, <1>2, <2>3 DEF MigrateInv, Reached, Applied
  <2>5. Old'
    BY <1>1, <1>2, <2>1, <2>2 DEF Old, Applied
  <2> QED BY <1>3, <2>4, <2>5 DEF MigrateInv
<1>9. CASE CheckRecorded(r)
  <2>1. /\ pc[r] = "check"
        /\ pc'[r] = IF next[r] \notin recorded THEN "apply"
                    ELSE IF next[r] < 8 THEN "check" ELSE "wire"
        /\ next'[r] = IF next[r] \in recorded /\ next[r] < 8 THEN next[r] + 1 ELSE next[r]
    BY <1>9 DEF StartupTypeOK, Becomes, CheckRecorded, Advance, Statement
  <2>2. Reached(r)'
    BY <1>1, <1>4, <2>1 DEF MigrateInv, Reached, Migration
  <2>3. \A q \in Replica : Reached(q)'
    BY <1>1, <1>2, <2>2 DEF MigrateInv, Reached, Applied
  <2>4. Old => Old'
    BY <1>1, <1>2, <2>1 DEF Old, Applied
  <2>5. Lone => Lone'
    BY <1>1, <1>2, <2>1 DEF Lone
  <2> QED BY <1>3, <2>3, <2>4, <2>5 DEF MigrateInv
<1> QED
  BY <1>6, <1>7, <1>8, <1>9

LEMMA BackfillStep ==
    ASSUME StartupTypeOK, MigrateInv, NEW r \in Replica, Backfill(r)
    PROVE  MigrateInv'
<1> DEFINE m == next[r]
<1>1. /\ pc[r] = "backfill" /\ UNCHANGED <<schema, view, stateRows>>
      /\ recorded' = recorded \cup {m} /\ m \in Migration /\ recorded \in SUBSET Migration
      /\ m <= upTo[r] /\ upTo[r] \in {6, 7}
  BY DEF Backfill, Statement, StartupTypeOK, MigrateInv, Reached
<1>2. /\ \A q \in Replica : q # r => pc'[q] = pc[q] /\ next'[q] = next[q] /\ upTo'[q] = upTo[q]
      /\ m < upTo[r] => upTo'[r] = upTo[r]
      /\ pc'[r] = IF m < upTo[r] THEN "backfill" ELSE "check"
      /\ next'[r] = IF m < upTo[r] THEN m + 1 ELSE 1
  BY <1>1 DEF Backfill, StartupTypeOK, Becomes
<1>3. Old
  BY <1>1 DEF MigrateInv, Lone
<1>4. Applied(m)
  <2>1. m \in 1 .. 6 \/ (m = 7 /\ upTo[r] = 7)
    BY <1>1 DEF Migration
  <2> QED BY <1>1, <1>3, <2>1 DEF Old, MigrateInv, Reached
<1>5. Segment'
  <2>1. \A k \in Migration : k < m => k \in recorded
    BY <1>1 DEF MigrateInv, Reached
  <2> QED BY <1>1, <2>1 DEF MigrateInv, Segment
<1>6. RecordedWasApplied'
  BY <1>1, <1>4 DEF MigrateInv, RecordedWasApplied, Applied
<1>7. \A q \in Replica : q # r => Reached(q)'
  BY <1>1, <1>2 DEF MigrateInv, Reached, Applied
<1>8. Reached(r)'
  <2>1. \A k \in Migration : k < m + 1 => k \in recorded'
    BY <1>1 DEF MigrateInv, Reached, Migration
  <2>2. upTo[r] = 7 => Applied(7)'
    BY <1>1 DEF MigrateInv, Reached, Applied
  <2>3. \A k \in Migration : ~(k < 1)
    BY DEF Migration
  <2> QED BY <1>1, <1>2, <2>1, <2>2, <2>3 DEF Reached, Migration
<1>9. Old'
  <2>1. m >= upTo[r] => 1 \in recorded'
    BY <1>1 DEF MigrateInv, Reached, Migration
  <2>2. pc'[r] \in {"check", "apply"} => 1 \in recorded'
    BY <1>1, <1>2, <2>1 DEF Migration
  <2>3. \A q \in Replica : pc'[q] \in {"check", "apply"} => 1 \in recorded'
    BY <1>1, <1>2, <1>3, <2>2 DEF Old
  <2> QED BY <1>1, <1>3, <2>3 DEF Old, Applied
<1>10. \A q \in Replica : Reached(q)'
  BY <1>7, <1>8
<1> QED
  BY <1>5, <1>6, <1>9, <1>10 DEF MigrateInv

LEMMA ApplyStep ==
    ASSUME StartupTypeOK, MigrateInv, NEW r \in Replica, Apply(r)
    PROVE  MigrateInv'
<1>0. PICK m : m = next[r]
  OBVIOUS
<1>1. /\ pc[r] = "apply" /\ Body(m) /\ m \notin recorded
      /\ recorded' = recorded \cup {m} /\ m \in Migration /\ recorded \in SUBSET Migration
      /\ \A k \in Migration : k < m => k \in recorded
  BY <1>0 DEF Apply, Statement, StartupTypeOK, MigrateInv, Reached
<1>2. /\ \A q \in Replica : q # r => pc'[q] = pc[q] /\ next'[q] = next[q]
      /\ \A q \in Replica : upTo'[q] = upTo[q]
      /\ pc'[r] = IF m < 8 THEN "check" ELSE "wire"
      /\ next'[r] = IF m < 8 THEN m + 1 ELSE m
  BY <1>0, <1>1 DEF Apply, Advance, StartupTypeOK, Becomes
<1>3. schema \in SUBSET Objects /\ view \in {0, 5, 7, 8}
  BY DEF StartupTypeOK
<1>4. Applied(m)'
  BY <1>1, <1>3, BodyApplies
<1>5. \A k \in Migration : Applied(k) /\ (m = 7 => k # 8) => Applied(k)'
  BY <1>1, <1>3, BodyKeeps
<1>6. Segment'
  BY <1>1 DEF MigrateInv, Segment
<1>7. RecordedWasApplied'
  <2> SUFFICES ASSUME NEW k \in recorded' PROVE Applied(k)'
    BY DEF RecordedWasApplied
  <2>1. CASE k = m
    BY <1>4, <2>1
  <2>2. CASE k \in recorded
    <3>1. m = 7 => k # 8
      BY <1>1, <2>2 DEF MigrateInv, Segment, Migration
    <3> QED BY <1>1, <1>5, <2>2, <3>1 DEF MigrateInv, RecordedWasApplied
  <2> QED BY <1>1, <2>1, <2>2
<1>8. "pipeline_state" \in schema' <=> "pipeline_state" \in schema \/ m = 1
  BY <1>1 DEF Body, Provides, Migration
<1>11. Reached(r)'
  <2>1. \A k \in Migration : k < m + 1 => k \in recorded'
    BY <1>1 DEF Migration
  <2>2. m >= 8 => Migration \subseteq recorded'
    BY <1>1 DEF Migration
  <2>3. m < 8 \/ m >= 8
    BY <1>1 DEF Migration
  <2> QED BY <1>2, <2>1, <2>2, <2>3 DEF Reached
<1>12. \A q \in Replica : q # r => Reached(q)'
  <2>1. Applied(7) => Applied(7)'
    BY <1>5 DEF Migration
  <2> QED BY <1>1, <1>2, <2>1 DEF MigrateInv, Reached
<1>13. Old => Old'
  <2> SUFFICES ASSUME Old PROVE Old'
    OBVIOUS
  <2>1. \A k \in 1 .. 6 : Applied(k)'
    BY <1>5 DEF Old, Migration
  <2>2. "identity" \notin schema' => Applied(7)'
    <3>1. CASE m = 7
      BY <1>4, <3>1
    <3>2. CASE m # 7
      <4>1. "identity" \in schema => "identity" \in schema'
        BY <1>1, <3>2 DEF Body
      <4> QED BY <1>5, <4>1 DEF Old, Migration
    <3> QED BY <3>1, <3>2
  <2>3. 1 \in recorded'
    BY <1>1 DEF Old
  <2> QED BY <2>1, <2>2, <2>3 DEF Old
<1>14. Lone => Lone'
  <2> SUFFICES ASSUME Lone PROVE Lone'
    OBVIOUS
  <2>1. \A q \in Replica : pc'[q] # "absent" => q = r
    BY <1>1, <1>2 DEF Lone
  <2> QED BY <1>1, <1>2, <1>8, <2>1 DEF Lone
<1>15. \A q \in Replica : Reached(q)'
  BY <1>11, <1>12
<1> QED
  BY <1>6, <1>7, <1>13, <1>14, <1>15 DEF MigrateInv

LEMMA MigrateStart ==
    ASSUME SafeDeployment, StartupInit
    PROVE  MigrateInv
<1>1. PICK d \in Deployment :
        /\ schema = LegacySchema(d.database)
        /\ view = LegacyView(d.database)
        /\ pc = [r \in Replica |-> IF r \in d.replicas THEN "connect" ELSE "absent"]
  BY DEF StartupInit
<1>2. recorded = {}
  BY DEF StartupInit
<1>3. d.database \in {"fresh", "legacy6", "legacy7"} /\ d.replicas \subseteq Replica
  BY StartupAssumption DEF StartupAssumption
<1>4. \A r \in Replica : pc[r] \in {"connect", "absent"}
  BY <1>1
<1>5. Segment /\ RecordedWasApplied /\ \A r \in Replica : Reached(r)
  BY <1>2, <1>4 DEF Segment, RecordedWasApplied, Reached
<1>6. CASE d.database = "fresh"
  <2>1. schema = {}
    BY <1>1, <1>6 DEF LegacySchema
  <2>2. Lone
    BY <1>1, <1>4, <1>6, <2>1 DEF Lone, SafeDeployment
  <2> QED BY <1>5, <2>2 DEF MigrateInv
<1>7. CASE d.database \in {"legacy6", "legacy7"}
  <2>1. \A m \in 1 .. 6 : Applied(m)
    BY <1>1, <1>7, LegacyApplied DEF Applied
  <2>2. "identity" \notin schema => Applied(7)
    <3>1. d.database = "legacy6" => "identity" \in schema
      BY <1>1, <1>7 DEF LegacySchema
    <3>2. d.database = "legacy7" => Applied(7)
      BY <1>1, <1>7 DEF LegacySchema, LegacyView, Applied, ViewOf
    <3> QED BY <1>7, <3>1, <3>2
  <2>4. Old
    BY <1>4, <2>1, <2>2 DEF Old
  <2> QED BY <1>5, <2>4 DEF MigrateInv
<1> QED
  BY <1>3, <1>6, <1>7

LEMMA MigrateInvariant == ASSUME SafeDeployment PROVE StartupSpec => []MigrateInv
<1>1. StartupInit => MigrateInv
  BY MigrateStart
<1>2. StartupTypeOK /\ MigrateInv /\ [StartupNext]_startupVars => MigrateInv'
  <2> SUFFICES ASSUME StartupTypeOK, MigrateInv, [StartupNext]_startupVars PROVE MigrateInv'
    OBVIOUS
  <2>1. CASE UNCHANGED <<dbVars, pc, migrateVars>>
    BY <2>1 DEF dbVars, migrateVars, MigrateInv, Segment, RecordedWasApplied,
                Reached, Old, Lone, Applied
  <2>2. ASSUME NEW r \in Replica, Migrate(r) PROVE MigrateInv'
    <3>1. ApplyFails(r) => pc[r] = "apply" /\ Becomes(r, "failed") /\ Fresh(r) /\ UNCHANGED dbVars
      BY DEF ApplyFails, Statement
    <3> QED
      BY <2>2, <3>1, ReadStep, BackfillStep, ApplyStep, QuietStep
         DEF Migrate, Fresh, Exited, StartupTypeOK
  <2>3. ASSUME NEW r \in Replica, ConnectSucceeds(r) PROVE MigrateInv'
    BY <2>3, QuietStep DEF ConnectSucceeds, migrateVars
  <2>4. ASSUME NEW r \in Replica, ConnectFails(r) PROVE MigrateInv'
    <3>1. CASE UNCHANGED pc
      BY <2>1, <2>4, <3>1 DEF ConnectFails
    <3>2. CASE Becomes(r, "gaveUp")
      BY <2>4, <3>2, QuietStep DEF ConnectFails, migrateVars, Exited
    <3> QED BY <2>4, <3>1, <3>2 DEF ConnectFails
  <2>5. ASSUME NEW r \in Replica, GivesError(r) \/ Crash(r) \/ StatementFails(r) \/ Restart(r)
        PROVE  MigrateInv'
    <3>1. /\ pc[r] # "absent" /\ Fresh(r) /\ UNCHANGED dbVars
          /\ Becomes(r, "failed") \/ Becomes(r, "crashed") \/ Becomes(r, "connect")
      BY <2>5 DEF GivesError, Crash, StatementFails, Restart, Migrating, Alive, Exited, Serving
    <3>2. \A q \in Replica : q # r => next'[q] = next[q] /\ upTo'[q] = upTo[q]
      BY <3>1 DEF Fresh, StartupTypeOK
    <3> QED BY <3>1, <3>2, QuietStep DEF Exited
  <2>6. ASSUME NEW r \in Replica, Run(r) PROVE MigrateInv'
    <3>1. CASE Wire(r)
      BY <3>1, QuietStep DEF Wire, migrateVars
    <3>2. CASE Shutdown(r)
      BY <3>2, QuietStep DEF Shutdown, KeepsData, migrateVars
    <3>3. CASE AllReturned(r)
      BY <3>3, QuietStep DEF AllReturned, KeepsData, migrateVars
    <3>4. CASE ReadHealth(r) \/ ReadBff(r)
      <4>1. /\ pc[r] # "absent" /\ UNCHANGED <<dbVars, migrateVars>>
            /\ Becomes(r, "failed") \/ Becomes(r, "readBff") \/ Becomes(r, "done")
        BY <3>4 DEF ReadHealth, ReadBff, KeepsData
      <4> QED BY <4>1, QuietStep DEF Exited, migrateVars
    <3>5. ASSUME NEW s \in Server, ServerReturns(r, s) \/ ServerStops(r, s) PROVE MigrateInv'
      BY <2>1, <3>5 DEF ServerReturns, ServerStops
    <3>6. ASSUME NEW l \in Loop, LoopStops(r, l) PROVE MigrateInv'
      BY <2>1, <3>6 DEF LoopStops
    <3> QED BY <2>6, <3>1, <3>2, <3>3, <3>4, <3>5, <3>6 DEF Run
  <2>7. ASSUME NEW r \in Replica, Terminate(r) \/ \E s \in Server : ListenFails(r, s)
        PROVE  MigrateInv'
    BY <2>1, <2>7 DEF Terminate, ListenFails
  <2>8. CASE DatabaseFails \/ DatabaseReturns \/ UNCHANGED startupVars
    BY <2>1, <2>8 DEF DatabaseFails, DatabaseReturns, startupVars
  <2> QED
    BY <2>2, <2>3, <2>4, <2>5, <2>6, <2>7, <2>8 DEF StartupNext, Process, Disturb
<1> QED
  BY <1>1, <1>2, StartupTypes, PTL DEF StartupSpec

\* What schema_migrations records was applied, unless two replicas are started
\* over a fresh database.
THEOREM RecordIsTrue ==
    ASSUME SafeDeployment PROVE StartupSpec => []RecordedWasApplied
<1>1. MigrateInv => RecordedWasApplied
  BY DEF MigrateInv
<1> QED BY <1>1, MigrateInvariant, PTL

\* A replica that is up finds every table, column, function and view that it
\* names, and so it stays while others migrate.
THEOREM UpFindsSchema ==
    ASSUME SafeDeployment PROVE StartupSpec => []UpMeansUsable
<1>1. MigrateInv => UpMeansUsable
  BY DEF MigrateInv, Reached, RecordedWasApplied, UpMeansUsable, Serving
<1> QED BY <1>1, MigrateInvariant, PTL

----------------------------------------------------------------------------
(* What replicas that migrate at once do to each other. *)

\* A step that changes the schema is the transaction of one migration.
LEMMA OnlyApplyChangesSchema ==
    ASSUME StartupTypeOK, [StartupNext]_startupVars
    PROVE  UNCHANGED <<schema, view, stateRows>> \/ \E r \in Replica : Apply(r)
BY DEF StartupNext, Process, Disturb, Migrate, Run, ConnectSucceeds, ConnectFails, CountRecorded,
       ProbeManaged, ProbeColumn, Backfill, CheckRecorded, ApplyFails, GivesError, Wire,
       ServerReturns, ServerStops, LoopStops, Shutdown, AllReturned, ReadHealth, ReadBff,
       Restart, ListenFails, Terminate, Crash, StatementFails, DatabaseFails, DatabaseReturns,
       KeepsData, dbVars, startupVars

\* The state row is not seeded again, by no replica and after no fault, in a
\* database whose table is there: whoever comes to 001 finds it recorded, or
\* has found no table.
THEOREM SeedIsNotRepeated ==
    ASSUME SafeDeployment PROVE StartupSpec => SeedRunsOnce
<1>1. StartupTypeOK /\ MigrateInv /\ [StartupNext]_startupVars
      => ["pipeline_state" \in schema => stateRows' = stateRows]_startupVars
  <2> SUFFICES ASSUME StartupTypeOK, MigrateInv, [StartupNext]_startupVars,
                      "pipeline_state" \in schema
               PROVE  stateRows' = stateRows
    OBVIOUS
  <2>1. ASSUME NEW r \in Replica, Apply(r) PROVE stateRows' = stateRows
    <3>1. /\ pc[r] = "apply" /\ next[r] \in Migration /\ next[r] \notin recorded
          /\ Body(next[r])
      BY <2>1 DEF Apply, Statement, StartupTypeOK
    <3>2. next[r] # 1
      BY <3>1 DEF MigrateInv, Old, Lone
    <3> QED BY <3>1, <3>2 DEF Body
  <2> QED BY <2>1, OnlyApplyChangesSchema
<1> QED
  BY <1>1, StartupTypes, MigrateInvariant, PTL DEF StartupSpec, SeedRunsOnce

\* The record only grows.
LEMMA RecordGrows ==
    ASSUME StartupTypeOK, [StartupNext]_startupVars
    PROVE  \/ recorded' = recorded
           \/ \E r \in Replica : /\ Backfill(r) \/ Apply(r)
                                 /\ recorded' = recorded \cup {next[r]}
BY DEF StartupNext, Process, Disturb, Migrate, Run, ConnectSucceeds, ConnectFails, CountRecorded,
       ProbeManaged, ProbeColumn, Backfill, CheckRecorded, Apply, ApplyFails, GivesError, Wire,
       ServerReturns, ServerStops, LoopStops, Shutdown, AllReturned, ReadHealth, ReadBff,
       Restart, ListenFails, Terminate, Crash, StatementFails, DatabaseFails, DatabaseReturns,
       KeepsData, dbVars, startupVars

\* No database of any deployment has the column of 008 before 008 is recorded.
LastIsRecorded == "top_clients" \in schema => 8 \in recorded

LEMMA LastInvariant == StartupSpec => []LastIsRecorded
<1>1. StartupInit => LastIsRecorded
  <2> SUFFICES ASSUME StartupInit PROVE "top_clients" \notin schema
    BY DEF LastIsRecorded
  <2>1. PICK d \in Deployment : schema = LegacySchema(d.database)
    BY DEF StartupInit
  <2>2. d.database \in {"fresh", "legacy6", "legacy7"}
    BY StartupAssumption DEF StartupAssumption
  <2>3. \A m \in 1 .. 7 : "top_clients" \notin Provides(m)
    BY DEF Provides
  <2>4. \A m \in 1 .. 6 : "top_clients" \notin Provides(m)
    BY <2>3
  <2> QED BY <2>1, <2>2, <2>3, <2>4 DEF LegacySchema
<1>2. StartupTypeOK /\ LastIsRecorded /\ [StartupNext]_startupVars => LastIsRecorded'
  <2> SUFFICES ASSUME StartupTypeOK, LastIsRecorded, [StartupNext]_startupVars
               PROVE  LastIsRecorded'
    OBVIOUS
  <2>1. recorded \subseteq recorded'
    BY RecordGrows
  <2>2. CASE UNCHANGED schema
    BY <2>1, <2>2 DEF LastIsRecorded
  <2>3. ASSUME NEW r \in Replica, Apply(r)
        PROVE  LastIsRecorded'
    <3>1. Body(next[r]) /\ next[r] \in Migration /\ next[r] \in recorded'
      BY <2>3 DEF Apply, StartupTypeOK
    <3>2. next[r] # 8 => "top_clients" \notin Provides(next[r])
      BY <3>1 DEF Provides, Migration
    <3>3. next[r] # 8 => ("top_clients" \in schema' => "top_clients" \in schema)
      BY <3>1, <3>2 DEF Body
    <3> QED BY <2>1, <3>1, <3>3 DEF LastIsRecorded
  <2> QED BY <2>2, <2>3, OnlyApplyChangesSchema
<1> QED BY <1>1, <1>2, StartupTypes, PTL DEF StartupSpec

\* No migration undoes another: what one of them left behind stays, whichever
\* replica runs which migration next, and however often one is repeated.
NothingUndone ==
    [][\A m \in Migration : Applied(m) => Applied(m)']_startupVars

\* A migration that runs again, or late, beside those of another replica costs
\* nothing that is already there, for any number of replicas and faults.
THEOREM MigrationsAddUp ==
    ASSUME SafeDeployment PROVE StartupSpec => NothingUndone
<1>1. StartupTypeOK /\ MigrateInv /\ LastIsRecorded /\ [StartupNext]_startupVars
      => [\A m \in Migration : Applied(m) => Applied(m)']_startupVars
  <2> SUFFICES ASSUME StartupTypeOK, MigrateInv, LastIsRecorded, [StartupNext]_startupVars,
                      NEW m \in Migration, Applied(m)
               PROVE  Applied(m)'
    OBVIOUS
  <2>1. CASE UNCHANGED <<schema, view>>
    BY <2>1 DEF Applied
  <2>2. ASSUME NEW r \in Replica, Apply(r)
        PROVE  Applied(m)'
    <3>1. /\ next[r] \in Migration /\ Body(next[r]) /\ next[r] \notin recorded
          /\ schema \in SUBSET Objects /\ view \in {0, 5, 7, 8}
      BY <2>2 DEF Apply, StartupTypeOK
    <3>2. next[r] = 7 => m # 8
      <4> SUFFICES ASSUME next[r] = 7, m = 8 PROVE FALSE
        OBVIOUS
      <4>1. "top_clients" \in schema
        BY DEF Applied, Provides
      <4>2. 8 \in recorded /\ 7 \in Migration
        BY <4>1 DEF LastIsRecorded, Migration
      <4>3. 7 \in recorded
        BY <4>2 DEF MigrateInv, Segment
      <4> QED BY <3>1, <4>3
    <3> QED BY <3>1, <3>2, BodyKeeps
  <2> QED BY <2>1, <2>2, OnlyApplyChangesSchema
<1> QED
  BY <1>1, StartupTypes, MigrateInvariant, LastInvariant, PTL DEF StartupSpec, NothingUndone

\* The transaction of a migration is only refused because another replica has
\* recorded the migration meanwhile, or because a backfill of a database that
\* has seen 007 has not come to 003.
RefusedOnlyWhenWedged ==
    \A r \in Replica :
        pc[r] = "apply" /\ next[r] \notin recorded => Needs(next[r]) \subseteq schema \/ Wedged

\* Replicas that migrate at once refuse each other only what is already done:
\* half of what EventuallyUp rests on, OnlyFaultsWedge is the other.
THEOREM MigrationsAreAccepted ==
    ASSUME SafeDeployment PROVE StartupSpec => []RefusedOnlyWhenWedged
<1>1. StartupTypeOK /\ MigrateInv => RefusedOnlyWhenWedged
  <2> SUFFICES ASSUME StartupTypeOK, MigrateInv, NEW r \in Replica,
                      pc[r] = "apply", next[r] \notin recorded, ~Wedged
               PROVE  Needs(next[r]) \subseteq schema
    BY DEF RefusedOnlyWhenWedged
  <2>1. next[r] \in Migration /\ \A k \in Migration : k < next[r] => Provides(k) \subseteq schema
    BY DEF StartupTypeOK, MigrateInv, Reached, RecordedWasApplied, Applied
  <2>2. next[r] > 1 => "services" \in schema
    <3>1. 1 \in Migration /\ "services" \in Provides(1)
      BY DEF Migration, Provides
    <3> QED BY <2>1, <3>1
  <2>3. next[r] > 2 => "discovered" \in schema
    <3>1. 2 \in Migration /\ "discovered" \in Provides(2)
      BY DEF Migration, Provides
    <3> QED BY <2>1, <3>1
  <2>4. next[r] > 3 => "managed" \in schema
    <3>1. 3 \in Migration /\ "managed" \in Provides(3)
      BY DEF Migration, Provides
    <3> QED BY <2>1, <3>1
  <2>5. next[r] > 4 => "classifications" \in schema
    <3>1. 4 \in Migration /\ "classifications" \in Provides(4)
      BY DEF Migration, Provides
    <3> QED BY <2>1, <3>1
  <2>6. next[r] > 7 => "anchor" \in schema
    <3>1. 7 \in Migration /\ "anchor" \in Provides(7)
      BY DEF Migration, Provides
    <3> QED BY <2>1, <3>1
  <2>7. CASE next[r] = 3
    <3>1. 1 \in recorded
      BY <2>7 DEF MigrateInv, Reached, Migration
    <3> QED BY <2>7, <3>1 DEF Wedged
  <2>8. CASE next[r] # 3
    BY <2>1, <2>2, <2>3, <2>4, <2>5, <2>6, <2>8 DEF Needs, Migration
  <2> QED BY <2>7, <2>8
<1> QED BY <1>1, StartupTypes, MigrateInvariant, PTL

\* A replica that backfills and will come to 003.
Repairing(r) == pc[r] = "backfill" /\ next[r] <= 3

\* Without a fault somebody is about to end the wedge: the replicas that it
\* refuses meanwhile exit, are restarted, and succeed.
WedgeIsRepaired == Wedged /\ faults = 0 => \E r \in Replica : Repairing(r)

\* Without a fault nobody is told to terminate, and the database stays up.
Undisturbed ==
    faults = 0 => \A r \in Replica : ~term[r] /\ (pc[r] \in Migrating => dbUp)

LEMMA UndisturbedInvariant == StartupSpec => []Undisturbed
<1>1. StartupInit => Undisturbed
  BY DEF StartupInit, Undisturbed, Migrating
<1>2. StartupTypeOK /\ Undisturbed /\ [StartupNext]_startupVars => Undisturbed'
  <2> SUFFICES ASSUME StartupTypeOK, Undisturbed, [StartupNext]_startupVars, faults' = 0,
                      NEW r \in Replica
               PROVE  ~term'[r] /\ (pc'[r] \in Migrating => dbUp')
    BY DEF Undisturbed
  <2>1. ~Fault
    BY DEF Fault, StartupTypeOK
  <2>2. faults = 0 /\ term' = term
    BY <2>1
    DEF StartupNext, Process, Disturb, Migrate, Run, ConnectSucceeds, ConnectFails,
        CountRecorded, ProbeManaged, ProbeColumn, Backfill, CheckRecorded, Apply, ApplyFails,
        GivesError, Wire, ServerReturns, ServerStops, LoopStops, Shutdown, AllReturned,
        ReadHealth, ReadBff, Restart, ListenFails, Terminate, Crash, StatementFails,
        DatabaseFails, DatabaseReturns, KeepsData, startupVars
  <2>3. ~term[r] /\ (pc[r] \in Migrating => dbUp)
    BY <2>2 DEF Undisturbed
  <2>4. dbUp => dbUp'
    BY <2>1
    DEF StartupNext, Process, Disturb, Migrate, Run, ConnectSucceeds, ConnectFails,
        CountRecorded, ProbeManaged, ProbeColumn, Backfill, CheckRecorded, Apply, ApplyFails,
        GivesError, Wire, ServerReturns, ServerStops, LoopStops, Shutdown, AllReturned,
        ReadHealth, ReadBff, Restart, ListenFails, Terminate, Crash, StatementFails,
        DatabaseFails, DatabaseReturns, KeepsData, startupVars
  <2>5. pc'[r] \in Migrating => pc[r] \in Migrating \/ ConnectSucceeds(r)
    <3>1. CASE pc'[r] = pc[r]
      BY <3>1
    <3>2. CASE pc'[r] \notin Migrating
      BY <3>2
    <3>3. ASSUME NEW q \in Replica, Process(q) \/ Disturb(q), pc' # pc, q # r
          PROVE  pc'[r] = pc[r]
      BY <3>3
      DEF Process, Disturb, Migrate, Run, ConnectSucceeds, ConnectFails, CountRecorded,
          ProbeManaged, ProbeColumn, Backfill, CheckRecorded, Advance, Apply, ApplyFails,
          GivesError, Wire, ServerReturns, ServerStops, LoopStops, Shutdown, AllReturned,
          ReadHealth, ReadBff, Restart, ListenFails, Terminate, Crash, StatementFails, Becomes,
          KeepsData, StartupTypeOK
    <3>4. ASSUME Process(r) \/ Disturb(r), pc' # pc, ~ConnectSucceeds(r)
          PROVE  pc[r] \in Migrating \/ pc'[r] \notin Migrating
      BY <3>4
      DEF Process, Disturb, Migrate, Run, ConnectFails, CountRecorded, ProbeManaged, ProbeColumn,
          Backfill, CheckRecorded, Apply, ApplyFails, GivesError, Wire, ServerReturns,
          ServerStops, LoopStops, Shutdown, AllReturned, ReadHealth, ReadBff, Restart,
          ListenFails, Terminate, Crash, StatementFails, Becomes, KeepsData, StartupTypeOK,
          Statement, Migrating
    <3>5. pc' # pc => \E q \in Replica : Process(q) \/ Disturb(q)
      BY DEF StartupNext, DatabaseFails, DatabaseReturns, startupVars
    <3> QED BY <3>1, <3>3, <3>4, <3>5
  <2>6. ConnectSucceeds(r) => dbUp
    BY DEF ConnectSucceeds
  <2> QED BY <2>2, <2>3, <2>4, <2>5, <2>6
<1> QED BY <1>1, <1>2, StartupTypes, PTL DEF StartupSpec

\* Whoever repairs goes on to, unless 003 is recorded.
LEMMA RepairGoesOn ==
    ASSUME StartupTypeOK, MigrateInv, Undisturbed, faults' = 0, [StartupNext]_startupVars,
           NEW r \in Replica, Repairing(r)
    PROVE  Repairing(r)' \/ 3 \in recorded'
<1>1. ~Fault
  BY DEF Fault, StartupTypeOK
<1>2. faults = 0
  BY <1>1
  DEF StartupNext, Process, Disturb, Migrate, Run, ConnectSucceeds, ConnectFails, CountRecorded,
      ProbeManaged, ProbeColumn, Backfill, CheckRecorded, Apply, ApplyFails, GivesError, Wire,
      ServerReturns, ServerStops, LoopStops, Shutdown, AllReturned, ReadHealth, ReadBff, Restart,
      ListenFails, Terminate, Crash, StatementFails, DatabaseFails, DatabaseReturns, KeepsData,
      startupVars
<1>3. /\ pc[r] = "backfill" /\ dbUp /\ ~term[r]
      /\ next[r] \in 1 .. 8 /\ next[r] <= 3 /\ upTo[r] \in {6, 7}
  BY <1>2 DEF Repairing, Undisturbed, Migrating, StartupTypeOK, Migration
<1>4. CASE Backfill(r)
  <2>1. next'[r] = next[r] + 1 /\ pc'[r] = pc[r] /\ recorded' = recorded \cup {next[r]}
    BY <1>3, <1>4 DEF Backfill, StartupTypeOK
  <2> QED BY <1>3, <2>1 DEF Repairing
<1>5. CASE pc'[r] = pc[r] /\ next'[r] = next[r]
  BY <1>5 DEF Repairing
<1>6. ASSUME NEW q \in Replica, q # r, Process(q) \/ Disturb(q)
      PROVE  pc'[r] = pc[r] /\ next'[r] = next[r]
  BY <1>6
  DEF Process, Disturb, Migrate, Run, ConnectSucceeds, ConnectFails, CountRecorded, ProbeManaged,
      ProbeColumn, Backfill, CheckRecorded, Advance, Apply, ApplyFails, GivesError, Wire,
      ServerReturns, ServerStops, LoopStops, Shutdown, AllReturned, ReadHealth, ReadBff, Restart,
      ListenFails, Terminate, Crash, StatementFails, Fresh, Becomes, KeepsData, migrateVars,
      StartupTypeOK
<1>7. Process(r) \/ Disturb(r) => Backfill(r) \/ (pc' = pc /\ next' = next)
  BY <1>1, <1>3
  DEF Process, Disturb, Migrate, Run, ConnectSucceeds, ConnectFails, CountRecorded, ProbeManaged,
      ProbeColumn, CheckRecorded, Apply, ApplyFails, GivesError, Wire, ServerReturns,
      ServerStops, LoopStops, Shutdown, AllReturned, ReadHealth, ReadBff, Restart, ListenFails,
      Terminate, Crash, StatementFails, Statement, Serving, Exited, migrateVars
<1>8. DatabaseFails \/ DatabaseReturns \/ UNCHANGED startupVars => pc' = pc /\ next' = next
  BY DEF DatabaseFails, DatabaseReturns, startupVars, migrateVars
<1> QED BY <1>4, <1>5, <1>6, <1>7, <1>8 DEF StartupNext

\* A wedge begins with the first step of a backfill.
LEMMA WedgeBegins ==
    ASSUME StartupTypeOK, MigrateInv, [StartupNext]_startupVars, ~Wedged, Wedged'
    PROVE  \E r \in Replica : Repairing(r)'
<1>1. recorded' # {} /\ 3 \notin recorded' /\ 3 \notin recorded /\ ~(Needs(3) \subseteq schema)'
  BY RecordGrows DEF Wedged
<1>2. "managed" \in schema' /\ "identity" \notin schema'
  BY <1>1 DEF Needs
<1>3. ASSUME NEW r \in Replica, Apply(r)
      PROVE  FALSE
  <2>1. /\ Body(next[r]) /\ next[r] \in Migration /\ next[r] # 3
        /\ \A k \in Migration : k < next[r] => k \in recorded
    BY <1>1, <1>3 DEF Apply, Statement, StartupTypeOK, MigrateInv, Reached
  <2>2. next[r] < 3
    BY <1>1, <2>1 DEF Migration
  <2>3. "managed" \in schema /\ "identity" \notin schema
    <3>1. "managed" \notin Provides(next[r])
      BY <2>1 DEF Provides, Migration
    <3> QED BY <1>2, <2>1, <2>2, <3>1 DEF Body
  <2>4. recorded = {}
    BY <1>1, <2>3 DEF Wedged, Needs
  <2>5. ~Old
    BY <1>3, <2>4 DEF Old, Apply, Statement
  <2> QED BY <2>3, <2>4, <2>5 DEF MigrateInv, Lone
<1>4. UNCHANGED <<schema, view>>
  BY <1>3, OnlyApplyChangesSchema
<1>5. recorded = {}
  BY <1>1, <1>4 DEF Wedged, Needs
<1>6. PICK r \in Replica : Backfill(r) /\ recorded' = recorded \cup {next[r]}
  BY <1>1, <1>3, <1>5, RecordGrows
<1>7. pc[r] = "backfill" /\ next[r] = 1 /\ upTo[r] \in {6, 7}
  BY <1>5, <1>6 DEF Backfill, Statement, StartupTypeOK, MigrateInv, Reached, Migration
<1>8. pc'[r] = "backfill" /\ next'[r] = 2
  BY <1>6, <1>7 DEF Backfill, StartupTypeOK
<1> QED BY <1>8 DEF Repairing

\* Only a fault amid a backfill wedges a database for good: with
\* MigrationsAreAccepted, why replicas that migrate at once all come up.
THEOREM OnlyFaultsWedge ==
    ASSUME SafeDeployment PROVE StartupSpec => []WedgeIsRepaired
<1>1. StartupInit => WedgeIsRepaired
  BY DEF StartupInit, WedgeIsRepaired, Wedged
<1>2. /\ StartupTypeOK /\ StartupTypeOK' /\ MigrateInv /\ Undisturbed /\ WedgeIsRepaired
      /\ [StartupNext]_startupVars
      => WedgeIsRepaired'
  <2> SUFFICES ASSUME StartupTypeOK, StartupTypeOK', MigrateInv, Undisturbed, WedgeIsRepaired,
                      [StartupNext]_startupVars, Wedged', faults' = 0
               PROVE  \E r \in Replica : Repairing(r)'
    BY DEF WedgeIsRepaired
  <2>1. CASE ~Wedged
    BY <2>1, WedgeBegins
  <2>2. CASE Wedged
    <3>1. faults = 0
      BY DEF StartupNext, Process, Disturb, Migrate, Run, ConnectSucceeds, ConnectFails,
             CountRecorded, ProbeManaged, ProbeColumn, Backfill, CheckRecorded, Apply,
             ApplyFails, GivesError, Wire, ServerReturns, ServerStops, LoopStops, Shutdown,
             AllReturned, ReadHealth, ReadBff, Restart, ListenFails, Terminate, Crash,
             StatementFails, DatabaseFails, DatabaseReturns, KeepsData, Fault, startupVars,
             StartupTypeOK
    <3>2. PICK r \in Replica : Repairing(r)
      BY <2>2, <3>1 DEF WedgeIsRepaired
    <3> QED BY <3>2, RepairGoesOn DEF Wedged
  <2> QED BY <2>1, <2>2
<1> QED
  BY <1>1, <1>2, StartupTypes, MigrateInvariant, UndisturbedInvariant, PTL DEF StartupSpec

----------------------------------------------------------------------------
(* Patience. *)

\* The sleeps of the attempts add up to 1, 3, 7, 15, 31 and then 30 more each.
SleptSoFar(r) ==
    /\ pc[r] = "connect" =>
          \/ attempt[r] = 1 /\ backoff[r] = 1 /\ waited[r] = 0
          \/ attempt[r] = 2 /\ backoff[r] = 2 /\ waited[r] = 1
          \/ attempt[r] = 3 /\ backoff[r] = 4 /\ waited[r] = 3
          \/ attempt[r] = 4 /\ backoff[r] = 8 /\ waited[r] = 7
          \/ attempt[r] = 5 /\ backoff[r] = 16 /\ waited[r] = 15
          \/ attempt[r] >= 6 /\ backoff[r] = 30 /\ waited[r] = 31 + 30 * (attempt[r] - 6)
    /\ pc[r] = "gaveUp" => waited[r] = 781

\* With 30 attempts and pauses of at most 30 seconds a process gives up on the
\* database after 781 seconds of sleep, neither earlier nor later.
THEOREM StartIsPatient ==
    ASSUME Attempts = 30, MaxBackoff = 30 PROVE StartupSpec => []PatientAtStart
<1> DEFINE SleepInv == \A r \in Replica : SleptSoFar(r)
<1>1. StartupInit => SleepInv
  <2> SUFFICES ASSUME StartupInit, NEW r \in Replica PROVE SleptSoFar(r)
    OBVIOUS
  <2>1. pc[r] # "gaveUp" /\ attempt[r] = 1 /\ backoff[r] = 1 /\ waited[r] = 0
    BY DEF StartupInit
  <2> QED BY <2>1 DEF SleptSoFar
<1>2. StartupTypeOK /\ SleepInv /\ [StartupNext]_startupVars => SleepInv'
  <2> SUFFICES ASSUME StartupTypeOK, SleepInv, [StartupNext]_startupVars, NEW r \in Replica
               PROVE  SleptSoFar(r)'
    OBVIOUS
  <2>1. CASE pc'[r] = pc[r] /\ attempt'[r] = attempt[r] /\ backoff'[r] = backoff[r]
             /\ waited'[r] = waited[r]
    BY <2>1 DEF SleptSoFar
  <2>2. CASE pc'[r] \notin {"connect", "gaveUp"}
    BY <2>2 DEF SleptSoFar
  <2>3. CASE ConnectFails(r)
    <3>1. /\ attempt[r] \in 1 .. 30 /\ backoff[r] \in 1 .. 30 /\ waited[r] \in Nat
          /\ pc[r] = "connect"
      BY <2>3 DEF ConnectFails, StartupTypeOK
    <3>2. /\ waited'[r] = waited[r] + backoff[r]
          /\ backoff'[r] = IF 2 * backoff[r] < 30 THEN 2 * backoff[r] ELSE 30
      BY <2>3 DEF ConnectFails, StartupTypeOK, Least
    <3>3. \/ attempt[r] < 30 /\ attempt'[r] = attempt[r] + 1 /\ pc'[r] = "connect"
          \/ attempt[r] >= 30 /\ pc'[r] = "gaveUp"
      BY <2>3, <3>1 DEF ConnectFails, StartupTypeOK, Becomes
    <3> QED BY <3>1, <3>2, <3>3 DEF SleptSoFar
  <2>4. CASE Restart(r)
    BY <2>4 DEF Restart, Fresh, SleptSoFar, StartupTypeOK, Becomes
  <2>5. ASSUME NEW q \in Replica, q # r, Process(q) \/ Disturb(q) PROVE SleptSoFar(r)'
    BY <2>1, <2>5
       DEF Process, Disturb, Migrate, Run, ConnectSucceeds, ConnectFails, CountRecorded,
           ProbeManaged, ProbeColumn, Backfill, CheckRecorded, Advance, Apply, ApplyFails,
           GivesError, Wire, ServerReturns, ServerStops, LoopStops, Shutdown, AllReturned,
           ReadHealth, ReadBff, Restart, ListenFails, Terminate, Crash, StatementFails, Fresh,
           Becomes, KeepsData, connectVars, StartupTypeOK
  <2>6. ASSUME Process(r) \/ Disturb(r), ~ConnectFails(r), ~Restart(r) PROVE SleptSoFar(r)'
    BY <2>1, <2>2, <2>6
       DEF Process, Disturb, Migrate, Run, ConnectSucceeds, CountRecorded, ProbeManaged,
           ProbeColumn, Backfill, CheckRecorded, Advance, Apply, ApplyFails, GivesError, Wire,
           ServerReturns, ServerStops, LoopStops, Shutdown, AllReturned, ReadHealth, ReadBff,
           ListenFails, Terminate, Crash, StatementFails, Becomes, KeepsData, connectVars,
           StartupTypeOK
  <2>7. CASE DatabaseFails \/ DatabaseReturns \/ UNCHANGED startupVars
    BY <2>1, <2>7 DEF DatabaseFails, DatabaseReturns, startupVars, connectVars
  <2> QED
    BY <2>3, <2>4, <2>5, <2>6, <2>7 DEF StartupNext
<1>3. SleepInv => PatientAtStart
  BY DEF SleptSoFar, PatientAtStart
<1> QED
  BY <1>1, <1>2, <1>3, StartupTypes, PTL DEF StartupSpec

----------------------------------------------------------------------------
(* The exit code. *)

\* What a process knows of its servers after wg.Wait, and after it has read the
\* one channel and the other.
ServersRead(r) ==
    /\ pc[r] \in {"readHealth", "readBff", "done"} =>
          \A s \in Server : server[r][s] \in Returned
    /\ pc[r] \in {"readBff", "done"} => server[r]["health"] = "stopped"
    /\ pc[r] = "done" => server[r]["bff"] = "stopped"

\* Wherever the process goes after that, it has read both channels: exit code 0
\* is given only if neither server returned an error, in however many processes
\* and faults.
THEOREM CleanExitIsTrue == StartupSpec => []CleanExitMeansServed
<1> DEFINE ReadInv == \A r \in Replica : ServersRead(r)
<1>1. StartupInit => ReadInv
  <2> SUFFICES ASSUME StartupInit, NEW r \in Replica PROVE ServersRead(r)
    OBVIOUS
  <2>1. pc[r] \in {"connect", "absent"}
    BY DEF StartupInit
  <2> QED BY <2>1 DEF ServersRead
<1>2. StartupTypeOK /\ ReadInv /\ [StartupNext]_startupVars => ReadInv'
  <2> SUFFICES ASSUME StartupTypeOK, ReadInv, [StartupNext]_startupVars, NEW r \in Replica
               PROVE  ServersRead(r)'
    OBVIOUS
  <2>1. CASE pc'[r] = pc[r] /\ server'[r] = server[r]
    BY <2>1 DEF ServersRead
  <2>2. CASE pc'[r] \notin {"readHealth", "readBff", "done"}
    BY <2>2 DEF ServersRead
  <2>3. server[r] \in [Server -> ServerState] /\ ServersRead(r)
    BY DEF StartupTypeOK
  <2>4. CASE AllReturned(r)
    <3>1. /\ pc'[r] = "readHealth" /\ server'[r] = server[r]
          /\ \A s \in Server : server[r][s] \in Returned
      BY <2>4 DEF AllReturned, KeepsData, taskVars, Becomes, StartupTypeOK
    <3> QED BY <3>1 DEF ServersRead
  <2>5. CASE ReadHealth(r)
    <3>1. /\ pc[r] = "readHealth" /\ server'[r] = server[r]
          /\ pc'[r] = IF server[r]["health"] = "failed" THEN "failed" ELSE "readBff"
      BY <2>5 DEF ReadHealth, KeepsData, taskVars, Becomes, StartupTypeOK
    <3>2. server[r]["health"] \in {"failed", "stopped"}
      BY <2>3, <3>1 DEF ServersRead, Server, Returned
    <3> QED BY <2>3, <3>1, <3>2 DEF ServersRead
  <2>6. CASE ReadBff(r)
    <3>1. /\ pc[r] = "readBff" /\ server'[r] = server[r]
          /\ pc'[r] = IF server[r]["bff"] = "failed" THEN "failed" ELSE "done"
      BY <2>6 DEF ReadBff, KeepsData, taskVars, Becomes, StartupTypeOK
    <3>2. server[r]["bff"] \in {"failed", "stopped"}
      BY <2>3, <3>1 DEF ServersRead, Server, Returned
    <3> QED BY <2>3, <3>1, <3>2 DEF ServersRead
  <2>7. ASSUME NEW s \in Server, ServerReturns(r, s) \/ ServerStops(r, s) \/ ListenFails(r, s)
        PROVE  ServersRead(r)'
    BY <2>2, <2>7 DEF ServerReturns, ServerStops, ListenFails, Serving
  <2>8. ASSUME Process(r) \/ Disturb(r), ~AllReturned(r), ~ReadHealth(r), ~ReadBff(r),
               \A s \in Server :
                   ~ServerReturns(r, s) /\ ~ServerStops(r, s) /\ ~ListenFails(r, s)
        PROVE  ServersRead(r)'
    BY <2>1, <2>2, <2>8
       DEF Process, Disturb, Migrate, Run, ConnectSucceeds, ConnectFails, CountRecorded,
           ProbeManaged, ProbeColumn, Backfill, CheckRecorded, Advance, Apply, ApplyFails,
           GivesError, Wire, LoopStops, Shutdown, Restart, Terminate, Crash, StatementFails,
           Becomes, KeepsData, taskVars, StartupTypeOK
  <2>9. ASSUME NEW q \in Replica, q # r, Process(q) \/ Disturb(q) PROVE ServersRead(r)'
    BY <2>1, <2>9
       DEF Process, Disturb, Migrate, Run, ConnectSucceeds, ConnectFails, CountRecorded,
           ProbeManaged, ProbeColumn, Backfill, CheckRecorded, Advance, Apply, ApplyFails,
           GivesError, Wire, ServerReturns, ServerStops, LoopStops, Shutdown, AllReturned,
           ReadHealth, ReadBff, Restart, ListenFails, Terminate, Crash, StatementFails, Fresh,
           Becomes, KeepsData, taskVars, StartupTypeOK
  <2>10. CASE DatabaseFails \/ DatabaseReturns \/ UNCHANGED startupVars
    BY <2>1, <2>10 DEF DatabaseFails, DatabaseReturns, startupVars, taskVars
  <2> QED
    BY <2>4, <2>5, <2>6, <2>7, <2>8, <2>9, <2>10 DEF StartupNext
<1>3. ReadInv => CleanExitMeansServed
  BY DEF ServersRead, CleanExitMeansServed, Server
<1> QED
  BY <1>1, <1>2, <1>3, StartupTypes, PTL DEF StartupSpec

----------------------------------------------------------------------------
(* The end of a process that was told to terminate.                         *)

\* What it still does on the way to its exit, by where it stands: an error in
\* place of the phases before Wire; the waits and the reads of engine.Run.
WayOut(state) ==
    CASE state \in Exited       -> {}
      [] state = "readBff"      -> {"bffRead"}
      [] state = "readHealth"   -> {"bffRead", "healthRead"}
      [] state = "waiting"      -> {"bffRead", "healthRead", "returned"}
      [] state = "up"           -> {"bffRead", "healthRead", "returned", "signalled"}
      [] state = "wire"         -> {"bffRead", "healthRead", "returned", "signalled", "wired"}
      [] OTHER                  -> {"error"}

\* The servers and loops that have yet to return, or to be started first.
Unreturned(r) ==
    CASE pc[r] = "wire"     -> Server \cup Loop
      [] pc[r] \in Serving  -> {s \in Server : server[r][s] \notin Returned} \cup loops[r]
      [] OTHER              -> {}

Ahead(r) == WayOut(pc[r]) \cup Unreturned(r)

\* Nothing that happens to a terminated process, or anywhere else, gives it
\* more to do, and each step of its own leaves it less; it is not restarted.
TerminationCounts ==
    [][\A r \in Replica : term[r] =>
           /\ term'[r]
           /\ Ahead(r)' \subseteq Ahead(r)
           /\ Process(r) => Ahead(r)' # Ahead(r)]_startupVars

\* At most ten steps, and none exactly when the process has ended.
AheadIsShort ==
    \A r \in Replica : term[r] =>
        /\ Ahead(r) \subseteq {"error", "bffRead", "healthRead", "returned", "signalled", "wired"}
                                 \cup Server \cup Loop
        /\ Ahead(r) = {} <=> pc[r] \in Exited

\* Steps of the others do not touch a process.
LEMMA OthersLeaveAlone ==
    ASSUME StartupTypeOK, [StartupNext]_startupVars, NEW r \in Replica,
           ~Process(r), ~Disturb(r)
    PROVE  /\ pc'[r] = pc[r] /\ term'[r] = term[r]
           /\ server'[r] = server[r] /\ loops'[r] = loops[r]
<1>1. CASE DatabaseFails \/ DatabaseReturns \/ UNCHANGED startupVars
  BY <1>1 DEF DatabaseFails, DatabaseReturns, startupVars, taskVars
<1>2. ASSUME NEW q \in Replica, q # r, Process(q) \/ Disturb(q)
      PROVE  /\ pc'[r] = pc[r] /\ term'[r] = term[r]
             /\ server'[r] = server[r] /\ loops'[r] = loops[r]
  BY <1>2
  DEF Process, Disturb, Migrate, Run, ConnectSucceeds, ConnectFails, CountRecorded, ProbeManaged,
      ProbeColumn, Backfill, CheckRecorded, Advance, Apply, ApplyFails, GivesError, Wire,
      ServerReturns, ServerStops, LoopStops, Shutdown, AllReturned, ReadHealth, ReadBff, Restart,
      ListenFails, Terminate, Crash, StatementFails, Fresh, Becomes, KeepsData, taskVars,
      StartupTypeOK
<1> QED BY <1>1, <1>2 DEF StartupNext

\* Of its own steps, a terminated process only has these left.
LEMMA TerminatedSteps ==
    ASSUME StartupTypeOK, NEW r \in Replica, term[r], Process(r)
    PROVE  GivesError(r) \/ Run(r)
BY DEF Process, Migrate, ConnectSucceeds, ConnectFails, CountRecorded, ProbeManaged, ProbeColumn,
       Backfill, CheckRecorded, Apply, ApplyFails, Statement, Restart

LEMMA StepsOutCount ==
    ASSUME StartupTypeOK, NEW r \in Replica, term[r], GivesError(r) \/ Run(r)
    PROVE  term'[r] /\ Ahead(r)' \subseteq Ahead(r) /\ Ahead(r)' # Ahead(r)
<1>1. /\ server \in [Replica -> [Server -> ServerState]] /\ loops \in [Replica -> SUBSET Loop]
      /\ pc \in [Replica -> ProcessState]
  BY DEF StartupTypeOK
<1>2. term' = term
  BY DEF GivesError, Run, Wire, ServerReturns, ServerStops, LoopStops, Shutdown, AllReturned,
         ReadHealth, ReadBff, KeepsData
<1>3. CASE GivesError(r)
  <2>1. pc'[r] = "failed" /\ pc[r] \in Migrating \cup {"connect"}
    BY <1>1, <1>3 DEF GivesError, Becomes
  <2>2. Ahead(r)' = {}
    BY <2>1 DEF Ahead, WayOut, Unreturned, Exited, Serving
  <2>3. "error" \in Ahead(r)
    BY <2>1 DEF Ahead, WayOut, Exited, Migrating
  <2> QED BY <1>2, <2>2, <2>3
<1>4. CASE Wire(r)
  <2>1. pc[r] = "wire" /\ pc'[r] = "up" /\ loops'[r] \subseteq Loop
    BY <1>1, <1>4 DEF Wire, Becomes
  <2>2. Ahead(r) = {"bffRead", "healthRead", "returned", "signalled", "wired"} \cup Server \cup Loop
    <3>1. WayOut("wire") = {"bffRead", "healthRead", "returned", "signalled", "wired"}
      BY DEF WayOut, Exited
    <3>2. Unreturned(r) = Server \cup Loop
      BY <2>1 DEF Unreturned, Serving
    <3> QED BY <2>1, <3>1, <3>2 DEF Ahead
  <2>3. Ahead(r)' \subseteq {"bffRead", "healthRead", "returned", "signalled"} \cup Server \cup Loop
    BY <2>1 DEF Ahead, WayOut, Unreturned, Exited, Serving
  <2>4. "wired" \notin Server \cup Loop
    BY DEF Server, Loop
  <2> QED BY <1>2, <2>2, <2>3, <2>4
<1>5. ASSUME NEW s \in Server, ServerReturns(r, s) \/ ServerStops(r, s)
      PROVE  Ahead(r)' \subseteq Ahead(r) /\ Ahead(r)' # Ahead(r)
  <2>1. /\ pc' = pc /\ pc[r] \in Serving /\ loops' = loops
        /\ server[r][s] \notin Returned /\ server'[r][s] \in Returned
        /\ \A t \in Server : t # s => server'[r][t] = server[r][t]
    BY <1>1, <1>5 DEF ServerReturns, ServerStops, Returned
  <2>2. s \in Ahead(r)
    BY <2>1 DEF Ahead, Unreturned, Serving
  <2>3. s \notin Ahead(r)'
    <3>1. s \notin Loop /\ s \notin WayOut(pc[r])
      BY <2>1 DEF Loop, Server, WayOut, Serving, Exited
    <3> QED BY <1>1, <2>1, <3>1 DEF Ahead, Unreturned, Serving
  <2>4. Ahead(r)' \subseteq Ahead(r)
    BY <2>1 DEF Ahead, Unreturned, Serving
  <2> QED BY <2>2, <2>3, <2>4
<1>6. ASSUME NEW l \in Loop, LoopStops(r, l)
      PROVE  Ahead(r)' \subseteq Ahead(r) /\ Ahead(r)' # Ahead(r)
  <2>1. /\ pc' = pc /\ pc[r] \in Serving /\ server' = server
        /\ l \in loops[r] /\ loops'[r] = loops[r] \ {l}
    BY <1>1, <1>6 DEF LoopStops
  <2>2. l \in Ahead(r)
    BY <2>1 DEF Ahead, Unreturned, Serving
  <2>3. l \notin Ahead(r)'
    <3>1. l \notin Server /\ l \notin WayOut(pc[r])
      BY <2>1 DEF Loop, Server, WayOut, Serving, Exited
    <3> QED BY <1>1, <2>1, <3>1 DEF Ahead, Unreturned, Serving
  <2>4. Ahead(r)' \subseteq Ahead(r)
    BY <2>1 DEF Ahead, Unreturned, Serving
  <2> QED BY <2>2, <2>3, <2>4
<1>7. CASE Shutdown(r)
  <2>1. pc[r] = "up" /\ pc'[r] = "waiting" /\ UNCHANGED <<server, loops>>
    BY <1>1, <1>7 DEF Shutdown, Becomes, KeepsData, taskVars
  <2>2. Unreturned(r)' = Unreturned(r) /\ Unreturned(r) \subseteq Server \cup Loop
    BY <1>1, <2>1 DEF Unreturned, Serving
  <2>3. /\ WayOut(pc[r]) = {"bffRead", "healthRead", "returned", "signalled"}
        /\ WayOut(pc'[r]) = {"bffRead", "healthRead", "returned"}
    BY <2>1 DEF WayOut, Exited
  <2>4. "signalled" \notin Server \cup Loop
    BY DEF Server, Loop
  <2> QED BY <1>2, <2>2, <2>3, <2>4 DEF Ahead
<1>8. CASE AllReturned(r)
  <2>1. pc[r] = "waiting" /\ pc'[r] = "readHealth"
    BY <1>1, <1>8 DEF AllReturned, Becomes
  <2> QED BY <1>2, <2>1 DEF Ahead, WayOut, Unreturned, Exited, Serving
<1>9. CASE ReadHealth(r)
  <2>1. pc[r] = "readHealth" /\ pc'[r] \in {"failed", "readBff"}
    BY <1>1, <1>9 DEF ReadHealth, Becomes
  <2> QED BY <1>2, <2>1 DEF Ahead, WayOut, Unreturned, Exited, Serving
<1>10. CASE ReadBff(r)
  <2>1. pc[r] = "readBff" /\ pc'[r] \in {"failed", "done"}
    BY <1>1, <1>10 DEF ReadBff, Becomes
  <2> QED BY <1>2, <2>1 DEF Ahead, WayOut, Unreturned, Exited, Serving
<1> QED BY <1>2, <1>3, <1>4, <1>5, <1>6, <1>7, <1>8, <1>9, <1>10 DEF Run

\* A server that fails, a crash, a failed statement: only less is left.
LEMMA DisturbancesOutCount ==
    ASSUME StartupTypeOK, NEW r \in Replica, term[r], Disturb(r)
    PROVE  term'[r] /\ Ahead(r)' \subseteq Ahead(r)
<1>1. ~Terminate(r) /\ term' = term
  BY DEF Disturb, ListenFails, Terminate, Crash, StatementFails
<1>2. CASE Crash(r) \/ StatementFails(r)
  <2>1. pc'[r] \in {"crashed", "failed"}
    BY <1>2 DEF Crash, StatementFails, Becomes, StartupTypeOK
  <2>2. Ahead(r)' = {}
    BY <2>1 DEF Ahead, WayOut, Unreturned, Exited, Serving
  <2> QED BY <1>1, <2>2
<1>3. ASSUME NEW s \in Server, ListenFails(r, s)
      PROVE  Ahead(r)' \subseteq Ahead(r)
  <2>1. /\ pc' = pc /\ pc[r] \in Serving /\ loops' = loops
        /\ \A t \in Server : server'[r][t] \notin Returned => server[r][t] \notin Returned
    BY <1>3 DEF ListenFails, Returned, StartupTypeOK
  <2> QED BY <2>1 DEF Ahead, Unreturned, Serving
<1> QED BY <1>1, <1>2, <1>3 DEF Disturb

\* The way of a terminated process to its exit has an end: no step of it, of a
\* server, of a loop or of a fault leads back.
THEOREM TerminationStepsRunOut == StartupSpec => TerminationCounts
<1>1. StartupTypeOK /\ [StartupNext]_startupVars
      => [\A r \in Replica : term[r] =>
              /\ term'[r]
              /\ Ahead(r)' \subseteq Ahead(r)
              /\ Process(r) => Ahead(r)' # Ahead(r)]_startupVars
  <2> SUFFICES ASSUME StartupTypeOK, [StartupNext]_startupVars, NEW r \in Replica, term[r]
               PROVE  /\ term'[r]
                      /\ Ahead(r)' \subseteq Ahead(r)
                      /\ Process(r) => Ahead(r)' # Ahead(r)
    OBVIOUS
  <2>1. CASE Process(r)
    BY <2>1, TerminatedSteps, StepsOutCount
  <2>2. CASE ~Process(r) /\ Disturb(r)
    BY <2>2, DisturbancesOutCount
  <2>3. CASE ~Process(r) /\ ~Disturb(r)
    BY <2>3, OthersLeaveAlone DEF Ahead, Unreturned
  <2> QED BY <2>1, <2>2, <2>3
<1> QED BY <1>1, StartupTypes, PTL DEF StartupSpec, TerminationCounts

\* There is something left on the way until the exit, and nothing after it.
THEOREM ExitIsTheEnd == StartupSpec => []AheadIsShort
<1>1. StartupTypeOK => AheadIsShort
  <2> SUFFICES ASSUME StartupTypeOK, NEW r \in Replica
               PROVE  /\ Ahead(r) \subseteq {"error", "bffRead", "healthRead", "returned",
                                             "signalled", "wired"} \cup Server \cup Loop
                      /\ Ahead(r) = {} <=> pc[r] \in Exited
    BY DEF AheadIsShort
  <2>1. Unreturned(r) \subseteq Server \cup Loop
    BY DEF Unreturned, StartupTypeOK
  <2>2. WayOut(pc[r]) \subseteq {"error", "bffRead", "healthRead", "returned", "signalled", "wired"}
    BY DEF WayOut
  <2>3. pc[r] \in Exited => WayOut(pc[r]) = {} /\ Unreturned(r) = {}
    BY DEF WayOut, Unreturned, Exited, Serving
  <2>4. pc[r] \notin Exited => WayOut(pc[r]) # {}
    BY DEF WayOut
  <2> QED BY <2>1, <2>2, <2>3, <2>4 DEF Ahead
<1> QED BY <1>1, StartupTypes, PTL
=============================================================================

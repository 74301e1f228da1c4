------------------------------ MODULE Discovery ------------------------------
(****************************************************************************)
(* Phase 1 (internal/discovery/pipeline.go): query the traffic of a window, *)
(* upsert the services, upsert the endpoints, stamp the success.  The       *)
(* goroutine that runs phase 1 goes on with phase 3 (internal/engine),      *)
(* so that one control variable, cycle, serves both.                        *)
(****************************************************************************)
EXTENDS Catalogue

CONSTANTS
    Window     \* discovery.window_minutes

ASSUME DiscoveryAssumption == Window \in Nat

VARIABLES
    cycle,     \* cycle[r]: the next statement of the cycle of replica r
    traffic,   \* traffic[r]: its merged rows, the time each endpoint was last seen
    marking    \* marking[r]: the rows that markAnchorSQL of r found and will flag

NotSeen == -1
NoTraffic == [e \in Endpoint |-> NotSeen]

CyclePC == {"idle", "ensure", "upsert", "guard", "classify", "anchor", "mark", "refresh"}

CycleTypeOK ==
    /\ cycle \in [Replica -> CyclePC]
    /\ traffic \in [Replica -> [Endpoint -> Nat \cup {NotSeen}]]
    /\ marking \in [Replica -> SUBSET Endpoint]

CycleInit ==
    /\ cycle = [r \in Replica |-> "idle"]
    /\ traffic = [r \in Replica |-> NoTraffic]
    /\ marking = [r \in Replica |-> {}]

\* The cycle of r is at one statement and goes on with another.
CycleGoes(r, from, to) ==
    /\ cycle[r] = from
    /\ cycle' = [cycle EXCEPT ![r] = to]

\* The services of the merged rows (CollectServices).
SeenServices(r) == {ServiceOf[e] : e \in {x \in Endpoint : traffic[r][x] # NotSeen}}

\* The window is [now - Window, now].  DeepFlow reports for it any traffic,
\* which noise filter, classifier and merger reduce to rows of this shape.
StartCycle(r) ==
    /\ CycleGoes(r, "idle", "ensure")
    /\ \E rows \in [Endpoint -> {NotSeen} \cup {t \in 0 .. now : t >= now - Window}] :
          traffic' = [traffic EXCEPT ![r] = rows]
    /\ UNCHANGED <<tables, marking>>

CycleEnsureServices(r) ==
    /\ CycleGoes(r, "ensure", "upsert")
    /\ EnsureServices(SeenServices(r))
    /\ UNCHANGED <<traffic, marking>>

\* The last write of phase 1 that matters: UpdatePhase1Success stamps columns
\* that no one reads, and phase 3 follows inline.  A row that is inserted again
\* has an id of its own: no update that found the old one flags it.
CycleUpsert(r) ==
    /\ CycleGoes(r, "upsert", "guard")
    /\ UpsertDiscovered(traffic[r])
    /\ traffic' = [traffic EXCEPT ![r] = NoTraffic]
    /\ marking' = [q \in Replica |-> marking[q] \cap discovered]

\* An error of any statement ends the cycle; what was committed stays.
CycleFails(r) ==
    /\ cycle[r] # "idle"
    /\ cycle' = [cycle EXCEPT ![r] = "idle"]
    /\ traffic' = [traffic EXCEPT ![r] = NoTraffic]
    /\ marking' = [marking EXCEPT ![r] = {}]
    /\ UNCHANGED tables
=============================================================================

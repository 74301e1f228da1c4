----------------------------- MODULE MCPipelines -----------------------------
(****************************************************************************)
(* Small instances of Pipelines: a service with an endpoint that API a1     *)
(* manages and one that no API does.                                        *)
(****************************************************************************)
EXTENDS Pipelines

MCEndpoint == {"list", "admin"}
MCServiceOf == [e \in MCEndpoint |-> "orders"]
MCSignatureOf == [e \in MCEndpoint |-> e]
MCOneEndpoint == {"list"}
MCOneServiceOf == [e \in MCOneEndpoint |-> "orders"]
MCOneSignatureOf == [e \in MCOneEndpoint |-> e]
MCOp == {"o1"}
MCApiOf == [o \in MCOp |-> "a1"]
MCGateway == [o \in MCOp |-> "gateway"]
MCBackend == [o \in MCOp |-> "list"]
MCTwoOps == {"o1", "o2"}
MCTwoApiOf == [o \in MCTwoOps |-> IF o = "o1" THEN "a1" ELSE "a2"]
MCTwoGateway == [o \in MCTwoOps |-> "gateway"]
MCTwoBackend == [o \in MCTwoOps |-> IF o = "o1" THEN "list" ELSE "admin"]
MCEpoch == -100

\* The state without the view, which no action reads.
WithoutView == <<now, services, discoveredTable, managedTable, findings,
                 cycleVars, syncVars, cleaner, overtaken>>
=============================================================================

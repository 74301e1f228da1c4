------------------------------ MODULE MCReport ------------------------------
(****************************************************************************)
(* A small instance of Report: two endpoints of one service, one of which   *)
(* an API manages, pages of one row.                                        *)
(****************************************************************************)
EXTENDS Report

MCEndpoint == {"list", "admin"}
MCServiceOf == [e \in MCEndpoint |-> "orders"]
MCSignatureOf == [e \in MCEndpoint |-> e]
MCRowId == [e \in MCEndpoint |-> IF e = "list" THEN 1 ELSE 2]
MCOp == {"o1"}
MCApiOf == [o \in MCOp |-> "a1"]
MCGateway == [o \in MCOp |-> "gateway"]
MCBackend == [o \in MCOp |-> "list"]
MCEpoch == -100
MCOffset == {-1}
=============================================================================

------------------------------ MODULE MCStartup ------------------------------
(****************************************************************************)
(* Small instances of Startup: two replicas over a legacy database, which   *)
(* was started twice before, or one over a younger one or a fresh one, and  *)
(* two over a fresh one.                                                    *)
(****************************************************************************)
EXTENDS Startup

MCSupported ==
    {[database |-> "legacy6", replicas |-> {"r1", "r2"}, starts |-> 2],
     [database |-> "legacy7", replicas |-> {"r1"}, starts |-> 1],
     [database |-> "fresh", replicas |-> {"r1"}, starts |-> 0]}

MCFreshPair == [database : {"fresh"}, replicas : {{"r1", "r2"}}, starts : {0}]
=============================================================================

----------------------------- MODULE MCReadiness -----------------------------
(****************************************************************************)
(* A small instance of Readiness: phase 1 with two goroutines, of which one *)
(* may be skipped while the other is busy, beside the handler.  Loop and    *)
(* poller share nothing but the handler, so that the poller moves only in   *)
(* the behaviours in which phase 1 was not built.                           *)
(****************************************************************************)
EXTENDS Readiness

MCPhaseOf == [g \in Goroutine |-> "discovery"]
MCInterval == [ph \in Phase |-> 1]

\* Without a goroutine of phase 1 the loop has little to do.
LoopRests == enabled = {}

MCInit ==
    /\ ReadyInit
    /\ ~LoopRests => dbUp /\ sinceChange = 0

PollerMoves == LoopRests /\ Polling

MCNext ==
    \/ PollerMoves
    \/ EngineStep
    \/ Request
    \/ \E ph \in Phase : ReadStatus(ph) \/ AnyBreakerOpen(ph)
    \/ Reply

MCSpec == MCInit /\ [][MCNext]_readyVars /\ Fairness
=============================================================================

----------------------------- MODULE MCCycleLoop -----------------------------
(****************************************************************************)
(* A small instance of CycleLoop: both phases, one goroutine each.          *)
(****************************************************************************)
EXTENDS CycleLoop

MCBoth == [g \in {"d", "m"} |-> IF g = "d" THEN "discovery" ELSE "managed"]
MCEveryMinute == [ph \in Phase |-> 1]
=============================================================================

----------------------------- MODULE RetryPolicy -----------------------------
(****************************************************************************)
(* What the engine promises about the runs of a phase, without timers,      *)
(* goroutines, locks or breakers (breaker.go:19-30): runs of a phase never  *)
(* overlap, and after three failures in a row, and after every further one, *)
(* the phase pauses for a time that depends on the number of failures.      *)
(****************************************************************************)
EXTENDS Integers

CONSTANTS
    Phase,       \* the phases that run on a timer
    Pause(_),    \* minutes to pause after a number of failures in a row
    Horizon,     \* number of minutes after which every pause is over
    ManyFailures \* number of failures after which the pause no longer grows

VARIABLES
    running,     \* phases with a run in progress
    streak,      \* streak[ph]: failed runs since the last success
    since        \* since[ph]: minutes since the phase last had to pause

policyVars == <<running, streak, since>>

Init ==
    /\ running = {}
    /\ streak = [ph \in Phase |-> 0]
    /\ since = [ph \in Phase |-> Horizon]

Start(ph) ==
    /\ ph \notin running
    /\ streak[ph] >= 3 => since[ph] >= Pause(streak[ph])
    /\ running' = running \cup {ph}
    /\ UNCHANGED <<streak, since>>

Succeed(ph) ==
    /\ ph \in running
    /\ running' = running \ {ph}
    /\ streak' = [streak EXCEPT ![ph] = 0]
    /\ UNCHANGED since

Fail(ph) ==
    /\ ph \in running
    /\ running' = running \ {ph}
    /\ streak' = [streak EXCEPT ![ph] = IF @ < ManyFailures THEN @ + 1 ELSE @]
    /\ since' = [since EXCEPT ![ph] = IF streak'[ph] >= 3 THEN 0 ELSE @]

Minute ==
    /\ since' = [ph \in Phase |-> IF since[ph] < Horizon THEN since[ph] + 1 ELSE since[ph]]
    /\ UNCHANGED <<running, streak>>

Next == Minute \/ \E ph \in Phase : Start(ph) \/ Succeed(ph) \/ Fail(ph)

Spec == Init /\ [][Next]_policyVars
=============================================================================

------------------------------ MODULE CycleLoop ------------------------------
(****************************************************************************)
(* The cycle loop of the engine (internal/engine/engine.go, runCycleLoop):  *)
(* a timer for each phase, a goroutine for each tick, a mutex and a circuit *)
(* breaker for each phase, and phase 3 in the goroutine of phase 1.         *)
(****************************************************************************)
EXTENDS CircuitBreaker

CONSTANTS
    Phase,       \* phases that have a timer, of {"discovery", "managed"}
    Goroutine,   \* goroutines that exist at a time: a bound for TLC
    PhaseOf,     \* the phase a goroutine runs
    Interval,    \* poll interval of a phase in minutes
    Nobody       \* the holder of a free mutex

ASSUME CycleLoopAssumption ==
    /\ PhaseOf \in [Goroutine -> Phase]
    /\ Interval \in [Phase -> Nat \ {0}]
    /\ Nobody \notin Goroutine

VARIABLES
    enabled,       \* phases whose pipeline was built at startup
    loop,          \* the loop is "running", "comparing" by itself, or has "exited"
    stopping,      \* ctx is cancelled
    timer,         \* timer[ph]: minutes until it fires, 0 when its tick waits
    pc,            \* pc[g]: what goroutine g does next
    holder,        \* holder[ph]: the goroutine that holds p1Mu or p2Mu
    phase3Holder,  \* the goroutine that holds p3Mu
    breaker,       \* breaker[ph]: its circuit breaker
    succeeded      \* phases with a recorded success (State.lastSuccess)

loopVars == <<enabled, loop, stopping, timer, pc, holder, phase3Holder, breaker, succeeded>>

PC == {"none", "spawned", "locked", "running", "mark", "phase3", "comparing", "unlock"}

\* Types; and only a phase that was built runs or succeeds.
TypeOK ==
    /\ enabled \in SUBSET Phase
    /\ loop \in {"running", "comparing", "exited"}
    /\ stopping \in BOOLEAN
    /\ timer \in [Phase -> Nat]
    /\ pc \in [Goroutine -> PC]
    /\ holder \in [Phase -> Goroutine \cup {Nobody}]
    /\ phase3Holder \in Goroutine \cup {Nobody}
    /\ breaker \in [Phase -> Breaker]
    /\ succeeded \in SUBSET (enabled \cup {"comparison"})
    /\ \A g \in Goroutine : pc[g] # "none" => PhaseOf[g] \in enabled

\* Phase 1 is built if DeepFlow is enabled, phase 2 if auth.Start succeeded.
Init ==
    /\ enabled \in SUBSET Phase
    /\ loop = "running"
    /\ stopping = FALSE
    /\ timer = [ph \in Phase |-> 0]
    /\ pc = [g \in Goroutine |-> "none"]
    /\ holder = [ph \in Phase |-> Nobody]
    /\ phase3Holder = Nobody
    /\ breaker = [ph \in Phase |-> NewCircuitBreaker]
    /\ succeeded = {}

Goes(g, from, to) ==
    /\ pc[g] = from
    /\ pc' = [pc EXCEPT ![g] = to]

----------------------------------------------------------------------------
(* The loop. *)

\* A phase that was not built has a timer like the others.
Receive_NotBuilt(ph) ==
    /\ loop = "running"
    /\ timer[ph] = 0
    /\ \E g \in Goroutine : PhaseOf[g] = ph /\ Goes(g, "none", "spawned")
    /\ timer' = [timer EXCEPT ![ph] = Interval[ph]]
    /\ UNCHANGED <<enabled, loop, stopping, holder, phase3Holder, breaker, succeeded>>

\* The select takes the tick of a phase: spawn a goroutine, reset the timer.
\* A phase that was not built has no timer.
Receive(ph) ==
    /\ loop = "running"
    /\ ph \in enabled
    /\ timer[ph] = 0
    /\ \E g \in Goroutine : PhaseOf[g] = ph /\ Goes(g, "none", "spawned")
    /\ timer' = [timer EXCEPT ![ph] = Interval[ph]]
    /\ UNCHANGED <<enabled, loop, stopping, holder, phase3Holder, breaker, succeeded>>

\* SIGTERM cancels ctx.
Cancel ==
    /\ ~stopping
    /\ stopping' = TRUE
    /\ UNCHANGED <<enabled, loop, timer, pc, holder, phase3Holder, breaker, succeeded>>

\* The loop does not wait for the goroutines it spawned.
LoopExits ==
    /\ stopping /\ loop = "running"
    /\ loop' = "exited"
    /\ UNCHANGED <<enabled, stopping, timer, pc, holder, phase3Holder, breaker, succeeded>>

\* runPhase3Only replaces the loop when neither phase was built: it compares in
\* its own goroutine, under no mutex and no breaker, and looks at ctx and its
\* timer in between.  The timer is left out: the pause may have any length.
StartPhase3Only ==
    /\ loop = "running" /\ enabled = {}
    /\ loop' = "comparing"
    /\ UNCHANGED <<enabled, stopping, timer, pc, holder, phase3Holder, breaker, succeeded>>

EndPhase3Only ==
    /\ loop = "comparing"
    /\ loop' = "running"
    /\ succeeded' \in {succeeded, succeeded \cup {"comparison"}}
    /\ UNCHANGED <<enabled, stopping, timer, pc, holder, phase3Holder, breaker>>

\* Timers and cooldowns run.  A timer that fired waits for the select.
Minute ==
    /\ timer' = [ph \in Phase |-> IF timer[ph] = 0 THEN 0 ELSE timer[ph] - 1]
    /\ breaker' = [ph \in Phase |-> Older(breaker[ph])]
    /\ UNCHANGED <<enabled, loop, stopping, pc, holder, phase3Holder, succeeded>>

----------------------------------------------------------------------------
(* A goroutine. *)

\* The goroutine goes on without looking at the mutex.
TryLock_Ignored(g) ==
    LET ph == PhaseOf[g]
    IN  /\ Goes(g, "spawned", "locked")
        /\ holder' = [holder EXCEPT ![ph] = g]
        /\ UNCHANGED <<enabled, loop, stopping, timer, phase3Holder, breaker, succeeded>>

\* p1Mu.TryLock, p2Mu.TryLock: skip the cycle if the previous one still runs.
TryLock(g) ==
    LET ph == PhaseOf[g]
    IN  /\ Goes(g, "spawned", IF holder[ph] = Nobody THEN "locked" ELSE "none")
        /\ holder' = IF holder[ph] = Nobody THEN [holder EXCEPT ![ph] = g] ELSE holder
        /\ UNCHANGED <<enabled, loop, stopping, timer, phase3Holder, breaker, succeeded>>

\* The breaker decides whether the cycle runs.
Allow(g) ==
    LET ph == PhaseOf[g]
    IN  /\ Goes(g, "locked", IF Allows(breaker[ph]) THEN "running" ELSE "unlock")
        /\ breaker' = [breaker EXCEPT ![ph] = AfterAllow(@)]
        /\ UNCHANGED <<enabled, loop, stopping, timer, holder, phase3Holder, succeeded>>

RunFails(g) ==
    /\ Goes(g, "running", "unlock")
    /\ breaker' = [breaker EXCEPT ![PhaseOf[g]] = AfterFailure(@)]
    /\ UNCHANGED <<enabled, loop, stopping, timer, holder, phase3Holder, succeeded>>

RunSucceeds(g) ==
    /\ Goes(g, "running", "mark")
    /\ breaker' = [breaker EXCEPT ![PhaseOf[g]] = AfterSuccess(@)]
    /\ UNCHANGED <<enabled, loop, stopping, timer, holder, phase3Holder, succeeded>>

\* MarkPhaseSuccess; phase 1 goes on with phase 3 and keeps p1Mu.
Mark(g) ==
    /\ Goes(g, "mark", IF PhaseOf[g] = "discovery" THEN "phase3" ELSE "unlock")
    /\ succeeded' = succeeded \cup {PhaseOf[g]}
    /\ UNCHANGED <<enabled, loop, stopping, timer, holder, phase3Holder, breaker>>

\* p3Mu.TryLock: skip phase 3 if the previous one still runs.
StartPhase3(g) ==
    /\ Goes(g, "phase3", IF phase3Holder = Nobody THEN "comparing" ELSE "unlock")
    /\ phase3Holder' = IF phase3Holder = Nobody THEN g ELSE phase3Holder
    /\ UNCHANGED <<enabled, loop, stopping, timer, holder, breaker, succeeded>>

\* The deferred p3Mu.Unlock is missing.
EndPhase3_KeepsMutex(g) ==
    /\ Goes(g, "comparing", "unlock")
    /\ succeeded' \in {succeeded, succeeded \cup {"comparison"}}
    /\ UNCHANGED <<enabled, loop, stopping, timer, holder, phase3Holder, breaker>>

\* Phase 3 returns nil, also when it skipped a stale catalogue, or an error,
\* which no breaker counts.
EndPhase3(g) ==
    /\ Goes(g, "comparing", "unlock")
    /\ phase3Holder' = Nobody
    /\ succeeded' \in {succeeded, succeeded \cup {"comparison"}}
    /\ UNCHANGED <<enabled, loop, stopping, timer, holder, breaker>>

\* The early return for an open breaker does not release the mutex.
Unlock_NotWhenOpen(g) ==
    LET ph == PhaseOf[g]
    IN  /\ Goes(g, "unlock", "none")
        /\ holder' = IF breaker[ph].state = "open" THEN holder ELSE [holder EXCEPT ![ph] = Nobody]
        /\ UNCHANGED <<enabled, loop, stopping, timer, phase3Holder, breaker, succeeded>>

\* The deferred Unlock, on every path.
Unlock(g) ==
    /\ Goes(g, "unlock", "none")
    /\ holder' = [holder EXCEPT ![PhaseOf[g]] = Nobody]
    /\ UNCHANGED <<enabled, loop, stopping, timer, phase3Holder, breaker, succeeded>>

Step(g) ==
    \/ TryLock(g)
    \/ Allow(g)
    \/ RunFails(g)
    \/ RunSucceeds(g)
    \/ Mark(g)
    \/ StartPhase3(g)
    \/ EndPhase3(g)
    \/ Unlock(g)

Next ==
    \/ Minute
    \/ Cancel
    \/ LoopExits
    \/ StartPhase3Only
    \/ EndPhase3Only
    \/ \E ph \in Phase : Receive(ph)
    \/ \E g \in Goroutine : Step(g)

Spec == Init /\ [][Next]_loopVars

\* Time passes, the select serves every timer that fired (Go chooses among
\* the ready cases at random), and every call of a pipeline returns, as long as
\* the process is not stopping: Run waits for the loop and not for its
\* goroutines, so that main may return and end them at any step.
Fairness ==
    /\ WF_loopVars(~stopping /\ Minute)
    /\ \A ph \in Phase : WF_loopVars(~stopping /\ Receive(ph))
    /\ \A g \in Goroutine : WF_loopVars(~stopping /\ Step(g))

FairSpec == Spec /\ Fairness

----------------------------------------------------------------------------
(* Properties. *)

\* From TryLock to Unlock.
Holding(g) == pc[g] \notin {"none", "spawned"}

Running(ph) == \E g \in Goroutine : PhaseOf[g] = ph /\ pc[g] = "running"

\* An open breaker admits nobody, and nobody it admitted is still running: the
\* verdict of Allow is not stale when Run uses it, and RecordSuccess is never
\* called in the open state (breaker.go:73-75).
OpenMeansIdle == \A ph \in Phase : breaker[ph].state = "open" => ~Running(ph)

\* Phase 3 is never skipped because the previous one still runs: p1Mu is held
\* until phase 3 ends, so that the warning of runPhase3 cannot happen and every
\* successful phase 1 is compared (engine.go:243-247).
Phase3NeverSkipped ==
    \A g \in Goroutine : pc[g] = "phase3" => phase3Holder = Nobody

\* The engine keeps the promises of the retry policy.
Policy == INSTANCE RetryPolicy WITH
    Pause        <- Cooldown,
    Horizon      <- MaxCooldown,
    ManyFailures <- MaxFailures,
    running      <- {ph \in Phase : Running(ph)},
    streak       <- [ph \in Phase |-> breaker[ph].failures],
    since        <- [ph \in Phase |-> breaker[ph].waited]

KeepsPolicy == Policy!Spec

\* A phase whose breaker opened is tried again, unless the process stops.
OpenIsRetried ==
    \A ph \in Phase : breaker[ph].state = "open" ~> Running(ph) \/ stopping

\* A phase 1 that succeeded is followed by a comparison, unless the process
\* stops in between.
ComparisonFollows ==
    \A g \in Goroutine :
        (pc[g] = "mark" /\ PhaseOf[g] = "discovery") ~> pc[g] = "comparing" \/ stopping

\* "apim auth not ready at startup; phase 2 will retry per cycle"
\* (engine.go:106): phase 2 is tried at least once, unless the process stops.
Phase2IsTried == <>("managed" \in Phase => Running("managed") \/ stopping)
=============================================================================

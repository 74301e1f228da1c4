--------------------------- MODULE ReadinessProofs ---------------------------
(****************************************************************************)
(* Proofs about CycleLoop and Readiness for any phases, number of           *)
(* goroutines, intervals and cooldown bounds: the mutexes serialise the     *)
(* runs of a phase, the breakers then keep the promises of RetryPolicy, and *)
(* the answers of the probe rest on what was true during the request.       *)
(****************************************************************************)
EXTENDS Readiness, TLAPS

----------------------------------------------------------------------------
(* The breaker. *)

LEMMA BreakerTypes ==
    ASSUME NEW b \in Breaker
    PROVE  /\ AfterAllow(b) \in Breaker
           /\ AfterSuccess(b) \in Breaker
           /\ AfterFailure(b) \in Breaker
           /\ Older(b) \in Breaker
           /\ NewCircuitBreaker \in Breaker
<1> USE BreakerAssumption DEF BreakerAssumption, Breaker, BreakerState, Least
<1>1. AfterAllow(b) \in Breaker
  BY DEF AfterAllow
<1>2. AfterSuccess(b) \in Breaker
  BY DEF AfterSuccess
<1>3. AfterFailure(b) \in Breaker
  BY DEF AfterFailure
<1>4. Older(b) \in Breaker
  BY DEF Older
<1>5. NewCircuitBreaker \in Breaker
  BY DEF NewCircuitBreaker
<1> QED
  BY <1>1, <1>2, <1>3, <1>4, <1>5

LEMMA CooldownIsInt ==
    ASSUME NEW n \in Nat
    PROVE  Cooldown(n) \in Int
<1> DEFINE k == Least(n - 3, 20)
<1>1. k \in Int
  BY DEF Least
<1>2. CASE n <= 3
  BY <1>2 DEF Cooldown
<1>3. CASE n > 3
  <2>1. k \in Nat
    BY <1>3 DEF Least
  <2>2. 2 ^ k \in Int
    <3> HIDE DEF k
    <3> QED BY <2>1, SMT
  <2>3. Cooldown(n) = Least(2 ^ k, MaxCooldown)
    BY <1>3 DEF Cooldown
  <2> HIDE DEF k
  <2> QED BY <2>2, <2>3, BreakerAssumption DEF BreakerAssumption, Least
<1> QED BY <1>2, <1>3

\* The state of a breaker tells the failures in a row, and a half-open one has
\* waited for its cooldown.
Coherent(b) ==
    /\ b.state = "closed" <=> b.failures < 3
    /\ b.state = "half_open" => b.waited >= Cooldown(b.failures)

LEMMA BreakerCoherence ==
    ASSUME NEW b \in Breaker, Coherent(b)
    PROVE  /\ Coherent(AfterAllow(b))
           /\ Coherent(AfterSuccess(b))
           /\ Coherent(AfterFailure(b))
           /\ Coherent(Older(b))
<1> USE BreakerAssumption DEF BreakerAssumption, Breaker, BreakerState, Least, Coherent
<1>1. Coherent(AfterAllow(b))
  BY DEF AfterAllow, Allows
<1>2. Coherent(AfterSuccess(b))
  BY DEF AfterSuccess
<1>3. Coherent(AfterFailure(b))
  BY DEF AfterFailure
<1>4. Coherent(Older(b))
  BY CooldownIsInt DEF Older
<1> QED
  BY <1>1, <1>2, <1>3, <1>4

----------------------------------------------------------------------------
(* Types. *)

\* The control state, the mutexes, the timers and the breakers keep their
\* types whatever the phases and the loop do.
THEOREM LoopTypes == Spec => []TypeOK
<1>1. Init => TypeOK
  <2>1. NewCircuitBreaker \in Breaker
    BY BreakerAssumption DEF BreakerAssumption, NewCircuitBreaker, Breaker, BreakerState
  <2>2. Init => /\ enabled \in SUBSET Phase
                /\ breaker \in [Phase -> Breaker]
                /\ succeeded \in SUBSET (enabled \cup {"comparison"})
    BY <2>1 DEF Init
  <2>3. Init => /\ timer \in [Phase -> Nat]
                /\ pc \in [Goroutine -> PC]
                /\ \A g \in Goroutine : pc[g] = "none"
                /\ holder \in [Phase -> Goroutine \cup {Nobody}]
    BY DEF Init, PC
  <2> QED BY <2>2, <2>3 DEF Init, TypeOK
<1>2. TypeOK /\ [Next]_loopVars => TypeOK'
  <2> SUFFICES ASSUME TypeOK, [Next]_loopVars PROVE TypeOK'
    OBVIOUS
  <2> USE CycleLoopAssumption DEF CycleLoopAssumption, TypeOK, PC, Goes
  <2>1. CASE UNCHANGED loopVars
    BY <2>1 DEF loopVars
  <2>2. CASE Minute
    BY <2>2, BreakerTypes DEF Minute
  <2>3. CASE Cancel \/ LoopExits \/ StartPhase3Only \/ EndPhase3Only
    BY <2>3 DEF Cancel, LoopExits, StartPhase3Only, EndPhase3Only
  <2>4. ASSUME NEW ph \in Phase, Receive(ph) PROVE TypeOK'
    BY <2>4 DEF Receive
  <2>5. ASSUME NEW g \in Goroutine, Step(g) PROVE TypeOK'
    <3>1. PhaseOf[g] \in Phase /\ breaker[PhaseOf[g]] \in Breaker
      OBVIOUS
    <3>2. CASE TryLock(g)
      BY <3>1, <3>2 DEF TryLock
    <3>3. CASE Allow(g) \/ RunFails(g) \/ RunSucceeds(g)
      BY <3>1, <3>3, BreakerTypes DEF Allow, RunFails, RunSucceeds
    <3>4. CASE Mark(g) \/ StartPhase3(g) \/ EndPhase3(g) \/ Unlock(g)
      BY <3>1, <3>4 DEF Mark, StartPhase3, EndPhase3, Unlock
    <3> QED BY <2>5, <3>2, <3>3, <3>4 DEF Step
  <2> QED
    BY <2>1, <2>2, <2>3, <2>4, <2>5 DEF Next
<1> QED
  BY <1>1, <1>2, PTL DEF Spec

----------------------------------------------------------------------------
(* Mutexes. *)

\* Whoever is between TryLock and Unlock holds the mutex of its phase; phase 3
\* is entered by phase 1 only, and p3Mu is held while it compares.
LockInv ==
    /\ \A g \in Goroutine : Holding(g) => holder[PhaseOf[g]] = g
    /\ \A g \in Goroutine : pc[g] \in {"phase3", "comparing"} => PhaseOf[g] = "discovery"
    /\ phase3Holder # Nobody => pc[phase3Holder] = "comparing"

LEMMA LockStep ==
    ASSUME TypeOK, LockInv, NEW g \in Goroutine, Step(g)
    PROVE  LockInv'
<1> USE CycleLoopAssumption DEF CycleLoopAssumption, TypeOK, PC, Goes, LockInv, Holding
<1>1. PhaseOf[g] \in Phase
  OBVIOUS
<1>2. CASE TryLock(g)
  BY <1>1, <1>2 DEF TryLock
<1>3. CASE Allow(g) \/ RunFails(g) \/ RunSucceeds(g) \/ Mark(g)
  BY <1>1, <1>3 DEF Allow, RunFails, RunSucceeds, Mark
<1>4. CASE StartPhase3(g)
  BY <1>1, <1>4 DEF StartPhase3
<1>5. CASE EndPhase3(g)
  BY <1>1, <1>5 DEF EndPhase3
<1>6. CASE Unlock(g)
  BY <1>1, <1>6 DEF Unlock
<1> QED
  BY <1>2, <1>3, <1>4, <1>5, <1>6 DEF Step

LEMMA LockInvariant == Spec => []LockInv
<1>1. Init => LockInv
  BY DEF Init, LockInv, Holding
<1>2. TypeOK /\ LockInv /\ [Next]_loopVars => LockInv'
  <2> SUFFICES ASSUME TypeOK, LockInv, [Next]_loopVars PROVE LockInv'
    OBVIOUS
  <2> USE CycleLoopAssumption DEF CycleLoopAssumption, TypeOK, PC, Goes, LockInv, Holding
  <2>1. CASE Minute \/ Cancel \/ LoopExits \/ UNCHANGED loopVars
    BY <2>1 DEF Minute, Cancel, LoopExits, loopVars
  <2>4. CASE StartPhase3Only \/ EndPhase3Only
    BY <2>4 DEF StartPhase3Only, EndPhase3Only
  <2>2. ASSUME NEW ph \in Phase, Receive(ph) PROVE LockInv'
    BY <2>2 DEF Receive
  <2>3. ASSUME NEW g \in Goroutine, Step(g) PROVE LockInv'
    BY <2>3, LockStep
  <2> QED
    BY <2>1, <2>2, <2>3, <2>4 DEF Next
<1> QED
  BY <1>1, <1>2, LoopTypes, PTL DEF Spec

\* Two goroutines of a phase are never both past TryLock.
LEMMA MutualExclusion ==
    ASSUME LockInv, NEW g \in Goroutine, NEW h \in Goroutine, PhaseOf[g] = PhaseOf[h],
           Holding(g), Holding(h)
    PROVE  g = h
BY DEF LockInv

\* The warning about a phase 3 that still runs is dead code: p1Mu protects it.
THEOREM Phase3IsFree == Spec => []Phase3NeverSkipped
<1>1. TypeOK /\ LockInv => Phase3NeverSkipped
  <2> SUFFICES ASSUME TypeOK, LockInv, NEW g \in Goroutine, pc[g] = "phase3",
                      phase3Holder # Nobody
               PROVE  FALSE
    BY DEF Phase3NeverSkipped
  <2>1. phase3Holder \in Goroutine /\ pc[phase3Holder] = "comparing"
    BY DEF TypeOK, LockInv
  <2>2. PhaseOf[g] = PhaseOf[phase3Holder]
    BY <2>1 DEF LockInv
  <2> QED
    BY <2>1, <2>2, MutualExclusion DEF Holding
<1> QED
  BY <1>1, LoopTypes, LockInvariant, PTL

----------------------------------------------------------------------------
(* Breakers. *)

BreakerInv ==
    /\ OpenMeansIdle
    /\ \A ph \in Phase : Coherent(breaker[ph])

LEMMA BreakerStep ==
    ASSUME TypeOK, LockInv, BreakerInv, NEW g \in Goroutine, Step(g)
    PROVE  BreakerInv'
<1> USE CycleLoopAssumption DEF CycleLoopAssumption, TypeOK, PC, Goes
<1> DEFINE ph == PhaseOf[g]
<1>1. ph \in Phase /\ breaker[ph] \in Breaker /\ Coherent(breaker[ph])
  BY DEF BreakerInv
<1>2. CASE UNCHANGED breaker /\ pc'[g] # "running"
  BY <1>2 DEF BreakerInv, OpenMeansIdle, Running, Step, TryLock, Allow, RunFails,
              RunSucceeds, Mark, StartPhase3, EndPhase3, Unlock
<1>3. CASE Allow(g)
  <2>1. AfterAllow(breaker[ph]).state = "open" => ~Allows(breaker[ph])
    BY <1>1 DEF AfterAllow
  <2>2. Coherent(AfterAllow(breaker[ph]))
    BY <1>1, BreakerCoherence
  <2>3. AfterAllow(breaker[ph]).state = "open" => breaker[ph].state = "open"
    BY <1>1 DEF AfterAllow, Allows
  <2> QED
    BY <1>1, <1>3, <2>1, <2>2, <2>3 DEF Allow, BreakerInv, OpenMeansIdle, Running
<1>4. CASE RunFails(g)
  <2>1. Coherent(AfterFailure(breaker[ph]))
    BY <1>1, BreakerCoherence
  <2>2. ~Running(ph)'
    <3> SUFFICES ASSUME NEW h \in Goroutine, PhaseOf[h] = ph, pc'[h] = "running"
                 PROVE  FALSE
      BY DEF Running
    <3>1. h # g /\ pc[h] = "running" /\ pc[g] = "running"
      BY <1>4 DEF RunFails
    <3> QED BY <3>1, MutualExclusion DEF Holding
  <2> QED
    BY <1>1, <1>4, <2>1, <2>2 DEF RunFails, BreakerInv, OpenMeansIdle, Running
<1>5. CASE RunSucceeds(g)
  <2>1. Coherent(AfterSuccess(breaker[ph])) /\ AfterSuccess(breaker[ph]).state # "open"
    BY <1>1, BreakerCoherence DEF AfterSuccess
  <2> QED
    BY <1>1, <1>5, <2>1 DEF RunSucceeds, BreakerInv, OpenMeansIdle, Running
<1> QED
  BY <1>2, <1>3, <1>4, <1>5
     DEF Step, TryLock, Mark, StartPhase3, EndPhase3, Unlock

LEMMA BreakerInvariant == Spec => []BreakerInv
<1>1. Init => BreakerInv
  BY BreakerAssumption DEF BreakerAssumption, Init, BreakerInv, OpenMeansIdle, Coherent,
     NewCircuitBreaker
<1>2. TypeOK /\ LockInv /\ BreakerInv /\ [Next]_loopVars => BreakerInv'
  <2> SUFFICES ASSUME TypeOK, LockInv, BreakerInv, [Next]_loopVars PROVE BreakerInv'
    OBVIOUS
  <2>1. CASE UNCHANGED <<breaker, pc>>
    BY <2>1 DEF BreakerInv, OpenMeansIdle, Running
  <2>2. CASE Minute
    <3>1. \A ph \in Phase : Coherent(Older(breaker[ph])) /\ Older(breaker[ph]).state = breaker[ph].state
      BY BreakerCoherence DEF TypeOK, BreakerInv, Older
    <3> QED
      BY <2>2, <3>1 DEF Minute, BreakerInv, OpenMeansIdle, Running
  <2>3. ASSUME NEW ph \in Phase, Receive(ph) PROVE BreakerInv'
    BY <2>3 DEF Receive, Goes, TypeOK, BreakerInv, OpenMeansIdle, Running
  <2>4. ASSUME NEW g \in Goroutine, Step(g) PROVE BreakerInv'
    BY <2>4, BreakerStep
  <2> QED
    BY <2>1, <2>2, <2>3, <2>4 DEF Next, Cancel, LoopExits, StartPhase3Only, EndPhase3Only, loopVars
<1> QED
  BY <1>1, <1>2, LoopTypes, LockInvariant, PTL DEF Spec

\* No run is in progress when its breaker is open: the answer of Allow stays
\* valid until the outcome is recorded.
THEOREM BreakersGuardRuns == Spec => []OpenMeansIdle
<1>1. BreakerInv => OpenMeansIdle
  BY DEF BreakerInv
<1> QED
  BY <1>1, BreakerInvariant, PTL

\* The cooldown of an open breaker only runs: it is never restarted or
\* lengthened, because no run is left that could fail, so that the third branch
\* of RecordFailure, which would restart it, is dead code (breaker.go:104-106).
\* The breaker leaves the open state by admitting a run, after the cooldown.
CooldownRunsOnce ==
    [][\A ph \in Phase : breaker[ph].state = "open" =>
           IF breaker'[ph].state = "open"
           THEN breaker'[ph].failures = breaker[ph].failures /\ breaker'[ph].waited >= breaker[ph].waited
           ELSE /\ breaker'[ph].state = "half_open" /\ Running(ph)'
                /\ breaker[ph].waited >= Cooldown(breaker[ph].failures)]_loopVars

\* What OpenIsRetried rests on, for any number of goroutines: the wait of an
\* open breaker ends with its cooldown.
THEOREM OpenBreakersWaitOnce == Spec => CooldownRunsOnce
<1> DEFINE Waits(ph) ==
      breaker[ph].state = "open" =>
          IF breaker'[ph].state = "open"
          THEN breaker'[ph].failures = breaker[ph].failures /\ breaker'[ph].waited >= breaker[ph].waited
          ELSE /\ breaker'[ph].state = "half_open" /\ Running(ph)'
               /\ breaker[ph].waited >= Cooldown(breaker[ph].failures)
<1>1. TypeOK /\ BreakerInv /\ [Next]_loopVars => [\A ph \in Phase : Waits(ph)]_loopVars
  <2> SUFFICES ASSUME TypeOK, BreakerInv, [Next]_loopVars, NEW ph \in Phase,
                      breaker[ph].state = "open"
               PROVE  Waits(ph)
    OBVIOUS
  <2> USE CycleLoopAssumption DEF CycleLoopAssumption
  <2>1. /\ breaker[ph] \in Breaker /\ ~Running(ph)
        /\ breaker[ph].waited \in 0 .. MaxCooldown /\ MaxCooldown \in Nat
    BY BreakerAssumption DEF BreakerAssumption, BreakerInv, OpenMeansIdle, TypeOK, Breaker
  <2>2. CASE breaker'[ph] = breaker[ph]
    BY <2>1, <2>2
  <2>3. CASE Minute
    <3>1. breaker'[ph] = Older(breaker[ph])
      BY <2>3 DEF Minute
    <3> QED BY <2>1, <3>1 DEF Older, Least
  <2>4. ASSUME NEW g \in Goroutine, PhaseOf[g] = ph, Allow(g)
        PROVE  Waits(ph)
    <3>1. breaker'[ph] = AfterAllow(breaker[ph])
      BY <2>4 DEF Allow, TypeOK
    <3>2. CASE Allows(breaker[ph])
      <4>1. breaker'[ph].state = "half_open"
        BY <3>1, <3>2 DEF AfterAllow
      <4>2. pc'[g] = "running"
        BY <2>4, <3>2 DEF Allow, Goes, TypeOK
      <4> QED BY <2>4, <3>2, <4>1, <4>2 DEF Allows, Running
    <3>3. CASE ~Allows(breaker[ph])
      BY <2>2, <3>1, <3>3 DEF AfterAllow
    <3> QED BY <3>2, <3>3
  <2>5. ASSUME NEW g \in Goroutine, RunFails(g) \/ RunSucceeds(g)
        PROVE  breaker'[ph] = breaker[ph]
    <3>1. PhaseOf[g] # ph
      BY <2>1, <2>5 DEF Running, RunFails, RunSucceeds, Goes
    <3> QED BY <2>5, <3>1 DEF RunFails, RunSucceeds, TypeOK
  <2>6. ASSUME NEW g \in Goroutine, PhaseOf[g] # ph, Allow(g)
        PROVE  breaker'[ph] = breaker[ph]
    BY <2>6 DEF Allow, TypeOK
  <2> QED
    BY <2>2, <2>3, <2>4, <2>5, <2>6
    DEF Next, Step, Cancel, LoopExits, StartPhase3Only, EndPhase3Only, Receive, TryLock, Mark,
        StartPhase3, EndPhase3, Unlock, loopVars
<1> QED
  BY <1>1, LoopTypes, BreakerInvariant, PTL DEF Spec, CooldownRunsOnce

\* A goroutine whose run of phase 1 succeeded does not leave the way to the
\* comparison: it marks the success and compares, whatever the others hold.
ComparisonIsNext ==
    [][\A g \in Goroutine :
           /\ pc[g] = "mark" /\ PhaseOf[g] = "discovery" => pc'[g] \in {"mark", "phase3"}
           /\ pc[g] = "phase3" => pc'[g] \in {"phase3", "comparing"}]_loopVars

\* What ComparisonFollows rests on: p3Mu is free whenever it is asked for.
THEOREM ComparisonIsUnavoidable == Spec => ComparisonIsNext
<1>1. TypeOK /\ Phase3NeverSkipped /\ [Next]_loopVars
      => [\A g \in Goroutine :
              /\ pc[g] = "mark" /\ PhaseOf[g] = "discovery" => pc'[g] \in {"mark", "phase3"}
              /\ pc[g] = "phase3" => pc'[g] \in {"phase3", "comparing"}]_loopVars
  <2> SUFFICES ASSUME TypeOK, Phase3NeverSkipped, [Next]_loopVars, NEW g \in Goroutine
               PROVE  /\ pc[g] = "mark" /\ PhaseOf[g] = "discovery" => pc'[g] \in {"mark", "phase3"}
                      /\ pc[g] = "phase3" => pc'[g] \in {"phase3", "comparing"}
    OBVIOUS
  <2>1. CASE pc'[g] = pc[g]
    BY <2>1
  <2>2. CASE Step(g)
    BY <2>2 DEF Step, TryLock, Allow, RunFails, RunSucceeds, Mark, StartPhase3, EndPhase3, Unlock,
                Goes, TypeOK, Phase3NeverSkipped
  <2>3. ASSUME NEW h \in Goroutine, h # g, Step(h)
        PROVE  pc'[g] = pc[g]
    BY <2>3 DEF Step, TryLock, Allow, RunFails, RunSucceeds, Mark, StartPhase3, EndPhase3, Unlock,
                Goes, TypeOK
  <2>4. ASSUME NEW ph \in Phase, Receive(ph)
        PROVE  pc'[g] = pc[g] \/ pc[g] = "none"
    BY <2>4 DEF Receive, Goes, TypeOK
  <2> QED
    BY <2>1, <2>2, <2>3, <2>4
    DEF Next, Minute, Cancel, LoopExits, StartPhase3Only, EndPhase3Only, loopVars
<1> QED
  BY <1>1, LoopTypes, Phase3IsFree, PTL DEF Spec, ComparisonIsNext

----------------------------------------------------------------------------
(* Refinement: a step is a step of RetryPolicy, or changes nothing of it. *)

RunningPhases == {ph \in Phase : Running(ph)}
Streaks == [ph \in Phase |-> breaker[ph].failures]
Waits == [ph \in Phase |-> breaker[ph].waited]

\* The phases that run change with the goroutine that moves, and no other.
LEMMA RunningChanges ==
    ASSUME TypeOK, LockInv, NEW g \in Goroutine, Step(g)
    PROVE  /\ pc[g] = "running" =>
                 /\ PhaseOf[g] \in RunningPhases
                 /\ RunningPhases' = RunningPhases \ {PhaseOf[g]}
           /\ pc'[g] = "running" =>
                 /\ PhaseOf[g] \notin RunningPhases
                 /\ RunningPhases' = RunningPhases \cup {PhaseOf[g]}
           /\ pc[g] # "running" /\ pc'[g] # "running" => RunningPhases' = RunningPhases
<1> USE CycleLoopAssumption DEF CycleLoopAssumption, RunningPhases, Running
<1>1. /\ pc \in [Goroutine -> PC] /\ pc' \in [Goroutine -> PC]
      /\ \A h \in Goroutine : h # g => pc'[h] = pc[h]
  BY DEF TypeOK, PC, Step, TryLock, Allow, RunFails, RunSucceeds, Mark, StartPhase3,
         EndPhase3, Unlock, Goes
<1>2. pc'[g] = "running" => pc[g] = "locked"
  BY DEF TypeOK, PC, Step, TryLock, Allow, RunFails, RunSucceeds, Mark, StartPhase3,
         EndPhase3, Unlock, Goes
<1>3. Holding(g) => \A h \in Goroutine : PhaseOf[h] = PhaseOf[g] /\ pc[h] = "running" => h = g
  BY MutualExclusion DEF Holding
<1>4. CASE pc[g] = "running"
  BY <1>1, <1>2, <1>3, <1>4 DEF Holding
<1>5. CASE pc'[g] = "running"
  BY <1>1, <1>2, <1>3, <1>5 DEF Holding
<1>6. CASE pc[g] # "running" /\ pc'[g] # "running"
  BY <1>1, <1>6
<1> QED
  BY <1>1, <1>2, <1>4, <1>5, <1>6

LEMMA StepRefines ==
    ASSUME TypeOK, LockInv, BreakerInv, NEW g \in Goroutine, Step(g)
    PROVE  [Policy!Next]_(Policy!policyVars)
<1> USE CycleLoopAssumption, BreakerAssumption DEF CycleLoopAssumption, BreakerAssumption
<1> DEFINE ph == PhaseOf[g]
           b == breaker[ph]
<1>1. /\ ph \in Phase /\ b \in Breaker /\ Coherent(b)
      /\ b.failures \in 0 .. MaxFailures /\ b.waited \in 0 .. MaxCooldown
  BY DEF BreakerInv, Breaker, TypeOK
<1>2. CASE Allow(g) /\ Allows(b)
  <2>1. ph \notin RunningPhases /\ RunningPhases' = RunningPhases \cup {ph}
    BY <1>2, RunningChanges DEF Allow, Goes, TypeOK
  <2>2. Streaks' = Streaks /\ Waits' = Waits
    BY <1>1, <1>2 DEF Allow, AfterAllow, Streaks, Waits, TypeOK
  <2>3. b.failures >= 3 => b.waited >= Cooldown(b.failures)
    BY <1>1, <1>2 DEF Coherent, Allows, Breaker, BreakerState
  <2>4. Policy!Start(ph)
    BY <1>1, <2>1, <2>2, <2>3 DEF Policy!Start, RunningPhases, Streaks, Waits
  <2> QED BY <1>1, <2>4 DEF Policy!Next
<1>3. CASE RunFails(g)
  <2>1. ph \in RunningPhases /\ RunningPhases' = RunningPhases \ {ph}
    BY <1>3, RunningChanges DEF RunFails, Goes
  <2>2. /\ AfterFailure(b).failures = IF b.failures < MaxFailures THEN b.failures + 1
                                                                  ELSE b.failures
        /\ AfterFailure(b).waited = IF AfterFailure(b).failures >= 3 THEN 0 ELSE b.waited
    BY <1>1 DEF AfterFailure, Least, Coherent, Breaker, BreakerState
  <2>3. /\ Streaks' = [Streaks EXCEPT ![ph] = AfterFailure(b).failures]
        /\ Waits' = [Waits EXCEPT ![ph] = AfterFailure(b).waited]
    BY <1>1, <1>3 DEF RunFails, Streaks, Waits, TypeOK
  <2>4. Policy!Fail(ph)
    BY <1>1, <2>1, <2>2, <2>3 DEF Policy!Fail, RunningPhases, Streaks, Waits
  <2> QED BY <1>1, <2>4 DEF Policy!Next
<1>4. CASE RunSucceeds(g)
  <2>1. ph \in RunningPhases /\ RunningPhases' = RunningPhases \ {ph}
    BY <1>4, RunningChanges DEF RunSucceeds, Goes
  <2>2. /\ Streaks' = [Streaks EXCEPT ![ph] = 0]
        /\ Waits' = Waits
    BY <1>1, <1>4 DEF RunSucceeds, AfterSuccess, Streaks, Waits, TypeOK
  <2>3. Policy!Succeed(ph)
    BY <1>1, <2>1, <2>2 DEF Policy!Succeed, RunningPhases, Streaks, Waits
  <2> QED BY <1>1, <2>3 DEF Policy!Next
<1>5. CASE Allow(g) /\ ~Allows(b)
  <2>1. RunningPhases' = RunningPhases
    BY <1>5, RunningChanges DEF Allow, Goes, TypeOK
  <2>2. Streaks' = Streaks /\ Waits' = Waits
    BY <1>1, <1>5 DEF Allow, AfterAllow, Streaks, Waits, TypeOK
  <2> QED BY <2>1, <2>2 DEF Policy!policyVars, RunningPhases, Streaks, Waits
<1>6. CASE TryLock(g) \/ Mark(g) \/ StartPhase3(g) \/ EndPhase3(g) \/ Unlock(g)
  <2>1. RunningPhases' = RunningPhases
    BY <1>6, RunningChanges
       DEF TryLock, Mark, StartPhase3, EndPhase3, Unlock, Goes, TypeOK
  <2>2. Streaks' = Streaks /\ Waits' = Waits
    BY <1>6 DEF TryLock, Mark, StartPhase3, EndPhase3, Unlock, Streaks, Waits
  <2> QED BY <2>1, <2>2 DEF Policy!policyVars, RunningPhases, Streaks, Waits
<1> QED
  BY <1>2, <1>3, <1>4, <1>5, <1>6 DEF Step

\* Timers, goroutines, mutexes and breakers together implement the policy:
\* runs of a phase never overlap, and pauses after failures are kept.
THEOREM LoopKeepsPolicy == Spec => KeepsPolicy
<1>1. Init => Policy!Init
  BY DEF Init, Policy!Init, Running, NewCircuitBreaker
<1>2. TypeOK /\ LockInv /\ BreakerInv /\ [Next]_loopVars
         => [Policy!Next]_(Policy!policyVars)
  <2> SUFFICES ASSUME TypeOK, LockInv, BreakerInv, [Next]_loopVars
               PROVE  [Policy!Next]_(Policy!policyVars)
    OBVIOUS
  <2>1. CASE UNCHANGED <<breaker, pc>>
    BY <2>1 DEF Policy!policyVars, Running
  <2>2. CASE Minute
    <3>1. RunningPhases' = RunningPhases
      BY <2>2 DEF Minute, RunningPhases, Running
    <3>2. Streaks' = Streaks
      BY <2>2 DEF Minute, Streaks, Older
    <3>3. Waits' = [ph \in Phase |-> IF Waits[ph] < MaxCooldown THEN Waits[ph] + 1 ELSE Waits[ph]]
      <4>1. \A ph \in Phase :
               Older(breaker[ph]).waited = IF breaker[ph].waited < MaxCooldown
                                           THEN breaker[ph].waited + 1
                                           ELSE breaker[ph].waited
        <5>1. \A ph \in Phase : breaker[ph] \in Breaker
          BY DEF TypeOK
        <5> QED BY <5>1, BreakerAssumption DEF BreakerAssumption, Older, Least, Breaker
      <4>2. Waits' = [ph \in Phase |-> Older(breaker[ph]).waited]
        BY <2>2 DEF Minute, Waits
      <4> QED BY <4>1, <4>2 DEF Waits
    <3>4. Policy!Minute
      BY <3>1, <3>2, <3>3 DEF Policy!Minute, RunningPhases, Streaks, Waits
    <3> QED BY <3>4 DEF Policy!Next
  <2>3. ASSUME NEW ph \in Phase, Receive(ph) PROVE UNCHANGED Policy!policyVars
    BY <2>3 DEF Receive, Goes, TypeOK, Policy!policyVars, Running
  <2>4. ASSUME NEW g \in Goroutine, Step(g) PROVE [Policy!Next]_(Policy!policyVars)
    BY <2>4, StepRefines
  <2> QED
    BY <2>1, <2>2, <2>3, <2>4 DEF Next, Cancel, LoopExits, StartPhase3Only, EndPhase3Only, loopVars
<1> QED
  BY <1>1, <1>2, LoopTypes, LockInvariant, BreakerInvariant, PTL
     DEF Spec, KeepsPolicy, Policy!Spec

----------------------------------------------------------------------------
\* The handler and the poller change nothing of the engine: beside them the
\* cycle loop behaves as if it were alone, and every theorem about it holds.
THEOREM ProbeOnlyReads == ReadySpec => Spec
<1>1. ReadyInit => Init
  BY DEF ReadyInit
<1>2. [ReadyNext]_readyVars => [Next]_loopVars
  <2> SUFFICES ASSUME [ReadyNext]_readyVars PROVE [Next]_loopVars
    OBVIOUS
  <2>1. CASE Polling
    BY <2>1 DEF Polling, DatabaseChanges, Second, StartPing, PingEnds, PollerStops
  <2>2. CASE EngineStep
    BY <2>2 DEF EngineStep
  <2>3. ASSUME NEW ph \in Phase, ReadStatus(ph) \/ AnyBreakerOpen(ph) PROVE UNCHANGED loopVars
    BY <2>3 DEF ReadStatus, AnyBreakerOpen
  <2>4. CASE Request \/ Reply
    BY <2>4 DEF Request, Reply
  <2>5. CASE UNCHANGED readyVars
    BY <2>5 DEF readyVars
  <2> QED BY <2>1, <2>2, <2>3, <2>4, <2>5 DEF ReadyNext
<1> QED
  BY <1>1, <1>2, PTL DEF ReadySpec, Spec

----------------------------------------------------------------------------
(* Types. *)

LEMMA Naturals == /\ PollEvery \in Nat /\ PingTimeout \in Nat /\ PingTimeout <= PollEvery
                  /\ Staleness \in Nat
BY ReadinessAssumption DEF ReadinessAssumption, Staleness

LEMMA PollingTypes ==
    ASSUME ReadyTypeOK, TypeOK', Polling
    PROVE  ReadyTypeOK'
<1> USE Naturals DEF ReadyTypeOK
<1>1. UNCHANGED probeVars
  BY DEF Polling, DatabaseChanges, Second, StartPing, PingEnds, PollerStops
<1>2. CASE DatabaseChanges
  BY <1>1, <1>2 DEF DatabaseChanges, probeVars
<1>3. CASE Second
  BY <1>1, <1>3 DEF Second, Least, probeVars
<1>4. CASE StartPing \/ PollerStops
  BY <1>1, <1>4 DEF StartPing, PollerStops, probeVars
<1>5. CASE PingEnds
  BY <1>1, <1>5 DEF PingEnds, Findable, probeVars
<1> QED
  BY <1>2, <1>3, <1>4, <1>5 DEF Polling

\* The poller's clocks, the report, the histories and the engine keep their
\* types.
THEOREM ReadyTypes == ReadySpec => []ReadyTypeOK
<1>1. ReadyInit /\ TypeOK => ReadyTypeOK
  <2>1. 0 \in 0 .. PollEvery
    BY Naturals
  <2> QED BY <2>1 DEF ReadyInit, ReadyTypeOK
<1>2. ReadyTypeOK /\ TypeOK' /\ [ReadyNext]_readyVars => ReadyTypeOK'
  <2> SUFFICES ASSUME ReadyTypeOK, TypeOK', [ReadyNext]_readyVars PROVE ReadyTypeOK'
    OBVIOUS
  <2>1. CASE Polling
    BY <2>1, PollingTypes
  <2>2. CASE EngineStep
    <3>1. NotOpen' \in SUBSET Phase
      BY DEF NotOpen
    <3>2. wasClear' \in SUBSET Phase /\ wasOpen' \in BOOLEAN
      BY <2>2, <3>1 DEF EngineStep, Observe, ReadyTypeOK
    <3> QED BY <2>2, <3>2 DEF EngineStep, pollerVars, ReadyTypeOK
  <2>3. CASE Request
    <3>1. NotOpen \in SUBSET Phase /\ grounds' \in SUBSET BOOLEAN
      BY <2>3 DEF Request, NotOpen
    <3> QED BY <2>3, <3>1 DEF Request, pollerVars, ReadyTypeOK
  <2>4. ASSUME NEW ph \in Phase, ReadStatus(ph) \/ AnyBreakerOpen(ph) PROVE ReadyTypeOK'
    BY <2>4 DEF ReadStatus, AnyBreakerOpen, pollerVars, ReadyTypeOK
  <2>5. CASE Reply
    BY <2>5 DEF Reply, pollerVars, ReadyTypeOK
  <2>6. CASE UNCHANGED readyVars
    BY <2>6 DEF readyVars, pollerVars, probeVars, ReadyTypeOK
  <2> QED BY <2>1, <2>2, <2>3, <2>4, <2>5, <2>6 DEF ReadyNext
<1> QED
  BY <1>1, <1>2, ProbeOnlyReads, LoopTypes, PTL DEF ReadySpec

----------------------------------------------------------------------------
(* The news that the flag holds. *)

\* After the first ping and before the shutdown the flag holds what was the
\* case when the last ping ended, or later.
NewsInv ==
    /\ poller = "stopped" => stopping
    /\ poller = "pinging" => sinceTick <= PingTimeout
    /\ polled /\ ~stopping =>
          Age(dbReachable) <= (IF poller = "waiting" THEN 0 ELSE PollEvery) + sinceTick

LEMMA NewsStep ==
    ASSUME ReadyTypeOK, NewsInv, Polling
    PROVE  NewsInv'
<1> USE Naturals DEF ReadyTypeOK, NewsInv, Age
<1>1. stopping' = stopping
  BY DEF Polling, DatabaseChanges, Second, StartPing, PingEnds, PollerStops, loopVars
<1>2. CASE DatabaseChanges
  BY <1>1, <1>2 DEF DatabaseChanges
<1>3. CASE Second
  <2>1. /\ UNCHANGED <<poller, polled, dbUp, dbReachable>>
        /\ sinceChange' <= sinceChange + 1
        /\ sinceTick' = IF poller = "stopped" THEN sinceTick ELSE sinceTick + 1
        /\ poller = "pinging" => sinceTick < PingTimeout
    BY <1>3 DEF Second, Least
  <2>2. Age(dbReachable)' <= Age(dbReachable) + 1 /\ Age(dbReachable) \in Nat /\ Age(dbReachable)' \in Int
    BY <1>3, <2>1 DEF Second, Least
  <2>3. CASE poller = "stopped"
    BY <1>1, <2>1, <2>3
  <2>4. CASE poller # "stopped"
    <3>1. /\ sinceTick' = sinceTick + 1 /\ sinceTick \in Nat
          /\ poller = "pinging" => sinceTick' <= PingTimeout
      BY <2>1, <2>4
    <3>2. polled /\ ~stopping =>
             Age(dbReachable)' <= (IF poller = "waiting" THEN 0 ELSE PollEvery) + sinceTick'
      <4> HIDE DEF Age
      <4> QED BY <2>2, <3>1
    <3> HIDE DEF Age
    <3> QED BY <1>1, <2>1, <2>4, <3>1, <3>2
  <2> QED BY <2>3, <2>4
<1>4. CASE StartPing
  BY <1>1, <1>4 DEF StartPing
<1>5. CASE PingEnds
  BY <1>1, <1>5 DEF PingEnds, Findable
<1>6. CASE PollerStops
  BY <1>1, <1>6 DEF PollerStops
<1> QED
  BY <1>2, <1>3, <1>4, <1>5, <1>6 DEF Polling

LEMMA NewsInvariant == ReadySpec => []NewsInv
<1>1. ReadyInit => NewsInv
  BY DEF ReadyInit, NewsInv
<1>2. ReadyTypeOK /\ NewsInv /\ [ReadyNext]_readyVars => NewsInv'
  <2> SUFFICES ASSUME ReadyTypeOK, NewsInv, [ReadyNext]_readyVars PROVE NewsInv'
    OBVIOUS
  <2>1. CASE UNCHANGED pollerVars /\ (stopping => stopping')
    BY <2>1 DEF pollerVars, NewsInv, Age
  <2>2. CASE Polling
    BY <2>2, NewsStep
  <2>3. CASE EngineStep
    <3>1. stopping => stopping'
      BY <2>3 DEF EngineStep, Next, Minute, Cancel, LoopExits, StartPhase3Only, EndPhase3Only,
                  Receive, Step, TryLock, Allow, RunFails, RunSucceeds, Mark, StartPhase3,
                  EndPhase3, Unlock
    <3> QED BY <2>1, <2>3, <3>1 DEF EngineStep
  <2>4. CASE Request \/ Reply
    BY <2>1, <2>4 DEF Request, Reply, loopVars
  <2>5. ASSUME NEW ph \in Phase, ReadStatus(ph) \/ AnyBreakerOpen(ph) PROVE NewsInv'
    BY <2>1, <2>5 DEF ReadStatus, AnyBreakerOpen, loopVars
  <2>6. CASE UNCHANGED readyVars
    BY <2>1, <2>6 DEF readyVars, loopVars
  <2> QED BY <2>2, <2>3, <2>4, <2>5, <2>6 DEF ReadyNext
<1> QED
  BY <1>1, <1>2, ReadyTypes, PTL DEF ReadySpec

\* After the first ping and before the shutdown the database was, at some time
\* of the last Staleness seconds, what the flag says.
NewsIsFresh == polled /\ ~stopping => Age(dbReachable) <= Staleness

\* What the answers of the probe rest on: the flag is never older than one
\* period and one timeout of the poller, whatever the database does.
THEOREM FlagIsFresh == ReadySpec => []NewsIsFresh
<1>1. ReadyTypeOK /\ NewsInv => NewsIsFresh
  BY Naturals DEF ReadyTypeOK, NewsInv, NewsIsFresh, Staleness, Age
<1> QED
  BY <1>1, ReadyTypes, NewsInvariant, PTL

----------------------------------------------------------------------------
(* Answers. *)

\* While a request is in progress, the histories hold what is the case now and
\* what the handler has read.
HistoryInv ==
    /\ handler \in {"idle", "statuses"} => cleared = {}
    /\ handler = "any" => reachable
    /\ handler # "idle" =>
          /\ NotOpen \subseteq wasClear
          /\ NotOpen # Phase => wasOpen
          /\ reachable \in grounds
          /\ cleared \subseteq wasClear
    /\ handler = "reply" => ~reachable \/ cleared = Phase \/ wasOpen

LEMMA HistoryInvariant == ReadySpec => []HistoryInv
<1>1. ReadyInit => HistoryInv
  BY DEF ReadyInit, HistoryInv
<1>2. ReadyTypeOK /\ NewsIsFresh /\ HistoryInv /\ [ReadyNext]_readyVars => HistoryInv'
  <2> SUFFICES ASSUME ReadyTypeOK, NewsIsFresh, HistoryInv, [ReadyNext]_readyVars
               PROVE  HistoryInv'
    OBVIOUS
  <2>1. CASE Polling
    <3>1. UNCHANGED probeVars /\ NotOpen' = NotOpen
      BY <2>1 DEF Polling, DatabaseChanges, Second, StartPing, PingEnds, PollerStops, NotOpen,
                  loopVars
    <3> QED BY <3>1 DEF probeVars, HistoryInv
  <2>2. CASE EngineStep
    <3>1. Observe /\ UNCHANGED <<handler, reachable, cleared, grounds>>
      BY <2>2 DEF EngineStep
    <3>2. CASE handler = "idle"
      BY <3>1, <3>2 DEF HistoryInv
    <3>3. CASE handler # "idle"
      <4>1. wasClear' = wasClear \cup NotOpen'
        BY <3>1, <3>3 DEF Observe
      <4>2. wasOpen' <=> wasOpen \/ NotOpen' # Phase
        BY <3>1, <3>3, Zenon DEF Observe
      <4>3. /\ NotOpen' \subseteq wasClear'
            /\ NotOpen' # Phase => wasOpen'
            /\ cleared \subseteq wasClear'
        BY <3>3, <4>1, <4>2 DEF HistoryInv
      <4>4. handler = "reply" => ~reachable \/ cleared = Phase \/ wasOpen'
        BY <4>2 DEF HistoryInv
      <4> QED BY <3>1, <3>3, <4>3, <4>4 DEF HistoryInv
    <3> QED BY <3>2, <3>3
  <2>3. CASE Request
    <3>1. NotOpen' = NotOpen
      BY <2>3 DEF Request, NotOpen, loopVars
    <3>2. reachable' \in grounds'
      BY <2>3 DEF Request, NewsIsFresh, ReadyTypeOK
    <3> QED BY <2>3, <3>1, <3>2 DEF Request, HistoryInv
  <2>4. ASSUME NEW ph \in Phase, ReadStatus(ph) PROVE HistoryInv'
    <3>1. NotOpen' = NotOpen
      BY <2>4 DEF ReadStatus, NotOpen, loopVars
    <3> QED BY <2>4, <3>1 DEF ReadStatus, HistoryInv
  <2>5. ASSUME NEW ph \in Phase, AnyBreakerOpen(ph) PROVE HistoryInv'
    <3>1. NotOpen' = NotOpen
      BY <2>5 DEF AnyBreakerOpen, NotOpen, loopVars
    <3>2. IF breaker[ph].state = "open" THEN NotOpen # Phase ELSE ph \in NotOpen
      BY DEF NotOpen
    <3>3. /\ reachable' \in grounds' /\ reachable
          /\ handler' \in {"any", "reply"}
          /\ NotOpen \subseteq wasClear' /\ (NotOpen # Phase => wasOpen')
      BY <2>5 DEF AnyBreakerOpen, HistoryInv
    <3>4. cleared' \subseteq wasClear'
      BY <2>5, <3>2 DEF AnyBreakerOpen, HistoryInv
    <3>5. handler' = "reply" => cleared' = Phase \/ wasOpen'
      BY <2>5, <3>2 DEF AnyBreakerOpen, HistoryInv
    <3> QED BY <2>5, <3>1, <3>3, <3>4, <3>5 DEF AnyBreakerOpen, HistoryInv
  <2>6. CASE Reply
    BY <2>6 DEF Reply, HistoryInv
  <2>7. CASE UNCHANGED readyVars
    BY <2>7 DEF readyVars, probeVars, loopVars, HistoryInv, NotOpen
  <2> QED BY <2>1, <2>2, <2>3, <2>4, <2>5, <2>6, <2>7 DEF ReadyNext
<1> QED
  BY <1>1, <1>2, ReadyTypes, FlagIsFresh, PTL DEF ReadySpec

\* A 200 rests on a moment of the request at which a breaker was not open, for
\* each of them, and on a database that answered at most Staleness seconds
\* before it.
THEOREM AnswersWereHealthy == ReadySpec => []ReadyWasHealthy
<1>1. ReadyTypeOK /\ HistoryInv => ReadyWasHealthy
  BY DEF ReadyTypeOK, HistoryInv, ReadyWasHealthy, Ready
<1> QED
  BY <1>1, ReadyTypes, HistoryInvariant, PTL

\* A 503 rests on a breaker that was open during the request, or on a database
\* that did not answer at most Staleness seconds before it.
THEOREM RefusalsWereUnhealthy == ReadySpec => []NotReadyWasUnhealthy
<1>1. ReadyTypeOK /\ HistoryInv => NotReadyWasUnhealthy
  BY DEF ReadyTypeOK, HistoryInv, NotReadyWasUnhealthy, Ready
<1> QED
  BY <1>1, ReadyTypes, HistoryInvariant, PTL
===============================================================================

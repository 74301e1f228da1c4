--------------------------- MODULE CircuitBreaker ---------------------------
(****************************************************************************)
(* The circuit breaker of a phase (internal/engine/breaker.go), as a record *)
(* and the operators that its methods apply to it under b.mu.  Time is      *)
(* counted in minutes since openedAt, because nothing else is compared.     *)
(****************************************************************************)
EXTENDS Integers

CONSTANTS
    MaxCooldown,   \* the longest cooldown in minutes: 60 in the code
    MaxFailures    \* where the count of failures saturates, for TLC

\* Saturation is exact if the cooldown has stopped growing by then.
ASSUME BreakerAssumption ==
    /\ MaxCooldown \in Nat \ {0}
    /\ MaxFailures \in Nat /\ MaxFailures >= 3

BreakerState == {"closed", "open", "half_open"}

\* waited: minutes since openedAt, as far as any cooldown can tell them apart.
Breaker == [state : BreakerState, failures : 0 .. MaxFailures, waited : 0 .. MaxCooldown]

Least(a, b) == IF a < b THEN a ELSE b

\* openedAt is the zero time, which is longer ago than any cooldown.
NewCircuitBreaker == [state |-> "closed", failures |-> 0, waited |-> MaxCooldown]

\* cooldownLocked
Cooldown(failures) ==
    IF failures <= 3 THEN 1 ELSE Least(2 ^ Least(failures - 3, 20), MaxCooldown)

\* The answer of Allow, and what Allow makes of the breaker.
Allows(b) == b.state = "open" => b.waited >= Cooldown(b.failures)

AfterAllow(b) ==
    IF b.state = "open" /\ Allows(b)
    THEN [state |-> "half_open", failures |-> b.failures, waited |-> b.waited]
    ELSE b

\* RecordSuccess
AfterSuccess(b) == [state |-> "closed", failures |-> 0, waited |-> b.waited]

\* RecordFailure opens the breaker at the threshold only.
AfterFailure_HalfOpenStays(b) ==
    LET n == Least(b.failures + 1, MaxFailures)
    IN  IF b.state = "open" \/ (b.state = "closed" /\ n >= 3)
        THEN [state |-> "open", failures |-> n, waited |-> 0]
        ELSE [state |-> b.state, failures |-> n, waited |-> b.waited]

\* RecordFailure: a failure reopens a half-open breaker, opens a closed one at
\* the third in a row, and restarts the cooldown of an open one.
AfterFailure(b) ==
    LET n == Least(b.failures + 1, MaxFailures)
    IN  IF b.state # "closed" \/ n >= 3
        THEN [state |-> "open", failures |-> n, waited |-> 0]
        ELSE [state |-> b.state, failures |-> n, waited |-> b.waited]

\* A minute passes.
Older(b) ==
    [state |-> b.state, failures |-> b.failures, waited |-> Least(b.waited + 1, MaxCooldown)]
=============================================================================

SPECIFICATION StartupSpec
CONSTANTS
    Replica = {"r1", "r2"}
    Deployment <- MCFreshPair
    Attempts = 30
    MaxBackoff = 30
    MaxFaults = 0
INVARIANTS
    RecordedWasApplied
CHECK_DEADLOCK FALSE

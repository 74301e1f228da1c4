SPECIFICATION MCSpec
CONSTANTS
    Phase = {"discovery"}
    Goroutine = {"d1", "d2"}
    PhaseOf <- MCPhaseOf
    Interval <- MCInterval
    Nobody = "nobody"
    MaxCooldown = 3
    MaxFailures = 5
    PollEvery = 2
    PingTimeout = 1
INVARIANTS
    ReadyTypeOK
    OpenMeansIdle
    ReadyWasHealthy
    NotReadyWasUnhealthy
PROPERTIES
    KeepsPolicy
    OpenIsRetried
    ComparisonFollows

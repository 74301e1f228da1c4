SPECIFICATION StartupFairSpec
CONSTANTS
    Replica = {"r1", "r2"}
    Deployment <- MCSupported
    Attempts = 30
    MaxBackoff = 30
    MaxFaults = 2
INVARIANTS
    RecordedWasApplied
    UpMeansUsable
    PatientAtStart
    CleanExitMeansServed
PROPERTIES
    SeedRunsOnce
    EventuallyUp
    TermLeadsToExit
CHECK_DEADLOCK FALSE

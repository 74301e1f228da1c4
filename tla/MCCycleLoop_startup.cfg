SPECIFICATION FairSpec
CONSTANTS
    Phase = {"discovery", "managed"}
    Goroutine = {"d", "m"}
    PhaseOf <- MCBoth
    Interval <- MCEveryMinute
    Nobody = "nobody"
    MaxCooldown = 1
    MaxFailures = 3
PROPERTIES
    Phase2IsTried

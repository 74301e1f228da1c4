SPECIFICATION AuthFairSpec
CONSTANTS
    Caller = {"c1", "c2"}
    Lifetime = {40}
    Buffer = 30
    Short = 6
    Margin = 3
    Pause = 3
    Blink = 1
    Timeout = 3
    Tolerated = 11
    MaxOutage = 20
INVARIANTS
    AuthTypeOK
    StaleOnlyAfterLongOutage
PROPERTIES
    TokenRecovers

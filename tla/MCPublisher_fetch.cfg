SPECIFICATION PublisherFairSpec
CONSTANTS
    Api = {"a", "b", "c", "d"}
    PageSize = 2
    Concurrency = 2
    MaxAttempts = 2
    MaxChanges = 2
INVARIANTS
    PublisherTypeOK
    ListingIsFaithful
PROPERTIES
    KeepsFetchPolicy
    RunReturns
CHECK_DEADLOCK FALSE

SPECIFICATION Spec
CONSTANTS
    Endpoint <- MCEndpoint
    Service = {"orders"}
    Op <- MCTwoOps
    Api = {"a1", "a2"}
    Signature = {"list", "admin", "gateway"}
    ServiceOf <- MCServiceOf
    SignatureOf <- MCSignatureOf
    ApiOf <- MCTwoApiOf
    GatewaySignature <- MCTwoGateway
    BackendSignature <- MCTwoBackend
    SoftDays = 0
    HardDays = 0
    ClassDays = 0
    ManagedDays = 0
    Replica = {"r1"}
    Window = 1
    Stable = {"a2"}
    FetchMayFail = FALSE
    Epoch <- MCEpoch
    Freshness = 0
    MaxTime = 2
INVARIANTS
    ReferentialIntegrity
    AnchorsActiveUnlessOvertaken
    NoFindingBeforeSync
PROPERTIES
    AnchorsKept
    NoShadowBesideAnchor
    VerdictNeverRegresses
    SyncIsExact
    LastSeenNeverRegresses
    NoFalseShadow
VIEW WithoutView

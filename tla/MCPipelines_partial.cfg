SPECIFICATION Spec
CONSTANTS
    Endpoint <- MCEndpoint
    Service = {"orders"}
    Op <- MCOp
    Api = {"a1"}
    Signature = {"list", "admin", "gateway"}
    ServiceOf <- MCServiceOf
    SignatureOf <- MCSignatureOf
    ApiOf <- MCApiOf
    GatewaySignature <- MCGateway
    BackendSignature <- MCBackend
    SoftDays = 0
    HardDays = 0
    ClassDays = 0
    ManagedDays = 0
    Replica = {"r1"}
    Window = 0
    Stable = {"a1"}
    FetchMayFail = TRUE
    Epoch <- MCEpoch
    Freshness = 0
    MaxTime = 2
PROPERTIES
    NoFalseShadow
VIEW WithoutView

SPECIFICATION Spec
CONSTANTS
    Endpoint <- MCOneEndpoint
    Service = {"orders"}
    Op <- MCOp
    Api = {"a1"}
    Signature = {"list", "admin", "gateway"}
    ServiceOf <- MCOneServiceOf
    SignatureOf <- MCOneSignatureOf
    ApiOf <- MCApiOf
    GatewaySignature <- MCGateway
    BackendSignature <- MCBackend
    SoftDays = 0
    HardDays = 0
    ClassDays = 0
    ManagedDays = 0
    Replica = {"r1"}
    Window = 0
    Stable = {}
    FetchMayFail = FALSE
    Epoch <- MCEpoch
    Freshness = 0
    MaxTime = 2
PROPERTIES
    ManagedNeverReported

SPECIFICATION ReportSpec
CONSTANTS
    Endpoint <- MCEndpoint
    Service = {"orders"}
    Op <- MCOp
    Api = {"a1"}
    Signature = {"list", "admin", "gateway"}
    ServiceOf <- MCServiceOf
    SignatureOf <- MCSignatureOf
    ApiOf <- MCApiOf
    GatewaySignature <- MCGateway
    BackendSignature <- MCBackend
    SoftDays = 0
    HardDays = 0
    ClassDays = 0
    ManagedDays = 0
    Replica = {"r1"}
    Window = 0
    Stable = {"a1"}
    FetchMayFail = FALSE
    Epoch <- MCEpoch
    Freshness = 1
    MaxTime = 2
    RowId <- MCRowId
    AskedLimit = {0, 3}
    AskedOffset <- MCOffset
    DefaultLimit = 1
    MaxLimit = 1
INVARIANTS
    ReportTypeOK
    AnchoredNotUntrafficked
    PagesComplete
PROPERTIES
    ReaderNeverSeesOlder

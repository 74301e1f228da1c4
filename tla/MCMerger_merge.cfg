SPECIFICATION MergerSpec
CONSTANTS
    Segment = {"", "{id}", "{sku}", "{sku}.json", "{id}.json", "42", "43", "v1", "orders", "cart",
               "shop", "item", "health"}
    Empty = ""
    Id = "{id}"
    Placeholder = {"{sku}", "{sku}.json"}
    Rewritten <- MCRewritten
    Dynamic = {"42", "43"}
    Excluded = {"v1"}
    Input = {1, 2, 3}
    Signal <- MCSignal
    Operation <- MCOperation
    Noise <- MCNoise
    NoiseDomain = {"probe"}
    SkipInternal = FALSE
    ClientsCap = 1
    SampleCap = 1
INVARIANTS
    MergedRowIsSummary
    TopCallersKept
    DynamicCallsMatch
CHECK_DEADLOCK FALSE

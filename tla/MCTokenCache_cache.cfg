SPECIFICATION CacheSpec
CONSTANTS
    Token = {"t1", "t2", "t3"}
    Scoped = {"t1", "t2"}
    Request = {q1, q2}
    Capacity = 2
    Ttl = 1
    Latency = 1
INVARIANTS
    CacheConsistent
    KeepsRecent
PROPERTIES
    AcceptedWasActive
SYMMETRY RequestSymmetry

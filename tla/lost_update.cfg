SPECIFICATION Spec
CONSTANTS
    r1 = r1
    r2 = r2
    w = w
    s1 = s1
    s2 = s2
    k1 = k1
    k2 = k2
    Repos = {r1, r2, w}
    Streams = {s1}
    Kinds = {k1}
    EventKinds <- SameKinds
    Strategy <- AllButW
    Policy <- AllAlways
    Threshold = 0
    SnapshotStores = {r1, r2, w}
    StoreOf <- OwnStore
    StoreKind = "postgres"
    Fixtures = {}
    Permits <- WithinCap
    Faults = {}
    MaxCalls <- TwoCallsForR1
    MaxBatch = 1
    MaxRetries = 0
    Cap = 5
PROPERTIES
    DecidedOnCurrentState
CHECK_DEADLOCK FALSE

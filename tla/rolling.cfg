SPECIFICATION FairSpec
CONSTANTS
    r1 = r1
    r2 = r2
    w = w
    s1 = s1
    s2 = s2
    k1 = k1
    k2 = k2
    Repos = {r1, w}
    Streams = {s1}
    Kinds = {k1, k2}
    EventKinds <- OlderR1
    Strategy <- AllButW
    Policy <- NoneSnapshots
    Threshold = 0
    SnapshotStores = {r1, w}
    StoreOf <- OwnStore
    StoreKind = "postgres"
    Fixtures = {w}
    Permits <- WithinCap
    Faults = {"append", "load", "decode", "encode", "cancel"}
    MaxCalls <- TwoCalls
    MaxBatch = 1
    MaxRetries = 2
    Cap = 4
INVARIANTS
    AtMostOnce
    RetryAccounting
PROPERTIES
    DecidedOnCurrentState
    OperationsReturn
CHECK_DEADLOCK FALSE

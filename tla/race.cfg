SPECIFICATION Spec
CONSTANTS
    r1 = r1
    r2 = r2
    w = w
    s1 = s1
    s2 = s2
    k1 = k1
    k2 = k2
    Repos = {r1, r2, w}
    Streams = {s1}
    Kinds = {k1}
    EventKinds <- SameKinds
    Strategy <- AllButW
    Policy <- NoneSnapshots
    Threshold = 0
    SnapshotStores = {r1, r2, w}
    StoreOf <- OwnStore
    StoreKind = "postgres"
    Fixtures = {w}
    Permits <- WithinCap
    Faults = {"encode", "late append", "cancel"}
    MaxCalls <- TwoCallsForR1
    MaxBatch = 2
    MaxRetries = 1
    Cap = 3
INVARIANTS
    TypeOK
    AtMostOnce
    ReportedOutcome
    RetryAccounting
PROPERTIES
    DecidedOnCurrentState
    ConflictMeansConcurrentAppend
    ImplementsCommandLog
CHECK_DEADLOCK FALSE

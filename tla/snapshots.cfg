SPECIFICATION Spec
CONSTANTS
    r1 = r1
    r2 = r2
    w = w
    s1 = s1
    s2 = s2
    k1 = k1
    k2 = k2
    Repos = {r1, w}
    Streams = {s1}
    Kinds = {k1}
    EventKinds <- SameKinds
    Strategy <- AllButW
    Policy <- AllAlways
    Threshold = 0
    SnapshotStores = {r1, w}
    StoreOf <- OwnStore
    StoreKind = "postgres"
    Fixtures = {}
    Permits <- WithinCap
    Faults = {"load", "snapshot load", "encode", "version", "snapshot store", "late append", "restart"}
    MaxCalls <- TwoCalls
    MaxBatch = 2
    MaxRetries = 1
    Cap = 5
INVARIANTS
    AtMostOnce
    ReportedOutcome
    NoPanic
    SnapshotNotAhead
PROPERTIES
    SnapshotsAdvance
CHECK_DEADLOCK FALSE

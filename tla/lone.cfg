SPECIFICATION Spec
CONSTANTS
    r1 = r1
    r2 = r2
    w = w
    s1 = s1
    s2 = s2
    k1 = k1
    k2 = k2
    Repos = {r1}
    Streams = {s1}
    Kinds = {k1, k2}
    EventKinds <- OlderR1
    Strategy <- AllOptimistic
    Policy <- AllEvery
    Threshold = 2
    SnapshotStores = {r1}
    StoreOf <- OwnStore
    StoreKind = "inmemory"
    Fixtures = {r1}
    Permits <- WithinCap
    Faults = {"snapshot load", "snapshot decode", "decode", "encode", "snapshot encode", "snapshot store", "cancel"}
    MaxCalls <- FourCalls
    MaxBatch = 2
    MaxRetries = 1
    Cap = 5
INVARIANTS
    LoadIsReplay
    SnapshotFaithful
    NoPanic
PROPERTIES
    SnapshotsAdvance
    BoundedReplay
CHECK_DEADLOCK FALSE

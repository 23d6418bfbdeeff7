SPECIFICATION Spec
CONSTANTS
    c1 = c1
    c2 = c2
    c3 = c3
    s1 = s1
    s2 = s2
    Clients = {c1, c2}
    Streams = {s1, s2}
    PoolSize = 2
    AnyVersion = AnyVersion
    NewStream = NewStream
    NoRow = NoRow
    Null = Null
    NoTx = NoTx
    MaxCalls = 2
    MaxBatch = 2
PROPERTIES
    GlobalInPositionOrder
CHECK_DEADLOCK FALSE

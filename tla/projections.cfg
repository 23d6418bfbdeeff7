SPECIFICATION Spec
CONSTANTS
    s1 = s1
    s2 = s2
    k1 = k1
    k2 = k2
    Kinds = {k1, k2}
    Streams = {s1, s2}
    Anywhere = Anywhere
    Backends = {"inmemory", "postgres"}
    MaxEvents = 3
    MaxFilters = 2
    Enums <- Sums
    EnumOf <- SumOf
    Single = Single
    NoHandler = NoHandler
    MaxRegistrations = 2
INVARIANTS
    TypeOK
    LoadsMatching
    LoadsOnce
    AppliedOnce
    HandledAsRegistered
CHECK_DEADLOCK FALSE

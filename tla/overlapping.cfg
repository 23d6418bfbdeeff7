SPECIFICATION Spec
CONSTANTS
    s1 = s1
    s2 = s2
    k1 = k1
    k2 = k2
    Kinds = {k1, k2}
    Streams = {s1, s2}
    Anywhere = Anywhere
    Backends = {"postgres"}
    MaxEvents = 2
    MaxFilters = 0
    Enums <- Sums
    EnumOf <- SumOf
    Single = Single
    NoHandler = NoHandler
    MaxRegistrations = 3
INVARIANTS
    OverlapsDeduplicated
CHECK_DEADLOCK FALSE

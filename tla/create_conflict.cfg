SPECIFICATION FairSpec
CONSTANTS
    c1 = c1
    c2 = c2
    c3 = c3
    a = a
    b = b
    None = None
    NoRange = NoRange
    BytesInGigabyte = 4
    DefaultVolumeSizeGB = 2
    MaxInt64 = 31
    Callers <- MCCallers
    Names <- MCNames
    NameOf <- TwoNames
    RangeOf <- Unequal
    Ids = {v1, v2, v3}
    Retries = 2
    DiskLimit = 3
    CountLimit = 3
    UniqueNames = TRUE
    LateRequests = TRUE
    MaxFaults = 1
    MaxDeletes = 1
INVARIANT CapacityPredictsQuota
PROPERTIES
    LeaderReplyMatches
    EveryCallReturns
CHECK_DEADLOCK FALSE

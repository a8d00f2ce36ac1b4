SPECIFICATION Spec
CONSTANTS
    c1 = c1
    c2 = c2
    c3 = c3
    a = a
    b = b
    None = None
    NoRange = NoRange
    BytesInGigabyte = 4
    DefaultVolumeSizeGB = 2
    MaxInt64 = 31
    Callers <- MCCallers
    Names <- MCNames
    NameOf <- OneName
    RangeOf <- Unequal
    Ids = {v1, v2}
    Retries = 2
    DiskLimit = 3
    CountLimit = 3
    UniqueNames = TRUE
    LateRequests = FALSE
    MaxFaults = 0
    MaxDeletes = 0
INVARIANT ReplyMatchesRequest
CHECK_DEADLOCK FALSE

SPECIFICATION FairSpec
CONSTANTS
    c1 = c1
    c2 = c2
    c3 = c3
    a = a
    b = b
    None = None
    NoRange = NoRange
    BytesInGigabyte = 4
    DefaultVolumeSizeGB = 2
    MaxInt64 = 31
    Callers <- MCCallers
    Names <- MCNames
    NameOf <- TwoNames
    RangeOf <- OneGBEach
    Ids = {v1, v2, v3}
    Retries = 2
    DiskLimit = 3
    CountLimit = 2
    UniqueNames = FALSE
    LateRequests = FALSE
    MaxFaults = 2
    MaxDeletes = 1
INVARIANTS
    TypeOK
    OneVolumePerName
    ReplyMatchesRequest
    FollowersHaveLeader
    FreshBeforeCreate
    CapacityCoversRequest
PROPERTIES
    EveryCallReturns
    EventuallyProvisioned
    NoVolumeLeaked
    ImplementsIdempotentCreate
CHECK_DEADLOCK FALSE

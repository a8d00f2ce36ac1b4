SPECIFICATION FairSpec
CONSTANTS
    n1 = n1
    n2 = n2
    h1 = h1
    h2 = h2
    r1 = r1
    r2 = r2
    None = None
    NoRange = NoRange
    BytesInGigabyte = 4
    DefaultVolumeSizeGB = 2
    MaxInt64 = 31
    Nodes <- MCNodes
    AttachSlots <- TwoSlots
    ResizeSlots <- TwoResizers
    InitSize = 1
    AskedRange <- FiveBytes
    Retries = 2
    Overlap = TRUE
    OmitNode = TRUE
    LateRequests = TRUE
    MaxFaults = 1
INVARIANT ExpandIsHonest
PROPERTY DetachServed
CHECK_DEADLOCK FALSE

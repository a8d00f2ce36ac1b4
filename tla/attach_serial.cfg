SPECIFICATION FairSpec
CONSTANTS
    n1 = n1
    n2 = n2
    h1 = h1
    h2 = h2
    r1 = r1
    r2 = r2
    None = None
    NoRange = NoRange
    BytesInGigabyte = 4
    DefaultVolumeSizeGB = 2
    MaxInt64 = 31
    Nodes <- MCNodes
    AttachSlots <- TwoSlots
    ResizeSlots <- OneResizer
    InitSize = 1
    AskedRange <- FiveBytes
    Retries = 2
    Overlap = FALSE
    OmitNode = FALSE
    LateRequests = FALSE
    MaxFaults = 2
INVARIANTS
    TypeOK
    PublishedStaysAttached
    ReleasedIsFree
PROPERTIES
    ImplementsExclusiveAttachment
    DetachServed
    AttachServed
    EveryHandlerReturns
CHECK_DEADLOCK FALSE

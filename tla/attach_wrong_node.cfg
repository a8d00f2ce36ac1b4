SPECIFICATION Spec
CONSTANTS
    n1 = n1
    n2 = n2
    h1 = h1
    h2 = h2
    r1 = r1
    r2 = r2
    None = None
    NoRange = NoRange
    BytesInGigabyte = 4
    DefaultVolumeSizeGB = 2
    MaxInt64 = 31
    Nodes <- MCNodes
    AttachSlots <- TwoSlots
    ResizeSlots <- OneResizer
    InitSize = 1
    AskedRange <- FiveBytes
    Retries = 2
    Overlap = TRUE
    OmitNode = FALSE
    LateRequests = FALSE
    MaxFaults = 1
PROPERTY DetachHitsItsNode
CHECK_DEADLOCK FALSE

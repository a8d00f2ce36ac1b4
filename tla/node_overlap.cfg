SPECIFICATION FairSpec
CONSTANTS
    n1 = n1
    n2 = n2
    h1 = h1
    h2 = h2
    None = None
    Nodes <- OneNode
    Slots <- TwoSlots
    NodeOf <- OnOneNode
    Sizes <- OneSize
    Overlap = TRUE
    ToolsFail = TRUE
    BlkidUnsure = TRUE
    MaxFaults = 2
INVARIANT ServesOnlyConfigured
PROPERTIES
    StopLetsCallsFinish
    UnpublishLeavesNothing
    SignalStops
    ReleaseServed

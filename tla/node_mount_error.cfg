SPECIFICATION Spec
CONSTANTS
    n1 = n1
    n2 = n2
    h1 = h1
    h2 = h2
    None = None
    Nodes <- OneNode
    Slots <- OneSlot
    NodeOf <- OnOneNode
    Sizes <- OneSize
    Overlap = FALSE
    ToolsFail = TRUE
    BlkidUnsure = FALSE
    MaxFaults = 1
INVARIANT PodOnVolume

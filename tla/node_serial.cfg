SPECIFICATION FairSpec
CONSTANTS
    n1 = n1
    n2 = n2
    h1 = h1
    h2 = h2
    None = None
    Nodes <- TwoNodes
    Slots <- TwoSlots
    NodeOf <- OnePerNode
    Sizes <- TwoSizes
    Overlap = FALSE
    ToolsFail = FALSE
    BlkidUnsure = FALSE
    MaxFaults = 1
INVARIANTS
    TypeOK
    PodOnVolume
    DetachedIsUnmounted
    CapacityIsUsable
    NothingLeftBehind
PROPERTIES
    DataKept
    PodStarts
    PodSeesWholeVolume

SPECIFICATION Spec
CONSTANTS
    NULL = NULL
    NONE = NONE
    p1 = p1
    p2 = p2
    p3 = p3
    p4 = p4
    Page <- MCPage
    PMM_CMD_TRACK_MAX = 2
    ALLOC_CAP = 2
    ALIGN_N = 1
    UNIQUE_N = 2
    BATCH_N = 3
    Counts <- MCCounts
    Byte <- MCByte
    ALIGN = 2
    Ptr <- MCPtr
    MAX_SLOTS = 2
    SMALL = 2
    Mixed <- MCMixed
    Odd <- MCOdd
    FRAG_N = 3
    Increasing <- MCIncreasing
    BIG = 6
    Sizes <- MCSizes
    Addr <- MCAddr
    PAGE_SIZE = 2
    Tag = {"test", "overlap", "a", "b", "batch", "kernel"}
    Capacity = 4
    TestArea <- MCTestArea
    OverlapArea <- MCOverlapArea
    AreaA <- MCAreaA
    AreaB <- MCAreaB
    Batch <- MCBatch
    Nowhere = 17
    KernelAreas <- MCKernelAreas
SYMMETRY PageSymmetry
INVARIANTS PagesAccountedFor PiecesAccountedFor RegistryRestored VerdictsJustified

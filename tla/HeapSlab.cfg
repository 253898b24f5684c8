\* Three pages, one of them mapped at boot.
SPECIFICATION Spec
CONSTANTS
    START = 32
    KHEAP_END = 128
    INITIAL = 32
    VMM_PAGE_SIZE = 32
    SLAB_HDR_SIZE = 8
    cache_sizes <- MCSizes
    BITMAP_BITS = 3
    ALIGN = 4
    W = 160
    Request <- MCRequest
    Stray <- MCStray
    NULL = NULL
INVARIANT BookkeepingAgrees
PROPERTIES ImplementsByteAllocator RefusesOnlyWhenFull

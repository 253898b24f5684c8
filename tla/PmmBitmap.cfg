\* Every boot situation, then any sequence of calls.
SPECIFICATION Spec
CONSTANTS
    PAGE_SIZE = 4
    BITS = 2
    LOW = 8
    LIMIT = 80
    U64_MAX = 255
    MIN_PAGES = 3
    MAX_REGIONS = 2
    BootInfos <- MCBoots
INVARIANTS CountersExact PagesAccountedFor ReservedNeverHandedOut BitmapsInSafePlaces
PROPERTIES ImplementsPageAllocator

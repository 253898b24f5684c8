\* Every boot situation, then any sequence of calls.
SPECIFICATION Spec
CONSTANTS
    MAX_ORDER = 3
    PAGE_SIZE = 4
    INFO_SIZE = 1
    LOW = 8
    LIMIT = 72
    MIN_REGION = 4
    MIN_MANAGED = 3
    BootInfos <- MCBoots
INVARIANTS BlocksAndHeldPartition BookkeepingAgrees FullyCoalesced ReservedNeverManaged
PROPERTIES ImplementsPageAllocator

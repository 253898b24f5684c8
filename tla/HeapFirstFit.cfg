\* Heap, list and statistics, for requests that do not wrap when rounded.
SPECIFICATION Spec
CONSTANTS
    START = 64
    SIZE = 128
    W = 256
    Request <- MCRequest
    Stray <- MCStray
    NULL = NULL
INVARIANTS Tiling Coalesced StatsAddUp
PROPERTIES ImplementsByteAllocator FirstFit

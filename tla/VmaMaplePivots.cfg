\* The array of pivots as the code declares it, one shorter than the slots.
CONSTANTS
    PAGES = 5
    LIMIT = 17
    PAGE_SIZE = 2
    Tag <- Tags
    MAPLE_NODE_SLOTS = 3
    MAPLE_MAX_PIVOTS = 2
    MAPLE_MAX_NODES = 7
    MAPLE_MAX_VMAS = 5
    AreaArgs <- MCAreas
    AddrArgs <- MCAddrs
SPECIFICATION Spec
PROPERTIES ImplementsVmaSet
CHECK_DEADLOCK FALSE

\* Three entries a node: five leaves, three levels, all seven nodes in use.
CONSTANTS
    PAGES = 7
    LIMIT = 17
    PAGE_SIZE = 2
    Tag <- Tags
    MAPLE_NODE_SLOTS = 3
    MAPLE_MAX_PIVOTS = 3
    MAPLE_MAX_NODES = 7
    MAPLE_MAX_VMAS = 6
    AreaArgs <- ReachingAreas
    AddrArgs <- MCAddrs
SPECIFICATION Spec
INVARIANTS BPlusTree

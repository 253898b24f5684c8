\* Ten nodes, the fewest with which delete_fixup climbs two levels.
CONSTANTS
    LIMIT = 12
    PAGE_SIZE = 1
    RB_MAX_NODES = 10
    Few = 5
    Tag <- Tags
    AreaArgs <- MCAreas
    AddrArgs <- MCAddrs
    NIL = NIL
SPECIFICATION Spec
ACTION_CONSTRAINT Bound
INVARIANTS RedBlackTree NodesAccountedFor
PROPERTIES ImplementsVmaSet FixupsClimb

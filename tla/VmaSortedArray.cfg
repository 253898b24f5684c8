CONSTANTS
    LIMIT = 9
    PAGE_SIZE = 2
    VMA_MAX_AREAS = 3
    Tag <- Tags
SPECIFICATION SaSpec
INVARIANT SortedAndDisjoint
PROPERTY ArrayImplementsVmaSet

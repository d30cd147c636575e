\* One hart, a cache of three pages: allocations and frees in any order.
CONSTANTS
    NCPU = 1
    CACHE_SIZE = 3
    BATCH = 2
    Page = {p1, p2, p3, p4, p5}
    NoPage = NoPage
SPECIFICATION Spec
INVARIANT AllocReturnsFreePage
CHECK_DEADLOCK FALSE

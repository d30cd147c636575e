\* One hart empties its cache of three pages.
CONSTANTS
    NCPU = 1
    CACHE_SIZE = 3
    BATCH = 2
    Page = {p1, p2, p3, p4, p5}
    NoPage = NoPage
SPECIFICATION BootSpec
PROPERTY RefillReturns
CHECK_DEADLOCK FALSE

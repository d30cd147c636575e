\* Nine managed frames behind a five-frame kernel, orders 0 to 2: the range
\* starts and ends in the middle of a largest block.
CONSTANTS
    MAX_ORDER = 3
    NR_PAGES = 14
    BUDDY_START = 5
    Pow2 <- MCPow2
SPECIFICATION Spec
INVARIANTS
    NoOverlap
    NoLeak
    MarksTruthful
    Aligned
    Coalesced
    Restored
    BeyondOnlyInLastBlock
PROPERTIES
    CallsReturn
    ImplementsPool
CHECK_DEADLOCK FALSE

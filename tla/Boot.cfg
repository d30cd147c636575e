\* Trees of up to two entries, files of up to two program headers; the third
\* user page is the stack.  The machine has no memory behind the kernel, or
\* sixteen frames; the cache of fifteen pages suffices for most programs, and
\* for two segments that need tables it does not.
CONSTANTS
    Trees <- MCTrees
    Cell = 4
    self = 5
    MAX_FILES = 4
    Headers <- MCHeaders
    PhBound = 2
    MAX_REGIONS = 6
    LastPage = 3
    StackPage = 3
    PKE_MAX_ALLOWABLE_RAM = 4
    KernelSize = 3
    UNIT = 16
    PCPU_CACHE_SIZE = 15
    KernPages = 4
    Fan = 2
    TIMER_INTERVAL = 3
SPECIFICATION Spec
INVARIANTS
    EntersSupervisor
    BootPagesInOnePlace
    HtifFound
    MemSizeRight
    TableMatchesRegions
    EverySegmentLoaded
    StdFilesKept
PROPERTIES
    BootEnds
CHECK_DEADLOCK FALSE

\* Three processes, heaps of two pages, five frames; contents do not matter.
CONSTANTS
    NPROC = 3
    Frame = {f1, f2, f3, f4, f5}
    CodeFrame = CodeFrame
    DataFrame = DataFrame
    NoFrame = NoFrame
    Value = {x}
    HeapBound = 2
    MAX_HEAP_PAGES = 2
SYMMETRY FrameSymmetry
SPECIFICATION Spec
INVARIANTS
    
    NoStuckPage
    RefCoversSharers
    HeapsComplete
CHECK_DEADLOCK FALSE

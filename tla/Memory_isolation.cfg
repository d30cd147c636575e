\* Parent and child, two different contents.
CONSTANTS
    NPROC = 2
    Frame = {f1, f2, f3}
    CodeFrame = CodeFrame
    DataFrame = DataFrame
    NoFrame = NoFrame
    Value = {x, y}
    HeapBound = 2
    MAX_HEAP_PAGES = 2
SYMMETRY FrameSymmetry
SPECIFICATION Spec
INVARIANT
    Isolated
CHECK_DEADLOCK FALSE

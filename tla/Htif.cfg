\* Two harts; the lock word is as small as two harts allow.
CONSTANTS
    CPU    = {h1, h2}
    NoCPU  = NoCPU
    Impl   = "atomic"
    Word   = 3
    Char   = {0, 1}
    Input  <- TypedInput
    MaxPut = 1
SPECIFICATION HtifSpec
INVARIANTS
    MutualExclusion
    AnswerIsMine
    AssertsHold
    ConsoleKept
PROPERTIES
    ImplementsMutex
    SomeCallReturns
CHECK_DEADLOCK FALSE

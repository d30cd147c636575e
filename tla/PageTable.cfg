\* One hart; six frames: enough for four tables and two pages, or for two
\* tables and three pages.
CONSTANTS
    CPU = {h1}
    Frame = {f1, f2, f3, f4, f5, f6}
    Root = Root
    Invalid = Invalid
    Index <- MCIndex
    VA <- MCVA
SYMMETRY FrameSymmetry
SPECIFICATION SpecAlone
INVARIANTS
    TranslationExact
    OneUse
    PanicOnlyOnRemap
CHECK_DEADLOCK FALSE

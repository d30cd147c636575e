\* Two harts map two neighbouring pages of one address space.
CONSTANTS
    CPU = {h1, h2}
    Frame = {f1, f2, f3, f4, f5, f6}
    Root = Root
    Invalid = Invalid
    Index <- MCIndex
    VA <- MCVAPair
SYMMETRY FrameSymmetry
SPECIFICATION Spec
INVARIANT MappingsKept
CHECK_DEADLOCK FALSE

\* Two processes: the first and its child.
CONSTANT NPROC = 2
SPECIFICATION TrapSpec
INVARIANT TpHoldsHartid
CHECK_DEADLOCK FALSE

\* Two processes: a fork makes pages copy-on-write.
CONSTANT NPROC = 2
SPECIFICATION TrapSpec
INVARIANT T6Kept
CHECK_DEADLOCK FALSE

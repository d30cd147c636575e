\* Four processes: a queue to walk along, and a fork that finds no structure.
CONSTANT NPROC = 4
SPECIFICATION TrapSpec
INVARIANTS
    SchedulerConsistent
    ScheduleChecksHold
    RunsInForkOrder
    ParentEndedFirst
    ContextKept
    HandlerIsCurrents
    ListIsQueue
PROPERTIES
    ImplementsProcess
    EveryReadyRuns
    LoadFaultEnds
CHECK_DEADLOCK FALSE

SPECIFICATION Spec
CONSTANTS
    BlockCount = 2
    HasFragment = FALSE
    Workers = 1
CHECK_DEADLOCK FALSE
INVARIANTS SchedulerUsesLiveMt

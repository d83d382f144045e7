SPECIFICATION Spec
CONSTANTS
    Softirqs <- MCSoftirqs
    HRTIMER = 8
    TIMER = 1
    TASKLET = 6
    MaxRestart = 3
    MaxNest = 2
    Blocking = {"nsleep", "blk"}
INVARIANTS TypeOK SoftirqExclusive ChainComplete SleeperHasTimer
CHECK_DEADLOCK FALSE

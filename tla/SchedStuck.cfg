SPECIFICATION FairSpec
CONSTANTS
    Softirqs <- MCSoftirqs
    HRTIMER = 8
    TIMER = 1
    TASKLET = 6
    MaxRestart = 2
    MaxNest = 2
    Blocking = {}
PROPERTY SoftirqServed
CHECK_DEADLOCK FALSE

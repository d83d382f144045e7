SPECIFICATION CpuSpec
CONSTANTS
    Softirqs <- MCSoftirqs
    HRTIMER = 8
    TIMER = 1
    TASKLET = 6
    MaxRestart = 3
    MaxNest = 2
    Blocking = {}
PROPERTIES BackToMain SoftirqEnds

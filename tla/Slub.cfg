SPECIFICATION Spec
CONSTANTS
    Cpus = {c1, c2}
    SoftirqCpus = {c1}
    Pages = {2, 3, 4}
    MaxPage = 5
    Sizes = {2048, 8000}
    MaxBlocks = 2
INVARIANTS Exclusive NothingLeaks IndexRight
PROPERTY ListsArePerCpu
CHECK_DEADLOCK FALSE

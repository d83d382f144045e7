SPECIFICATION Spec
CONSTANTS
    N = 2
    Modules = {m1, m2}
    Answers = {"OK", "NEXTLOOP", "ERR"}
    MaxTimes = 3
INVARIANTS OwnStack InitMemoryKept LoadedInOrder
PROPERTY BootEnds
CHECK_DEADLOCK FALSE

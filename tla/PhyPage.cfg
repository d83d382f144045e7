CONSTANTS
    Cpus = {c1, c2}
    Nodes <- MCNodes
    Large = 2
    MemoryMaps <- MCMaps
    MaxAddr = 8
    Sizes <- MCSizes
    Word = 64
SYMMETRY Symmetry
SPECIFICATION Spec
CHECK_DEADLOCK FALSE
INVARIANTS
    TypeOK
    NodesConserved
    Sorted
PROPERTY Implements

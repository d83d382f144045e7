CONSTANTS
    Num = 4
    Word = 8
    Sizes = {1, 2}
    b1 = b1
    b2 = b2
    b3 = b3
    b4 = b4
    Bufs = {b1, b2, b3, b4}
    NULL = NULL
    Slack = 1
    Start = 4
    MaxRequests = 7
SPECIFICATION Spec
SYMMETRY Symmetry
INVARIANTS
    TypeOK
    RequestsConserved
    NoAlias
    FreeListExact

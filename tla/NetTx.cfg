CONSTANTS
    Pbufs = {p1}
    Lengths = {2}
    Num = 5
    Slack = 2
    Word = 10
    LoopMax = 3
    MaxRef = 3
SPECIFICATION FairSpec
INVARIANT
    RefsExact
PROPERTIES
    Implements
    Reclaimed

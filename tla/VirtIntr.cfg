CONSTANTS
    Num = 4
    Word = 8
SPECIFICATION FairSpec
INVARIANT
    NothingForgotten
PROPERTY
    UsedIsRead

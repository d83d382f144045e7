CONSTANTS
    Buf = 8
    Slack = 1
SPECIFICATION FairSpec
INVARIANTS
    TypeOK
    BuffersConserved
PROPERTIES
    Delivered
    Refilled

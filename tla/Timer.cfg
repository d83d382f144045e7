SPECIFICATION FairSpec
CONSTANTS
    Buf <- MCBuf
    Heap <- MCHeap
    Delays <- MCDelays
    Period = 2
    CallNr = 2
    Word = 64
    MaxTime = 6
    SetBy = 3
INVARIANTS TypeOK OneOwner NeverEarly ArmedForFirst
PROPERTY TimerFires
CHECK_DEADLOCK FALSE

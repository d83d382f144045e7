SPECIFICATION Spec
CONSTANTS
    NP = 4
    MaxRoots = 2
    Handlers <- MCHandlers
    MaxLost = 1
    MaxStack = 9
INVARIANTS NobodyForgotten CalledOnce
PROPERTIES SettledStays ChainsSettle
CHECK_DEADLOCK FALSE

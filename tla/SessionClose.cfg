CONSTANTS
    u1 = u1
    u2 = u2
    u3 = u3
    R = R
    Callers <- MCCallers
    ClosingThreads <- MCClosers
    NestedClose = "first"
    MayFail = TRUE
SPECIFICATION SessionFairSpec
INVARIANTS
    NoUseOfDeadCore
    PromisesKept
PROPERTIES
    TeardownOnOwnThread
    EveryoneReturns
CHECK_DEADLOCK FALSE

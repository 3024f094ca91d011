CONSTANTS
    Routes <- MCRoutes
    LaxRoutes <- MCLax
    Barriers <- MCBarriers
    Budget = 1
    MaxTime = 2
    MaxChanges = 2
SPECIFICATION FairSpec
INVARIANTS
    NeverActsTwice
    ReceiptIsTrue
    ActsOnWhatItSaw
    NothingLeftHeld
PROPERTIES
    PerformReturns
CHECK_DEADLOCK FALSE

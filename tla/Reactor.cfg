CONSTANTS
    c1 = c1
    c2 = c2
    Callers <- MCCallers
    FdNumbers <- MCFds
    Delays <- MCDelays
    Milli = 2
    MaxTime = 2
    MaxTasks = 1
    MaxTimers = 1
    MaxFds = 2
SPECIFICATION FairSpec
INVARIANTS
    RequestsAnnounced
    DeadlineWatched
    RegistrationsExact
PROPERTIES
    Progress
CHECK_DEADLOCK FALSE

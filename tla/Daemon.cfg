CONSTANTS
    Days <- MCDays
    DateOf <- MCDateOf
    Kinds <- MCKinds
    KindOf <- MCKindOf
    MotionKind = "motion"
    NeverDropKinds = {"key"}
    MaxEvents = 4
    QueueDepth = 2
    BufferLimit = 2
    MaxFiles = 1
    DiskBudget = 2
    MaxFaults = 1
    MaxCrashes = 1
SPECIFICATION Spec
INVARIANT BusOutlivesUsers
INVARIANT StorageTruthful
PROPERTY DaemonServes
CHECK_DEADLOCK FALSE

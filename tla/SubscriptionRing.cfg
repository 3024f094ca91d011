CONSTANTS
    Kinds <- MCKinds
    MotionKind = "move"
    NeverDropKinds <- MCNeverDrop
    QueueCapacity = 3
    QueuePolicy = "coalesce"
    LastStamp = 8
SPECIFICATION RingSpec
INVARIANTS
    LossAccounted
PROPERTIES
    RingIsQueue
CHECK_DEADLOCK FALSE

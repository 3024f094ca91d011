CONSTANTS
    s1 = s1
    s2 = s2
    Subscribers <- MCSubscribers2
    Kinds <- BusKinds
    MotionKind = "move"
    NeverDropKinds <- BusNeverDrop
    Scope <- BusScope
    Capacity <- BusCapacity
    Policy <- BusPolicy
    ReplayKinds <- BusReplay
    DemandKinds <- BusDemand
    MaskBit <- BusBits
    MaxSequence = 3
SPECIFICATION Spec
INVARIANTS
    QueuesKeepPromises
    DemandFollows
CHECK_DEADLOCK FALSE

CONSTANTS
    o1 = o1
    o2 = o2
    c1 = c1
    c2 = c2
    Observers <- MCObservers
    Busy <- MCBusy
    Closers <- MCClosers
    MaxEvents = 1
SYMMETRY Symmetry
SPECIFICATION Spec
INVARIANTS
    NoEventStranded
    NothingShownAfterStop
    ObservedIffWanted
CHECK_DEADLOCK FALSE

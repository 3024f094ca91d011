SPECIFICATION Spec
CONSTANTS
    Pump = pump
    Starter = starter
    Resyncers = {resyncer}
    Catalogue <- TreesAndCycle
    None = None
    MaxNode = 3
    MaxVersions = 3
    MaxQueue = 1
    MaxResyncs = 1
CHECK_DEADLOCK FALSE
INVARIANT StoreSound
INVARIANT OnePublisher
PROPERTY EventsTellTree
PROPERTY Published

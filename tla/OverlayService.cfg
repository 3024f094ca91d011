SPECIFICATION Spec
CONSTANTS
    None = None
    Ttl = 1
    Batches <- MCBatches
    Redrawn <- MCRedrawn
    MaxMoves = 5
    MaxTime = 1
CHECK_DEADLOCK FALSE
INVARIANT DelegateIsReplica
 
INVARIANT EditReleased

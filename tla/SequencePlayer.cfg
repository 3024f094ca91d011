CONSTANTS
    Documents <- MCDocuments
    Pointer = "G"
    MaxWaypoints = 2
    MaxCalls = 2
SPECIFICATION Spec
INVARIANT LoadVerdict
INVARIANT StepsInOrder
INVARIANT HoldsReleased
 

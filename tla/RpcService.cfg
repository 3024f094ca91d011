CONSTANTS
    c1 = c1
    c2 = c2
    c3 = c3
    c4 = c4
    Calls <- MCCalls
    Requests <- MCRequests
    Cap = 2
    QueueCapacity = 2
    MaxTickets = 2
    MaxPushed = 1
SPECIFICATION ServiceSpec
INVARIANT SlotsExact
PROPERTY QueueFair
PROPERTY CallsServed
CHECK_DEADLOCK FALSE

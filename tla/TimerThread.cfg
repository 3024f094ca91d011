CONSTANTS
    c1 = c1
    c2 = c2
    Clients <- MCClients
    MaxClock = 2
    MaxTokens = 2
SPECIFICATION TimerFairSpec
INVARIANTS
    TokensSafe
    NoUnwatchedDeadline
PROPERTIES
    ThreadServes

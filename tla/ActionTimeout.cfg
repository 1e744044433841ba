SPECIFICATION FairSpec
CONSTANTS
    Engines = {e1}
    Workers = {w1, w2}
    MaxAttempts = 2
    NodeTimeout = TRUE
    MaxFaults = 0
INVARIANT AttemptsBounded
 

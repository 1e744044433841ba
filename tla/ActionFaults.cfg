SPECIFICATION Spec
CONSTANTS
    Engines = {e1}
    Workers = {w1, w2}
    MaxAttempts = 2
    NodeTimeout = FALSE
    MaxFaults = 1
SYMMETRY WorkerSymmetry
INVARIANTS ExclusiveExecution FailureIsEarned
 

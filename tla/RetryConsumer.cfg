SPECIFICATION ConsumerFairSpec
CONSTANTS
    Keys = {good, poison}
    Poison = {poison}
    Consumers = {c1, c2}
    Ids = {d1, d2, d3, d4}
    Eligible <- Untargeted
    Capacity = 1
    MaxAttempts = 3
    Republish = {good}
    MaxFaults = 2
INVARIANTS
    AckedAfterOutcome
    GiveUpIsEarned
PROPERTY
    EventuallySettled

SPECIFICATION FairSpec
CONSTANTS
    Triggers = {1, 2}
    Kind <- MCKind
    Every <- MCEvery
    Blackout <- MCBlackout
    Replicas = {p1, p2}
    Limit = 1
    MaxTime = 3
    MaxTrouble = 1
INVARIANTS OncePerSlot CatchUpOnce OrphansAreEarned
PROPERTY Advances

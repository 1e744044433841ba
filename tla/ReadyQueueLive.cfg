SPECIFICATION FairSpec
CONSTANTS
    r1 = r1
    r2 = r2
    e1 = e1
    e2 = e2
    Rows = {r1}
    Engines = {e1, e2}
    NodeOf <- SameNode
    RunOf <- OneRun
    MySql = TRUE
    WakerSlots = 1
    MaxFaults = 1
INVARIANTS
    TypeOK
    NoEarlyDrive
    ExclusiveDrive
PROPERTY
    DoneIsFinal
    EventuallyDriven

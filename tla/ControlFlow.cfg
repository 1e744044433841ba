SPECIFICATION FairSpec
CONSTANTS
    Source <- Programs
    Engines = {e1}
    MaxCrashes = 1
INVARIANTS RunsAsWritten 
 
CHECK_DEADLOCK FALSE

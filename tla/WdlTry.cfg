SPECIFICATION FairSpec
CONSTANTS
    Source <- WdlTry
    Engines = {e1}
    MaxCrashes = 0
INVARIANT RunsAsWritten
CHECK_DEADLOCK FALSE

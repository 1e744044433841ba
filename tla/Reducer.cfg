SPECIFICATION FairSpec
CONSTANTS
    Runs = {0, 1, 2}
    Engines = {e1}
    Scenarios <- All
    Timeout = 2
    Poll = 1
    MaxPerWindow = 1
    MaxAnswers = 1
INVARIANTS    FailFast
CHECK_DEADLOCK FALSE
PROPERTIES Leaves

SPECIFICATION FairSpec
CONSTANTS
    Configured = {svc}
    Autostart = {svc}
    Nodes = {n1, n2}
    Oneshot = {svc}
    Limit = 1
    Window = 2
    Delay = 1
    MaxEvents = 3
INVARIANTS  RestartBudget
PROPERTIES StopHolds ScaleReached

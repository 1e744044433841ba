SPECIFICATION FairSpec
CONSTANTS
    a = a  b = b  c = c
    Members <- MCMembers
    Links <- MCLinks
    Downstream <- MCDownstream
    Engines = {e1, e2}
    MaxFaults = 1
    MaxControls = 1
INVARIANT StartedOnce
PROPERTIES ChainFires Settles

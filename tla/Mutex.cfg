SPECIFICATION FairSpec
CONSTANTS
    Runs = {r1, r2}
    Engines = {e1}
    Hold = {r1}
    Impatient = {r2}
    MaxVisits = 2
    MaxFaults = 1
INVARIANTS
    HeldByOne
    SectionIsBacked
PROPERTY
    HandedOn

SPECIFICATION Spec
CONSTANTS
    k1 = k1
    k2 = k2
    k3 = k3
    c1 = c1
    c2 = c2
    Keys = {k1, k2, k3}
    Consumers = {c1, c2}
    Ids = {d1, d2, d3, d4, d5, d6, d7}
    Capacity = 2
    Eligible <- MCEligible
SYMMETRY Symmetry
INVARIANTS
    TypeOK
    DedupeExact
    SingleCopy
    HolderIsLessee
PROPERTY
    ImplementsAtLeastOnce

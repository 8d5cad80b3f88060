CONSTANTS
    Depth = 3
    Values = {v1, v2}
    Keys = {0, 1, 2}
    PathOf <- MCPathOf
    DefaultValue = default
    Absent = absent
    MaxFaults = 1
SPECIFICATION Spec
SYMMETRY MCSymmetry
INVARIANTS CallInvariant StoreInvariant
PROPERTY ImplementsMap

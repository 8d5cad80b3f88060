CONSTANTS
    Depth = 3
    Values = {v1, v2}
    Keys = {0, 1, 2}
    PathOf <- MCPathOf
    DefaultValue = default
    Absent = absent
    MaxFaults = 0
    MaxHeld = 4
SPECIFICATION RootSpec
INVARIANT GetReadsSetRoot

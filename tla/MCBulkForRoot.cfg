CONSTANTS
    Depth = 2
    Values = {v1, v2}
    Keys = {0, 1}
    PathOf <- MCPathOf
    DefaultValue = default
    Absent = absent
    MaxFaults = 0
    MaxHeld = 4
    MaxBatch = 1
    MaxRetries = 0
SPECIFICATION BothSpec
PROPERTY BulkEquivalent

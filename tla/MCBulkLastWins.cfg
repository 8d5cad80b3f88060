CONSTANTS
    Depth = 3
    Values = {v1, v2}
    Keys = {0, 1, 2}
    PathOf <- MCPathOf
    DefaultValue = default
    Absent = absent
    MaxFaults = 0
    MaxBatch = 2
    MaxRetries = 0
SPECIFICATION BulkSpec
PROPERTY LastPairWins

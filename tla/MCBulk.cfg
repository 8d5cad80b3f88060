CONSTANTS
    Depth = 2
    Values = {v1, v2}
    Keys = {0, 1, 2}
    PathOf <- MCPathOf
    DefaultValue = default
    Absent = absent
    MaxFaults = 1
    MaxBatch = 2
    MaxRetries = 1
SPECIFICATION BulkSpec
SYMMETRY MCSymmetry
INVARIANTS RootCommits StoreExact
PROPERTIES BulkApplies BulkFailsCleanly

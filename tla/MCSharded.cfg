CONSTANTS
    Depth = 2
    Values = {v1}
    DefaultValue = default
    Absent = absent
    Keys = {0, 2}
    PathOf <- MCPathOf
    ShardBits = 1
    ShardOf <- MCShardOf
    Callers = {c1, c2}
    Scratches = {s1, s2}
    MaxBatch = 2
    MaxCalls = 2
SPECIFICATION Spec
INVARIANTS KeysAtHome CombinedCommits
PROPERTIES BatchApplied BatchFailsByShard CallsReturn
CHECK_DEADLOCK FALSE
